--------------------------- MODULE ActionDispatcher ---------------------------
(***************************************************************************)
(* The scheduled-action dispatcher of the execution worker                 *)
(* (apps/execution-worker/src/engagement/scheduled-action-dispatcher.ts).  *)
(*                                                                         *)
(* A pass is one call of dispatchDueScheduledActions.  The timer fires it  *)
(* every five seconds without waiting for the last one, and every replica  *)
(* of the worker has a timer, so passes overlap: Passes is the set of      *)
(* those that may be under way at once.  A pass fetches a batch of due     *)
(* actions, then claims and processes them one by one; the label pc names  *)
(* the query or call a pass makes next.                                    *)
(***************************************************************************)
EXTENDS EngagementTables, Sequences, FiniteSetsExt

CONSTANTS
  Passes,       \* passes that may be under way at once
  BatchSize,    \* batchSize
  Lease,        \* leaseMs
  BackoffUnit,  \* 10_000 in the failure handler
  BackoffCap,   \* 300_000 in the failure handler
  Provider,     \* EMAIL_PROVIDER: "synthetic" or "resend"
  MaxCrashes    \* bound on the crashes of passes

VARIABLES
  pass,     \* the passes' local variables
  crashes,  \* crashes so far
  overrun   \* history: actions some pass kept beyond the lease it had taken

dispatcherVars == <<pass, crashes, overrun>>

ASSUME DispatcherAssumption ==
  /\ IsFiniteSet(Passes) /\ Passes # {}
  /\ BatchSize \in Nat \ {0} /\ Lease \in Nat \ {0}
  /\ BackoffUnit \in Nat /\ BackoffCap \in Nat
  /\ Provider \in {"synthetic", "resend"}
  /\ MaxCrashes \in Nat

Candidate == [id : ActionIds, attempts : 0..MaxAttempts]

\* The labels at which a pass has claimed the action in its field id.
Working == {"decide", "load", "check", "defer", "reject", "mint", "commit",
            "done", "send", "record", "fail"}

(***************************************************************************)
(* now: the pass's new Date(), used for every comparison and write it      *)
(* makes.  id, attempts: the candidate being processed, as the batch query *)
(* returned it.  reg, sup: the registration status and Lead.suppressedAt   *)
(* read with the enrollment or the message.  m: the message being drafted. *)
(***************************************************************************)
PassState ==
  [pc : Working \cup {"idle", "claim"}, now : Time, todo : Seq(Candidate),
   id : ActionIds \cup {NoKey}, attempts : 0..MaxAttempts,
   reg : RegStatuses, sup : BOOLEAN, m : Msgs \cup {NoKey}]

Batch(now, todo) ==
  [pc |-> IF todo = <<>> THEN "idle" ELSE "claim",
   now |-> IF todo = <<>> THEN 0 ELSE now, todo |-> todo,
   id |-> NoKey, attempts |-> 0, reg |-> "REGISTERED", sup |-> FALSE,
   m |-> NoKey]

Idle == Batch(0, <<>>)

DispatcherTypeOK ==
  /\ pass \in [Passes -> PassState]
  /\ crashes \in 0..MaxCrashes
  /\ overrun \in SUBSET ActionIds

DispatcherInit ==
  /\ pass = [p \in Passes |-> Idle]
  /\ crashes = 0
  /\ overrun = {}

Holds(p, a) == pass[p].pc \in Working /\ pass[p].id = a

LeaseEnd(now) == AtMost(now + Lease)

GoTo(p, label) == pass' = [pass EXCEPT ![p].pc = label]

\* The loop goes on with the next candidate, or the pass ends.
Proceed(p) == pass' = [pass EXCEPT ![p] = Batch(@.now, @.todo)]

-----------------------------------------------------------------------------
(* dispatchDueScheduledActions *)

\* Mutant: a claimed action is never fetched again.
Due_NoReclaim(now) ==
  {a \in ActionIds : act[a].st = "PENDING" /\ act[a].due <= now}

Due(now) ==
  {a \in ActionIds :
     \/ act[a].st = "PENDING" /\ act[a].due <= now
     \/ act[a].st = "DISPATCHING" /\ act[a].lease <= now}

\* orderBy dueAt asc, take batchSize; the order of equal dueAt is free.
Batches(now) ==
  {s \in UNION {[1..n -> Due(now)] : n \in 1..BatchSize} :
     /\ IsInjective(s)
     /\ \A i, j \in DOMAIN s : i < j => act[s[i]].due <= act[s[j]].due
     /\ \A a \in Due(now) \ Range(s) :
          /\ DOMAIN s = 1..BatchSize
          /\ \A i \in DOMAIN s : act[s[i]].due <= act[a].due}

fetchCandidates(p) ==
  /\ pass[p].pc = "idle"
  /\ \E s \in Batches(clock) :
       pass' = [pass EXCEPT ![p] = Batch(clock,
                  [i \in DOMAIN s |->
                     [id |-> s[i], attempts |-> act[s[i]].attempts]])]
  /\ UNCHANGED <<tableVars, crashes, overrun>>

\* Mutant: a claim that takes over a row that is still leased.
Claimable_IgnoringLease(a, now) == act[a].st \in {"PENDING", "DISPATCHING"}

\* Mutant: a claim by id alone, which takes over a cancelled row.
Claimable_ById(a, now) == act[a].st = "DISPATCHING" => act[a].lease <= now

\* The where clause of the claim: it does not look at dueAt again, and it
\* compares the lease with the pass's now, not with the present.
Claimable(a, now) ==
  \/ act[a].st = "PENDING"
  \/ act[a].st = "DISPATCHING" /\ act[a].lease <= now

\* The row after a claim; attempts are counted up to the budget.
Leased(row, now) ==
  [row EXCEPT !.st = "DISPATCHING", !.lease = LeaseEnd(now),
              !.attempts = IF @ < MaxAttempts THEN @ + 1 ELSE @]

\* The pass after it has claimed the first candidate of its batch.
Taken(s) ==
  [s EXCEPT !.pc = IF Head(s.todo).id \in Msgs THEN "load" ELSE "decide",
            !.todo = Tail(s.todo), !.id = Head(s.todo).id,
            !.attempts = Head(s.todo).attempts]

claim(p) ==
  LET a == Head(pass[p].todo).id
  IN /\ pass[p].pc = "claim"
     /\ Claimable(a, pass[p].now)
     /\ act' = [act EXCEPT ![a] = Leased(@, pass[p].now)]
     /\ pass' = [pass EXCEPT ![p] = Taken(@)]
     /\ overrun' = IF LeaseEnd(pass[p].now) <= clock
                   THEN overrun \cup {a} ELSE overrun
     /\ UNCHANGED <<leadVars, enrollment, mailVars, mailed, clock, crashes>>

\* claim.count = 0: somebody else has the action, or has settled it.
claimLost(p) ==
  /\ pass[p].pc = "claim"
  /\ ~ Claimable(Head(pass[p].todo).id, pass[p].now)
  /\ pass' = [pass EXCEPT ![p] = Batch(@.now, Tail(@.todo))]
  /\ UNCHANGED <<tableVars, crashes, overrun>>

\* Every write that settles an action names it by id alone: it does not ask
\* whether the row is still DISPATCHING or the lease still the pass's own.
Settle(p, status) ==
  [act EXCEPT ![pass[p].id] = [@ EXCEPT !.st = status, !.due = 0, !.lease = 0]]

Reschedule(p, due) ==
  [act EXCEPT ![pass[p].id] =
     [@ EXCEPT !.st = "PENDING", !.due = AtMost(due), !.lease = 0]]

Backoff(attempts) == Min({BackoffCap, BackoffUnit * 2^(attempts - 1)})

\* A query inside the try block fails, or draftMessage throws (the AI
\* orchestrator fails or times out): the catch block runs next.  A failing
\* call of the mail provider is sendFails.
attemptFails(p) ==
  /\ pass[p].pc \in Working \ {"send", "fail"}
  /\ pass' = [pass EXCEPT ![p] = [@ EXCEPT !.pc = "fail", !.m = NoKey]]
  /\ UNCHANGED <<tableVars, crashes, overrun>>

\* The catch block.  The budget is counted on the attempts the batch query
\* returned, which may be stale by now.
fail(p) ==
  LET attempts == pass[p].attempts + 1
  IN /\ pass[p].pc = "fail"
     /\ act' = IF attempts >= MaxAttempts
               THEN Settle(p, "FAILED")
               ELSE Reschedule(p, pass[p].now + Backoff(attempts))
     /\ Proceed(p)
     /\ UNCHANGED <<leadVars, enrollment, mailVars, mailed, clock, crashes,
                    overrun>>

-----------------------------------------------------------------------------
(* processAgentDecision and processMessageSend *)

\* The enrollment with its registration and lead.  An action references
\* its enrollment, which is never deleted, so the query finds it.
readEnrollment(p) ==
  /\ pass[p].pc = "decide"
  /\ pass' = [pass EXCEPT ![p] =
                [@ EXCEPT !.pc = "check", !.reg = reg, !.sup = anonymized]]
  /\ UNCHANGED <<tableVars, crashes, overrun>>

\* The message with its registration and lead.
readMessage(p) ==
  LET m == pass[p].id
  IN /\ pass[p].pc = "load"
     /\ \/ msg[m].st = "none" /\ GoTo(p, "fail")
        \/ msg[m].st \in {"SENT", "DELIVERED"} /\ GoTo(p, "done")
        \/ /\ msg[m].st \notin {"none", "SENT", "DELIVERED"}
           /\ pass' = [pass EXCEPT ![p] =
                [@ EXCEPT !.pc = "check", !.reg = reg, !.sup = anonymized]]
     /\ UNCHANGED <<tableVars, crashes, overrun>>

DeliveredCount(purpose) ==
  Cardinality({m \in Msgs : /\ msg[m].st \in {"SENT", "DELIVERED"}
                            /\ PurposeOf(m) = purpose})

\* Mutant: the send step trusts the decision and looks at suppression only.
PolicyInput_NoConsentAtSend(p) ==
  LET purpose == PurposeOf(pass[p].id)
  IN [now                |-> pass[p].now,
      purpose            |-> purpose,
      deliveredCount     |-> DeliveredCount(purpose),
      registrationStatus |-> pass[p].reg,
      hasConsent         |-> pass[p].id \in Msgs \/ consent[purpose],
      isSuppressed       |-> purpose \in suppressed \/ pass[p].sup,
      hasMeeting         |-> meeting]

\* The input of the policy: four queries made together, the pass's now, and
\* what was read with the enrollment or the message.
PolicyInput(p) ==
  LET purpose == PurposeOf(pass[p].id)
  IN [now                |-> pass[p].now,
      purpose            |-> purpose,
      deliveredCount     |-> DeliveredCount(purpose),
      registrationStatus |-> pass[p].reg,
      hasConsent         |-> consent[purpose],
      isSuppressed       |-> purpose \in suppressed \/ pass[p].sup,
      hasMeeting         |-> meeting]

checkPolicy(p) ==
  LET verdict == evaluateCommunicationPolicy(PolicyInput(p))
  IN /\ pass[p].pc = "check"
     /\ GoTo(p, IF verdict = "retry"         THEN "defer"
                ELSE IF verdict = "rejected" THEN "reject"
                ELSE IF pass[p].id \in Msgs  THEN "send"
                ELSE                              "mint")
     /\ UNCHANGED <<tableVars, crashes, overrun>>

\* Quiet hours: the action waits for the next window and keeps its attempts.
defer(p) ==
  /\ pass[p].pc = "defer"
  /\ act' = Reschedule(p, nextLocalWindow(pass[p].now, localHour(pass[p].now)))
  /\ Proceed(p)
  /\ UNCHANGED <<leadVars, enrollment, mailVars, mailed, clock, crashes,
                 overrun>>

rejectDecision(p) ==
  /\ pass[p].pc = "reject" /\ pass[p].id \in Keys
  /\ act' = Settle(p, "CANCELLED")
  /\ Proceed(p)
  /\ UNCHANGED <<leadVars, enrollment, mailVars, mailed, clock, crashes,
                 overrun>>

\* An update of a message row that is gone throws and rolls back.
rejectSend(p) ==
  LET m == pass[p].id
  IN /\ pass[p].pc = "reject" /\ m \in Msgs
     /\ \/ /\ msg[m].st # "none"
           /\ msg' = [msg EXCEPT ![m].st = "SUPPRESSED"]
           /\ act' = Settle(p, "CANCELLED")
           /\ Proceed(p)
        \/ /\ msg[m].st = "none"
           /\ GoTo(p, "fail")
           /\ UNCHANGED <<msg, act>>
     /\ UNCHANGED <<leadVars, enrollment, conv, tokens, origin, mailed, clock,
                    crashes, overrun>>

\* The rows are named after the message whose text will carry the links; a
\* message id is free while no message and no other pass uses it.
createPublicActionTokens(p) ==
  /\ pass[p].pc = "mint"
  /\ \E m \in Msgs :
       /\ origin[m] = NoKey
       /\ \A q \in Passes : pass[q].m # m
       /\ tokens' = [t \in DOMAIN tokens |->
                       IF t[1] = m THEN "unused" ELSE tokens[t]]
       /\ pass' = [pass EXCEPT ![p] = [@ EXCEPT !.pc = "commit", !.m = m]]
  /\ UNCHANGED <<leadVars, cadenceVars, conv, msg, origin, mailed, clock,
                 crashes, overrun>>

\* Mutant: the decision is settled in a later step than its message is
\* written, which a crash of the worker may prevent.
commitDecision_NotSettled(p) ==
  LET m == pass[p].m
  IN /\ pass[p].pc = "commit"
     /\ conv' = IF conv = "none" THEN "OPEN" ELSE conv
     /\ msg' = [msg EXCEPT ![m] = [st |-> "SCHEDULED", pid |-> FALSE]]
     /\ act' = [act EXCEPT ![m] = NewAction(pass[p].now)]
     /\ origin' = [origin EXCEPT ![m] = pass[p].id]
     /\ pass' = [pass EXCEPT ![p] = [@ EXCEPT !.pc = "done", !.m = NoKey]]
     /\ UNCHANGED <<leadVars, enrollment, tokens, mailed, clock, crashes,
                    overrun>>

\* draftMessage returns and the transaction commits.
commitDecision(p) ==
  LET m == pass[p].m
  IN /\ pass[p].pc = "commit"
     /\ conv' = IF conv = "none" THEN "OPEN" ELSE conv
     /\ msg' = [msg EXCEPT ![m] = [st |-> "SCHEDULED", pid |-> FALSE]]
     /\ act' = [Settle(p, "COMPLETED") EXCEPT ![m] = NewAction(pass[p].now)]
     /\ origin' = [origin EXCEPT ![m] = pass[p].id]
     /\ Proceed(p)
     /\ UNCHANGED <<leadVars, enrollment, tokens, mailed, clock, crashes,
                    overrun>>

\* The message has already gone out: only its action is completed.
completeSent(p) ==
  /\ pass[p].pc = "done"
  /\ act' = Settle(p, "COMPLETED")
  /\ Proceed(p)
  /\ UNCHANGED <<leadVars, enrollment, mailVars, mailed, clock, crashes,
                 overrun>>

\* emailProvider.send.  The idempotency key is the message id, so a second
\* acceptance of the same message is no second mail.
send(p) ==
  /\ pass[p].pc = "send"
  /\ mailed' = mailed \cup {pass[p].id}
  /\ GoTo(p, "record")
  /\ UNCHANGED <<leadVars, cadenceVars, mailVars, clock, crashes, overrun>>

\* The call throws: refused by the provider, or accepted and the answer lost.
sendFails(p) ==
  /\ pass[p].pc = "send"
  /\ mailed' \in {mailed, mailed \cup {pass[p].id}}
  /\ GoTo(p, "fail")
  /\ UNCHANGED <<leadVars, cadenceVars, mailVars, clock, crashes, overrun>>

\* Mutant: the provider's own word for the state of the mail is stored.
AcceptedStatus_Raw == IF Provider = "synthetic" THEN "DELIVERED" ELSE "accepted"

\* The synthetic provider delivers at once; Resend reports delivery later.
AcceptedStatus == IF Provider = "synthetic" THEN "DELIVERED" ELSE "SENT"

recordDelivery(p) ==
  LET m == pass[p].id
  IN /\ pass[p].pc = "record"
     /\ \/ /\ msg[m].st # "none"
           /\ msg' = [msg EXCEPT ![m] = [st |-> AcceptedStatus, pid |-> TRUE]]
           /\ act' = Settle(p, "COMPLETED")
           /\ Proceed(p)
        \/ /\ msg[m].st = "none"
           /\ GoTo(p, "fail")
           /\ UNCHANGED <<msg, act>>
     /\ UNCHANGED <<leadVars, enrollment, conv, tokens, origin, mailed, clock,
                    crashes, overrun>>

-----------------------------------------------------------------------------
\* The worker stops, or a query outside the try block fails: the pass is
\* gone, its claim stays in the table until the lease has run out.
crash(p) ==
  /\ pass[p].pc # "idle" /\ crashes < MaxCrashes
  /\ pass' = [pass EXCEPT ![p] = Idle]
  /\ crashes' = crashes + 1
  /\ UNCHANGED <<tableVars, overrun>>

PassStep(p) ==
  \/ fetchCandidates(p) \/ claim(p) \/ claimLost(p) \/ fail(p)
  \/ readEnrollment(p) \/ readMessage(p) \/ checkPolicy(p) \/ defer(p)
  \/ rejectDecision(p) \/ rejectSend(p)
  \/ createPublicActionTokens(p) \/ attemptFails(p) \/ commitDecision(p)
  \/ completeSent(p) \/ send(p) \/ sendFails(p) \/ recordDelivery(p)

\* Time passes; a pass that still works on an action when the lease it took
\* has run out is noted in overrun.
Tick ==
  /\ clock < MaxTime
  /\ clock' = clock + 1
  /\ overrun' = overrun \cup
       {pass[p].id : p \in {q \in Passes : /\ pass[q].pc \in Working
                                           /\ LeaseEnd(pass[q].now) <= clock'}}
  /\ UNCHANGED <<leadVars, cadenceVars, mailVars, mailed, pass, crashes>>
=============================================================================
