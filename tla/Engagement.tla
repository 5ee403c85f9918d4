------------------------------ MODULE Engagement ------------------------------
(***************************************************************************)
(* The engagement core of the system: the operators, leads and webhooks    *)
(* that call the API, the enrichment worker that enrols a registration in  *)
(* its cadence, and the overlapping dispatcher passes that draft and send  *)
(* the mails, all on the same rows, for one registration.                  *)
(***************************************************************************)
EXTENDS EngagementApi, ActionDispatcher

vars == <<tableVars, apiVars, dispatcherVars>>

Init == TablesInit /\ ApiInit /\ DispatcherInit

\* buildPreEventSchedule: the first step is due at once, the others are kept
\* if they lie ahead.
PreEventDue(k) == IF k = WelcomeKey THEN clock ELSE StartsAt - Offset[k]

\* The transaction of processLeadEnrichment that enrols the registration.
\* Once it has run, a redelivered command changes nothing here.
processLeadEnrichment ==
  /\ consent["EVENT_COMMUNICATION"]
  /\ act[WelcomeKey].st = "none"
  /\ conv' = IF conv = "none" THEN "OPEN" ELSE conv
  /\ enrollment' = IF enrollment = "none" THEN "ACTIVE" ELSE enrollment
  /\ act' = [a \in ActionIds |->
       IF /\ a \in PreKeys /\ act[a].st = "none"
          /\ a = WelcomeKey \/ PreEventDue(a) > clock
       THEN NewAction(PreEventDue(a))
       ELSE act[a]]
  /\ UNCHANGED <<leadVars, msg, tokens, origin, mailed, clock, apiVars,
                 dispatcherVars>>

DispatcherStep(p) == PassStep(p) /\ UNCHANGED apiVars

Next ==
  \/ processLeadEnrichment
  \/ ApiStep /\ UNCHANGED dispatcherVars
  \/ \E p \in Passes : DispatcherStep(p)
  \/ \E p \in Passes : crash(p) /\ UNCHANGED apiVars
  \/ Tick /\ UNCHANGED apiVars

Spec == Init /\ [][Next]_vars

(***************************************************************************)
(* Fairness.  The timer fires for as long as the worker runs, and a pass   *)
(* that has started goes on: every query and every call it awaits returns  *)
(* or throws.  Time passes.  Nothing is assumed of operators, leads,       *)
(* webhooks, the enrichment worker, or of crashes, except that there are   *)
(* at most MaxCrashes of these.                                            *)
(***************************************************************************)
Fairness ==
  /\ \A p \in Passes : WF_vars(DispatcherStep(p))
  /\ WF_vars(Tick /\ UNCHANGED apiVars)

FairSpec == Spec /\ Fairness

-----------------------------------------------------------------------------
(* Properties *)

\* The type of every variable: rows, requests and passes.
TypeOK == TablesTypeOK /\ ApiTypeOK /\ DispatcherTypeOK

(***************************************************************************)
(* The lead may not be mailed for this purpose any more: consent withdrawn *)
(* or deleted, suppressed, anonymized, or a meeting booked.                *)
(***************************************************************************)
Barred(purpose) ==
  ~ consent[purpose] \/ purpose \in suppressed \/ anonymized \/ meeting

Sending(purpose) ==
  {p \in Passes : /\ pass[p].pc = "send"
                  /\ PurposeOf(pass[p].id) = purpose}

MailedFor(purpose) == {m \in mailed : PurposeOf(m) = purpose}

\* An opt-out is final (withdrawConsent, consumePublicAction, recordInbound,
\* processEmailWebhook, deleteLeadData and bookMeeting against the check in
\* processMessageSend): once a purpose is barred and the calls of
\* emailProvider.send that had already passed the check are over, no mail is
\* handed to the provider for it any more, and nothing lifts the bar: not a
\* deletion that clears the suppressions, nor a retry, nor a stale pass.
OptOutFinal ==
  [][\A purpose \in Purposes :
       Barred(purpose) /\ Sending(purpose) = {} =>
         /\ Barred(purpose)'
         /\ Sending(purpose)' = {}
         /\ MailedFor(purpose)' = MailedFor(purpose)]_vars

\* The claim of dispatchDueScheduledActions is exclusive: two passes work on
\* the same action only after one of them has outlived its lease on it,
\* whatever cancels, reschedules or reclaims the row in between.
LeaseExclusion ==
  \A a \in ActionIds \ overrun : \A p, q \in Passes :
    Holds(p, a) /\ Holds(q, a) => p = q

\* One cadence step drafts at most one message (the transaction of
\* processAgentDecision), across retries, crashes, reclaimed leases and
\* overlapping passes, as long as no pass outlives its lease on that step.
OneMessagePerStep ==
  \A m, n \in Msgs :
    /\ origin[m] = origin[n]
    /\ origin[m] # NoKey
    /\ origin[m] \notin overrun
    => m = n

Settled == {"COMPLETED", "CANCELLED", "FAILED"}

\* A settled action stays settled, however it was settled: stopCadence,
\* schedulePostEvent or a pass.  Only a pass that is still working on it can
\* write the row again, not one that lists it in a batch fetched before, and
\* not another upsert of the same cadence step.
SettledStays ==
  [][\A a \in ActionIds :
       act[a].st \in Settled /\ (\A p \in Passes : ~ Holds(p, a)) =>
         act'[a] = act[a]]_vars

\* The cadence is stopped and nothing of it is under way.
Halted ==
  /\ enrollment = "CANCELLED"
  /\ \A a \in ActionIds : act[a].st \notin {"PENDING", "DISPATCHING"}
  /\ \A p \in Passes : pass[p].pc \notin Working

\* A stopped cadence stays stopped (stopCadence against the batch a pass
\* fetched before): a pass that still lists the cancelled actions does not
\* revive them and mails nothing.  Only the post-event schedule or a late
\* enrichment starts the cadence again.
StopHolds ==
  [][Halted /\ ~ processLeadEnrichment /\ enrollment' # "ACTIVE" =>
       Halted' /\ mailed' = mailed]_vars

\* The frequency limit of evaluateCommunicationPolicy, checked before the
\* send and counted after it: it is overshot by at most one mail per
\* overlapping pass.  A pass that outlived its lease on a message may find it
\* refused and write SUPPRESSED over SENT, which takes the mail out of the
\* count until a delivery report puts it back; the bound needs one of the two
\* not to have happened.
SendLimitBounded ==
  overrun \cap Msgs = {} \/ processed = {} =>
    \A purpose \in Purposes :
      DeliveredCount(purpose) <= Limit[purpose] + Cardinality(Passes) - 1

\* DECISIONS.md: "Each future action is a persisted, idempotent unit with a
\* lease and retry budget": processed once or more, by however many passes,
\* a cadence step drafts one message.
IdempotentStep ==
  \A m, n \in Msgs :
    origin[m] = origin[n] /\ origin[m] # NoKey => m = n

\* README.md: cadences with "send limits"; DECISIONS.md: nothing can bypass
\* "consent, frequency, registration, or meeting rules".  The deliveries the
\* policy itself counts never exceed its limit.
SendLimit ==
  \A purpose \in Purposes : DeliveredCount(purpose) <= Limit[purpose]

Drafting == {p \in Passes : pass[p].pc \in {"mint", "commit"}}

\* Deletion is final once the drafts under way are over (deleteLeadData
\* against processAgentDecision): no message and no action link of an
\* anonymized lead is written any more.
DeletionFinal ==
  [][anonymized /\ Drafting = {} =>
       /\ Drafting' = {}
       /\ \A m \in Msgs : msg'[m].st # "none" => msg[m].st # "none"
       /\ \A t \in DOMAIN tokens : tokens'[t] # "none" => tokens[t] # "none"]_vars

\* Every scheduled action is eventually completed, cancelled or given up:
\* expired leases are reclaimed, deferred actions come due in an open
\* window, and the retry budget ends repeated failure.
ActionsSettle ==
  \A a \in ActionIds :
    act[a].st \in {"PENDING", "DISPATCHING"} ~> act[a].st \in Settled
=============================================================================
