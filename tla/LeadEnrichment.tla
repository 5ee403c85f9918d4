---------------------------- MODULE LeadEnrichment ----------------------------
(***************************************************************************)
(* The enrichment of ONE registration, from the outbox row its             *)
(* registration wrote to the enrolment in the cadence: the outbox          *)
(* dispatcher, the lead-enrichment queue with its retry and dead-letter    *)
(* queues, the consumers (lead-enrichment-consumer.ts) and what they do    *)
(* for a delivery (process-lead-enrichment.ts), while the lead withdraws   *)
(* consent or an operator deletes the lead's data (engagement.service.ts). *)
(*                                                                         *)
(* Each query of a consumer is a step.  Its last transaction is two: the   *)
(* one that updates the snapshot and so locks its row, and the commit.     *)
(* A retry queue only delays: its copies are among those of the queue.     *)
(***************************************************************************)
EXTENDS QualificationPolicy, Outbox, FiniteSets

CONSTANTS
  Workers,    \* consumers, each with a prefetch of one delivery
  Profiles,   \* bound: the profiles the lead may have
  MaxRetry,   \* FLOWPILOT_MAX_RETRY_ATTEMPTS
  MaxFaults   \* bound: crashes and failed calls

ASSUME EnrichmentAssumption ==
  /\ Profiles \subseteq AllProfiles
  /\ MaxRetry \in Nat /\ MaxFaults \in Nat

VARIABLES
  profile,     \* what the provider would find out about the lead
  row,         \* the outbox row of lead.enrichment.requested
  queue,       \* attempt -> copies of the command with this header
  deadLetters, \* copies in the dead-letter queue
  pc, job,     \* the consumers
  snapshot,    \* the EnrichmentSnapshot row; data: of whom it tells
  ids,         \* snapshot rows created so far
  qualification,  \* LeadQualification.status
  enrollment,  \* CadenceEnrollment.status, with its conversation and actions
  completed,   \* the outbox has a lead.enrichment.completed row
  consent,     \* an EVENT_COMMUNICATION consent that is not withdrawn
  lead,        \* "named", or "deleted" once anonymized
  raced,       \* history: withdrawals and deletions that met a consumer
  faults       \* faults so far

rowVars     == <<snapshot, ids, qualification, enrollment, completed>>
leadVars    == <<profile, consent, lead, raced>>
brokerVars  == <<row, queue, deadLetters>>
workerVars  == <<pc, job>>
vars == <<rowVars, leadVars, brokerVars, workerVars, faults>>

NoSnapshot == [id |-> 0, status |-> "none", data |-> "none"]
NoJob      == [attempt |-> 0, lead |-> "none", snapshot |-> 0,
               consent |-> FALSE]

Attempts == 0..MaxRetry
Steps    == {"idle", "find", "check", "upsert", "enrich", "update", "commit",
             "fail", "route"}

TypeOK ==
  /\ profile \in Profiles
  /\ row \in OutboxRows /\ Exists(row)
  /\ queue \in [Attempts -> Nat] /\ deadLetters \in Nat
  /\ pc \in [Workers -> Steps]
  /\ job \in [Workers -> [attempt : Attempts, snapshot : 0..ids,
                          lead : {"none", "named", "deleted"},
                          consent : BOOLEAN]]
  /\ snapshot \in [id : 0..ids, data : {"none", "named", "deleted"},
                   status : {"none", "PENDING", "SUCCEEDED", "FAILED"}]
  /\ ids \in Nat
  /\ qualification \in QualificationStatuses \cup {"none"}
  /\ enrollment \in {"none", "ACTIVE", "CANCELLED"}
  /\ completed \in BOOLEAN /\ consent \in BOOLEAN
  /\ lead \in {"named", "deleted"}
  /\ raced \in SUBSET {"withdraw", "delete"}
  /\ faults \in 0..MaxFaults

\* Just after registerInTransaction.
Init ==
  /\ profile \in Profiles
  /\ row = persistOutboxEvent(NoRow)
  /\ queue = [a \in Attempts |-> 0] /\ deadLetters = 0
  /\ pc = [w \in Workers |-> "idle"] /\ job = [w \in Workers |-> NoJob]
  /\ snapshot = NoSnapshot /\ ids = 0 /\ qualification = "none"
  /\ enrollment = "none" /\ completed = FALSE
  /\ consent = TRUE /\ lead = "named" /\ raced = {} /\ faults = 0

Fault == faults < MaxFaults /\ faults' = faults + 1

Enqueue(attempt) == queue' = [queue EXCEPT ![attempt] = @ + 1]

-----------------------------------------------------------------------------
(* dispatchPendingOutboxMessages, for this row *)

dispatchRow ==
  /\ Dispatchable(row)
  /\ Enqueue(0) /\ row' = MarkPublished
  /\ UNCHANGED <<rowVars, leadVars, deadLetters, workerVars, faults>>

dispatchFails ==
  /\ Dispatchable(row) /\ Fault
  /\ row' = markOutboxPublishFailure(row)
  /\ UNCHANGED <<rowVars, leadVars, queue, deadLetters, workerVars>>

\* The process ends, or the database fails, between publishing and marking.
dispatchUnmarked ==
  /\ Dispatchable(row) /\ Fault
  /\ Enqueue(0)
  /\ UNCHANGED <<rowVars, leadVars, row, deadLetters, workerVars>>

-----------------------------------------------------------------------------
(* A consumer *)

Goto(w, step) == pc' = [pc EXCEPT ![w] = step]

\* channel.ack: the delivery is gone.
Ack(w) == Goto(w, "idle") /\ job' = [job EXCEPT ![w] = NoJob]

\* No transaction holds the lock of the snapshot's row.
Unlocked == \A w \in Workers : pc[w] # "commit"

Receive(w) ==
  /\ pc[w] = "idle"
  /\ \E a \in Attempts :
       /\ queue[a] > 0
       /\ queue' = [queue EXCEPT ![a] = @ - 1]
       /\ job' = [job EXCEPT ![w].attempt = a]
  /\ Goto(w, "find")
  /\ UNCHANGED <<rowVars, leadVars, row, deadLetters, faults>>

\* Mutant: the lead's data travels with the command.
findContext_FromMessage(w) ==
  /\ pc[w] = "find"
  /\ job' = [job EXCEPT ![w].lead = "named"] /\ Goto(w, "check")
  /\ UNCHANGED <<rowVars, leadVars, brokerVars, faults>>

\* The registration is never deleted; the lead it comes with may have been.
findContext(w) ==
  /\ pc[w] = "find"
  /\ job' = [job EXCEPT ![w].lead = lead] /\ Goto(w, "check")
  /\ UNCHANGED <<rowVars, leadVars, brokerVars, faults>>

\* Mutant: a redelivered command is processed again.
checkSnapshot_Always(w) ==
  /\ pc[w] = "check"
  /\ Goto(w, "upsert") /\ UNCHANGED job
  /\ UNCHANGED <<rowVars, leadVars, brokerVars, faults>>

checkSnapshot(w) ==
  /\ pc[w] = "check"
  /\ \/ snapshot.status = "SUCCEEDED" /\ Ack(w)
     \/ /\ snapshot.status # "SUCCEEDED"
        /\ Goto(w, "upsert") /\ UNCHANGED job
  /\ UNCHANGED <<rowVars, leadVars, brokerVars, faults>>

\* The upsert leaves the data of an earlier result where it is.
upsertSnapshot(w) ==
  /\ pc[w] = "upsert" /\ Unlocked
  /\ \/ /\ snapshot = NoSnapshot
        /\ ids' = ids + 1
        /\ snapshot' = [id |-> ids', status |-> "PENDING", data |-> "none"]
     \/ /\ snapshot # NoSnapshot
        /\ snapshot' = [snapshot EXCEPT !.status = "PENDING"]
        /\ UNCHANGED ids
  /\ job' = [job EXCEPT ![w].snapshot = snapshot'.id]
  /\ Goto(w, "enrich")
  /\ UNCHANGED <<qualification, enrollment, completed, leadVars, brokerVars,
                 faults>>

\* provider.enrich; whatever it throws is normalized to a retryable failure.
enrich(w) ==
  /\ pc[w] = "enrich"
  /\ Goto(w, "update") \/ Goto(w, "fail")
  /\ UNCHANGED <<job, rowVars, leadVars, brokerVars, faults>>

\* The first statements of the transaction, up to the query for the consent.
\* The update by id throws if the row was deleted.
updateSnapshot(w) ==
  /\ pc[w] = "update" /\ Unlocked
  /\ \/ /\ snapshot.id = job[w].snapshot
        /\ job' = [job EXCEPT ![w].consent = consent]
        /\ Goto(w, "commit")
     \/ /\ snapshot.id # job[w].snapshot
        /\ Goto(w, "fail") /\ UNCHANGED job
  /\ UNCHANGED <<rowVars, leadVars, brokerVars, faults>>

ProfileOf(l) == IF l = "named" THEN profile ELSE DeletedProfile

\* Mutant: the consent is not looked at again once there is a result.
commitResult_NoConsent(w) ==
  LET status == qualifyLead(ProfileOf(job[w].lead))
  IN /\ pc[w] = "commit"
     /\ snapshot' = [snapshot EXCEPT !.status = "SUCCEEDED",
                                     !.data = job[w].lead]
     /\ qualification' = status
     /\ enrollment' = IF status # "DISQUALIFIED" /\ enrollment = "none"
                      THEN "ACTIVE" ELSE enrollment
     /\ completed' = TRUE
     /\ Ack(w)
     /\ UNCHANGED <<ids, leadVars, brokerVars, faults>>

\* The transaction's writes.  An enrollment that exists keeps its status.
commitResult(w) ==
  LET status == qualifyLead(ProfileOf(job[w].lead))
  IN /\ pc[w] = "commit"
     /\ snapshot' = [snapshot EXCEPT !.status = "SUCCEEDED",
                                     !.data = job[w].lead]
     /\ qualification' = status
     /\ enrollment' = IF /\ job[w].consent /\ status # "DISQUALIFIED"
                         /\ enrollment = "none"
                      THEN "ACTIVE" ELSE enrollment
     /\ completed' = TRUE
     /\ Ack(w)
     /\ UNCHANGED <<ids, leadVars, brokerVars, faults>>

\* The catch clause: the update by id throws if the row was deleted, which
\* only replaces one retryable failure by another.
failSnapshot(w) ==
  /\ pc[w] = "fail" /\ Unlocked
  /\ snapshot' = IF snapshot.id = job[w].snapshot
                 THEN [snapshot EXCEPT !.status = "FAILED"] ELSE snapshot
  /\ Goto(w, "route")
  /\ UNCHANGED <<job, ids, qualification, enrollment, completed, leadVars,
                 brokerVars, faults>>

\* A query outside the try, or the transaction, fails.
throws(w) ==
  /\ Fault
  /\ \/ pc[w] \in {"find", "check", "upsert", "fail"} /\ Goto(w, "route")
     \/ pc[w] \in {"update", "commit"} /\ Goto(w, "fail")
  /\ UNCHANGED <<job, rowVars, leadVars, brokerVars>>

\* Mutant: the copy that is published keeps the attempt of the delivery.
routeFailure_SameAttempt(w) ==
  /\ pc[w] = "route"
  /\ \/ /\ job[w].attempt < MaxRetry
        /\ Enqueue(job[w].attempt) /\ UNCHANGED deadLetters
     \/ /\ job[w].attempt = MaxRetry
        /\ deadLetters' = deadLetters + 1 /\ UNCHANGED queue
  /\ Ack(w)
  /\ UNCHANGED <<rowVars, leadVars, row, faults>>

\* Mutant: the retry queue of the last attempt has no successor.
routeFailure_OffByOne(w) ==
  /\ pc[w] = "route"
  /\ queue' = [a \in Attempts \cup {MaxRetry + 1} |->
                 IF a = job[w].attempt + 1
                 THEN 1 + (IF a \in Attempts THEN queue[a] ELSE 0)
                 ELSE IF a \in Attempts THEN queue[a] ELSE 0]
  /\ Ack(w)
  /\ UNCHANGED <<deadLetters, rowVars, leadVars, row, faults>>

\* publishRetry or publishDeadLetter, then the ack.
routeFailure(w) ==
  /\ pc[w] = "route"
  /\ \/ /\ job[w].attempt < MaxRetry
        /\ Enqueue(job[w].attempt + 1) /\ UNCHANGED deadLetters
     \/ /\ job[w].attempt = MaxRetry
        /\ deadLetters' = deadLetters + 1 /\ UNCHANGED queue
  /\ Ack(w)
  /\ UNCHANGED <<rowVars, leadVars, row, faults>>

\* Mutant: a delivery whose failure cannot be routed is acknowledged.
requeue_Acks(w) ==
  /\ pc[w] = "route" /\ Fault
  /\ Ack(w)
  /\ UNCHANGED <<rowVars, leadVars, brokerVars>>

\* Publishing throws: nack with requeue.
requeue(w) ==
  /\ pc[w] = "route" /\ Fault
  /\ Enqueue(job[w].attempt) /\ Ack(w)
  /\ UNCHANGED <<rowVars, leadVars, row, deadLetters>>

\* The worker stops; the broker delivers again what was not acknowledged.
crash(w) ==
  /\ pc[w] # "idle" /\ Fault
  /\ Enqueue(job[w].attempt) /\ Ack(w)
  /\ UNCHANGED <<rowVars, leadVars, row, deadLetters>>

-----------------------------------------------------------------------------
(* The lead and the operators *)

\* withdrawConsent for event mail, and the links that do the same.
withdrawConsent ==
  /\ consent
  /\ consent' = FALSE
  /\ enrollment' = IF enrollment = "none" THEN "none" ELSE "CANCELLED"
  /\ raced' = IF Unlocked THEN raced ELSE raced \cup {"withdraw"}
  /\ UNCHANGED <<profile, lead, snapshot, ids, qualification, completed,
                 brokerVars, workerVars, faults>>

\* Deletes the enrichment data and the consent records, once more if they were deleted
\* before; waits for the lock.
deleteLeadData ==
  /\ Unlocked
  /\ lead' = "deleted" /\ consent' = FALSE
  /\ snapshot' = NoSnapshot /\ qualification' = "none"
  /\ raced' = IF \E w \in Workers : job[w].lead = "named"
              THEN raced \cup {"delete"} ELSE raced
  /\ UNCHANGED <<profile, ids, enrollment, completed, brokerVars, workerVars,
                 faults>>

\* The timer of the API does so for a lead that is not deleted yet and whose events
\* are all over for longer than they are kept, which it may find at any time.
runRetention == lead = "named" /\ deleteLeadData

-----------------------------------------------------------------------------

WorkerStep(w) ==
  \/ Receive(w) \/ findContext(w) \/ checkSnapshot(w) \/ upsertSnapshot(w)
  \/ enrich(w) \/ updateSnapshot(w) \/ commitResult(w) \/ failSnapshot(w)
  \/ routeFailure(w)

Next ==
  \/ dispatchRow \/ dispatchFails \/ dispatchUnmarked
  \/ \E w \in Workers : WorkerStep(w)
  \/ \E w \in Workers : throws(w) \/ requeue(w) \/ crash(w)
  \/ withdrawConsent \/ deleteLeadData \/ runRetention

Spec == Init /\ [][Next]_vars

\* The dispatcher's timer fires, and a consumer goes on with its delivery:
\* its queries and calls return or throw.
FairSpec ==
  /\ Spec /\ WF_vars(dispatchRow)
  /\ \A w \in Workers : WF_vars(WorkerStep(w))

-----------------------------------------------------------------------------
(* Properties *)

Held == {w \in Workers : pc[w] # "idle"}
Copies == {a \in Attempts : queue[a] > 0}

\* Nothing is lost: for as long as the registration has no qualification, the
\* command is in the outbox (which may have given up on it), in the queue, at
\* a consumer or in the dead-letter queue, whatever stopped in between.
CommandAccountedFor ==
  \/ qualification # "none" \/ lead = "deleted"
  \/ row.status \in {"PENDING", "FAILED"}
  \/ Copies # {} \/ Held # {} \/ deadLetters > 0

\* A cadence runs without consent only if the consent was withdrawn while the
\* transaction that enrols was open, between its query and its commit.
EnrolledWithoutConsentOnlyByRace ==
  enrollment = "ACTIVE" /\ ~consent /\ lead = "named" => "withdraw" \in raced

\* Enrichment data of a deleted lead comes back only from a delivery that had
\* read the lead before the deletion; a redelivery or a retry that starts
\* later enriches the placeholders.
DeletedDataOnlyByRace ==
  lead = "deleted" /\ snapshot.data = "named" => "delete" \in raced

\* Once a result is stored and no delivery is in progress, duplicates of the
\* command leave it alone, until the lead is deleted.
ResultStays ==
  [](snapshot.status = "SUCCEEDED" /\ Held = {}
       => [](snapshot.status = "SUCCEEDED" \/ lead = "deleted"))

\* Every copy of the command is settled in the end: it is acknowledged or in
\* the dead-letter queue, and the outbox has published it or given it up.
EnrichmentSettles ==
  <>[](Copies = {} /\ Held = {} /\ row.status # "PENDING")

\* p is at least as good a lead as q in everything the policy looks at.
AtLeast(p, q) ==
  /\ p.target \/ (~q.target /\ (p.relevant \/ ~q.relevant))
  /\ p.size = "match" \/ q.size # "match"
  /\ p.industry \/ ~q.industry
  /\ p.signals \/ ~q.signals
  /\ \/ p.seniority = q.seniority \/ q.seniority = "OTHER"
     \/ p.seniority = "EXECUTIVE"
     \/ (p.seniority = "DIRECTOR" /\ q.seniority = "MANAGER")

\* No profile that the lead is at least as good as in every respect has a
\* higher score, whichever branch of the policy scores its role.
QualificationMonotone ==
  \A q \in AllProfiles : AtLeast(profile, q) => Score(profile) >= Score(q)

=============================================================================
