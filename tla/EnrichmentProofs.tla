--------------------------- MODULE EnrichmentProofs ---------------------------
(***************************************************************************)
(* Proofs about the enrichment of a registration, for every number of      *)
(* consumers, retries and faults and every set of profiles: the types, that *)
(* the command is never lost, that consent and deletion are passed over    *)
(* only by the races the model names, that a result stays, and that the    *)
(* qualification policy is monotone.                                       *)
(***************************************************************************)
EXTENDS LeadEnrichment, TLAPS

Leads == {"none", "named", "deleted"}
Jobs(n) == [attempt : Attempts, snapshot : 0..n, lead : Leads, consent : BOOLEAN]
Snapshots(n) == [id : 0..n, data : Leads, status : {"none", "PENDING", "SUCCEEDED", "FAILED"}]

-----------------------------------------------------------------------------
(* The inductive invariant *)

\* A result and its qualification are stored and deleted together.
SucceededQualified == snapshot.status = "SUCCEEDED" => qualification # "none"

\* A transaction that has read a consent that is gone met the withdrawal.
ConsentRead ==
  \A w \in Workers :
    pc[w] = "commit" /\ job[w].consent /\ ~ consent /\ lead = "named" => "withdraw" \in raced

\* A delivery that has read a lead that is deleted met the deletion.
LeadRead == \A w \in Workers : lead = "deleted" /\ job[w].lead = "named" => "delete" \in raced

EnrichInv ==
  /\ TypeOK /\ SucceededQualified /\ ConsentRead /\ LeadRead
  /\ CommandAccountedFor /\ EnrolledWithoutConsentOnlyByRace /\ DeletedDataOnlyByRace

-----------------------------------------------------------------------------
(* Types *)

LEMMA NoJobType ==
  ASSUME NEW n \in Nat
  PROVE  NoJob \in Jobs(n) /\ NoSnapshot \in Snapshots(n)
<1>1. NoJob \in Jobs(n)
  BY EnrichmentAssumption DEF NoJob, Jobs, Attempts, Leads
<1>2. NoSnapshot \in Snapshots(n)
  BY DEF NoSnapshot, Snapshots, Leads
<1> QED  BY <1>1, <1>2

LEMMA QualifiedType == ASSUME NEW p PROVE qualifyLead(p) \in QualificationStatuses
BY DEF qualifyLead, QualificationStatuses

\* Steps of the outbox, of the lead and of the operators.
LEMMA OutsideTypes ==
  ASSUME TypeOK,
         \/ dispatchRow \/ dispatchFails \/ dispatchUnmarked
         \/ withdrawConsent \/ deleteLeadData \/ runRetention
  PROVE  TypeOK'
<1>a. /\ profile \in Profiles /\ row \in OutboxRows /\ Exists(row)
      /\ queue \in [Attempts -> Nat] /\ deadLetters \in Nat
      /\ pc \in [Workers -> Steps] /\ job \in [Workers -> Jobs(ids)]
      /\ snapshot \in Snapshots(ids) /\ ids \in Nat
      /\ qualification \in QualificationStatuses \cup {"none"}
      /\ enrollment \in {"none", "ACTIVE", "CANCELLED"}
      /\ completed \in BOOLEAN /\ consent \in BOOLEAN
      /\ lead \in {"named", "deleted"} /\ raced \in SUBSET {"withdraw", "delete"}
      /\ faults \in 0..MaxFaults /\ MaxFaults \in Nat /\ 0 \in Attempts
  BY EnrichmentAssumption DEF Attempts, TypeOK, Jobs, Snapshots, Leads
<1>b. Fault => faults' \in 0..MaxFaults
  BY <1>a DEF Fault
<1>c. Enqueue(0) => queue' \in [Attempts -> Nat]
  BY <1>a DEF Enqueue
<1>d. /\ MarkPublished \in OutboxRows /\ Exists(MarkPublished)
      /\ markOutboxPublishFailure(row) \in OutboxRows /\ Exists(markOutboxPublishFailure(row))
  BY <1>a DEF OutboxRows, OutboxStatuses, Exists, MarkPublished, markOutboxPublishFailure
<1>1. CASE dispatchRow \/ dispatchFails \/ dispatchUnmarked
  BY <1>1, <1>a, <1>b, <1>c, <1>d DEF TypeOK, Jobs, Snapshots, Leads, dispatchRow, dispatchFails, dispatchUnmarked,
       rowVars, leadVars, workerVars
<1>2. CASE withdrawConsent
  BY <1>2, <1>a DEF TypeOK, Jobs, Snapshots, Leads, withdrawConsent, brokerVars, workerVars
<1>3. CASE deleteLeadData \/ runRetention
  <2>1. deleteLeadData
    BY <1>3 DEF runRetention
  <2> QED  BY <2>1, <1>a, NoJobType DEF TypeOK, Jobs, Snapshots, Leads, deleteLeadData, brokerVars, workerVars
<1> QED  BY <1>1, <1>2, <1>3
-----------------------------------------------------------------------------
(* The steps of a consumer *)

LEMMA WorkerMoves ==
  ASSUME EnrichInv, NEW w \in Workers, NEW l \in Steps, NEW n \in Nat, n = ids', ids <= n,
         NEW j \in Jobs(n), pc' = [pc EXCEPT ![w] = l], job' = [job EXCEPT ![w] = j],
         UNCHANGED leadVars, row' = row, queue' \in [Attempts -> Nat], deadLetters' \in Nat,
         faults' \in 0..MaxFaults, snapshot' \in Snapshots(n),
         qualification' \in QualificationStatuses \cup {"none"},
         enrollment' \in {"none", "ACTIVE", "CANCELLED"}, completed' \in BOOLEAN,
         SucceededQualified',
         l = "commit" /\ j.consent /\ ~ consent /\ lead = "named" => "withdraw" \in raced,
         lead = "deleted" /\ j.lead = "named" => "delete" \in raced,
         l = "idle" => CommandAccountedFor',
         EnrolledWithoutConsentOnlyByRace', DeletedDataOnlyByRace'
  PROVE  EnrichInv'
<1>a. /\ profile' = profile /\ consent' = consent /\ lead' = lead /\ raced' = raced
  BY DEF leadVars
<1>b. /\ pc \in [Workers -> Steps] /\ job \in [Workers -> Jobs(ids)] /\ ids \in Nat
      /\ ConsentRead /\ LeadRead
  BY DEF EnrichInv, TypeOK, Jobs, Leads
<1>1. \A i \in Jobs(ids) : i \in Jobs(n)
  BY <1>b DEF Jobs
<1>2. pc' \in [Workers -> Steps] /\ job' \in [Workers -> Jobs(n)]
  BY <1>b, <1>1
<1>3. TypeOK'
  BY <1>a, <1>2 DEF EnrichInv, TypeOK, Jobs, Snapshots, Leads
<1>4. \A v \in Workers : pc'[v] = (IF v = w THEN l ELSE pc[v]) /\ job'[v] = (IF v = w THEN j ELSE job[v])
  BY <1>b
<1>5. ConsentRead'
  BY <1>a, <1>b, <1>4 DEF ConsentRead
<1>6. LeadRead'
  BY <1>a, <1>b, <1>4 DEF LeadRead
<1>7. CommandAccountedFor'
  <2>1. CASE l # "idle"
    <3>1. Held' # {}
      BY <1>4, <2>1 DEF Held
    <3> QED  BY <3>1 DEF CommandAccountedFor
  <2> QED  BY <2>1
<1> QED  BY <1>3, <1>5, <1>6, <1>7 DEF EnrichInv

LEMMA WorkerFacts ==
  ASSUME EnrichInv, NEW w \in Workers
  PROVE  /\ job[w] \in Jobs(ids) /\ ids \in Nat /\ ids <= ids
         /\ job[w].attempt \in Attempts /\ job[w].snapshot \in 0..ids
         /\ job[w].lead \in Leads /\ job[w].consent \in BOOLEAN
         /\ job = [job EXCEPT ![w] = job[w]]
         /\ queue \in [Attempts -> Nat] /\ deadLetters \in Nat /\ faults \in 0..MaxFaults
         /\ snapshot \in Snapshots(ids) /\ qualification \in QualificationStatuses \cup {"none"}
         /\ enrollment \in {"none", "ACTIVE", "CANCELLED"} /\ completed \in BOOLEAN
         /\ lead \in {"named", "deleted"}
         /\ Fault => faults' \in 0..MaxFaults
<1>1. /\ job \in [Workers -> Jobs(ids)] /\ faults \in 0..MaxFaults /\ ids \in Nat
  BY DEF EnrichInv, TypeOK, Jobs, Leads
<1>2. job[w] \in Jobs(ids) /\ job = [job EXCEPT ![w] = job[w]]
  BY <1>1
<1>3. /\ job[w].attempt \in Attempts /\ job[w].snapshot \in 0..ids
      /\ job[w].lead \in Leads /\ job[w].consent \in BOOLEAN
  BY <1>2 DEF Jobs
<1>4. Fault => faults' \in 0..MaxFaults
  BY <1>1, EnrichmentAssumption DEF Fault
<1>5. snapshot \in Snapshots(ids)
  BY DEF EnrichInv, TypeOK, Snapshots, Leads
<1> QED  BY <1>1, <1>2, <1>3, <1>4, <1>5 DEF EnrichInv, TypeOK

\* What the rows say stays true while nobody writes them.
LEMMA RowsStay ==
  ASSUME EnrichInv, UNCHANGED <<rowVars, leadVars>>
  PROVE  SucceededQualified' /\ EnrolledWithoutConsentOnlyByRace' /\ DeletedDataOnlyByRace'
BY DEF EnrichInv, rowVars, leadVars, SucceededQualified, EnrolledWithoutConsentOnlyByRace,
       DeletedDataOnlyByRace

\* Steps that only read, and what they read goes into the job.
LEMMA ReadSteps ==
  ASSUME EnrichInv, NEW w \in Workers,
         findContext(w) \/ checkSnapshot(w) \/ enrich(w) \/ updateSnapshot(w) \/ throws(w)
  PROVE  EnrichInv'
<1>a. /\ job[w] \in Jobs(ids) /\ job = [job EXCEPT ![w] = job[w]] /\ LeadRead /\ ConsentRead
      /\ consent \in BOOLEAN /\ lead \in Leads
  BY WorkerFacts DEF EnrichInv, TypeOK, Leads
<1>b. UNCHANGED <<rowVars, leadVars, brokerVars>>
  BY DEF findContext, checkSnapshot, enrich, updateSnapshot, throws
<1>c. faults' \in 0..MaxFaults
  BY WorkerFacts DEF findContext, checkSnapshot, enrich, updateSnapshot, throws
\* One consumer has moved to l with job j; an acknowledgement needs a result.
<1>d. ASSUME NEW l \in Steps, NEW j \in Jobs(ids),
             pc' = [pc EXCEPT ![w] = l], job' = [job EXCEPT ![w] = j],
             l = "commit" /\ j.consent => consent,
             j.lead = job[w].lead \/ j.lead = lead \/ j.lead = "none",
             l = "idle" => snapshot.status = "SUCCEEDED"
      PROVE  EnrichInv'
  <2>1. /\ ids' = ids /\ row' = row /\ queue' = queue /\ deadLetters' = deadLetters
        /\ snapshot' = snapshot /\ qualification' = qualification /\ enrollment' = enrollment
        /\ completed' = completed /\ UNCHANGED leadVars
    BY <1>b DEF rowVars, brokerVars
  <2>2. SucceededQualified' /\ EnrolledWithoutConsentOnlyByRace' /\ DeletedDataOnlyByRace'
    BY <1>b, RowsStay
  <2>3. l = "idle" => CommandAccountedFor'
    BY <1>d, <2>1 DEF EnrichInv, SucceededQualified, CommandAccountedFor
  <2>4. lead = "deleted" /\ j.lead = "named" => "delete" \in raced
    BY <1>a, <1>d DEF LeadRead
  <2> QED  BY <1>c, <1>d, <2>1, <2>2, <2>3, <2>4, WorkerFacts, WorkerMoves
<1>1. CASE findContext(w)
  <2>1. PICK j : j = [job[w] EXCEPT !.lead = lead]
    OBVIOUS
  <2>2. j \in Jobs(ids) /\ j.lead = lead
    BY <2>1, <1>a DEF Jobs
  <2>3. pc' = [pc EXCEPT ![w] = "check"] /\ job' = [job EXCEPT ![w] = j]
    BY <1>1, <2>1 DEF findContext, Goto
  <2> QED  BY <2>2, <2>3, <1>d DEF Steps
<1>2. CASE checkSnapshot(w)
  <2>1. CASE snapshot.status = "SUCCEEDED"
    <3>1. pc' = [pc EXCEPT ![w] = "idle"] /\ job' = [job EXCEPT ![w] = NoJob]
      BY <1>2, <2>1 DEF checkSnapshot, Ack, Goto
    <3>2. NoJob \in Jobs(ids) /\ NoJob.lead = "none"
      BY WorkerFacts, NoJobType DEF NoJob
    <3> QED  BY <2>1, <3>1, <3>2, <1>d DEF Steps
  <2>2. CASE snapshot.status # "SUCCEEDED"
    <3>1. pc' = [pc EXCEPT ![w] = "upsert"] /\ job' = job
      BY <1>2, <2>2 DEF checkSnapshot, Goto
    <3> QED  BY <3>1, <1>a, <1>d DEF Steps
  <2> QED  BY <2>1, <2>2
<1>3. CASE enrich(w)
  BY <1>3, <1>a, <1>d DEF enrich, Goto, Steps
<1>4. CASE updateSnapshot(w)
  <2>1. PICK j : j = [job[w] EXCEPT !.consent = consent]
    OBVIOUS
  <2>2. j \in Jobs(ids) /\ j.lead = job[w].lead /\ j.consent = consent
    BY <2>1, <1>a DEF Jobs
  <2>3. CASE snapshot.id = job[w].snapshot
    <3>1. pc' = [pc EXCEPT ![w] = "commit"] /\ job' = [job EXCEPT ![w] = j]
      BY <1>4, <2>1, <2>3 DEF updateSnapshot, Goto
    <3> QED  BY <2>2, <3>1, <1>d DEF Steps
  <2>4. CASE snapshot.id # job[w].snapshot
    <3>1. pc' = [pc EXCEPT ![w] = "fail"] /\ job' = job
      BY <1>4, <2>4 DEF updateSnapshot, Goto
    <3> QED  BY <3>1, <1>a, <1>d DEF Steps
  <2> QED  BY <2>3, <2>4
<1>5. CASE throws(w)
  BY <1>5, <1>a, <1>d DEF throws, Goto, Steps
<1> QED  BY <1>1, <1>2, <1>3, <1>4, <1>5

\* Steps that take the command from the queue or put it back.
LEMMA QueueSteps ==
  ASSUME EnrichInv, NEW w \in Workers, Receive(w) \/ routeFailure(w) \/ requeue(w) \/ crash(w)
  PROVE  EnrichInv'
<1>a. /\ job[w] \in Jobs(ids) /\ queue \in [Attempts -> Nat] /\ LeadRead /\ ConsentRead
      /\ job[w].attempt \in Attempts /\ deadLetters \in Nat
  BY WorkerFacts DEF EnrichInv
<1>b. /\ UNCHANGED <<rowVars, leadVars>> /\ row' = row
  BY DEF Receive, routeFailure, requeue, crash
<1>c. faults' \in 0..MaxFaults
  BY WorkerFacts DEF Receive, routeFailure, requeue, crash
<1>d. ASSUME NEW l \in Steps \ {"commit"}, NEW j \in Jobs(ids),
             pc' = [pc EXCEPT ![w] = l], job' = [job EXCEPT ![w] = j],
             j.lead = job[w].lead \/ j.lead = "none",
             queue' \in [Attempts -> Nat], deadLetters' \in Nat,
             l = "idle" => deadLetters' > 0 \/ \E a \in Attempts : queue'[a] > 0
      PROVE  EnrichInv'
  <2>1. /\ ids' = ids /\ snapshot' = snapshot /\ qualification' = qualification
        /\ enrollment' = enrollment /\ completed' = completed /\ UNCHANGED leadVars
    BY <1>b DEF rowVars
  <2>2. SucceededQualified' /\ EnrolledWithoutConsentOnlyByRace' /\ DeletedDataOnlyByRace'
    BY <1>b, RowsStay
  <2>3. l = "idle" => CommandAccountedFor'
    BY <1>d DEF CommandAccountedFor, Copies
  <2>4. lead = "deleted" /\ j.lead = "named" => "delete" \in raced
    BY <1>a, <1>d DEF LeadRead
  <2> QED  BY <1>b, <1>c, <1>d, <2>1, <2>2, <2>3, <2>4, WorkerFacts, WorkerMoves
<1>e. NoJob \in Jobs(ids) /\ NoJob.lead = "none"
  BY WorkerFacts, NoJobType DEF NoJob
<1>f. ASSUME NEW a \in Attempts, Enqueue(a)
      PROVE  queue' \in [Attempts -> Nat] /\ queue'[a] > 0
  BY <1>a, <1>f DEF Enqueue
<1>1. CASE Receive(w)
  <2>1. PICK a \in Attempts : /\ queue[a] > 0 /\ queue' = [queue EXCEPT ![a] = @ - 1]
                              /\ job' = [job EXCEPT ![w].attempt = a]
    BY <1>1 DEF Receive
  <2>2. PICK j : j = [job[w] EXCEPT !.attempt = a]
    OBVIOUS
  <2>3. j \in Jobs(ids) /\ j.lead = job[w].lead
    BY <2>2, <1>a DEF Jobs
  <2>4. queue[a] - 1 \in Nat
    BY <2>1, <1>a
  <2>5. queue' \in [Attempts -> Nat]
    BY <2>1, <2>4, <1>a
  <2>6. /\ pc' = [pc EXCEPT ![w] = "find"] /\ job' = [job EXCEPT ![w] = j]
        /\ deadLetters' = deadLetters
    BY <1>1, <2>1, <2>2 DEF Receive, Goto
  <2> QED  BY <2>3, <2>5, <2>6, <1>a, <1>d DEF Steps
<1>2. CASE routeFailure(w)
  <2>1. pc' = [pc EXCEPT ![w] = "idle"] /\ job' = [job EXCEPT ![w] = NoJob]
    BY <1>2 DEF routeFailure, Ack, Goto
  <2>2. CASE job[w].attempt < MaxRetry
    <3>1. PICK a \in Attempts : Enqueue(a)
      BY <1>2, <2>2, <1>a, EnrichmentAssumption DEF routeFailure, Attempts
    <3>2. deadLetters' = deadLetters
      BY <1>2, <2>2, <1>a, EnrichmentAssumption DEF routeFailure, Attempts
    <3> QED  BY <2>1, <3>1, <3>2, <1>a, <1>d, <1>e, <1>f DEF Steps
  <2>3. CASE job[w].attempt = MaxRetry
    <3>1. deadLetters' = deadLetters + 1 /\ queue' = queue
      BY <1>2, <2>3, <1>a, EnrichmentAssumption DEF routeFailure, Attempts
    <3>2. deadLetters' \in Nat /\ deadLetters' > 0
      BY <3>1, <1>a
    <3> QED  BY <2>1, <3>1, <3>2, <1>a, <1>d, <1>e DEF Steps
  <2> QED  BY <1>2, <2>2, <2>3 DEF routeFailure
<1>3. CASE requeue(w) \/ crash(w)
  <2>1. /\ pc' = [pc EXCEPT ![w] = "idle"] /\ job' = [job EXCEPT ![w] = NoJob]
        /\ Enqueue(job[w].attempt) /\ deadLetters' = deadLetters
    BY <1>3 DEF requeue, crash, Ack, Goto
  <2> QED  BY <2>1, <1>a, <1>d, <1>e, <1>f DEF Steps
<1> QED  BY <1>1, <1>2, <1>3

\* Steps that write the rows: the upsert, the commit and the catch clause.
LEMMA WriteSteps ==
  ASSUME EnrichInv, NEW w \in Workers,
         upsertSnapshot(w) \/ commitResult(w) \/ failSnapshot(w)
  PROVE  EnrichInv'
<1>a. /\ job[w] \in Jobs(ids) /\ job = [job EXCEPT ![w] = job[w]] /\ LeadRead /\ ConsentRead
      /\ snapshot \in Snapshots(ids) /\ ids \in Nat /\ queue \in [Attempts -> Nat]
      /\ deadLetters \in Nat /\ faults \in 0..MaxFaults
      /\ qualification \in QualificationStatuses \cup {"none"}
      /\ enrollment \in {"none", "ACTIVE", "CANCELLED"} /\ completed \in BOOLEAN
      /\ job[w].lead \in Leads
      /\ lead = "deleted" /\ job[w].lead = "named" => "delete" \in raced
  BY WorkerFacts DEF EnrichInv, LeadRead
<1>b. /\ UNCHANGED <<leadVars, brokerVars>> /\ faults' = faults
      /\ row' = row /\ queue' = queue /\ deadLetters' = deadLetters
      /\ consent' = consent /\ lead' = lead /\ raced' = raced
  BY DEF upsertSnapshot, commitResult, failSnapshot, leadVars, brokerVars
<1>c. SucceededQualified /\ EnrolledWithoutConsentOnlyByRace /\ DeletedDataOnlyByRace
  BY DEF EnrichInv
\* A snapshot whose data is as it was or none, and that is no new result.
<1>d. ASSUME snapshot'.status # "SUCCEEDED",
             snapshot'.data = snapshot.data \/ snapshot'.data = "none",
             qualification' = qualification, enrollment' = enrollment
      PROVE  SucceededQualified' /\ EnrolledWithoutConsentOnlyByRace' /\ DeletedDataOnlyByRace'
  BY <1>b, <1>c, <1>d DEF SucceededQualified, EnrolledWithoutConsentOnlyByRace,
       DeletedDataOnlyByRace
<1>1. CASE upsertSnapshot(w)
  <2>1. PICK n : n = ids'
    OBVIOUS
  <2>2. PICK s : s = snapshot'
    OBVIOUS
  <2>3. /\ n \in Nat /\ ids <= n /\ s \in Snapshots(n) /\ s.status = "PENDING"
        /\ s.data = snapshot.data \/ s.data = "none"
    <3>1. CASE snapshot = NoSnapshot
      <4>1. n = ids + 1 /\ s = [id |-> n, status |-> "PENDING", data |-> "none"]
        BY <1>1, <2>1, <2>2, <3>1 DEF upsertSnapshot
      <4>2. n \in Nat /\ ids <= n /\ n \in 0..n
        BY <4>1, <1>a
      <4> QED  BY <4>1, <4>2 DEF Snapshots, Leads
    <3>2. CASE snapshot # NoSnapshot
      <4>1. n = ids /\ s = [snapshot EXCEPT !.status = "PENDING"]
        BY <1>1, <2>1, <2>2, <3>2 DEF upsertSnapshot
      <4> QED  BY <4>1, <1>a DEF Snapshots
    <3> QED  BY <3>1, <3>2
  <2>4. PICK j : j = [job[w] EXCEPT !.snapshot = s.id]
    OBVIOUS
  <2>5. j \in Jobs(n) /\ j.lead = job[w].lead
    <3>1. s.id \in 0..n
      BY <2>3 DEF Snapshots
    <3>2. job[w] \in Jobs(n)
      BY <2>3, <1>a DEF Jobs
    <3> QED  BY <2>4, <3>1, <3>2 DEF Jobs
  <2>6. /\ pc' = [pc EXCEPT ![w] = "enrich"] /\ job' = [job EXCEPT ![w] = j]
        /\ qualification' = qualification /\ enrollment' = enrollment /\ completed' = completed
    BY <1>1, <2>2, <2>4 DEF upsertSnapshot, Goto
  <2>7. SucceededQualified' /\ EnrolledWithoutConsentOnlyByRace' /\ DeletedDataOnlyByRace'
    BY <2>2, <2>3, <2>6, <1>d
  <2>8. "enrich" \in Steps
    BY DEF Steps
  <2> QED  BY <2>1, <2>2, <2>3, <2>5, <2>6, <2>7, <2>8, <1>a, <1>b, WorkerMoves
<1>2. CASE commitResult(w)
  <2>1. PICK q \in QualificationStatuses : q = qualifyLead(ProfileOf(job[w].lead))
    BY QualifiedType
  <2>2. PICK s : s = [snapshot EXCEPT !.status = "SUCCEEDED", !.data = job[w].lead]
    OBVIOUS
  <2>3. s \in Snapshots(ids) /\ s.data = job[w].lead
    BY <2>2, <1>a DEF Snapshots
  <2>4. /\ pc[w] = "commit" /\ snapshot' = s /\ qualification' = q /\ completed' = TRUE
        /\ enrollment' = IF job[w].consent /\ q # "DISQUALIFIED" /\ enrollment = "none"
                         THEN "ACTIVE" ELSE enrollment
        /\ pc' = [pc EXCEPT ![w] = "idle"] /\ job' = [job EXCEPT ![w] = NoJob] /\ ids' = ids
    BY <1>2, <2>1, <2>2 DEF commitResult, Ack, Goto
  <2>5. qualification' # "none"
    BY <2>4 DEF QualificationStatuses
  <2>6. SucceededQualified' /\ CommandAccountedFor'
    BY <2>5 DEF SucceededQualified, CommandAccountedFor
  <2>7. EnrolledWithoutConsentOnlyByRace'
    BY <2>4, <1>a, <1>b, <1>c DEF EnrolledWithoutConsentOnlyByRace, ConsentRead
  <2>8. DeletedDataOnlyByRace'
    BY <2>3, <2>4, <1>a, <1>b DEF DeletedDataOnlyByRace
  <2>9. /\ enrollment' \in {"none", "ACTIVE", "CANCELLED"}
        /\ qualification' \in QualificationStatuses \cup {"none"} /\ completed' \in BOOLEAN
    BY <2>4, <1>a
  <2>10. NoJob \in Jobs(ids) /\ NoJob.lead = "none" /\ "idle" \in Steps
    BY <1>a, NoJobType DEF NoJob, Steps
  <2> QED  BY <2>3, <2>4, <2>6, <2>7, <2>8, <2>9, <2>10, <1>a, <1>b, WorkerFacts, WorkerMoves
<1>3. CASE failSnapshot(w)
  <2>1. PICK s : s = snapshot'
    OBVIOUS
  <2>2. /\ pc' = [pc EXCEPT ![w] = "route"] /\ job' = job /\ ids' = ids
        /\ qualification' = qualification /\ enrollment' = enrollment /\ completed' = completed
        /\ s = IF snapshot.id = job[w].snapshot
               THEN [snapshot EXCEPT !.status = "FAILED"] ELSE snapshot
    BY <1>3, <2>1 DEF failSnapshot, Goto
  <2>3. /\ s \in Snapshots(ids) /\ s.data = snapshot.data
        /\ s.status = "SUCCEEDED" => snapshot.status = "SUCCEEDED"
    BY <2>2, <1>a DEF Snapshots
  <2>4. SucceededQualified' /\ EnrolledWithoutConsentOnlyByRace' /\ DeletedDataOnlyByRace'
    BY <2>1, <2>2, <2>3, <1>b, <1>c DEF SucceededQualified, EnrolledWithoutConsentOnlyByRace,
         DeletedDataOnlyByRace
  <2>5. "route" \in Steps
    BY DEF Steps
  <2>6. /\ job' = [job EXCEPT ![w] = job[w]] /\ UNCHANGED leadVars /\ ids <= ids
        /\ queue' \in [Attempts -> Nat] /\ deadLetters' \in Nat /\ faults' \in 0..MaxFaults
        /\ snapshot' \in Snapshots(ids) /\ qualification' \in QualificationStatuses \cup {"none"}
        /\ enrollment' \in {"none", "ACTIVE", "CANCELLED"} /\ completed' \in BOOLEAN
    BY <2>1, <2>2, <2>3, <1>a, <1>b, WorkerFacts
  <2> QED  BY <2>2, <2>4, <2>5, <2>6, <1>a, <1>b, WorkerMoves
<1> QED  BY <1>1, <1>2, <1>3

-----------------------------------------------------------------------------
(* The steps of the outbox, the lead and the operators *)

LEMMA OutsideSteps ==
  ASSUME EnrichInv,
         \/ dispatchRow \/ dispatchFails \/ dispatchUnmarked
         \/ withdrawConsent \/ deleteLeadData \/ runRetention
  PROVE  EnrichInv'
<1>a. /\ TypeOK /\ SucceededQualified /\ ConsentRead /\ LeadRead /\ CommandAccountedFor
      /\ EnrolledWithoutConsentOnlyByRace /\ DeletedDataOnlyByRace
      /\ queue \in [Attempts -> Nat] /\ 0 \in Attempts
  BY EnrichmentAssumption DEF EnrichInv, TypeOK, Attempts
<1>1. TypeOK'
  BY <1>a, OutsideTypes
<1>2. CASE dispatchRow \/ dispatchFails \/ dispatchUnmarked
  <2>1. UNCHANGED <<rowVars, leadVars>> /\ pc' = pc /\ job' = job
    BY <1>2 DEF dispatchRow, dispatchFails, dispatchUnmarked, workerVars
  <2>2. ConsentRead' /\ LeadRead'
    BY <2>1, <1>a DEF ConsentRead, LeadRead, leadVars
  <2>3. CommandAccountedFor'
    <3>1. CASE dispatchRow \/ dispatchUnmarked
      <4>1. queue'[0] > 0
        BY <3>1, <1>a DEF dispatchRow, dispatchUnmarked, Enqueue
      <4> QED  BY <4>1, <1>a DEF CommandAccountedFor, Copies
    <3>2. CASE dispatchFails
      BY <3>2 DEF dispatchFails, Dispatchable, markOutboxPublishFailure, CommandAccountedFor
    <3> QED  BY <1>2, <3>1, <3>2
  <2> QED  BY <1>1, <2>1, <2>2, <2>3, RowsStay DEF EnrichInv
<1>3. CASE withdrawConsent
  <2>1. /\ consent' = FALSE /\ lead' = lead /\ pc' = pc /\ job' = job /\ snapshot' = snapshot
        /\ qualification' = qualification /\ row' = row /\ queue' = queue
        /\ deadLetters' = deadLetters /\ enrollment' # "ACTIVE"
        /\ raced' = IF Unlocked THEN raced ELSE raced \cup {"withdraw"}
    BY <1>3 DEF withdrawConsent, brokerVars, workerVars
  <2>2. ConsentRead'
    BY <2>1, <1>a DEF ConsentRead, Unlocked
  <2>3. LeadRead' /\ SucceededQualified' /\ DeletedDataOnlyByRace'
    BY <2>1, <1>a DEF LeadRead, SucceededQualified, DeletedDataOnlyByRace
  <2>4. CommandAccountedFor' /\ EnrolledWithoutConsentOnlyByRace'
    BY <2>1, <1>a DEF CommandAccountedFor, Copies, Held, EnrolledWithoutConsentOnlyByRace
  <2> QED  BY <1>1, <2>2, <2>3, <2>4 DEF EnrichInv
<1>4. CASE deleteLeadData \/ runRetention
  <2>1. /\ lead' = "deleted" /\ snapshot' = NoSnapshot /\ job' = job
        /\ raced' = IF \E w \in Workers : job[w].lead = "named"
                    THEN raced \cup {"delete"} ELSE raced
    BY <1>4 DEF runRetention, deleteLeadData, workerVars
  <2>2. LeadRead' /\ ConsentRead'
    BY <2>1, <1>a DEF LeadRead, ConsentRead
  <2>3. SucceededQualified' /\ DeletedDataOnlyByRace'
    BY <2>1 DEF SucceededQualified, DeletedDataOnlyByRace, NoSnapshot
  <2>4. CommandAccountedFor' /\ EnrolledWithoutConsentOnlyByRace'
    BY <2>1 DEF CommandAccountedFor, EnrolledWithoutConsentOnlyByRace
  <2> QED  BY <1>1, <2>2, <2>3, <2>4 DEF EnrichInv
<1> QED  BY <1>2, <1>3, <1>4

-----------------------------------------------------------------------------
(* The invariant holds *)

LEMMA EnrichInit == Init => EnrichInv
<1> SUFFICES ASSUME Init PROVE EnrichInv
  OBVIOUS
<1>1. TypeOK
  <2>1. job \in [Workers -> Jobs(ids)] /\ snapshot \in Snapshots(ids)
    BY NoJobType DEF Init
  <2>2. row \in OutboxRows /\ Exists(row)
    BY DEF Init, persistOutboxEvent, NoRow, Exists, OutboxRows, OutboxStatuses
  <2>3. pc \in [Workers -> Steps] /\ queue \in [Attempts -> Nat] /\ faults \in 0..MaxFaults
    BY EnrichmentAssumption DEF Init, Steps
  <2> QED  BY <2>1, <2>2, <2>3 DEF Init, TypeOK, Jobs, Snapshots, Leads
<1>2. row.status = "PENDING"
  BY DEF Init, persistOutboxEvent, NoRow, Exists
<1> QED  BY <1>1, <1>2 DEF Init, EnrichInv, NoSnapshot, SucceededQualified, ConsentRead, LeadRead,
       CommandAccountedFor, EnrolledWithoutConsentOnlyByRace, DeletedDataOnlyByRace

LEMMA EnrichStep == EnrichInv /\ [Next]_vars => EnrichInv'
<1> SUFFICES ASSUME EnrichInv, [Next]_vars PROVE EnrichInv'
  OBVIOUS
<1>1. CASE UNCHANGED vars
  BY <1>1 DEF vars, rowVars, leadVars, brokerVars, workerVars, EnrichInv, TypeOK,
       SucceededQualified, ConsentRead, LeadRead, CommandAccountedFor, Copies, Held,
       EnrolledWithoutConsentOnlyByRace, DeletedDataOnlyByRace
<1>2. ASSUME NEW w \in Workers, WorkerStep(w) \/ throws(w) \/ requeue(w) \/ crash(w)
      PROVE  EnrichInv'
  BY <1>2, ReadSteps, QueueSteps, WriteSteps DEF WorkerStep
<1> QED  BY <1>1, <1>2, OutsideSteps DEF Next

LEMMA EnrichInvariant == Spec => []EnrichInv
BY EnrichInit, EnrichStep, PTL DEF Spec

\* Every variable of the enrichment has its type: a retry never leaves the range of the
\* retry queues, and no job names a snapshot that was never created.
THEOREM EnrichmentTypeCorrect == Spec => []TypeOK
<1>1. EnrichInv => TypeOK
  BY DEF EnrichInv
<1> QED  BY <1>1, EnrichInvariant, PTL

\* The command of a registration that has no qualification is never lost by the outbox,
\* the consumers, their retries, crashes and requeues.
THEOREM CommandAccountedForHolds == Spec => []CommandAccountedFor
<1>1. EnrichInv => CommandAccountedFor
  BY DEF EnrichInv
<1> QED  BY <1>1, EnrichInvariant, PTL

\* A cadence runs without consent only if the consent was withdrawn between the query and
\* the commit of the transaction of processLeadEnrichment that enrols.
THEOREM EnrolledWithoutConsentOnlyByRaceHolds == Spec => []EnrolledWithoutConsentOnlyByRace
<1>1. EnrichInv => EnrolledWithoutConsentOnlyByRace
  BY DEF EnrichInv
<1> QED  BY <1>1, EnrichInvariant, PTL

\* Enrichment data of a deleted lead comes back only from a delivery that had read the lead
\* before deleteLeadData.
THEOREM DeletedDataOnlyByRaceHolds == Spec => []DeletedDataOnlyByRace
<1>1. EnrichInv => DeletedDataOnlyByRace
  BY DEF EnrichInv
<1> QED  BY <1>1, EnrichInvariant, PTL

-----------------------------------------------------------------------------
(* Results stay *)

\* No consumer is past its look at the snapshot.
BeforeCheck == \A w \in Workers : pc[w] \in {"idle", "find", "check", "route"}
Settled == lead = "deleted" \/ (snapshot.status = "SUCCEEDED" /\ BeforeCheck)

LEMMA SettledStays == TypeOK /\ Settled /\ [Next]_vars => Settled'
<1> SUFFICES ASSUME TypeOK, Settled, [Next]_vars PROVE Settled'
  OBVIOUS
<1>a. pc \in [Workers -> Steps]
  BY DEF TypeOK
<1>1. CASE UNCHANGED vars
  BY <1>1 DEF vars, rowVars, leadVars, workerVars, Settled, BeforeCheck
<1>2. CASE dispatchRow \/ dispatchFails \/ dispatchUnmarked
  BY <1>2 DEF dispatchRow, dispatchFails, dispatchUnmarked, rowVars, leadVars, workerVars,
       Settled, BeforeCheck
<1>3. CASE withdrawConsent
  BY <1>3 DEF withdrawConsent, workerVars, Settled, BeforeCheck
<1>4. CASE deleteLeadData \/ runRetention
  BY <1>4 DEF deleteLeadData, runRetention, Settled
<1>5. ASSUME NEW w \in Workers, WorkerStep(w) \/ throws(w) \/ requeue(w) \/ crash(w)
      PROVE  Settled'
  <2>1. lead' = lead
    BY <1>5 DEF WorkerStep, throws, requeue, crash, Receive, findContext, checkSnapshot,
         upsertSnapshot, enrich, updateSnapshot, commitResult, failSnapshot, routeFailure, leadVars
  <2>2. CASE lead = "deleted"
    BY <2>1, <2>2 DEF Settled
  <2>3. CASE lead # "deleted"
    <3>1. pc[w] \in {"idle", "find", "check", "route"} /\ snapshot.status = "SUCCEEDED"
      BY <2>3 DEF Settled, BeforeCheck
    <3>2. PICK l \in {"idle", "find", "check", "route"} :
            pc' = [pc EXCEPT ![w] = l] /\ snapshot' = snapshot
      <4>1. CASE Receive(w)
        BY <4>1 DEF Receive, Goto, rowVars
      <4>2. CASE findContext(w)
        BY <4>2 DEF findContext, Goto, rowVars
      <4>3. CASE checkSnapshot(w)
        BY <3>1, <4>3 DEF checkSnapshot, Ack, Goto, rowVars
      <4>4. CASE routeFailure(w) \/ requeue(w) \/ crash(w)
        BY <4>4 DEF routeFailure, requeue, crash, Ack, Goto, rowVars
      <4>5. CASE throws(w)
        BY <3>1, <4>5 DEF throws, Goto, rowVars
      <4>6. CASE upsertSnapshot(w) \/ enrich(w) \/ updateSnapshot(w) \/ commitResult(w)
                 \/ failSnapshot(w)
        BY <3>1, <4>6 DEF upsertSnapshot, enrich, updateSnapshot, commitResult, failSnapshot
      <4> QED  BY <1>5, <4>1, <4>2, <4>3, <4>4, <4>5, <4>6 DEF WorkerStep
    <3>3. BeforeCheck'
      BY <2>3, <3>2, <1>a DEF Settled, BeforeCheck
    <3> QED  BY <3>1, <3>2, <3>3 DEF Settled
  <2> QED  BY <2>2, <2>3
<1> QED  BY <1>1, <1>2, <1>3, <1>4, <1>5 DEF Next

\* Once a result is stored and no delivery is in progress, duplicates of the command leave
\* it alone until the lead is deleted: checkSnapshot acknowledges them.
THEOREM ResultStaysHolds == Spec => ResultStays
<1>1. snapshot.status = "SUCCEEDED" /\ Held = {} => Settled
  BY DEF Held, Settled, BeforeCheck
<1>2. Settled => snapshot.status = "SUCCEEDED" \/ lead = "deleted"
  BY DEF Settled
<1> QED  BY <1>1, <1>2, SettledStays, EnrichmentTypeCorrect, PTL DEF Spec, ResultStays

-----------------------------------------------------------------------------
(* The policy *)

\* qualifyLead scores no profile lower than one that it is at least as good as in every
\* respect, for every profile there is.
THEOREM QualificationMonotoneHolds == Spec => []QualificationMonotone
<1>1. ASSUME NEW p \in AllProfiles, NEW q \in AllProfiles, AtLeast(p, q)
      PROVE  Score(p) >= Score(q)
  <2> DEFINE Rank(x) == CASE x.seniority = "EXECUTIVE" -> 30
                          [] x.seniority = "DIRECTOR"  -> 25
                          [] x.seniority = "MANAGER"   -> 15
                          [] OTHER                     -> 0
             Role(x) == IF x.target THEN 25 ELSE Points(x.relevant, 20)
             Rest(x) == Points(x.size = "match", 25) + Points(x.industry, 10)
                        + Points(x.signals, 10)
  <2>1. Rank(p) \in Nat /\ Rank(q) \in Nat /\ Rank(p) >= Rank(q)
    BY <1>1 DEF AtLeast, AllProfiles, Seniorities
  <2>2. Role(p) \in Nat /\ Role(q) \in Nat /\ Role(p) >= Role(q)
    BY <1>1 DEF AtLeast, AllProfiles, Points
  <2>3. Rest(p) \in Nat /\ Rest(q) \in Nat /\ Rest(p) >= Rest(q)
    BY <1>1 DEF AtLeast, AllProfiles, Points
  <2>4. \A x \in {p, q} : Score(x) = LET s == Rank(x) + Role(x) + Rest(x)
                                     IN  IF s > 100 THEN 100 ELSE s
    <3> SUFFICES ASSUME NEW x \in {p, q}
                 PROVE  Score(x) = LET s == Rank(x) + Role(x) + Rest(x)
                                   IN  IF s > 100 THEN 100 ELSE s
      OBVIOUS
    <3>1. Rank(x) \in Nat /\ Role(x) \in Nat
      BY <2>1, <2>2
    <3>2. /\ Points(x.size = "match", 25) \in Nat /\ Points(x.industry, 10) \in Nat
          /\ Points(x.signals, 10) \in Nat
      BY DEF Points
    <3>3. Score(x) = LET s == Rank(x) + Role(x) + Points(x.size = "match", 25)
                              + Points(x.industry, 10) + Points(x.signals, 10)
                     IN  IF s > 100 THEN 100 ELSE s
      BY DEF Score
    <3> QED  BY <3>1, <3>2, <3>3
  <2> HIDE DEF Rank, Role, Rest
  <2> QED  BY <2>1, <2>2, <2>3, <2>4
<1>2. TypeOK => QualificationMonotone
  BY <1>1, EnrichmentAssumption DEF TypeOK, QualificationMonotone
<1> QED  BY <1>2, EnrichmentTypeCorrect, PTL

===============================================================================
