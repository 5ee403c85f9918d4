---------------------------- MODULE ExecutionProofs ----------------------------
(***************************************************************************)
(* Proofs about workflow executions, for every number of executions,       *)
(* workers, dispatchers, nodes, retries and faults: the types, that no     *)
(* command is lost, that only ended executions are dead-lettered, that the *)
(* history of a success is complete, and that the whole implements         *)
(* ExecutionLifecycle.                                                     *)
(*                                                                         *)
(* The argument: what a worker or dispatcher is about to do is justified   *)
(* by rows that exist, events that were announced and executions that have *)
(* ended (ProcOK).  All three only grow, so the steps of the others do not *)
(* disturb it; each step has to be looked at for the process that takes it *)
(* and for the rows it writes.                                             *)
(***************************************************************************)
EXTENDS WorkflowExecution, TLAPS

-----------------------------------------------------------------------------
(* The inductive invariant *)

Ended(st, e) == st[e] \in {"SUCCEEDED", "FAILED"}

\* The events of the first n nodes of e are announced, in an.
HistoryUpTo(an, e, n) ==
  \A i \in 1 .. n : <<"nodeStarted", e, i>> \in an /\ <<"nodeCompleted", e, i>> \in an

\* A process with the row s in its hands: the row exists, and a copy that says
\* PUBLISHED is right.
SendOK(l, s, ob, an) ==
  /\ l \in {"dispatch", "mark"} =>
       /\ Exists(s.copy) /\ Exists(ob[s.key])
       /\ s.copy.status = "PUBLISHED" => s.key \in an
  /\ l = "mark" => s.key \in an

\* The event a worker with job j is dispatching as part of its run, at label l.
Sending(l, j) == l \in {"dispatch", "mark"} /\ ~ j.flushing

\* A worker at label l with job j and row s.
JobOK(l, j, s, st, ob, an) ==
  /\ j.flushing => Ended(st, j.exec)
  /\ \A r \in j.todo : r.copy.status = "PENDING" /\ Exists(ob[r.key])
  /\ l = "flush" => j.flushing
  /\ l = "deadletter" => Ended(st, j.exec)
  /\ l \in {"run", "failNode"} => j.node \in Nodes
  /\ l = "nodes" => HistoryUpTo(an, j.exec, j.node)
  /\ l = "run" => HistoryUpTo(an, j.exec, j.node - 1) /\ <<"nodeStarted", j.exec, j.node>> \in an

\* ... while it dispatches an event of its run.
RunOK(l, j, s, st, an) ==
  Sending(l, j) =>
    /\ s.key[1] \in {"completed", "failed"} => Ended(st, j.exec)
    /\ s.key[1] \in {"nodeStarted", "nodeCompleted"} =>
         /\ j.node \in Nodes /\ s.key = <<s.key[1], j.exec, j.node>>
         /\ HistoryUpTo(an, j.exec, j.node - 1)
    /\ s.key[1] = "nodeCompleted" => <<"nodeStarted", j.exec, j.node>> \in an

ProcOK(p, l, j, s, st, ob, an) ==
  /\ SendOK(l, s, ob, an)
  /\ p \in Dispatchers => l \in {"idle", "dispatch", "mark"}
  /\ p \in Workers => JobOK(l, j, s, st, ob, an) /\ RunOK(l, j, s, st, an)

ProcsOK == \A p \in Procs : ProcOK(p, pc[p], job[p], send[p], status, outbox, announced)

\* The lifecycle rows of an execution say what its status says.
RowsOK ==
  \A e \in Executions :
    /\ request[e] = "none" <=> status[e] = "NONE"
    /\ Exists(outbox[<<"started", e, 0>>]) => status[e] \notin {"NONE", "PENDING"}
    /\ status[e] = "RUNNING" => Exists(outbox[<<"started", e, 0>>])
    /\ Exists(outbox[<<"completed", e, 0>>]) => status[e] = "SUCCEEDED"
    /\ Exists(outbox[<<"failed", e, 0>>]) => status[e] = "FAILED"

\* A row that says PUBLISHED is right.
PublishedOK == \A k \in Keys : outbox[k].status = "PUBLISHED" => k \in announced

ExecInv == TypeOK /\ ProcsOK /\ RowsOK /\ PublishedOK
           /\ CompletedHasHistory /\ DeadLetterMeansEnded /\ NeverStranded

-----------------------------------------------------------------------------
(* Facts about keys, rows, outcomes and jobs *)

LEMMA KeyFacts ==
  ASSUME NEW k \in Keys
  PROVE  /\ k = <<k[1], k[2], k[3]>> /\ k[2] \in Executions
         /\ k[1] \in LifecycleEvents \cup NodeEvents
         /\ k[1] \in LifecycleEvents => k \in LifecycleKeys /\ k[3] = 0
         /\ k[1] \in NodeEvents => k \in NodeKeys /\ k \notin LifecycleKeys
BY DEF Keys, LifecycleKeys, NodeKeys, LifecycleEvents, NodeEvents

LEMMA MadeKeys ==
  ASSUME NEW e \in Executions
  PROVE  /\ \A v \in LifecycleEvents : <<v, e, 0>> \in LifecycleKeys /\ <<v, e, 0>> \in Keys
         /\ \A v \in NodeEvents, n \in Nodes : <<v, e, n>> \in NodeKeys /\ <<v, e, n>> \in Keys
BY DEF Keys, LifecycleKeys, NodeKeys

LEMMA OutcomeTypes ==
  /\ AnyOutcome \subseteq {"returns", "retryable", "fatal"}
  /\ MisconfiguredOutcome \subseteq {"returns", "retryable", "fatal"}
<1>1. ASSUME NEW env \in Environments
      PROVE  executeWorkflowNode(env) \in {"returns", "retryable", "fatal"}
  <2>1. env.type \in NodeTypes
    BY DEF Environments
  <2>2. \A b : Throws(b) \in {"retryable", "fatal"}
    BY DEF Throws
  <2>3. runPrompt(env) \in {"returns", "retryable", "fatal"}
    <3> DEFINE answer == Answer(run_prompt(env))
    <3>1. runPrompt(env) =
            CASE ~env.inTime \/ ~answer.json                      -> Throws(TRUE)
              [] env.inTime /\ answer.json /\ answer.status = 200 -> "returns"
              [] env.inTime /\ answer.json /\ answer.status # 200 ->
                   Throws(isRetryableAiOrchestratorFailure(answer))
      BY Zenon DEF runPrompt
    <3> HIDE DEF answer
    <3> QED  BY <3>1, <2>2
  <2>4. executeHttpRequestActionNode(env) \in {"returns", "retryable", "fatal"}
    BY <2>2 DEF executeHttpRequestActionNode
  <2> QED  BY <2>1, <2>3, <2>4 DEF executeWorkflowNode, NodeTypes,
                executeTransformActionNode, executeConditionActionNode
<1> QED  BY <1>1 DEF AnyOutcome, MisconfiguredOutcome, Misconfigured

LEMMA RowFacts ==
  ASSUME NEW r \in OutboxRows
  PROVE  /\ persistOutboxEvent(r) \in OutboxRows /\ Exists(persistOutboxEvent(r))
         /\ persistOutboxEvent(r).status = "PUBLISHED" => r.status = "PUBLISHED"
         /\ Exists(r) => persistOutboxEvent(r) = r
         /\ markOutboxPublishFailure(r) \in OutboxRows
         /\ Exists(r) => Exists(markOutboxPublishFailure(r))
         /\ r.status # "PUBLISHED" => markOutboxPublishFailure(r).status # "PUBLISHED"
         /\ MarkPublished \in OutboxRows /\ Exists(MarkPublished) /\ NoRow \in OutboxRows
BY DEF persistOutboxEvent, OutboxRows, OutboxStatuses, Exists, markOutboxPublishFailure,
       MarkPublished, NoRow

LEMMA NoJobFacts ==
  ASSUME NEW e \in Executions
  PROVE  /\ NoJob(e) \in Jobs /\ NoSend(e) \in Sends
         /\ NoJob(e).exec = e /\ NoJob(e).flushing = FALSE /\ NoJob(e).todo = {}
<1>1. NoSend(e) \in Sends
  BY MadeKeys DEF NoSend, Sends, NoRow, OutboxRows, OutboxStatuses, LifecycleEvents
<1>2. NoJob(e) \in Jobs
  BY ExecutionAssumption DEF NoJob, Jobs, Attempts
<1> QED  BY <1>1, <1>2 DEF NoJob

\* A job of which the broker has only given the execution and the attempt.
LEMMA FreshJob ==
  ASSUME NEW e \in Executions, NEW a \in Attempts, NEW j,
         j = [NoJob(e) EXCEPT !.attempt = a]
  PROVE  j \in Jobs /\ j.exec = e /\ j.flushing = FALSE /\ j.todo = {}
BY NoJobFacts DEF Jobs, NoJob

-----------------------------------------------------------------------------
(* What a process relies on outlives the steps of the others *)

LEMMA ProcStable ==
  ASSUME NEW p, NEW l, NEW j \in Jobs, NEW s \in Sends,
         NEW st, NEW ob, NEW an, NEW st2, NEW ob2, NEW an2,
         ProcOK(p, l, j, s, st, ob, an),
         \A e \in Executions : Ended(st, e) => Ended(st2, e),
         \A k \in Keys : Exists(ob[k]) => Exists(ob2[k]),
         an \subseteq an2
  PROVE  ProcOK(p, l, j, s, st2, ob2, an2)
<1>1. j.exec \in Executions /\ s.key \in Keys /\ \A r \in j.todo : r.key \in Keys
  BY DEF Jobs, Sends, Keys
<1>2. \A n : HistoryUpTo(an, j.exec, n) => HistoryUpTo(an2, j.exec, n)
  BY DEF HistoryUpTo
<1>3. SendOK(l, s, ob2, an2)
  BY <1>1 DEF ProcOK, SendOK
<1>4. ASSUME p \in Workers PROVE JobOK(l, j, s, st2, ob2, an2)
  <2>1. JobOK(l, j, s, st, ob, an)
    BY <1>4 DEF ProcOK
  <2>2. Ended(st, j.exec) => Ended(st2, j.exec)
    BY <1>1
  <2>3. \A r \in j.todo : Exists(ob[r.key]) => Exists(ob2[r.key])
    BY <1>1
  <2> HIDE DEF Ended, HistoryUpTo, Exists
  <2> QED  BY <2>1, <2>2, <2>3, <1>2 DEF JobOK
<1>5. ASSUME p \in Workers PROVE RunOK(l, j, s, st2, an2)
  <2>1. RunOK(l, j, s, st, an)
    BY <1>5 DEF ProcOK
  <2>2. Ended(st, j.exec) => Ended(st2, j.exec)
    BY <1>1
  <2> HIDE DEF Ended, HistoryUpTo
  <2> QED  BY <2>1, <2>2, <1>2 DEF RunOK
<1> QED  BY <1>3, <1>4, <1>5 DEF ProcOK

\* One process moves; ended executions, rows and announcements only grow.
LEMMA ProcMoves ==
  ASSUME pc \in [Procs -> Labels], job \in [Procs -> Jobs], send \in [Procs -> Sends],
         ProcsOK, NEW p \in Procs, NEW l \in Labels, NEW j \in Jobs, NEW s \in Sends,
         pc' = [pc EXCEPT ![p] = l], job' = [job EXCEPT ![p] = j],
         send' = [send EXCEPT ![p] = s],
         NEW st, NEW ob, NEW an, st = status', ob = outbox', an = announced',
         \A e \in Executions : Ended(status, e) => Ended(st, e),
         \A k \in Keys : Exists(outbox[k]) => Exists(ob[k]),
         announced \subseteq an,
         ProcOK(p, l, j, s, st, ob, an)
  PROVE  /\ pc' \in [Procs -> Labels] /\ job' \in [Procs -> Jobs] /\ send' \in [Procs -> Sends]
         /\ ProcsOK'
<1>1. pc' \in [Procs -> Labels] /\ job' \in [Procs -> Jobs] /\ send' \in [Procs -> Sends]
  OBVIOUS
<1>2. ASSUME NEW q \in Procs
      PROVE  ProcOK(q, pc'[q], job'[q], send'[q], st, ob, an)
  <2>1. CASE q = p
    <3>1. pc'[q] = l /\ job'[q] = j /\ send'[q] = s
      BY <2>1
    <3> QED  BY <3>1, <2>1
  <2>2. CASE q # p
    <3>1. pc'[q] = pc[q] /\ job'[q] = job[q] /\ send'[q] = send[q]
      BY <2>2
    <3>2. ProcOK(q, pc[q], job[q], send[q], status, outbox, announced)
      BY DEF ProcsOK
    <3>3. job[q] \in Jobs /\ send[q] \in Sends
      OBVIOUS
    <3>4. ProcOK(q, pc[q], job[q], send[q], st, ob, an)
      BY <3>2, <3>3, ProcStable
    <3> QED  BY <3>1, <3>4
  <2> QED  BY <2>1, <2>2
<1> QED  BY <1>1, <1>2 DEF ProcsOK

\* With p at label l and job j and the commands c, nothing is lost that p had in its hands
\* or that was waiting.
Kept(p, l, j, c) ==
  /\ \A e \in Executions, a \in Attempts : commands[e][a] > 0 =>
       \/ \E b \in Attempts : c[e][b] > 0
       \/ p \in Workers /\ l \notin {"idle", "ack"} /\ j.exec = e
  /\ p \in Workers /\ pc[p] \notin {"idle", "ack"} =>
       \/ l \notin {"idle", "ack"} /\ j.exec = job[p].exec
       \/ Terminal(job[p].exec)
       \/ \E b \in Attempts : c[job[p].exec][b] > 0

\* The same for the commands: a process may leave an execution that has ended or of
\* which a copy of the command waits.
LEMMA StrandedMoves ==
  ASSUME TypeOK, NeverStranded, NEW p \in Procs, NEW l, NEW j,
         pc' = [pc EXCEPT ![p] = l], job' = [job EXCEPT ![p] = j],
         \A e \in Executions : Terminal(e) => Terminal(e)',
         \A e \in Executions : request'[e] = "sent" => request[e] = "sent",
         NEW c, c = commands', Kept(p, l, j, c)
  PROVE  NeverStranded'
<1> SUFFICES ASSUME NEW e \in Executions, request'[e] = "sent", ~ Terminal(e)'
             PROVE  \/ \E b \in Attempts : commands'[e][b] > 0
                    \/ \E w \in Workers : pc'[w] \notin {"idle", "ack"} /\ job'[w].exec = e
  BY DEF NeverStranded, WorksOn
<1>a. Workers \subseteq Procs /\ pc \in [Procs -> Labels] /\ job \in [Procs -> Jobs]
  BY DEF Procs, TypeOK
<1>1. /\ ~ Terminal(e)
      /\ \/ \E a \in Attempts : commands[e][a] > 0
         \/ \E w \in Workers : pc[w] \notin {"idle", "ack"} /\ job[w].exec = e
  BY DEF NeverStranded, WorksOn
<1>k. /\ \A f \in Executions, a \in Attempts : commands[f][a] > 0 =>
           \/ \E b \in Attempts : commands'[f][b] > 0
           \/ p \in Workers /\ l \notin {"idle", "ack"} /\ j.exec = f
      /\ p \in Workers /\ pc[p] \notin {"idle", "ack"} =>
           \/ l \notin {"idle", "ack"} /\ j.exec = job[p].exec
           \/ Terminal(job[p].exec)
           \/ \E b \in Attempts : commands'[job[p].exec][b] > 0
  BY DEF Kept
<1>2. pc'[p] = l /\ job'[p] = j
  BY <1>a
<1>3. CASE \E a \in Attempts : commands[e][a] > 0
  BY <1>3, <1>2, <1>k
<1>4. ASSUME NEW w \in Workers, pc[w] \notin {"idle", "ack"}, job[w].exec = e
      PROVE  \/ \E b \in Attempts : commands'[e][b] > 0
             \/ pc'[w] \notin {"idle", "ack"} /\ job'[w].exec = e
  <2>1. CASE w # p
    <3>1. pc'[w] = pc[w] /\ job'[w] = job[w]
      BY <2>1, <1>a
    <3> QED  BY <3>1, <1>4
  <2>2. CASE w = p
    BY <2>2, <1>1, <1>2, <1>4, <1>k
  <2> QED  BY <2>1, <2>2
<1> QED  BY <1>1, <1>3, <1>4
-----------------------------------------------------------------------------
(* Steps that move one process and nothing else *)

LEMMA ProcFacts ==
  ASSUME ExecInv, NEW p \in Procs
  PROVE  /\ pc[p] \in Labels /\ job[p] \in Jobs /\ send[p] \in Sends
         /\ job[p].exec \in Executions /\ send[p].key \in Keys /\ send[p].copy \in OutboxRows
         /\ pc = [pc EXCEPT ![p] = pc[p]] /\ job = [job EXCEPT ![p] = job[p]]
         /\ send = [send EXCEPT ![p] = send[p]]
         /\ ProcOK(p, pc[p], job[p], send[p], status, outbox, announced)
<1>1. pc \in [Procs -> Labels] /\ job \in [Procs -> Jobs] /\ send \in [Procs -> Sends]
  BY DEF ExecInv, TypeOK
<1>2. pc[p] \in Labels /\ job[p] \in Jobs /\ send[p] \in Sends
  BY <1>1
<1>3. job[p].exec \in Executions /\ send[p].key \in Keys /\ send[p].copy \in OutboxRows
  BY <1>2 DEF Jobs, Sends
<1> QED  BY <1>1, <1>2, <1>3 DEF ExecInv, ProcsOK

LEMMA WorkerFacts ==
  ASSUME ExecInv, NEW w \in Workers
  PROVE  /\ w \in Procs /\ w \notin Dispatchers
         /\ SendOK(pc[w], send[w], outbox, announced)
         /\ JobOK(pc[w], job[w], send[w], status, outbox, announced)
         /\ RunOK(pc[w], job[w], send[w], status, announced)
<1>1. w \in Procs /\ w \notin Dispatchers
  BY ExecutionAssumption DEF Procs
<1> QED  BY <1>1, ProcFacts DEF ProcOK

LEMMA DispatcherFacts ==
  ASSUME ExecInv, NEW d \in Dispatchers
  PROVE  /\ d \in Procs /\ d \notin Workers
         /\ SendOK(pc[d], send[d], outbox, announced)
         /\ pc[d] \in {"idle", "dispatch", "mark"}
<1>1. d \in Procs /\ d \notin Workers
  BY ExecutionAssumption DEF Procs
<1> QED  BY <1>1, ProcFacts DEF ProcOK

LEMMA LocalStep ==
  ASSUME ExecInv, NEW p \in Procs, NEW l \in Labels, NEW j \in Jobs, NEW s \in Sends,
         pc' = [pc EXCEPT ![p] = l], job' = [job EXCEPT ![p] = j],
         send' = [send EXCEPT ![p] = s],
         UNCHANGED <<rowVars, outbox, brokerVars>>, crashes' \in Nat, faults' \in Nat,
         ProcOK(p, l, j, s, status, outbox, announced),
         p \in Workers /\ pc[p] \notin {"idle", "ack"} =>
            \/ l \notin {"idle", "ack"} /\ j.exec = job[p].exec
            \/ Terminal(job[p].exec)
  PROVE  ExecInv'
<1>a. /\ status' = status /\ kind' = kind /\ ends' = ends /\ request' = request
      /\ nodeRow' = nodeRow /\ traces' = traces /\ outbox' = outbox
      /\ announced' = announced /\ timeline' = timeline /\ commands' = commands
      /\ deadLetters' = deadLetters
  BY DEF rowVars, brokerVars
<1>1. /\ pc' \in [Procs -> Labels] /\ job' \in [Procs -> Jobs] /\ send' \in [Procs -> Sends]
      /\ ProcsOK'
  BY <1>a, ProcMoves DEF ExecInv, TypeOK
<1>2. TypeOK'
  BY <1>a, <1>1 DEF ExecInv, TypeOK
<1>3. NeverStranded'
  <2>1. \A e \in Executions : Terminal(e) => Terminal(e)'
    BY <1>a DEF Terminal
  <2>2. Kept(p, l, j, commands)
    BY DEF Kept
  <2> QED  BY <1>a, <2>1, <2>2, StrandedMoves DEF ExecInv
<1>4. RowsOK' /\ PublishedOK' /\ CompletedHasHistory'
  BY <1>a DEF ExecInv, RowsOK, PublishedOK, CompletedHasHistory
<1>5. DeadLetterMeansEnded'
  BY <1>a DEF ExecInv, DeadLetterMeansEnded, Terminal
<1> QED  BY <1>1, <1>2, <1>3, <1>4, <1>5 DEF ExecInv

\* Labels at which a worker holds no row and relies on no node.
LEMMA PlainLabel ==
  ASSUME NEW w \in Workers, NEW l \in {"idle", "find", "claim", "prepare", "error", "ack", "nack"},
         NEW j, NEW s, NEW st, NEW ob, NEW an,
         j.flushing => Ended(st, j.exec),
         \A r \in j.todo : r.copy.status = "PENDING" /\ Exists(ob[r.key])
  PROVE  ProcOK(w, l, j, s, st, ob, an)
<1>1. w \notin Dispatchers
  BY ExecutionAssumption
<1>2. l \notin {"dispatch", "mark", "flush", "deadletter", "run", "failNode", "nodes"}
  OBVIOUS
<1>3. JobOK(l, j, s, st, ob, an)
  BY <1>2 DEF JobOK
<1> QED  BY <1>1, <1>2, <1>3 DEF ProcOK, SendOK, RunOK, Sending

\* ... or holds no row.
LEMMA QuietLabel ==
  ASSUME NEW w \in Workers, NEW l, l \notin {"dispatch", "mark"},
         NEW j, NEW s, NEW st, NEW ob, NEW an, JobOK(l, j, s, st, ob, an)
  PROVE  ProcOK(w, l, j, s, st, ob, an)
BY ExecutionAssumption DEF ProcOK, SendOK, RunOK, Sending

\* dispatchOutboxEvent has returned: the event was announced.
LEMMA AfterFacts ==
  ASSUME ExecInv, NEW w \in Workers, pc[w] \in {"dispatch", "mark"},
         send[w].key \in announced, NEW l, l = After(w), NEW s
  PROVE  /\ l \in Labels \ {"idle"}
         /\ l = "ack" => Terminal(job[w].exec)
         /\ ProcOK(w, l, job[w], s, status, outbox, announced)
<1> DEFINE j == job[w]
           k == send[w].key
<1>a. /\ w \in Procs /\ w \notin Dispatchers
      /\ JobOK(pc[w], j, send[w], status, outbox, announced)
      /\ RunOK(pc[w], j, send[w], status, announced)
  BY WorkerFacts
<1>b. /\ j \in Jobs /\ k \in Keys /\ k[1] \in LifecycleEvents \cup NodeEvents
  BY <1>a, ProcFacts, KeyFacts
<1>c. /\ j.flushing => Ended(status, j.exec)
      /\ \A r \in j.todo : r.copy.status = "PENDING" /\ Exists(outbox[r.key])
  BY <1>a DEF JobOK
<1>1. CASE j.flushing
  <2>1. l = "flush"
    BY <1>1, <1>a DEF After
  <2>2. JobOK(l, j, s, status, outbox, announced)
    BY <2>1, <1>c, <1>1 DEF JobOK
  <2> QED  BY <2>1, <2>2, QuietLabel DEF Labels
<1>2. CASE ~ j.flushing
  <2>1. l = CASE k[1] = "started"       -> "prepare"
              [] k[1] = "nodeStarted"   -> "run"
              [] k[1] = "nodeCompleted" -> "nodes"
              [] k[1] = "nodeFailed"    -> "error"
              [] k[1] = "completed"     -> "ack"
              [] k[1] = "failed"        -> "deadletter"
    BY <1>2, <1>a DEF After
  <2>2. Sending(pc[w], j)
    BY <1>2 DEF Sending
  <2>3. CASE k[1] \in {"started", "nodeFailed"}
    <3>1. l \in {"prepare", "error"}
      BY <2>1, <2>3
    <3> QED  BY <3>1, <1>c, PlainLabel DEF Labels
  <2>4. CASE k[1] = "completed"
    <3>1. l = "ack" /\ Ended(status, j.exec)
      BY <2>1, <2>2, <2>4, <1>a DEF RunOK
    <3> QED  BY <3>1, <1>c, PlainLabel DEF Labels, Ended, Terminal
  <2>5. CASE k[1] = "failed"
    <3>1. l = "deadletter" /\ Ended(status, j.exec)
      BY <2>1, <2>2, <2>5, <1>a DEF RunOK
    <3>2. JobOK(l, j, s, status, outbox, announced)
      BY <3>1, <1>c DEF JobOK
    <3> QED  BY <3>1, <3>2, QuietLabel DEF Labels
  <2>6. CASE k[1] = "nodeStarted"
    <3>1. /\ l = "run" /\ j.node \in Nodes /\ HistoryUpTo(announced, j.exec, j.node - 1)
          /\ k = <<"nodeStarted", j.exec, j.node>>
      BY <2>1, <2>2, <2>6, <1>a DEF RunOK
    <3>2. JobOK(l, j, s, status, outbox, announced)
      BY <3>1, <1>c DEF JobOK
    <3> QED  BY <3>1, <3>2, QuietLabel DEF Labels
  <2>7. CASE k[1] = "nodeCompleted"
    <3>1. /\ l = "nodes" /\ j.node \in Nodes /\ HistoryUpTo(announced, j.exec, j.node - 1)
          /\ k = <<"nodeCompleted", j.exec, j.node>>
          /\ <<"nodeStarted", j.exec, j.node>> \in announced
      BY <2>1, <2>2, <2>7, <1>a DEF RunOK
    <3>2. \A i \in 1 .. j.node : i \in 1 .. j.node - 1 \/ i = j.node
      BY <3>1, ExecutionAssumption DEF Nodes
    <3>3. HistoryUpTo(announced, j.exec, j.node)
      BY <3>1, <3>2 DEF HistoryUpTo
    <3>4. JobOK(l, j, s, status, outbox, announced)
      BY <3>1, <3>3, <1>c DEF JobOK
    <3> QED  BY <3>1, <3>4, QuietLabel DEF Labels
  <2> QED  BY <2>3, <2>4, <2>5, <2>6, <2>7, <1>b DEF LifecycleEvents, NodeEvents
<1> QED  BY <1>1, <1>2

\* An exception takes a dispatcher to its next cycle, a worker to a label at which it
\* still holds its delivery.
LEMMA ThrowFacts ==
  ASSUME ExecInv, NEW p \in Procs, pc[p] \notin {"idle", "ack"}, Throw(p)
  PROVE  \E l \in Labels, j \in Jobs, s \in Sends :
           /\ pc' = [pc EXCEPT ![p] = l] /\ job' = [job EXCEPT ![p] = j]
           /\ send' = [send EXCEPT ![p] = s]
           /\ ProcOK(p, l, j, s, status, outbox, announced)
           /\ p \in Workers => l \notin {"idle", "ack"}
           /\ j.exec = job[p].exec
<1> DEFINE s == NoSend(job[p].exec)
<1>1. PICK j : j = [job[p] EXCEPT !.retryable = TRUE]
  OBVIOUS
<1>2. /\ j \in Jobs /\ j.exec = job[p].exec /\ j.flushing = job[p].flushing
      /\ j.todo = job[p].todo /\ j.node = job[p].node
  BY <1>1, ProcFacts DEF Jobs
<1>3. s \in Sends
  BY ProcFacts, NoJobFacts
<1>4. job' = [job EXCEPT ![p] = j] /\ send' = [send EXCEPT ![p] = s]
  BY <1>1 DEF Throw, EndSend
<1> HIDE DEF s
<1>5. CASE p \in Dispatchers
  <2>1. pc' = [pc EXCEPT ![p] = "idle"] /\ p \notin Workers
    BY <1>5, ExecutionAssumption DEF Throw, Goto
  <2>2. ProcOK(p, "idle", j, s, status, outbox, announced)
    BY <2>1 DEF ProcOK, SendOK
  <2>3. "idle" \in Labels
    BY DEF Labels
  <2> QED  BY <2>1, <2>2, <2>3, <1>2, <1>3, <1>4
<1>6. CASE p \in Workers
  <2>a. p \notin Dispatchers
    BY <1>6, ExecutionAssumption
  <2>b. /\ JobOK(pc[p], job[p], send[p], status, outbox, announced)
        /\ RunOK(pc[p], job[p], send[p], status, announced)
    BY <1>6, WorkerFacts
  <2>c. /\ j.flushing => Ended(status, j.exec)
        /\ \A r \in j.todo : r.copy.status = "PENDING" /\ Exists(outbox[r.key])
    BY <2>b, <1>2 DEF JobOK
  <2>1. PICK l : /\ l = CASE p \in Dispatchers                                -> "idle"
                          [] p \in Workers /\ job[p].failing                  -> "nack"
                          [] p \in Workers /\ ~job[p].failing /\ InNode(p)    -> "failNode"
                          [] p \in Workers /\ ~job[p].failing /\ ~InNode(p)   -> "error"
                 /\ pc' = [pc EXCEPT ![p] = l]
    BY DEF Throw, Goto
  <2>2. \/ l \in {"nack", "error"}
        \/ l = "failNode" /\ InNode(p)
    BY <2>1, <2>a, <1>6
  <2>3. CASE l \in {"nack", "error"}
    <3>1. ProcOK(p, l, j, s, status, outbox, announced)
      BY <2>3, <2>c, <1>6, PlainLabel
    <3> QED  BY <3>1, <2>1, <2>3, <1>2, <1>3, <1>4 DEF Labels
  <2>4. CASE l = "failNode" /\ InNode(p)
    <3>1. j.node \in Nodes
      BY <2>4, <2>b, <1>2 DEF InNode, JobOK, RunOK, Sending
    <3>2. JobOK(l, j, s, status, outbox, announced)
      BY <3>1, <2>4, <2>c DEF JobOK
    <3>3. ProcOK(p, l, j, s, status, outbox, announced)
      BY <3>2, <2>4, <1>6, QuietLabel
    <3> QED  BY <3>3, <2>1, <2>4, <1>2, <1>3, <1>4 DEF Labels
  <2> QED  BY <2>2, <2>3, <2>4
<1> QED  BY <1>5, <1>6 DEF Procs

\* A worker reads the rows of an execution that has ended.
LEMMA FlushStep ==
  ASSUME ExecInv, NEW w \in Workers, pc[w] \notin {"idle", "ack"}, Terminal(job[w].exec),
         \/ StartFlush(w) \/ FailLost(w)
  PROVE  ExecInv'
<1> DEFINE todo == PendingOf(job[w].exec)
<1>a. w \in Procs /\ job[w] \in Jobs /\ job[w].exec \in Executions
  BY WorkerFacts, ProcFacts
<1>b. outbox \in [Keys -> OutboxRows] /\ crashes \in Nat /\ faults \in Nat
  BY DEF ExecInv, TypeOK
<1>1. todo \in SUBSET [key : LifecycleKeys, copy : OutboxRows]
  BY <1>a, <1>b, MadeKeys DEF PendingOf
<1>2. \A r \in todo : r.copy.status = "PENDING" /\ Exists(outbox[r.key])
  BY DEF PendingOf, Exists
<1> HIDE DEF todo
<1>3. PICK j : /\ \/ j = [job[w] EXCEPT !.flushing = TRUE, !.todo = todo]
                  \/ j = [job[w] EXCEPT !.failing = TRUE, !.flushing = TRUE, !.todo = todo]
               /\ job' = [job EXCEPT ![w] = j]
  BY DEF StartFlush, FailLost, todo
<1>4. j \in Jobs /\ j.exec = job[w].exec /\ j.flushing = TRUE /\ j.todo = todo
  BY <1>1, <1>3, <1>a DEF Jobs
<1>5. /\ pc' = [pc EXCEPT ![w] = "flush"] /\ UNCHANGED <<rowVars, outbox, brokerVars>>
      /\ send' = send /\ crashes' = crashes /\ faults' = faults
  BY DEF StartFlush, FailLost, Goto
<1>6. JobOK("flush", j, send[w], status, outbox, announced)
  BY <1>2, <1>4 DEF JobOK, Ended, Terminal
<1>7. ProcOK(w, "flush", j, send[w], status, outbox, announced)
  BY <1>6, QuietLabel
<1>8. "flush" \in Labels
  BY DEF Labels
<1>9. send' = [send EXCEPT ![w] = send[w]] /\ send[w] \in Sends
  BY <1>5, <1>a, ProcFacts
<1> QED  BY <1>a, <1>b, <1>3, <1>4, <1>5, <1>7, <1>8, <1>9, LocalStep

LEMMA LocalWorkerSteps ==
  ASSUME ExecInv, NEW w \in Workers,
         \/ FindTerminal(w) \/ FindPending(w) \/ ClaimLost(w) \/ Prepare(w) \/ NodeThrows(w)
         \/ CompleteLost(w) \/ FlushNext(w) \/ FlushDone(w) \/ FailLost(w) \/ Ack(w)
         \/ FailThrows(w)
  PROVE  ExecInv'
<1> DEFINE e == job[w].exec
<1>a. /\ w \in Procs /\ job[w] \in Jobs /\ e \in Executions /\ send[w] \in Sends
      /\ job = [job EXCEPT ![w] = job[w]] /\ send = [send EXCEPT ![w] = send[w]]
  BY WorkerFacts, ProcFacts
<1>b. /\ JobOK(pc[w], job[w], send[w], status, outbox, announced)
      /\ crashes \in Nat /\ faults \in Nat
  BY WorkerFacts DEF ExecInv, TypeOK
<1>c. /\ job[w].flushing => Ended(status, e)
      /\ \A r \in job[w].todo : r.copy.status = "PENDING" /\ Exists(outbox[r.key])
  BY <1>b DEF JobOK
<1>1. CASE FindTerminal(w) \/ CompleteLost(w) \/ FailLost(w)
  BY <1>1, FlushStep DEF FindTerminal, CompleteLost, FailLost, GivesUp
<1>2. CASE FindPending(w)
  <2>1. ProcOK(w, "claim", job[w], send[w], status, outbox, announced)
    BY <1>c, PlainLabel
  <2> QED  BY <2>1, <1>2, <1>a, <1>b, LocalStep DEF FindPending, Goto, Labels
<1>3. CASE ClaimLost(w)
  <2>1. CASE Terminal(e) /\ StartFlush(w)
    BY <1>3, <2>1, FlushStep DEF ClaimLost
  <2>2. CASE ~ (Terminal(e) /\ StartFlush(w))
    <3>1. /\ pc' = [pc EXCEPT ![w] = "prepare"] /\ UNCHANGED <<rowVars, outbox, brokerVars>>
          /\ job' = job /\ send' = send /\ crashes' = crashes /\ faults' = faults
      BY <1>3, <2>2 DEF ClaimLost, Goto
    <3>2. ProcOK(w, "prepare", job[w], send[w], status, outbox, announced)
      BY <1>c, PlainLabel
    <3> QED  BY <3>1, <3>2, <1>a, <1>b, LocalStep DEF Labels
  <2> QED  BY <2>1, <2>2
<1>4. CASE Prepare(w)
  <2>1. PICK b \in BOOLEAN, l \in {"nodes", "error"} :
          /\ job' = [job EXCEPT ![w].node = 0, ![w].retryable = b]
          /\ pc' = [pc EXCEPT ![w] = l]
    BY <1>4 DEF Prepare, Goto
  <2>2. PICK j : j = [job[w] EXCEPT !.node = 0, !.retryable = b]
    OBVIOUS
  <2>a. 0 \in 0 .. NodeCount
    BY ExecutionAssumption
  <2>3. /\ j \in Jobs /\ j.exec = e /\ j.flushing = job[w].flushing
        /\ j.todo = job[w].todo /\ j.node = 0
    BY <2>2, <2>a, <1>a DEF Jobs
  <2>4. job' = [job EXCEPT ![w] = j]
    BY <2>1, <2>2
  <2>5. HistoryUpTo(announced, j.exec, j.node)
    BY <2>3 DEF HistoryUpTo
  <2>6. JobOK(l, j, send[w], status, outbox, announced)
    BY <2>3, <2>5, <1>c DEF JobOK
  <2>7. ProcOK(w, l, j, send[w], status, outbox, announced)
    BY <2>6, QuietLabel
  <2>8. /\ UNCHANGED <<rowVars, outbox, brokerVars>> /\ send' = send
        /\ crashes' = crashes /\ faults' = faults
    BY <1>4 DEF Prepare
  <2>9. l \in Labels /\ l \notin {"idle", "ack"}
    BY DEF Labels
  <2>10. send' = [send EXCEPT ![w] = send[w]]
    BY <2>8, <1>a
  <2>11. /\ pc' = [pc EXCEPT ![w] = l] /\ UNCHANGED <<rowVars, outbox, brokerVars>>
         /\ crashes' \in Nat /\ faults' \in Nat
    BY <2>1, <2>8, <1>b
  <2> QED  BY <2>3, <2>4, <2>7, <2>9, <2>10, <2>11, <1>a, LocalStep
<1>5. CASE NodeThrows(w)
  <2>1. PICK b \in BOOLEAN : job' = [job EXCEPT ![w].retryable = b]
    BY <1>5 DEF NodeThrows
  <2>2. PICK j : j = [job[w] EXCEPT !.retryable = b]
    OBVIOUS
  <2>3. /\ j \in Jobs /\ j.exec = e /\ j.flushing = job[w].flushing
        /\ j.todo = job[w].todo /\ j.node = job[w].node
    BY <2>2, <1>a DEF Jobs
  <2>4. /\ pc[w] = "run" /\ pc' = [pc EXCEPT ![w] = "failNode"]
        /\ UNCHANGED <<rowVars, outbox, brokerVars>> /\ send' = send
        /\ crashes' = crashes /\ faults' = faults
    BY <1>5 DEF NodeThrows, Goto
  <2>5. JobOK("failNode", j, send[w], status, outbox, announced)
    BY <2>3, <2>4, <1>b, <1>c DEF JobOK
  <2>6. ProcOK(w, "failNode", j, send[w], status, outbox, announced)
    BY <2>5, QuietLabel
  <2>7. job' = [job EXCEPT ![w] = j]
    BY <2>1, <2>2
  <2> QED  BY <2>3, <2>4, <2>6, <2>7, <1>a, <1>b, LocalStep DEF Labels
<1>6. CASE FlushNext(w)
  <2>1. PICK r \in job[w].todo :
          /\ job' = [job EXCEPT ![w].todo = @ \ {r}] /\ send' = [send EXCEPT ![w] = r]
    BY <1>6 DEF FlushNext
  <2>2. PICK j : j = [job[w] EXCEPT !.todo = job[w].todo \ {r}]
    OBVIOUS
  <2>3. /\ pc[w] = "flush" /\ pc' = [pc EXCEPT ![w] = "dispatch"]
        /\ UNCHANGED <<rowVars, outbox, brokerVars>> /\ crashes' = crashes /\ faults' = faults
    BY <1>6 DEF FlushNext, Goto
  <2>4. /\ j \in Jobs /\ j.exec = e /\ j.flushing = job[w].flushing
        /\ j.todo \subseteq job[w].todo
    BY <2>2, <1>a DEF Jobs
  <2>5. job[w].flushing
    BY <2>3, <1>b DEF JobOK
  <2>6. r \in Sends
    BY <1>a DEF Jobs, Sends, Keys
  <2>7. JobOK("dispatch", j, r, status, outbox, announced)
    BY <2>4, <1>c DEF JobOK
  <2>8. RunOK("dispatch", j, r, status, announced)
    BY <2>4, <2>5 DEF RunOK, Sending
  <2>9. SendOK("dispatch", r, outbox, announced)
    BY <1>c DEF SendOK, Exists
  <2>10. ProcOK(w, "dispatch", j, r, status, outbox, announced)
    BY <2>7, <2>8, <2>9, WorkerFacts DEF ProcOK
  <2>11. job' = [job EXCEPT ![w] = j]
    BY <2>1, <2>2
  <2> QED  BY <2>1, <2>3, <2>4, <2>6, <2>10, <2>11, <1>a, <1>b, LocalStep DEF Labels
<1>7. CASE FlushDone(w)
  <2>1. PICK l \in {"deadletter", "ack"} : pc' = [pc EXCEPT ![w] = l]
    BY <1>7 DEF FlushDone, Goto
  <2>2. /\ pc[w] = "flush" /\ UNCHANGED <<rowVars, outbox, brokerVars>>
        /\ job' = job /\ send' = send /\ crashes' = crashes /\ faults' = faults
    BY <1>7 DEF FlushDone
  <2>3. Ended(status, e)
    BY <2>2, <1>b DEF JobOK
  <2>4. JobOK(l, job[w], send[w], status, outbox, announced)
    BY <2>3, <1>c DEF JobOK
  <2>5. ProcOK(w, l, job[w], send[w], status, outbox, announced)
    BY <2>4, QuietLabel
  <2>6. l \in Labels /\ Terminal(e)
    BY <2>3 DEF Labels, Ended, Terminal
  <2>7. job' = [job EXCEPT ![w] = job[w]] /\ send' = [send EXCEPT ![w] = send[w]]
    BY <2>2, <1>a
  <2> QED  BY <2>1, <2>2, <2>5, <2>6, <2>7, <1>a, <1>b, LocalStep
<1>8. CASE Ack(w)
  <2>1. /\ pc[w] = "ack" /\ pc' = [pc EXCEPT ![w] = "idle"]
        /\ job' = [job EXCEPT ![w] = NoJob(e)] /\ send' = [send EXCEPT ![w] = NoSend(e)]
        /\ UNCHANGED <<rowVars, outbox, brokerVars>> /\ crashes' = crashes /\ faults' = faults
    BY <1>8 DEF Ack, EndJob, EndSend, Goto
  <2>2. ProcOK(w, "idle", NoJob(e), NoSend(e), status, outbox, announced)
    BY <1>a, NoJobFacts, PlainLabel
  <2> QED  BY <2>1, <2>2, <1>a, <1>b, NoJobFacts, LocalStep DEF Labels
<1>9. CASE FailThrows(w)
  <2>1. /\ pc[w] = "error" /\ pc' = [pc EXCEPT ![w] = "nack"] /\ job' = job /\ send' = send
        /\ UNCHANGED <<rowVars, outbox, brokerVars>> /\ crashes' = crashes /\ faults' \in Nat
    BY <1>9, <1>b DEF FailThrows, Goto, GivesUp
  <2>2. ProcOK(w, "nack", job[w], send[w], status, outbox, announced)
    BY <1>c, PlainLabel
  <2> QED  BY <2>1, <2>2, <1>a, <1>b, LocalStep DEF Labels
<1> QED  BY <1>1, <1>2, <1>3, <1>4, <1>5, <1>6, <1>7, <1>8, <1>9

LEMMA LocalProcSteps ==
  ASSUME ExecInv, NEW p \in Procs, SkipPublished(p) \/ DatabaseFails(p)
  PROVE  ExecInv'
<1>a. /\ job[p] \in Jobs /\ send[p] \in Sends /\ job[p].exec \in Executions
      /\ job = [job EXCEPT ![p] = job[p]] /\ SendOK(pc[p], send[p], outbox, announced)
      /\ crashes \in Nat /\ faults \in Nat
  BY ProcFacts DEF ProcOK, ExecInv, TypeOK
<1>1. CASE SkipPublished(p)
  <2>1. PICK l : l = After(p) /\ pc' = [pc EXCEPT ![p] = l]
    BY <1>1 DEF SkipPublished, Goto
  <2>2. PICK s : s = NoSend(job[p].exec) /\ send' = [send EXCEPT ![p] = s]
    BY <1>1 DEF SkipPublished, EndSend
  <2>3. /\ pc[p] = "dispatch" /\ send[p].key \in announced
        /\ UNCHANGED <<rowVars, outbox, brokerVars>> /\ job' = job
        /\ crashes' = crashes /\ faults' = faults
    BY <1>1, <1>a DEF SkipPublished, SendOK
  <2>4. s \in Sends
    BY <2>2, <1>a, NoJobFacts
  <2>5. CASE p \in Workers
    <3>1. /\ l \in Labels \ {"idle"} /\ (l = "ack" => Terminal(job[p].exec))
          /\ ProcOK(p, l, job[p], s, status, outbox, announced)
      BY <2>1, <2>3, <2>5, AfterFacts
    <3> QED  BY <3>1, <2>1, <2>2, <2>3, <2>4, <1>a, LocalStep
  <2>6. CASE p \in Dispatchers
    <3>1. l = "idle" /\ p \notin Workers
      BY <2>1, <2>6, ExecutionAssumption DEF After
    <3>2. ProcOK(p, l, job[p], s, status, outbox, announced)
      BY <3>1 DEF ProcOK, SendOK
    <3>3. l \in Labels
      BY <3>1 DEF Labels
    <3> QED  BY <3>1, <3>2, <3>3, <2>1, <2>2, <2>3, <2>4, <1>a, LocalStep
  <2> QED  BY <2>5, <2>6 DEF Procs
<1>2. CASE DatabaseFails(p)
  <2>1. /\ pc[p] \notin {"idle", "ack"} /\ Throw(p) /\ faults' \in Nat
        /\ UNCHANGED <<rowVars, outbox, brokerVars>> /\ crashes' = crashes
    BY <1>2, <1>a DEF DatabaseFails
  <2>2. PICK l \in Labels, j \in Jobs, s \in Sends :
          /\ pc' = [pc EXCEPT ![p] = l] /\ job' = [job EXCEPT ![p] = j]
          /\ send' = [send EXCEPT ![p] = s]
          /\ ProcOK(p, l, j, s, status, outbox, announced)
          /\ p \in Workers => l \notin {"idle", "ack"}
          /\ j.exec = job[p].exec
    BY <2>1, ThrowFacts
  <2> QED  BY <2>1, <2>2, <1>a, LocalStep
<1> QED  BY <1>1, <1>2

LEMMA LocalDispatcherSteps ==
  ASSUME ExecInv, NEW d \in Dispatchers,
         (\E k \in Keys : FetchPending(d, k)) \/ CrashDispatcher(d)
  PROVE  ExecInv'
<1>a. /\ d \in Procs /\ d \notin Workers /\ job[d] \in Jobs /\ job[d].exec \in Executions
      /\ job = [job EXCEPT ![d] = job[d]]
      /\ crashes \in Nat /\ faults \in Nat
      /\ outbox \in [Keys -> OutboxRows] /\ PublishedOK
  BY DispatcherFacts, ProcFacts DEF ExecInv, TypeOK
<1>1. ASSUME NEW k \in Keys, FetchPending(d, k)
      PROVE  ExecInv'
  <2>1. PICK s : s = [key |-> k, copy |-> outbox[k]]
    OBVIOUS
  <2>2. /\ pc' = [pc EXCEPT ![d] = "dispatch"] /\ send' = [send EXCEPT ![d] = s]
        /\ UNCHANGED <<rowVars, outbox, brokerVars>> /\ job' = job
        /\ crashes' = crashes /\ faults' = faults /\ outbox[k].status = "PENDING"
    BY <1>1, <2>1 DEF FetchPending, Goto, Dispatchable
  <2>3. s \in Sends /\ s.key = k /\ s.copy = outbox[k]
    BY <2>1, <1>a DEF Sends
  <2>4. ProcOK(d, "dispatch", job[d], s, status, outbox, announced)
    BY <2>2, <2>3, <1>a DEF ProcOK, SendOK, Exists
  <2> QED  BY <2>2, <2>3, <2>4, <1>a, LocalStep DEF Labels
<1>2. CASE CrashDispatcher(d)
  <2>1. /\ pc' = [pc EXCEPT ![d] = "idle"] /\ job' = [job EXCEPT ![d] = NoJob(job[d].exec)]
        /\ send' = [send EXCEPT ![d] = NoSend(job[d].exec)]
        /\ UNCHANGED <<rowVars, outbox, brokerVars>> /\ crashes' \in Nat /\ faults' \in Nat
    BY <1>2, <1>a DEF CrashDispatcher, EndJob, EndSend, Goto
  <2>2. ProcOK(d, "idle", NoJob(job[d].exec), NoSend(job[d].exec), status, outbox, announced)
    BY <1>a DEF ProcOK, SendOK
  <2> QED  BY <2>1, <2>2, <1>a, NoJobFacts, LocalStep DEF Labels
<1> QED  BY <1>1, <1>2

-----------------------------------------------------------------------------
(* Steps that write a row of the outbox, most of them with a change of state *)

LEMMA PersistedRows ==
  ASSUME outbox \in [Keys -> OutboxRows], NEW k \in Keys,
         outbox' = [outbox EXCEPT ![k] = persistOutboxEvent(@)]
  PROVE  /\ outbox' \in [Keys -> OutboxRows]
         /\ \A q \in Keys : Exists(outbox'[q]) <=> Exists(outbox[q]) \/ q = k
         /\ \A q \in Keys : outbox'[q].status = "PUBLISHED" => outbox[q].status = "PUBLISHED"
<1>1. outbox[k] \in OutboxRows
  OBVIOUS
<1>2. outbox' \in [Keys -> OutboxRows]
  BY <1>1, RowFacts
<1>3. ASSUME NEW q \in Keys
      PROVE  /\ Exists(outbox'[q]) <=> Exists(outbox[q]) \/ q = k
             /\ outbox'[q].status = "PUBLISHED" => outbox[q].status = "PUBLISHED"
  <2>1. CASE q = k
    <3>1. outbox'[q] = persistOutboxEvent(outbox[k])
      BY <2>1
    <3> QED  BY <3>1, <2>1, <1>1, RowFacts
  <2>2. CASE q # k
    <3>1. outbox'[q] = outbox[q]
      BY <2>2
    <3> QED  BY <3>1, <2>2
  <2> QED  BY <2>1, <2>2
<1> QED  BY <1>2, <1>3

LEMMA PersistStep ==
  ASSUME ExecInv, NEW w \in Workers, pc[w] \notin {"idle", "ack"},
         NEW k \in Keys, PersistAndDispatch(w, k),
         NEW j \in Jobs, job' = [job EXCEPT ![w] = j], j.exec = job[w].exec,
         UNCHANGED <<kind, ends, request, brokerVars, crashes>>, faults' \in Nat,
         nodeRow' \in [Executions -> [Nodes -> RowStatuses]],
         traces' \in [Executions -> SUBSET (Nodes \X Attempts \X {"SUCCEEDED", "FAILED"})],
         status' \in [Executions -> {"NONE", "PENDING", "RUNNING", "SUCCEEDED", "FAILED"}],
         NEW st, st = status', \A e \in Executions : Ended(status, e) => Ended(st, e),
         RowsOK', CompletedHasHistory',
         NEW s, s = [key |-> k, copy |-> persistOutboxEvent(outbox[k])],
         JobOK("dispatch", j, s, st, outbox, announced), RunOK("dispatch", j, s, st, announced)
  PROVE  ExecInv'
<1>a. /\ kind' = kind /\ ends' = ends /\ request' = request /\ crashes' = crashes
      /\ announced' = announced /\ timeline' = timeline /\ commands' = commands
      /\ deadLetters' = deadLetters
  BY DEF brokerVars
<1>b. outbox \in [Keys -> OutboxRows] /\ PublishedOK /\ TypeOK
  BY DEF ExecInv, TypeOK
<1>c. w \in Procs /\ w \notin Dispatchers
  BY WorkerFacts
<1>1. /\ outbox' = [outbox EXCEPT ![k] = persistOutboxEvent(@)]
      /\ pc' = [pc EXCEPT ![w] = "dispatch"] /\ send' = [send EXCEPT ![w] = s]
  BY DEF PersistAndDispatch, Goto
<1>2. /\ outbox' \in [Keys -> OutboxRows]
      /\ \A q \in Keys : Exists(outbox'[q]) <=> Exists(outbox[q]) \/ q = k
      /\ \A q \in Keys : outbox'[q].status = "PUBLISHED" => outbox[q].status = "PUBLISHED"
  BY <1>1, <1>b, PersistedRows
<1>3. /\ s \in Sends /\ s.key = k /\ Exists(s.copy)
      /\ s.copy.status = "PUBLISHED" => k \in announced
  <2>1. outbox[k] \in OutboxRows
    BY <1>b
  <2>2. s.key = k /\ s.copy = persistOutboxEvent(outbox[k])
    OBVIOUS
  <2> QED  BY <2>1, <2>2, <1>b, RowFacts DEF Sends, PublishedOK
<1>4. PICK ob : ob = outbox'
  OBVIOUS
<1>5. \A q \in Keys : Exists(outbox[q]) => Exists(ob[q])
  BY <1>2, <1>4
<1>6. ProcOK(w, "dispatch", j, s, st, ob, announced)
  <2>1. SendOK("dispatch", s, ob, announced)
    BY <1>2, <1>3, <1>4 DEF SendOK
  <2>2. \A r \in j.todo : r.key \in Keys
    BY DEF Jobs, Keys
  <2>3. JobOK("dispatch", j, s, st, ob, announced)
    BY <1>5, <2>2 DEF JobOK
  <2> QED  BY <2>1, <2>3, <1>c DEF ProcOK
<1>7. "dispatch" \in Labels
  BY DEF Labels
<1>8. /\ pc' \in [Procs -> Labels] /\ job' \in [Procs -> Jobs] /\ send' \in [Procs -> Sends]
      /\ ProcsOK'
  <2>1. pc \in [Procs -> Labels] /\ job \in [Procs -> Jobs] /\ send \in [Procs -> Sends] /\ ProcsOK
    BY DEF ExecInv, TypeOK
  <2>2. announced \subseteq announced
    OBVIOUS
  <2> QED  BY <2>1, <2>2, <1>a, <1>c, <1>1, <1>3, <1>4, <1>5, <1>6, <1>7, ProcMoves
<1>9. TypeOK'
  BY <1>a, <1>b, <1>2, <1>8 DEF TypeOK
<1>10. \A e \in Executions : Terminal(e) => Terminal(e)'
  BY DEF Terminal, Ended
<1>11. NeverStranded'
  <2>1. Kept(w, "dispatch", j, commands)
    BY DEF Kept
  <2> QED  BY <2>1, <1>a, <1>b, <1>c, <1>1, <1>10, StrandedMoves DEF ExecInv
<1>12. PublishedOK'
  BY <1>a, <1>b, <1>2 DEF PublishedOK
<1>13. DeadLetterMeansEnded'
  BY <1>a, <1>b, <1>10 DEF ExecInv, DeadLetterMeansEnded, TypeOK
<1> QED  BY <1>8, <1>9, <1>11, <1>12, <1>13 DEF ExecInv

\* The trace of a call of a model; its insertion may fail, and nothing else does.
LEMMA TraceTypes ==
  ASSUME ExecInv, NEW w \in Workers, job[w].node \in Nodes,
         NEW st \in {"SUCCEEDED", "FAILED"}, recordAiTrace(w, st)
  PROVE  /\ traces' \in [Executions -> SUBSET (Nodes \X Attempts \X {"SUCCEEDED", "FAILED"})]
         /\ faults' \in Nat
<1>1. /\ traces \in [Executions -> SUBSET (Nodes \X Attempts \X {"SUCCEEDED", "FAILED"})]
      /\ faults \in Nat
  BY DEF ExecInv, TypeOK
<1>2. job[w].attempt \in Attempts /\ job[w].exec \in Executions
  BY WorkerFacts, ProcFacts DEF Jobs
<1>3. PICK t \in Nodes \X Attempts \X {"SUCCEEDED", "FAILED"} :
        t = <<job[w].node, job[w].attempt, st>>
  BY <1>2
<1> QED  BY <1>1, <1>2, <1>3 DEF recordAiTrace

\* Writing an event of a node leaves the lifecycle rows alone.
LEMMA NodeRows ==
  ASSUME ExecInv, NEW k \in Keys, k[1] \in NodeEvents,
         outbox' = [outbox EXCEPT ![k] = persistOutboxEvent(@)],
         status' = status, request' = request, announced' = announced
  PROVE  RowsOK' /\ CompletedHasHistory'
<1>1. outbox \in [Keys -> OutboxRows]
  BY DEF ExecInv, TypeOK
<1>2. \A q \in Keys : Exists(outbox'[q]) <=> Exists(outbox[q]) \/ q = k
  BY <1>1, PersistedRows
<1>3. ASSUME NEW e \in Executions, NEW v \in LifecycleEvents
      PROVE  Exists(outbox'[<<v, e, 0>>]) <=> Exists(outbox[<<v, e, 0>>])
  <2>1. <<v, e, 0>> \in Keys /\ k # <<v, e, 0>>
    BY MadeKeys, KeyFacts
  <2> QED  BY <2>1, <1>2
<1> QED  BY <1>3 DEF ExecInv, RowsOK, CompletedHasHistory, LifecycleEvents

\* The steps of a node.
LEMMA NodeSteps ==
  ASSUME ExecInv, NEW w \in Workers, StartNode(w) \/ RunNode(w) \/ FailNode(w)
  PROVE  ExecInv'
<1> DEFINE e == job[w].exec
<1>a. /\ w \in Procs /\ job[w] \in Jobs /\ e \in Executions /\ job = [job EXCEPT ![w] = job[w]]
      /\ job[w].node \in 0 .. NodeCount
  BY WorkerFacts, ProcFacts DEF Jobs
<1>b. /\ JobOK(pc[w], job[w], send[w], status, outbox, announced)
      /\ nodeRow \in [Executions -> [Nodes -> RowStatuses]] /\ faults \in Nat
      /\ traces \in [Executions -> SUBSET (Nodes \X Attempts \X {"SUCCEEDED", "FAILED"})]
      /\ status \in [Executions -> {"NONE", "PENDING", "RUNNING", "SUCCEEDED", "FAILED"}]
  BY WorkerFacts DEF ExecInv, TypeOK
<1>c. /\ job[w].flushing => Ended(status, e)
      /\ \A r \in job[w].todo : r.copy.status = "PENDING" /\ Exists(outbox[r.key])
  BY <1>b DEF JobOK
<1>d. \A n \in Nodes, st \in RowStatuses : SetNode(e, n, st) =>
        nodeRow' \in [Executions -> [Nodes -> RowStatuses]]
  BY <1>a, <1>b DEF SetNode
<1>e. \A x \in Executions : Ended(status, x) => Ended(status, x)
  OBVIOUS
<1>1. CASE StartNode(w)
  <2>1. PICK n : n = job[w].node + 1
    OBVIOUS
  <2>2. n \in Nodes /\ n \in 0 .. NodeCount /\ n - 1 = job[w].node
    BY <1>1, <2>1, <1>a, ExecutionAssumption DEF StartNode, Nodes
  <2>3. PICK k \in Keys : k = <<"nodeStarted", e, n>>
    BY <2>2, <1>a, MadeKeys DEF NodeEvents
  <2>4. PICK s : s = [key |-> k, copy |-> persistOutboxEvent(outbox[k])]
    OBVIOUS
  <2>5. PICK j : j = [job[w] EXCEPT !.node = n]
    OBVIOUS
  <2>6. /\ j \in Jobs /\ j.exec = e /\ j.node = n /\ j.flushing = job[w].flushing
        /\ j.todo = job[w].todo
    BY <2>2, <2>5, <1>a DEF Jobs
  <2>7. /\ pc[w] = "nodes" /\ SetNode(e, n, "RUNNING") /\ PersistAndDispatch(w, k)
        /\ job' = [job EXCEPT ![w] = j]
        /\ UNCHANGED <<status, kind, ends, request, traces, brokerVars, crashes, faults>>
    BY <1>1, <2>1, <2>3, <2>5 DEF StartNode
  <2>8. HistoryUpTo(announced, e, n - 1)
    BY <2>2, <2>7, <1>b DEF JobOK
  <2>9. JobOK("dispatch", j, s, status, outbox, announced)
    BY <2>6, <1>c DEF JobOK
  <2>10. RunOK("dispatch", j, s, status, announced)
    BY <2>2, <2>3, <2>4, <2>6, <2>8 DEF RunOK
  <2>11. nodeRow' \in [Executions -> [Nodes -> RowStatuses]]
    BY <2>2, <2>7, <1>d DEF RowStatuses
  <2>12. RowsOK' /\ CompletedHasHistory'
    BY <2>3, <2>7, NodeRows DEF PersistAndDispatch, NodeEvents, brokerVars
  <2>13. UNCHANGED <<kind, ends, request, brokerVars, crashes>> /\ faults' \in Nat
         /\ status' = status /\ traces' = traces
    BY <2>7, <1>b
  <2> QED  BY <2>4, <2>6, <2>7, <2>9, <2>10, <2>11, <2>12, <2>13, <1>b, <1>e, PersistStep
<1>2. ASSUME NEW l \in {"run", "failNode"}, pc[w] = l,
             NEW st \in {"SUCCEEDED", "FAILED"}, NEW v \in {"nodeCompleted", "nodeFailed"},
             SetNode(e, job[w].node, st), recordAiTrace(w, st),
             PersistAndDispatch(w, <<v, e, job[w].node>>),
             v = "nodeCompleted" => l = "run",
             UNCHANGED <<status, kind, ends, request, brokerVars, job, crashes>>
      PROVE  ExecInv'
  <2>1. PICK n : n = job[w].node
    OBVIOUS
  <2>2. n \in Nodes
    BY <1>2, <2>1, <1>b DEF JobOK
  <2>3. PICK k \in Keys : k = <<v, e, n>>
    BY <2>2, <1>a, MadeKeys DEF NodeEvents
  <2>4. PICK s : s = [key |-> k, copy |-> persistOutboxEvent(outbox[k])]
    OBVIOUS
  <2>5. v = "nodeCompleted" =>
          HistoryUpTo(announced, e, n - 1) /\ <<"nodeStarted", e, n>> \in announced
    BY <1>2, <2>1, <1>b DEF JobOK
  <2>6. JobOK("dispatch", job[w], s, status, outbox, announced)
    BY <1>c DEF JobOK
  <2>7. RunOK("dispatch", job[w], s, status, announced)
    BY <2>1, <2>2, <2>3, <2>4, <2>5 DEF RunOK
  <2>8. nodeRow' \in [Executions -> [Nodes -> RowStatuses]]
    BY <1>2, <2>1, <2>2, <1>d DEF RowStatuses
  <2>9. PersistAndDispatch(w, k)
    BY <1>2, <2>1, <2>3
  <2>10. RowsOK' /\ CompletedHasHistory'
    BY <1>2, <2>3, <2>9, NodeRows DEF PersistAndDispatch, NodeEvents, brokerVars
  <2>11. /\ traces' \in [Executions -> SUBSET (Nodes \X Attempts \X {"SUCCEEDED", "FAILED"})]
         /\ faults' \in Nat
    BY <1>2, <2>1, <2>2, TraceTypes
  <2>12. /\ UNCHANGED <<kind, ends, request, brokerVars, crashes>>
         /\ status' = status /\ job' = [job EXCEPT ![w] = job[w]]
         /\ pc[w] \notin {"idle", "ack"}
    BY <1>2, <1>a
  <2> QED  BY <2>4, <2>6, <2>7, <2>8, <2>9, <2>10, <2>11, <2>12, <1>a, <1>b, <1>e, PersistStep
<1>3. CASE RunNode(w)
  BY <1>2, <1>3 DEF RunNode
<1>4. CASE FailNode(w)
  BY <1>2, <1>4 DEF FailNode
<1> QED  BY <1>1, <1>3, <1>4

\* The steps of the execution itself.
LEMMA StatusSteps ==
  ASSUME ExecInv, NEW w \in Workers, FindRunning(w) \/ Claim(w) \/ Complete(w) \/ Fail(w)
  PROVE  ExecInv'
<1>0. PICK e : e = job[w].exec
  OBVIOUS
<1>a. /\ w \in Procs /\ job[w] \in Jobs /\ e \in Executions /\ job = [job EXCEPT ![w] = job[w]]
  BY <1>0, WorkerFacts, ProcFacts
<1>b. /\ JobOK(pc[w], job[w], send[w], status, outbox, announced)
      /\ nodeRow \in [Executions -> [Nodes -> RowStatuses]] /\ faults \in Nat
      /\ traces \in [Executions -> SUBSET (Nodes \X Attempts \X {"SUCCEEDED", "FAILED"})]
      /\ status \in [Executions -> {"NONE", "PENDING", "RUNNING", "SUCCEEDED", "FAILED"}]
      /\ outbox \in [Keys -> OutboxRows]
  BY WorkerFacts DEF ExecInv, TypeOK
<1>c. /\ job[w].flushing => Ended(status, e)
      /\ \A r \in job[w].todo : r.copy.status = "PENDING" /\ Exists(outbox[r.key])
  BY <1>0, <1>b DEF JobOK
<1>d. \A v \in LifecycleEvents, x \in Executions : <<v, x, 0>> \in Keys
  BY MadeKeys
<1>1. ASSUME NEW v \in LifecycleEvents, PersistAndDispatch(w, <<v, e, 0>>),
             NEW to, status' = [status EXCEPT ![e] = to],
             UNCHANGED <<kind, ends, request, nodeRow, traces, brokerVars, crashes, faults>>,
             pc[w] \notin {"idle", "ack"}, ~ Ended(status, e),
             \/ v = "started" /\ status[e] \in {"PENDING", "RUNNING"} /\ to = "RUNNING"
             \/ /\ v = "completed" /\ status[e] = "RUNNING" /\ to = "SUCCEEDED"
                /\ HistoryUpTo(announced, e, NodeCount)
             \/ v = "failed" /\ status[e] \in {"PENDING", "RUNNING"} /\ to = "FAILED",
             NEW j \in Jobs, job' = [job EXCEPT ![w] = j], j.exec = e, ~ j.flushing,
             j.todo = job[w].todo
      PROVE  ExecInv'
  <2>1. PICK k \in Keys : k = <<v, e, 0>>
    BY <1>a, <1>d
  <2>2. PICK st : st = status'
    OBVIOUS
  <2>3. /\ st \in [Executions -> {"NONE", "PENDING", "RUNNING", "SUCCEEDED", "FAILED"}]
        /\ st[e] = to /\ \A x \in Executions \ {e} : st[x] = status[x]
    BY <1>1, <2>2, <1>a, <1>b
  <2>4. \A x \in Executions : Ended(status, x) => Ended(st, x)
    BY <1>1, <2>3 DEF Ended
  <2>5. \A q \in Keys : Exists(outbox'[q]) <=> Exists(outbox[q]) \/ q = k
    BY <1>1, <1>b, <2>1, PersistedRows DEF PersistAndDispatch
  <2>6. RowsOK'
    <3>1. request' = request /\ RowsOK
      BY <1>1 DEF ExecInv
    <3> SUFFICES ASSUME NEW x \in Executions
                 PROVE  /\ request[x] = "none" <=> st[x] = "NONE"
                        /\ Exists(outbox'[<<"started", x, 0>>]) => st[x] \notin {"NONE", "PENDING"}
                        /\ st[x] = "RUNNING" => Exists(outbox'[<<"started", x, 0>>])
                        /\ Exists(outbox'[<<"completed", x, 0>>]) => st[x] = "SUCCEEDED"
                        /\ Exists(outbox'[<<"failed", x, 0>>]) => st[x] = "FAILED"
      BY <3>1, <2>2 DEF RowsOK
    <3>2. \A u \in LifecycleEvents : Exists(outbox'[<<u, x, 0>>]) <=>
                                        Exists(outbox[<<u, x, 0>>]) \/ (u = v /\ x = e)
      BY <2>1, <2>5, <1>d
    <3>3. /\ Exists(outbox'[<<"started", x, 0>>]) <=>
               Exists(outbox[<<"started", x, 0>>]) \/ (v = "started" /\ x = e)
          /\ Exists(outbox'[<<"completed", x, 0>>]) <=>
               Exists(outbox[<<"completed", x, 0>>]) \/ (v = "completed" /\ x = e)
          /\ Exists(outbox'[<<"failed", x, 0>>]) <=>
               Exists(outbox[<<"failed", x, 0>>]) \/ (v = "failed" /\ x = e)
      BY <3>2 DEF LifecycleEvents
    <3>4. /\ request[x] = "none" <=> status[x] = "NONE"
          /\ Exists(outbox[<<"started", x, 0>>]) => status[x] \notin {"NONE", "PENDING"}
          /\ status[x] = "RUNNING" => Exists(outbox[<<"started", x, 0>>])
          /\ Exists(outbox[<<"completed", x, 0>>]) => status[x] = "SUCCEEDED"
          /\ Exists(outbox[<<"failed", x, 0>>]) => status[x] = "FAILED"
      BY <3>1 DEF RowsOK
    <3>5. CASE x # e
      BY <3>3, <3>4, <3>5, <2>3
    <3>6. CASE x = e
      BY <3>3, <3>4, <3>6, <2>3, <1>1
    <3> QED  BY <3>5, <3>6
  <2>7. CompletedHasHistory'
    <3>1. announced' = announced /\ CompletedHasHistory
      BY <1>1 DEF ExecInv, brokerVars
    <3>2. to = "SUCCEEDED" =>
            \A n \in Nodes : {<<"nodeStarted", e, n>>, <<"nodeCompleted", e, n>>} \subseteq announced
      BY <1>1 DEF HistoryUpTo, Nodes
    <3>3. ASSUME NEW x \in Executions, st[x] = "SUCCEEDED"
          PROVE  \A n \in Nodes :
                   {<<"nodeStarted", x, n>>, <<"nodeCompleted", x, n>>} \subseteq announced
      <4>1. CASE x = e
        BY <3>2, <3>3, <4>1, <2>3
      <4>2. CASE x # e
        BY <3>1, <3>3, <4>2, <2>3 DEF CompletedHasHistory
      <4> QED  BY <4>1, <4>2
    <3> QED  BY <3>1, <3>3, <2>2 DEF CompletedHasHistory
  <2>8. PICK s : s = [key |-> k, copy |-> persistOutboxEvent(outbox[k])]
    OBVIOUS
  <2>9. JobOK("dispatch", j, s, st, outbox, announced)
    BY <1>1, <1>c DEF JobOK
  <2>10. RunOK("dispatch", j, s, st, announced)
    BY <1>1, <2>1, <2>3, <2>8 DEF RunOK, Ended, LifecycleEvents
  <2>11. /\ PersistAndDispatch(w, k) /\ faults' \in Nat
         /\ UNCHANGED <<kind, ends, request, brokerVars, crashes>>
         /\ nodeRow' \in [Executions -> [Nodes -> RowStatuses]]
         /\ traces' \in [Executions -> SUBSET (Nodes \X Attempts \X {"SUCCEEDED", "FAILED"})]
    BY <1>1, <2>1, <1>b
  <2> QED  BY <1>0, <1>1, <2>1, <2>2, <2>3, <2>4, <2>6, <2>7, <2>8, <2>9, <2>10, <2>11, PersistStep
<1>2. CASE FindRunning(w)
  <2>1. /\ pc[w] = "find" /\ status[e] = "RUNNING" /\ PersistAndDispatch(w, <<"started", e, 0>>)
        /\ UNCHANGED <<kind, ends, request, nodeRow, traces, brokerVars, crashes, faults>>
        /\ status' = status /\ job' = job
    BY <1>0, <1>2 DEF FindRunning, rowVars
  <2>2. status' = [status EXCEPT ![e] = "RUNNING"]
    BY <2>1, <1>b
  <2>3. ~ Ended(status, e) /\ ~ job[w].flushing
    BY <2>1, <1>c DEF Ended
  <2> QED  BY <1>0, <1>1, <1>a, <2>1, <2>2, <2>3 DEF LifecycleEvents
<1>3. CASE Claim(w)
  <2>1. /\ pc[w] = "claim" /\ status[e] = "PENDING" /\ PersistAndDispatch(w, <<"started", e, 0>>)
        /\ UNCHANGED <<kind, ends, request, nodeRow, traces, brokerVars, crashes, faults>>
        /\ status' = [status EXCEPT ![e] = "RUNNING"] /\ job' = job
    BY <1>0, <1>3 DEF Claim
  <2>2. ~ Ended(status, e) /\ ~ job[w].flushing
    BY <2>1, <1>c DEF Ended
  <2> QED  BY <1>0, <1>1, <1>a, <2>1, <2>2 DEF LifecycleEvents
<1>4. CASE Complete(w)
  <2>1. /\ pc[w] = "nodes" /\ status[e] = "RUNNING" /\ job[w].node = NodeCount
        /\ PersistAndDispatch(w, <<"completed", e, 0>>)
        /\ UNCHANGED <<kind, ends, request, nodeRow, traces, brokerVars, crashes, faults>>
        /\ status' = [status EXCEPT ![e] = "SUCCEEDED"] /\ job' = job
    BY <1>0, <1>4 DEF Complete
  <2>2. ~ Ended(status, e) /\ ~ job[w].flushing
    BY <2>1, <1>c DEF Ended
  <2>3. HistoryUpTo(announced, e, NodeCount)
    BY <2>1, <1>0, <1>b DEF JobOK
  <2> QED  BY <1>0, <1>1, <1>a, <2>1, <2>2, <2>3 DEF LifecycleEvents
<1>5. CASE Fail(w)
  <2>1. PICK j : j = [job[w] EXCEPT !.failing = TRUE, !.flushing = FALSE]
    OBVIOUS
  <2>2. /\ pc[w] = "error" /\ status[e] \in {"PENDING", "RUNNING"}
        /\ PersistAndDispatch(w, <<"failed", e, 0>>)
        /\ UNCHANGED <<kind, ends, request, nodeRow, traces, brokerVars, crashes, faults>>
        /\ status' = [status EXCEPT ![e] = "FAILED"] /\ job' = [job EXCEPT ![w] = j]
    BY <1>0, <1>5, <2>1 DEF Fail, GivesUp
  <2>3. j \in Jobs /\ j.exec = e /\ ~ j.flushing /\ j.todo = job[w].todo
    BY <1>0, <1>a, <2>1 DEF Jobs
  <2>4. ~ Ended(status, e)
    BY <2>2 DEF Ended
  <2> QED  BY <1>1, <2>2, <2>3, <2>4 DEF LifecycleEvents
<1> QED  BY <1>2, <1>3, <1>4, <1>5

-----------------------------------------------------------------------------
(* Steps between a process and the broker *)

LEMMA BrokerStep ==
  ASSUME ExecInv, NEW p \in Procs, NEW l \in Labels, NEW j \in Jobs, NEW s \in Sends,
         pc' = [pc EXCEPT ![p] = l], job' = [job EXCEPT ![p] = j],
         send' = [send EXCEPT ![p] = s],
         UNCHANGED <<rowVars, timeline>>, crashes' \in Nat, faults' \in Nat,
         outbox' \in [Keys -> OutboxRows],
         \A q \in Keys : Exists(outbox'[q]) <=> Exists(outbox[q]),
         NEW an, an = announced', announced \subseteq an, an \subseteq Keys, PublishedOK',
         deadLetters' \subseteq Executions, \A e \in deadLetters' : Terminal(e),
         commands' \in [Executions -> [Attempts -> Nat]],
         ProcOK(p, l, j, s, status, outbox, an),
         NEW c, c = commands', Kept(p, l, j, c)
  PROVE  ExecInv'
<1>a. /\ status' = status /\ kind' = kind /\ ends' = ends /\ request' = request
      /\ nodeRow' = nodeRow /\ traces' = traces /\ timeline' = timeline
  BY DEF rowVars
<1>1. PICK ob : ob = outbox'
  OBVIOUS
<1>2. \A q \in Keys : Exists(outbox[q]) => Exists(ob[q])
  BY <1>1
<1>3. ProcOK(p, l, j, s, status, ob, an)
  <2>1. an \subseteq an /\ \A e \in Executions : Ended(status, e) => Ended(status, e)
    OBVIOUS
  <2> QED  BY <1>2, <2>1, ProcStable
<1>4. /\ pc' \in [Procs -> Labels] /\ job' \in [Procs -> Jobs] /\ send' \in [Procs -> Sends]
      /\ ProcsOK'
  <2>1. pc \in [Procs -> Labels] /\ job \in [Procs -> Jobs] /\ send \in [Procs -> Sends] /\ ProcsOK
    BY DEF ExecInv, TypeOK
  <2>2. \A e \in Executions : Ended(status, e) => Ended(status, e)
    OBVIOUS
  <2> QED  BY <2>1, <2>2, <1>a, <1>1, <1>2, <1>3, ProcMoves
<1>5. TypeOK'
  BY <1>a, <1>4 DEF ExecInv, TypeOK
<1>6. \A e \in Executions : Terminal(e) => Terminal(e)'
  BY <1>a DEF Terminal
<1>7. NeverStranded'
  <2>1. TypeOK /\ NeverStranded
    BY DEF ExecInv
  <2>2. \A e \in Executions : request'[e] = "sent" => request[e] = "sent"
    BY <1>a
  <2> QED  BY <2>1, <2>2, <1>6, StrandedMoves
<1>8. RowsOK'
  <2>1. \A v \in LifecycleEvents, e \in Executions :
          Exists(outbox'[<<v, e, 0>>]) <=> Exists(outbox[<<v, e, 0>>])
    BY MadeKeys
  <2> QED  BY <2>1, <1>a DEF ExecInv, RowsOK, LifecycleEvents
<1>9. CompletedHasHistory'
  BY <1>a DEF ExecInv, CompletedHasHistory
<1>10. DeadLetterMeansEnded'
  BY <1>6 DEF DeadLetterMeansEnded
<1> QED  BY <1>4, <1>5, <1>7, <1>8, <1>9, <1>10 DEF ExecInv

\* A process publishes the row it holds, fails to, or marks it.
LEMMA DispatchSteps ==
  ASSUME ExecInv, NEW p \in Procs, Publish(p) \/ PublishFails(p) \/ MarkSent(p)
  PROVE  ExecInv'
<1> DEFINE key == send[p].key
           copy == send[p].copy
<1>a. /\ job[p] \in Jobs /\ send[p] \in Sends /\ job[p].exec \in Executions
      /\ key \in Keys /\ copy \in OutboxRows
      /\ job = [job EXCEPT ![p] = job[p]] /\ send = [send EXCEPT ![p] = send[p]]
      /\ ProcOK(p, pc[p], job[p], send[p], status, outbox, announced)
  BY ProcFacts
<1>b. /\ outbox \in [Keys -> OutboxRows] /\ announced \subseteq Keys /\ PublishedOK
      /\ crashes \in Nat /\ faults \in Nat /\ deadLetters \subseteq Executions
      /\ commands \in [Executions -> [Attempts -> Nat]]
      /\ \A e \in deadLetters : Terminal(e)
  BY DEF ExecInv, TypeOK, DeadLetterMeansEnded
<1>c. ASSUME NEW l, NEW j, j.exec = job[p].exec,
             p \in Workers => l # "idle" /\ (l = "ack" => Terminal(job[p].exec))
      PROVE  Kept(p, l, j, commands)
  BY <1>c DEF Kept
<1>d. SendOK(pc[p], send[p], outbox, announced)
  BY <1>a DEF ProcOK
<1>1. CASE Publish(p)
  <2>1. /\ pc[p] = "dispatch" /\ pc' = [pc EXCEPT ![p] = "mark"] /\ job' = job /\ send' = send
        /\ UNCHANGED <<rowVars, timeline>> /\ outbox' = outbox /\ commands' = commands
        /\ deadLetters' = deadLetters /\ crashes' = crashes /\ faults' = faults
    BY <1>1 DEF Publish, Goto
  <2>2. PICK an : an = announced'
    OBVIOUS
  <2>3. an = announced \cup {key}
    BY <1>1, <2>2 DEF Publish
  <2>4. announced \subseteq an /\ an \subseteq Keys /\ key \in an
    BY <2>3, <1>a, <1>b
  <2>5. ProcOK(p, "dispatch", job[p], send[p], status, outbox, an)
    <3>1. \A e \in Executions : Ended(status, e) => Ended(status, e)
      OBVIOUS
    <3>2. \A q \in Keys : Exists(outbox[q]) => Exists(outbox[q])
      OBVIOUS
    <3> QED  BY <3>1, <3>2, <2>1, <2>4, <1>a, ProcStable
  <2>6. ProcOK(p, "mark", job[p], send[p], status, outbox, an)
    BY <2>4, <2>5 DEF ProcOK, SendOK, JobOK, RunOK, Sending
  <2>7. PublishedOK'
    BY <2>1, <2>2, <2>4, <1>b DEF PublishedOK
  <2>8. "mark" \in Labels
    BY DEF Labels
  <2>9. job' = [job EXCEPT ![p] = job[p]] /\ send' = [send EXCEPT ![p] = send[p]]
    BY <2>1, <1>a
  <2> QED  BY <2>1, <2>2, <2>4, <2>6, <2>7, <2>8, <2>9, <1>a, <1>b, <1>c, BrokerStep
<1>2. CASE PublishFails(p)
  <2>1. /\ pc[p] = "dispatch" /\ copy.status # "PUBLISHED" /\ Throw(p)
        /\ UNCHANGED <<rowVars, timeline>> /\ commands' = commands
        /\ deadLetters' = deadLetters /\ crashes' = crashes /\ faults' \in Nat
        /\ outbox' = [outbox EXCEPT ![key] = markOutboxPublishFailure(copy)]
    BY <1>2, <1>b DEF PublishFails
  <2>2. PICK an : an = announced'
    OBVIOUS
  <2>3. announced \subseteq an /\ an \subseteq Keys
    BY <1>2, <2>2, <1>a, <1>b DEF PublishFails
  <2>4. /\ Exists(copy) /\ Exists(outbox[key])
        /\ markOutboxPublishFailure(copy) \in OutboxRows
        /\ Exists(markOutboxPublishFailure(copy))
        /\ markOutboxPublishFailure(copy).status # "PUBLISHED"
    BY <2>1, <1>a, <1>d, RowFacts DEF SendOK
  <2>5. outbox' \in [Keys -> OutboxRows]
    BY <2>1, <2>4, <1>b
  <2>6. \A q \in Keys : outbox'[q] = IF q = key THEN markOutboxPublishFailure(copy) ELSE outbox[q]
    BY <2>1, <1>b
  <2>7. \A q \in Keys : Exists(outbox'[q]) <=> Exists(outbox[q])
    BY <2>4, <2>6
  <2>8. PublishedOK'
    BY <2>2, <2>3, <2>4, <2>6, <1>b DEF PublishedOK
  <2>9. PICK l \in Labels, j \in Jobs, s \in Sends :
          /\ pc' = [pc EXCEPT ![p] = l] /\ job' = [job EXCEPT ![p] = j]
          /\ send' = [send EXCEPT ![p] = s]
          /\ ProcOK(p, l, j, s, status, outbox, announced)
          /\ p \in Workers => l \notin {"idle", "ack"}
          /\ j.exec = job[p].exec
    BY <2>1, ThrowFacts
  <2>10. ProcOK(p, l, j, s, status, outbox, an)
    <3>1. \A e \in Executions : Ended(status, e) => Ended(status, e)
      OBVIOUS
    <3>2. \A q \in Keys : Exists(outbox[q]) => Exists(outbox[q])
      OBVIOUS
    <3> QED  BY <3>1, <3>2, <2>3, <2>9, ProcStable
  <2>11. crashes' \in Nat
    BY <2>1, <1>b
  <2> QED  BY <2>1, <2>2, <2>3, <2>5, <2>7, <2>8, <2>9, <2>10, <2>11, <1>b, <1>c, BrokerStep
<1>3. CASE MarkSent(p)
  <2>1. /\ pc[p] = "mark" /\ job' = job /\ outbox' = [outbox EXCEPT ![key] = MarkPublished]
        /\ UNCHANGED <<rowVars, timeline>> /\ commands' = commands /\ announced' = announced
        /\ deadLetters' = deadLetters /\ crashes' = crashes /\ faults' = faults
    BY <1>3 DEF MarkSent, brokerVars
  <2>2. PICK l, s : /\ l = After(p) /\ pc' = [pc EXCEPT ![p] = l]
                    /\ s = NoSend(job[p].exec) /\ send' = [send EXCEPT ![p] = s]
    BY <1>3 DEF MarkSent, Goto, EndSend
  <2>3. s \in Sends
    BY <2>2, <1>a, NoJobFacts
  <2>4. key \in announced /\ Exists(outbox[key])
    BY <2>1, <1>d DEF SendOK
  <2>5. MarkPublished \in OutboxRows /\ Exists(MarkPublished)
    BY <1>a, RowFacts
  <2>6. /\ outbox' \in [Keys -> OutboxRows]
        /\ \A q \in Keys : outbox'[q] = IF q = key THEN MarkPublished ELSE outbox[q]
    BY <2>1, <2>5, <1>b
  <2>7. /\ \A q \in Keys : Exists(outbox'[q]) <=> Exists(outbox[q])
        /\ PublishedOK'
    BY <2>1, <2>4, <2>5, <2>6, <1>b DEF PublishedOK
  <2>8. /\ l \in Labels /\ ProcOK(p, l, job[p], s, status, outbox, announced)
        /\ p \in Workers => l # "idle" /\ (l = "ack" => Terminal(job[p].exec))
    <3>1. CASE p \in Workers
      BY <3>1, <2>1, <2>2, <2>4, AfterFacts
    <3>2. CASE p \in Dispatchers
      <4>1. l = "idle" /\ p \notin Workers
        BY <2>2, <3>2, ExecutionAssumption DEF After
      <4> QED  BY <4>1 DEF ProcOK, SendOK, Labels
    <3> QED  BY <3>1, <3>2 DEF Procs
  <2>9. job' = [job EXCEPT ![p] = job[p]]
    BY <2>1, <1>a
  <2>10. announced \subseteq announced
    OBVIOUS
  <2> QED  BY <2>1, <2>2, <2>3, <2>6, <2>7, <2>8, <2>9, <2>10, <1>a, <1>b, <1>c, BrokerStep
<1> QED  BY <1>1, <1>2, <1>3

\* A worker takes, gives back, sends on or dead-letters a command.
LEMMA QueueSteps ==
  ASSUME ExecInv, NEW w \in Workers,
         \/ \E e \in Executions, a \in Attempts : Receive(w, e, a)
         \/ Retry(w) \/ DeadLetter(w) \/ Nack(w) \/ CrashWorker(w)
  PROVE  ExecInv'
<1>0. PICK x : x = job[w].exec
  OBVIOUS
<1>a. /\ w \in Procs /\ job[w] \in Jobs /\ send[w] \in Sends /\ x \in Executions
      /\ job = [job EXCEPT ![w] = job[w]] /\ send = [send EXCEPT ![w] = send[w]]
      /\ job[w].attempt \in Attempts
  BY <1>0, WorkerFacts, ProcFacts DEF Jobs
<1>b. /\ outbox \in [Keys -> OutboxRows] /\ announced \subseteq Keys /\ PublishedOK
      /\ crashes \in Nat /\ faults \in Nat /\ deadLetters \subseteq Executions
      /\ commands \in [Executions -> [Attempts -> Nat]]
      /\ \A e \in deadLetters : Terminal(e)
  BY DEF ExecInv, TypeOK, DeadLetterMeansEnded
<1>c. /\ JobOK(pc[w], job[w], send[w], status, outbox, announced)
      /\ job[w].flushing => Ended(status, job[w].exec)
      /\ \A r \in job[w].todo : r.copy.status = "PENDING" /\ Exists(outbox[r.key])
  BY WorkerFacts DEF JobOK
<1>d. ASSUME NEW l \in Labels, NEW j \in Jobs, NEW s \in Sends,
             pc' = [pc EXCEPT ![w] = l], job' = [job EXCEPT ![w] = j],
             send' = [send EXCEPT ![w] = s],
             UNCHANGED <<rowVars, outbox, announced, timeline>>, crashes' \in Nat, faults' \in Nat,
             deadLetters' \subseteq Executions, \A e \in deadLetters' : Terminal(e),
             NEW c, c = commands', c \in [Executions -> [Attempts -> Nat]], Kept(w, l, j, c),
             ProcOK(w, l, j, s, status, outbox, announced)
      PROVE  ExecInv'
  <2>1. /\ UNCHANGED <<rowVars, timeline>> /\ outbox' = outbox /\ announced' = announced
        /\ outbox' \in [Keys -> OutboxRows] /\ announced \subseteq announced
        /\ \A q \in Keys : Exists(outbox'[q]) <=> Exists(outbox[q])
    BY <1>d, <1>b
  <2>2. PublishedOK'
    BY <2>1, <1>b DEF PublishedOK
  <2> QED  BY <1>a, <1>b, <1>d, <2>1, <2>2, BrokerStep
<1>1. ASSUME NEW e \in Executions, NEW a \in Attempts, Receive(w, e, a)
      PROVE  ExecInv'
  <2>1. PICK j : j = [NoJob(e) EXCEPT !.attempt = a]
    OBVIOUS
  <2>2. PICK c : c = commands'
    OBVIOUS
  <2>3. /\ pc[w] = "idle" /\ pc' = [pc EXCEPT ![w] = "find"] /\ job' = [job EXCEPT ![w] = j]
        /\ UNCHANGED <<rowVars, outbox, announced, timeline>> /\ deadLetters' = deadLetters
        /\ send' = send /\ crashes' = crashes /\ faults' = faults
        /\ commands[e][a] > 0 /\ c = [commands EXCEPT ![e][a] = @ - 1]
    BY <1>1, <2>1, <2>2 DEF Receive, Goto
  <2>4. j \in Jobs /\ j.exec = e /\ j.flushing = FALSE /\ j.todo = {}
    BY <2>1, FreshJob
  <2>5. commands[e][a] - 1 \in Nat
    BY <2>3, <1>b
  <2>6. c \in [Executions -> [Attempts -> Nat]] /\ \A f \in Executions \ {e} : c[f] = commands[f]
    BY <2>3, <2>5, <1>b
  <2>7. Kept(w, "find", j, c)
    BY <2>3, <2>4, <2>6 DEF Kept
  <2>8. ProcOK(w, "find", j, send[w], status, outbox, announced)
    BY <2>4, PlainLabel
  <2> QED  BY <2>2, <2>3, <2>4, <2>6, <2>7, <2>8, <1>a, <1>b, <1>d DEF Labels
<1>2. CASE Retry(w)
  <2>1. PICK c : c = commands'
    OBVIOUS
  <2>2. PICK a : a = job[w].attempt + 1
    OBVIOUS
  <2>3. /\ pc[w] = "error" /\ pc' = [pc EXCEPT ![w] = "ack"] /\ job' = job /\ send' = send
        /\ UNCHANGED <<rowVars, outbox, announced, timeline>> /\ deadLetters' = deadLetters
        /\ crashes' = crashes /\ faults' = faults /\ job[w].attempt < MaxRetry
        /\ c = [commands EXCEPT ![x][a] = @ + 1]
    BY <1>2, <2>1, <2>2, <1>0 DEF Retry, Goto
  <2>4. a \in Attempts
    BY <2>2, <2>3, <1>a, ExecutionAssumption DEF Attempts
  <2>5. /\ c \in [Executions -> [Attempts -> Nat]] /\ c[x][a] > 0
        /\ \A f \in Executions \ {x} : c[f] = commands[f]
    BY <2>3, <2>4, <1>a, <1>b
  <2>6. Kept(w, "ack", job[w], c)
    BY <2>4, <2>5, <1>0 DEF Kept
  <2>7. ProcOK(w, "ack", job[w], send[w], status, outbox, announced)
    BY <1>c, PlainLabel
  <2> QED  BY <2>1, <2>3, <2>5, <2>6, <2>7, <1>a, <1>b, <1>d DEF Labels
<1>3. CASE DeadLetter(w)
  <2>1. /\ pc[w] = "deadletter" /\ pc' = [pc EXCEPT ![w] = "ack"] /\ job' = job /\ send' = send
        /\ UNCHANGED <<rowVars, outbox, announced, timeline>> /\ commands' = commands
        /\ crashes' = crashes /\ faults' = faults /\ deadLetters' = deadLetters \cup {x}
    BY <1>3, <1>0 DEF DeadLetter, Goto
  <2>2. Terminal(x)
    BY <2>1, <1>0, <1>c DEF JobOK, Ended, Terminal
  <2>3. deadLetters' \subseteq Executions /\ \A e \in deadLetters' : Terminal(e)
    BY <2>1, <2>2, <1>a, <1>b
  <2>4. Kept(w, "ack", job[w], commands)
    BY <2>2, <1>0 DEF Kept
  <2>5. ProcOK(w, "ack", job[w], send[w], status, outbox, announced)
    BY <1>c, PlainLabel
  <2> QED  BY <2>1, <2>3, <2>4, <2>5, <1>a, <1>b, <1>d DEF Labels
<1>4. CASE Nack(w) \/ CrashWorker(w)
  <2>1. PICK c : c = commands'
    OBVIOUS
  <2>2. PICK a : a = job[w].attempt
    OBVIOUS
  <2>3. /\ pc' = [pc EXCEPT ![w] = "idle"] /\ job' = [job EXCEPT ![w] = NoJob(x)]
        /\ send' = [send EXCEPT ![w] = NoSend(x)]
        /\ UNCHANGED <<rowVars, outbox, announced, timeline>> /\ deadLetters' = deadLetters
        /\ c = [commands EXCEPT ![x][a] = @ + 1]
    BY <1>4, <2>1, <2>2, <1>0 DEF Nack, CrashWorker, GiveBack, EndJob, EndSend, Goto
  <2>4. crashes' \in Nat /\ faults' \in Nat
    BY <1>4, <1>b DEF Nack, CrashWorker
  <2>5. /\ c \in [Executions -> [Attempts -> Nat]] /\ c[x][a] > 0
        /\ \A f \in Executions \ {x} : c[f] = commands[f]
    BY <2>2, <2>3, <1>a, <1>b
  <2>6. NoJob(x) \in Jobs /\ NoSend(x) \in Sends
    BY <1>a, NoJobFacts
  <2>7. Kept(w, "idle", NoJob(x), c)
    BY <2>2, <2>5, <1>0, <1>a DEF Kept
  <2>8. ProcOK(w, "idle", NoJob(x), NoSend(x), status, outbox, announced)
    BY <1>a, NoJobFacts, PlainLabel
  <2> QED  BY <2>1, <2>3, <2>4, <2>5, <2>6, <2>7, <2>8, <1>b, <1>d DEF Labels
<1> QED  BY <1>1, <1>2, <1>3, <1>4

-----------------------------------------------------------------------------
(* Steps of the API and of the workflow service *)

LEMMA OutsideSteps ==
  ASSUME ExecInv,
         \/ \E e \in Executions, k \in ExecutionKinds : CreateExecution(e, k)
         \/ \E e \in Executions : PublishRequest(e) \/ RequestLost(e)
         \/ \E k \in EndKeys : PersistEvent(k)
  PROVE  ExecInv'
<1>a. /\ status \in [Executions -> {"NONE", "PENDING", "RUNNING", "SUCCEEDED", "FAILED"}]
      /\ kind \in [Executions -> ExecutionKinds]
      /\ ends \in [Executions -> SUBSET {"returns", "retryable", "fatal"}]
      /\ request \in [Executions -> {"none", "created", "sent", "lost"}]
      /\ commands \in [Executions -> [Attempts -> Nat]] /\ timeline \subseteq EndKeys
      /\ faults \in Nat /\ TypeOK /\ RowsOK /\ NeverStranded
  BY DEF ExecInv, TypeOK
<1>b. /\ nodeRow' = nodeRow /\ traces' = traces /\ outbox' = outbox /\ announced' = announced
      /\ deadLetters' = deadLetters /\ pc' = pc /\ job' = job /\ send' = send
      /\ crashes' = crashes
  BY DEF CreateExecution, PublishRequest, RequestLost, PersistEvent, brokerVars, procVars, rowVars
<1> DEFINE Moved ==
        /\ status' \in [Executions -> {"NONE", "PENDING", "RUNNING", "SUCCEEDED", "FAILED"}]
        /\ kind' \in [Executions -> ExecutionKinds]
        /\ ends' \in [Executions -> SUBSET {"returns", "retryable", "fatal"}]
        /\ request' \in [Executions -> {"none", "created", "sent", "lost"}]
        /\ commands' \in [Executions -> [Attempts -> Nat]] /\ timeline' \subseteq EndKeys
        /\ faults' \in Nat
        /\ \A e \in Executions : status'[e] # status[e] =>
              status[e] = "NONE" /\ status'[e] = "PENDING"
        /\ \A e \in Executions : request'[e] = "none" <=> status'[e] = "NONE"
        /\ \A e \in Executions : request'[e] = "sent" =>
              \/ \E a \in Attempts : commands'[e][a] > 0
              \/ request[e] = "sent" /\ commands'[e] = commands[e]
<1>1. SUFFICES Moved
  <2>1. TypeOK'
    BY <1>a, <1>b, <1>1 DEF TypeOK
  <2>2. \A e \in Executions : Ended(status, e) <=> Ended(status', e)
    BY <1>1 DEF Ended
  <2>3. ProcsOK'
    <3>1. PICK st : st = status'
      OBVIOUS
    <3>2. ASSUME NEW p \in Procs
          PROVE  ProcOK(p, pc[p], job[p], send[p], st, outbox, announced)
      <4>1. /\ ProcOK(p, pc[p], job[p], send[p], status, outbox, announced)
            /\ job[p] \in Jobs /\ send[p] \in Sends
        BY ProcFacts
      <4>2. \A e \in Executions : Ended(status, e) => Ended(st, e)
        BY <2>2, <3>1
      <4>3. announced \subseteq announced /\ \A k \in Keys : Exists(outbox[k]) => Exists(outbox[k])
        OBVIOUS
      <4> QED  BY <4>1, <4>2, <4>3, ProcStable
    <3> QED  BY <3>1, <3>2, <1>b DEF ProcsOK
  <2>4. RowsOK'
    BY <1>1, <1>a, <1>b DEF RowsOK
  <2>5. PublishedOK' /\ CompletedHasHistory'
    BY <1>1, <1>b DEF ExecInv, PublishedOK, CompletedHasHistory
  <2>6. DeadLetterMeansEnded'
    BY <1>a, <1>b, <2>2 DEF ExecInv, DeadLetterMeansEnded, Ended, Terminal, TypeOK
  <2>7. NeverStranded'
    <3> SUFFICES ASSUME NEW e \in Executions, request'[e] = "sent", ~ Terminal(e)'
                 PROVE  \/ \E a \in Attempts : commands'[e][a] > 0
                        \/ \E w \in Workers : pc[w] \notin {"idle", "ack"} /\ job[w].exec = e
      BY <1>b DEF NeverStranded, WorksOn
    <3>1. ~ Terminal(e)
      BY <2>2 DEF Ended, Terminal
    <3> QED  BY <3>1, <1>1, <1>a DEF NeverStranded, WorksOn
  <2> QED  BY <2>1, <2>3, <2>4, <2>5, <2>6, <2>7 DEF ExecInv
<1>2. ASSUME NEW e \in Executions, NEW k \in ExecutionKinds, CreateExecution(e, k)
      PROVE  Moved
  <2>1. /\ request[e] = "none" /\ request' = [request EXCEPT ![e] = "created"]
        /\ status' = [status EXCEPT ![e] = "PENDING"] /\ kind' = [kind EXCEPT ![e] = k]
        /\ timeline' = timeline /\ commands' = commands /\ faults' = faults
    BY <1>2 DEF CreateExecution, brokerVars
  <2>2. PICK o \in SUBSET {"returns", "retryable", "fatal"} : ends' = [ends EXCEPT ![e] = o]
    BY <1>2, OutcomeTypes DEF CreateExecution
  <2> QED  BY <2>1, <2>2, <1>a DEF RowsOK
<1>3. ASSUME NEW e \in Executions, PublishRequest(e)
      PROVE  Moved
  <2>1. /\ request[e] = "created" /\ request' = [request EXCEPT ![e] = "sent"]
        /\ commands' = [commands EXCEPT ![e][0] = @ + 1]
        /\ status' = status /\ kind' = kind /\ ends' = ends /\ timeline' = timeline
        /\ faults' = faults
    BY <1>3 DEF PublishRequest
  <2>2. 0 \in Attempts
    BY ExecutionAssumption DEF Attempts
  <2>3. commands' \in [Executions -> [Attempts -> Nat]] /\ commands'[e][0] > 0
        /\ \A f \in Executions \ {e} : commands'[f] = commands[f]
    BY <2>1, <2>2, <1>a
  <2> QED  BY <2>1, <2>2, <2>3, <1>a DEF RowsOK
<1>4. ASSUME NEW e \in Executions, RequestLost(e)
      PROVE  Moved
  <2>1. /\ request[e] = "created" /\ request' = [request EXCEPT ![e] = "lost"]
        /\ status' = status /\ kind' = kind /\ ends' = ends /\ timeline' = timeline
        /\ faults' \in Nat /\ commands' = commands
    BY <1>4, <1>a DEF RequestLost, brokerVars
  <2> QED  BY <2>1, <1>a DEF RowsOK
<1>5. ASSUME NEW k \in EndKeys, PersistEvent(k)
      PROVE  Moved
  <2>1. /\ timeline' = timeline \cup {k} /\ status' = status /\ kind' = kind /\ ends' = ends
        /\ request' = request /\ commands' = commands /\ faults' = faults
    BY <1>5 DEF PersistEvent, rowVars
  <2> QED  BY <2>1, <1>a DEF RowsOK
<1> QED  BY <1>2, <1>3, <1>4, <1>5

-----------------------------------------------------------------------------
(* The invariant holds *)

LEMMA ExecInit == Init => ExecInv
<1> SUFFICES ASSUME Init PROVE ExecInv
  OBVIOUS
<1>1. PICK x \in Executions : /\ job = [p \in Procs |-> NoJob(x)]
                              /\ send = [p \in Procs |-> NoSend(x)]
  BY DEF Init
<1>a. NoJob(x) \in Jobs /\ NoSend(x) \in Sends /\ NoJob(x).flushing = FALSE /\ NoJob(x).todo = {}
  BY NoJobFacts
<1>2. TypeOK
  <2>1. outbox \in [Keys -> OutboxRows]
    BY DEF Init, NoRow, OutboxRows, OutboxStatuses
  <2>2. job \in [Procs -> Jobs] /\ send \in [Procs -> Sends] /\ pc \in [Procs -> Labels]
    BY <1>1, <1>a DEF Init, Labels
  <2>3. commands \in [Executions -> [Attempts -> Nat]]
    BY DEF Init
  <2> QED  BY <2>1, <2>2, <2>3 DEF Init, TypeOK, ExecutionKinds, RowStatuses
<1>3. ProcsOK
  <2> SUFFICES ASSUME NEW p \in Procs
               PROVE  ProcOK(p, pc[p], job[p], send[p], status, outbox, announced)
    BY DEF ProcsOK
  <2>1. pc[p] = "idle" /\ job[p] = NoJob(x)
    BY <1>1 DEF Init
  <2> QED  BY <2>1, <1>a DEF ProcOK, SendOK, JobOK, RunOK, Sending
<1>4. \A k \in Keys : outbox[k].status = "NONE"
  BY DEF Init, NoRow
<1>5. RowsOK
  <2>1. \A v \in LifecycleEvents, e \in Executions : ~ Exists(outbox[<<v, e, 0>>])
    BY <1>4, MadeKeys DEF Exists
  <2> QED  BY <2>1 DEF Init, RowsOK, LifecycleEvents
<1>6. PublishedOK
  BY <1>4 DEF PublishedOK
<1>7. CompletedHasHistory /\ DeadLetterMeansEnded /\ NeverStranded
  BY DEF Init, CompletedHasHistory, DeadLetterMeansEnded, NeverStranded
<1> QED  BY <1>2, <1>3, <1>5, <1>6, <1>7 DEF ExecInv

LEMMA ExecStep == ExecInv /\ [Next]_vars => ExecInv'
<1> SUFFICES ASSUME ExecInv, [Next]_vars PROVE ExecInv'
  OBVIOUS
<1>1. CASE UNCHANGED vars
  BY <1>1 DEF vars, rowVars, brokerVars, procVars, ExecInv, TypeOK, ProcsOK, RowsOK, PublishedOK,
              CompletedHasHistory, DeadLetterMeansEnded, NeverStranded, WorksOn, Terminal
<1>2. ASSUME NEW w \in Workers, WorkerStep(w) PROVE ExecInv'
  <2>1. w \in Procs
    BY DEF Procs
  <2> QED  BY <1>2, <2>1, QueueSteps, LocalWorkerSteps, StatusSteps, NodeSteps, LocalProcSteps,
              DispatchSteps DEF WorkerStep, Dispatching
<1>3. ASSUME NEW d \in Dispatchers, DispatcherStep(d) PROVE ExecInv'
  <2>1. d \in Procs
    BY DEF Procs
  <2> QED  BY <1>3, <2>1, LocalDispatcherSteps, LocalProcSteps, DispatchSteps
              DEF DispatcherStep, Dispatching
<1>4. CASE Fault
  BY <1>4, OutsideSteps, QueueSteps, LocalWorkerSteps, LocalDispatcherSteps, LocalProcSteps,
     DispatchSteps DEF Fault
<1> QED  BY <1>1, <1>2, <1>3, <1>4, OutsideSteps DEF Next

LEMMA ExecInvariant == Spec => []ExecInv
BY ExecInit, ExecStep, PTL DEF Spec

\* Every variable of the workers, the outbox and the queues has its type, whatever the
\* number of executions, replicas, retries and faults: a worker runs or fails only a node
\* of the workflow, and a retry never leaves the range of the delay queues.
THEOREM ExecutionTypeCorrect == Spec => []TypeOK
<1>1. ExecInv => TypeOK
  BY DEF ExecInv
<1> QED  BY <1>1, ExecInvariant, PTL

\* handleDelivery never loses a command: an execution that was requested and has not
\* ended always has a copy of its command in a queue or in the hands of a worker.
THEOREM NeverStrandedHolds == Spec => []NeverStranded
<1>1. ExecInv => NeverStranded
  BY DEF ExecInv
<1> QED  BY <1>1, ExecInvariant, PTL

\* publishCommandDeadLetter is reached only when the execution has ended.
THEOREM DeadLetterMeansEndedHolds == Spec => []DeadLetterMeansEnded
<1>1. ExecInv => DeadLetterMeansEnded
  BY DEF ExecInv
<1> QED  BY <1>1, ExecInvariant, PTL

\* When an execution has SUCCEEDED, the start and the completion of each of its nodes
\* were published, over however many attempts, workers, crashes and failed publications.
THEOREM CompletedHasHistoryHolds == Spec => []CompletedHasHistory
<1>1. ExecInv => CompletedHasHistory
  BY DEF ExecInv
<1> QED  BY <1>1, ExecInvariant, PTL

-----------------------------------------------------------------------------
(* The refinement of ExecutionLifecycle *)

\* Recorded and Announced, for given outbox rows and announced events.
Facts(ob) == {<<k[1], k[2]>> : k \in {l \in LifecycleKeys : Exists(ob[l])}}
Heard(an) == {<<k[1], k[2]>> : k \in an \cap LifecycleKeys}

LEMMA LifecycleKeyIs ==
  ASSUME NEW k \in LifecycleKeys, NEW l \in LifecycleKeys, k[1] = l[1], k[2] = l[2]
  PROVE  k = l
BY DEF LifecycleKeys

LEMMA FactsIn ==
  ASSUME NEW ob, NEW v \in LifecycleEvents, NEW e \in Executions
  PROVE  <<v, e>> \in Facts(ob) <=> Exists(ob[<<v, e, 0>>])
<1>1. PICK q \in LifecycleKeys : q = <<v, e, 0>>
  BY MadeKeys
<1>2. q[1] = v /\ q[2] = e
  BY <1>1
<1>3. ASSUME <<v, e>> \in Facts(ob) PROVE Exists(ob[q])
  <2>1. PICK k \in LifecycleKeys : Exists(ob[k]) /\ <<k[1], k[2]>> = <<v, e>>
    BY <1>3 DEF Facts
  <2>2. k = q
    BY <2>1, <1>2, LifecycleKeyIs
  <2> QED  BY <2>1, <2>2
<1>4. ASSUME Exists(ob[q]) PROVE <<v, e>> \in Facts(ob)
  BY <1>4, <1>2 DEF Facts
<1> QED  BY <1>1, <1>3, <1>4

LEMMA FactsSame ==
  ASSUME NEW ob, NEW ob2, \A k \in LifecycleKeys : Exists(ob2[k]) <=> Exists(ob[k])
  PROVE  Facts(ob2) = Facts(ob)
BY DEF Facts

LEMMA FactsGrow ==
  ASSUME NEW ob, NEW ob2, NEW q \in LifecycleKeys,
         \A k \in LifecycleKeys : Exists(ob2[k]) <=> Exists(ob[k]) \/ k = q
  PROVE  Facts(ob2) = Facts(ob) \cup {<<q[1], q[2]>>}
BY DEF Facts

LEMMA HeardGrows ==
  ASSUME NEW an, NEW q \in Keys
  PROVE  /\ q \in LifecycleKeys => Heard(an \cup {q}) = Heard(an) \cup {<<q[1], q[2]>>}
         /\ q \notin LifecycleKeys => Heard(an \cup {q}) = Heard(an)
BY DEF Heard

LEMMA Stutter ==
  ASSUME status' = status, announced' = announced,
         \A k \in LifecycleKeys : Exists(outbox'[k]) <=> Exists(outbox[k])
  PROVE  UNCHANGED Lifecycle!lifecycleVars
<1>1. Facts(outbox') = Facts(outbox)
  BY FactsSame
<1>2. Recorded' = Recorded
  BY <1>1 DEF Recorded, Facts
<1>3. Announced' = Announced
  BY DEF Announced
<1> QED  BY <1>2, <1>3 DEF Lifecycle!lifecycleVars

\* A worker changes the status of an execution and records the event.
LEMMA ChangeRefined ==
  ASSUME ExecInv, NEW w \in Workers, Claim(w) \/ Complete(w) \/ Fail(w)
  PROVE  Lifecycle!LifecycleNext
<1>1. PICK e : e = job[w].exec
  OBVIOUS
<1>a. e \in Executions /\ outbox \in [Keys -> OutboxRows] /\ RowsOK
  BY <1>1, WorkerFacts, ProcFacts DEF ExecInv, TypeOK
<1>2. ASSUME NEW v \in LifecycleEvents, PersistAndDispatch(w, <<v, e, 0>>),
             ~ Exists(outbox[<<v, e, 0>>]), announced' = announced,
             NEW from, status[e] \in from, NEW to, status' = [status EXCEPT ![e] = to]
      PROVE  Lifecycle!Change(e, from, to, v)
  <2>1. PICK q \in LifecycleKeys : q = <<v, e, 0>>
    BY <1>a, MadeKeys
  <2>2. \A k \in Keys : Exists(outbox'[k]) <=> Exists(outbox[k]) \/ k = q
    BY <1>2, <2>1, <1>a, PersistedRows DEF PersistAndDispatch, Keys
  <2>3. Facts(outbox') = Facts(outbox) \cup {<<q[1], q[2]>>}
    BY <2>2, FactsGrow DEF Keys
  <2>4. Recorded' = Recorded \cup {<<v, e>>}
    BY <2>1, <2>3 DEF Recorded, Facts
  <2>5. <<v, e>> \notin Recorded
    BY <1>2, <1>a, FactsIn DEF Recorded, Facts
  <2>6. Announced' = Announced
    BY <1>2 DEF Announced
  <2> QED  BY <1>2, <2>4, <2>5, <2>6 DEF Lifecycle!Change
<1>3. CASE Claim(w)
  <2>1. /\ PersistAndDispatch(w, <<"started", e, 0>>) /\ announced' = announced
        /\ status[e] = "PENDING" /\ status' = [status EXCEPT ![e] = "RUNNING"]
    BY <1>1, <1>3 DEF Claim, brokerVars
  <2>2. ~ Exists(outbox[<<"started", e, 0>>])
    BY <2>1, <1>a DEF RowsOK
  <2>3. Lifecycle!Start(e)
    BY <2>1, <2>2, <1>2 DEF Lifecycle!Start, LifecycleEvents
  <2> QED  BY <2>3, <1>a DEF Lifecycle!LifecycleNext
<1>4. CASE Complete(w)
  <2>1. /\ PersistAndDispatch(w, <<"completed", e, 0>>) /\ announced' = announced
        /\ status[e] = "RUNNING" /\ status' = [status EXCEPT ![e] = "SUCCEEDED"]
    BY <1>1, <1>4 DEF Complete, brokerVars
  <2>2. ~ Exists(outbox[<<"completed", e, 0>>])
    BY <2>1, <1>a DEF RowsOK
  <2>3. Lifecycle!Succeed(e)
    BY <2>1, <2>2, <1>2 DEF Lifecycle!Succeed, LifecycleEvents
  <2> QED  BY <2>3, <1>a DEF Lifecycle!LifecycleNext
<1>5. CASE Fail(w)
  <2>1. /\ PersistAndDispatch(w, <<"failed", e, 0>>) /\ announced' = announced
        /\ status[e] \in {"PENDING", "RUNNING"} /\ status' = [status EXCEPT ![e] = "FAILED"]
    BY <1>1, <1>5 DEF Fail, brokerVars
  <2>2. ~ Exists(outbox[<<"failed", e, 0>>])
    BY <2>1, <1>a DEF RowsOK
  <2>3. Lifecycle!FailIt(e)
    BY <2>1, <2>2, <1>2 DEF Lifecycle!FailIt, LifecycleEvents
  <2> QED  BY <2>3, <1>a DEF Lifecycle!LifecycleNext
<1> QED  BY <1>3, <1>4, <1>5

\* A process publishes a row, fails to, or marks it.
LEMMA PublishRefined ==
  ASSUME ExecInv, NEW p \in Procs, Publish(p) \/ PublishFails(p) \/ MarkSent(p)
  PROVE  [Lifecycle!LifecycleNext]_(Lifecycle!lifecycleVars)
<1>1. PICK q : q = send[p].key
  OBVIOUS
<1>a. /\ q \in Keys /\ outbox \in [Keys -> OutboxRows] /\ send[p].copy \in OutboxRows
      /\ SendOK(pc[p], send[p], outbox, announced)
  BY <1>1, ProcFacts DEF ProcOK, ExecInv, TypeOK
<1>2. Exists(outbox[q]) /\ Exists(send[p].copy) /\ status' = status
  BY <1>1, <1>a DEF Publish, PublishFails, MarkSent, SendOK, rowVars
<1>3. \A k \in Keys : Exists(outbox'[k]) <=> Exists(outbox[k])
  <2>1. CASE Publish(p)
    BY <2>1 DEF Publish
  <2>2. CASE PublishFails(p)
    <3>1. outbox' = [outbox EXCEPT ![q] = markOutboxPublishFailure(send[p].copy)]
      BY <1>1, <2>2 DEF PublishFails
    <3>2. Exists(markOutboxPublishFailure(send[p].copy))
      BY <1>a, <1>2, RowFacts
    <3> QED  BY <3>1, <3>2, <1>a, <1>2
  <2>3. CASE MarkSent(p)
    <3>1. outbox' = [outbox EXCEPT ![q] = MarkPublished]
      BY <1>1, <2>3 DEF MarkSent
    <3>2. Exists(MarkPublished)
      BY <1>a, RowFacts
    <3> QED  BY <3>1, <3>2, <1>a, <1>2
  <2> QED  BY <2>1, <2>2, <2>3
<1>4. announced' = announced \/ announced' = announced \cup {q}
  BY <1>1 DEF Publish, PublishFails, MarkSent, brokerVars
<1>5. Recorded' = Recorded
  <2>1. Facts(outbox') = Facts(outbox)
    BY <1>3, FactsSame DEF Keys
  <2> QED  BY <2>1 DEF Recorded, Facts
<1>6. CASE Announced' = Announced
  BY <1>2, <1>5, <1>6 DEF Lifecycle!lifecycleVars
<1>7. CASE Announced' # Announced
  <2>1. announced' = announced \cup {q}
    BY <1>4, <1>7 DEF Announced
  <2>2. Heard(announced') # Heard(announced)
    BY <1>7 DEF Announced, Heard
  <2>3. q \in LifecycleKeys /\ Heard(announced') = Heard(announced) \cup {<<q[1], q[2]>>}
    BY <2>1, <2>2, <1>a, HeardGrows
  <2>4. PICK f : f = <<q[1], q[2]>>
    OBVIOUS
  <2>5. Announced' = Announced \cup {f} /\ f \notin Announced
    BY <2>2, <2>3, <2>4 DEF Announced, Heard
  <2>6. f \in Recorded
    BY <2>3, <2>4, <1>2 DEF Recorded
  <2>7. Lifecycle!Announce(f)
    BY <2>5, <2>6, <1>2, <1>5 DEF Lifecycle!Announce
  <2> QED  BY <2>6, <2>7 DEF Lifecycle!LifecycleNext
<1> QED  BY <1>6, <1>7

LEMMA StepRefined ==
  ASSUME ExecInv, [Next]_vars
  PROVE  [Lifecycle!LifecycleNext]_(Lifecycle!lifecycleVars)
<1>a. outbox \in [Keys -> OutboxRows] /\ RowsOK /\ LifecycleKeys \subseteq Keys
  BY DEF ExecInv, TypeOK, Keys
\* Most steps change nothing a reader of the lifecycle sees.
<1>0. ASSUME status' = status, outbox' = outbox, announced' = announced
      PROVE  UNCHANGED Lifecycle!lifecycleVars
  BY <1>0, Stutter
\* Nor does an event that is written again, or is one of a node.
<1>b. ASSUME NEW w \in Workers, NEW k \in Keys, PersistAndDispatch(w, k),
             k \in LifecycleKeys => Exists(outbox[k]), status' = status, announced' = announced
      PROVE  UNCHANGED Lifecycle!lifecycleVars
  <2>1. \A q \in Keys : Exists(outbox'[q]) <=> Exists(outbox[q]) \/ q = k
    BY <1>b, <1>a, PersistedRows DEF PersistAndDispatch
  <2>2. \A q \in LifecycleKeys : Exists(outbox'[q]) <=> Exists(outbox[q])
    BY <1>b, <2>1, <1>a
  <2> QED  BY <1>b, <2>2, Stutter
<1>1. CASE UNCHANGED vars
  BY <1>0, <1>1 DEF vars, rowVars, brokerVars
<1>2. ASSUME NEW e \in Executions, NEW k \in ExecutionKinds, CreateExecution(e, k)
      PROVE  Lifecycle!LifecycleNext
  <2>1. /\ request[e] = "none" /\ status' = [status EXCEPT ![e] = "PENDING"]
        /\ outbox' = outbox /\ announced' = announced
    BY <1>2 DEF CreateExecution, brokerVars
  <2>2. status[e] = "NONE"
    BY <2>1, <1>a DEF RowsOK
  <2>3. Lifecycle!Request(e)
    BY <2>1, <2>2 DEF Lifecycle!Request, Recorded, Announced
  <2> QED  BY <2>3 DEF Lifecycle!LifecycleNext
<1>3. ASSUME NEW e \in Executions, PublishRequest(e) \/ RequestLost(e)
      PROVE  UNCHANGED Lifecycle!lifecycleVars
  BY <1>3, <1>0 DEF PublishRequest, RequestLost, brokerVars
<1>4. ASSUME NEW k \in EndKeys, PersistEvent(k)
      PROVE  UNCHANGED Lifecycle!lifecycleVars
  BY <1>4, <1>0 DEF PersistEvent, rowVars
<1>5. ASSUME NEW p \in Procs, SkipPublished(p) \/ DatabaseFails(p)
      PROVE  UNCHANGED Lifecycle!lifecycleVars
  BY <1>5, <1>0 DEF SkipPublished, DatabaseFails, rowVars, brokerVars
<1>6. ASSUME NEW d \in Dispatchers, (\E k \in Keys : FetchPending(d, k)) \/ CrashDispatcher(d)
      PROVE  UNCHANGED Lifecycle!lifecycleVars
  BY <1>6, <1>0 DEF FetchPending, CrashDispatcher, rowVars, brokerVars
<1>7. ASSUME NEW w \in Workers,
             \/ \E e \in Executions, a \in Attempts : Receive(w, e, a)
             \/ Retry(w) \/ DeadLetter(w) \/ Nack(w) \/ CrashWorker(w)
      PROVE  UNCHANGED Lifecycle!lifecycleVars
  BY <1>7, <1>0 DEF Receive, Retry, DeadLetter, Nack, CrashWorker, GiveBack, rowVars
<1>8. ASSUME NEW w \in Workers,
             \/ FindTerminal(w) \/ FindPending(w) \/ ClaimLost(w) \/ Prepare(w) \/ NodeThrows(w)
             \/ CompleteLost(w) \/ FlushNext(w) \/ FlushDone(w) \/ FailLost(w) \/ Ack(w)
             \/ FailThrows(w)
      PROVE  UNCHANGED Lifecycle!lifecycleVars
  BY <1>8, <1>0 DEF FindTerminal, FindPending, ClaimLost, Prepare, NodeThrows, CompleteLost,
       FlushNext, FlushDone, FailLost, Ack, FailThrows, StartFlush, rowVars, brokerVars
<1>9. ASSUME NEW w \in Workers, FindRunning(w)
      PROVE  UNCHANGED Lifecycle!lifecycleVars
  <2>1. PICK k \in Keys : k = <<"started", job[w].exec, 0>>
    BY WorkerFacts, ProcFacts, MadeKeys DEF LifecycleEvents
  <2>2. Exists(outbox[k])
    BY <1>9, <2>1, <1>a, WorkerFacts, ProcFacts DEF FindRunning, RowsOK
  <2>3. PersistAndDispatch(w, k) /\ status' = status /\ announced' = announced
    BY <1>9, <2>1 DEF FindRunning, rowVars, brokerVars
  <2> QED  BY <2>2, <2>3, <1>b
<1>10. ASSUME NEW w \in Workers, StartNode(w) \/ RunNode(w) \/ FailNode(w)
       PROVE  UNCHANGED Lifecycle!lifecycleVars
  <2>1. PICK v \in NodeEvents, n \in {job[w].node, job[w].node + 1} :
           /\ PersistAndDispatch(w, <<v, job[w].exec, n>>)
           /\ n = job[w].node => pc[w] \in {"run", "failNode"}
           /\ n = job[w].node + 1 => job[w].node < NodeCount
           /\ status' = status /\ announced' = announced
    <3>0. job[w].node # job[w].node + 1
      BY WorkerFacts, ProcFacts DEF Jobs
    <3>1. CASE StartNode(w)
      BY <3>0, <3>1 DEF StartNode, NodeEvents, brokerVars
    <3>2. CASE RunNode(w) \/ FailNode(w)
      BY <3>0, <3>2 DEF RunNode, FailNode, NodeEvents, brokerVars
    <3> QED  BY <1>10, <3>1, <3>2
  <2>2. job[w].exec \in Executions /\ job[w].node \in 0 .. NodeCount
    BY WorkerFacts, ProcFacts DEF Jobs
  <2>3. JobOK(pc[w], job[w], send[w], status, outbox, announced)
    BY WorkerFacts
  <2>4. n \in Nodes
    BY <2>1, <2>2, <2>3, ExecutionAssumption DEF JobOK, Nodes
  <2>5. PICK k \in Keys : k = <<v, job[w].exec, n>>
    BY <2>2, <2>4, MadeKeys
  <2>6. k \notin LifecycleKeys
    BY <2>5, KeyFacts
  <2> QED  BY <2>1, <2>5, <2>6, <1>b
<1>11. ASSUME NEW w \in Workers, WorkerStep(w)
       PROVE  [Lifecycle!LifecycleNext]_(Lifecycle!lifecycleVars)
  <2>1. w \in Procs
    BY DEF Procs
  <2> QED  BY <1>11, <2>1, <1>5, <1>7, <1>8, <1>9, <1>10, ChangeRefined, PublishRefined
              DEF WorkerStep, Dispatching
<1>12. ASSUME NEW d \in Dispatchers, DispatcherStep(d)
       PROVE  [Lifecycle!LifecycleNext]_(Lifecycle!lifecycleVars)
  <2>1. d \in Procs
    BY DEF Procs
  <2> QED  BY <1>12, <2>1, <1>5, <1>6, PublishRefined DEF DispatcherStep, Dispatching
<1>13. CASE Fault
  BY <1>13, <1>3, <1>5, <1>6, <1>7, <1>8, PublishRefined DEF Fault
<1> QED  BY <1>1, <1>2, <1>3, <1>4, <1>11, <1>12, <1>13 DEF Next

\* The execution rows and lifecycle events behave as an ExecutionLifecycle: started once,
\* ended once, recorded with every change, announced only when recorded, whatever the
\* workers, retries, redeliveries, crashes and failed publications behind them.
THEOREM ImplementsLifecycleHolds == Spec => ImplementsLifecycle
<1>1. Init => Lifecycle!LifecycleInit
  <2> SUFFICES ASSUME Init PROVE Lifecycle!LifecycleInit
    OBVIOUS
  <2>1. \A k \in LifecycleKeys : ~ Exists(outbox[k])
    BY DEF Init, NoRow, Exists, Keys
  <2>2. Recorded = {} /\ Announced = {}
    BY <2>1 DEF Recorded, Announced, Init
  <2> QED  BY <2>2 DEF Lifecycle!LifecycleInit, Init
<1>2. ExecInv /\ [Next]_vars => [Lifecycle!LifecycleNext]_(Lifecycle!lifecycleVars)
  BY StepRefined
<1> QED  BY <1>1, <1>2, ExecInvariant, PTL DEF Spec, ImplementsLifecycle, Lifecycle!LifecycleSpec

===============================================================================
