------------------------------- MODULE PageProofs -------------------------------
(***************************************************************************)
(* Proofs about the runs of an execution and about the page that shows it, *)
(* for every number of executions, workers, nodes and retries: without a   *)
(* crash nobody touches the nodes of an execution that has ended, a node   *)
(* that is misconfigured is not tried again, and what the page shows when  *)
(* it stops asking stays true.                                             *)
(*                                                                         *)
(* The argument: until a process crashes there is one copy of the command  *)
(* of an execution, in a queue or in the hands of one worker (SoleCopy),   *)
(* so that a worker that is inside a run knows that its execution has not  *)
(* ended and which of its nodes have succeeded (SafeRun).  A redelivery    *)
(* after a crash makes a second copy, and all of this is lost.             *)
(***************************************************************************)
EXTENDS ExecutionPage, ExecutionProofs, FiniteSetTheorems

-----------------------------------------------------------------------------
(* The inductive invariant *)

\* A worker at this label still has its delivery in its hands.
Holds(l) == l \notin {"idle", "ack"}

\* A worker at label l with job j dispatches an event of its run, one of vs.
SendingOne(l, j, v, vs) == Sending(l, j) /\ v \in vs

\* There is one copy of a command.
SoleCopy ==
  \A e \in Executions :
    /\ \A v, w \in Workers : WorksOn(v, e) /\ WorksOn(w, e) => v = w
    /\ \A w \in Workers, a \in Attempts : WorksOn(w, e) => commands[e][a] = 0
    /\ \A a \in Attempts : commands[e][a] \in {0, 1}
    /\ \A a, b \in Attempts : commands[e][a] = 1 /\ commands[e][b] = 1 => a = b

\* The worker has a delivery of e, one it is about to acknowledge included.
Busy(w, e) == pc[w] # "idle" /\ job[w].exec = e

\* There is none before the API has sent it.
SentOnly ==
  \A e \in Executions : request[e] # "sent" =>
    /\ \A a \in Attempts : commands[e][a] = 0
    /\ \A w \in Workers : ~ Busy(w, e)

\* The worker is between the start of a run and its end; v is the event it dispatches.
Active(l, j, v) ==
  \/ l \in {"claim", "prepare", "nodes", "run", "failNode"}
  \/ SendingOne(l, j, v, {"started", "nodeStarted", "nodeCompleted", "nodeFailed"})

DoneUpTo(nr, e, n) == \A i \in 1 .. n : nr[e][i] = "SUCCEEDED"

\* What a worker inside a run knows of its execution and of the nodes it has run.
SafeRun(l, j, v, st, nr) ==
  /\ Active(l, j, v) => ~ Ended(st, j.exec)
  /\ l = "nodes" => DoneUpTo(nr, j.exec, j.node)
  /\ SendingOne(l, j, v, {"nodeCompleted"}) => DoneUpTo(nr, j.exec, j.node)
  /\ l = "run" => DoneUpTo(nr, j.exec, j.node - 1)
  /\ SendingOne(l, j, v, {"nodeStarted"}) => DoneUpTo(nr, j.exec, j.node - 1)

SafeRuns == \A w \in Workers : SafeRun(pc[w], job[w], send[w].key[1], status, nodeRow)

\* The nodes of an execution that has SUCCEEDED.
SuccessesDone == \A e \in Executions : status[e] = "SUCCEEDED" => DoneUpTo(nodeRow, e, NodeCount)

\* The only run of a misconfigured workflow, which does not get past its last node.
OnceRun(l, j, v, kd) ==
  Holds(l) /\ kd[j.exec] = "misconfigured" =>
    /\ j.attempt = 0 /\ j.retryable = FALSE
    /\ l = "nodes" => j.node # NodeCount
    /\ SendingOne(l, j, v, {"nodeCompleted"}) => j.node # NodeCount

OnceRuns == \A w \in Workers : OnceRun(pc[w], job[w], send[w].key[1], kind)

\* ... and what is seen of it.
SeenOnce ==
  \A e \in Executions : kind[e] = "misconfigured" =>
    /\ ends[e] \subseteq {"fatal"}
    /\ \A a \in Attempts : a # 0 => commands[e][a] = 0
    /\ traces[e] \subseteq {<<NodeCount, 0, "FAILED">>}
    /\ status[e] # "SUCCEEDED"

\* Every other node that has succeeded left the trace of its call.
Traced ==
  \A e \in Executions, n \in Nodes : nodeRow[e][n] = "SUCCEEDED" /\ kind[e] # "misconfigured" =>
    \E t \in traces[e] : t[1] = n /\ t[3] = "SUCCEEDED"

\* Nothing belongs to an execution that was not created.
Untouched ==
  \A e \in Executions : status[e] = "NONE" =>
    /\ traces[e] = {}
    /\ \A n \in Nodes : nodeRow[e][n] = "NONE"

\* The timeline holds what was announced, and only recorded events are announced.
Told == timeline \subseteq announced /\ Announced \subseteq Recorded

RunInv ==
  /\ SentOnly /\ Untouched /\ Told
  /\ crashes <= faults
  /\ crashes = 0 => SoleCopy /\ SafeRuns /\ SuccessesDone
  /\ faults = 0 => OnceRuns /\ SeenOnce /\ Traced
-----------------------------------------------------------------------------
(* What a node that is misconfigured comes to *)

\* 422 and a body in JSON: an error that is not worth a retry, whatever else is the case.
LEMMA FatalOutcome == MisconfiguredOutcome \subseteq {"fatal"}
<1>1. ASSUME NEW env \in Misconfigured
      PROVE  executeWorkflowNode(env) = "fatal"
  <2>1. /\ env.type = "aiPrompt" /\ env.inTime = TRUE
        /\ env.provider \in ProviderNames
        /\ \/ env.provider \notin Registry
           \/ /\ env.provider # "deterministic" /\ env.credential = "unnamed"
              /\ ~(env.provider \in {"claude", "anthropic"} /\ env.environmentKey)
    BY DEF Misconfigured, Environments
  <2>2. \/ run_prompt(env) = Outcome("UnknownProviderError", 0)
        \/ run_prompt(env) = Outcome("ProviderConfigurationError", 0)
    <3>1. CASE env.provider \notin Registry
      BY <2>1, <3>1 DEF run_prompt, Registry, ProviderNames
    <3>2. CASE env.provider \in Registry
      <4>1. WithCredential(env) = Outcome("ProviderConfigurationError", 0)
        BY <2>1, <3>2 DEF WithCredential
      <4>2. env.provider \in {"claude", "anthropic"} =>
              AnthropicProvider(env) = Outcome("ProviderConfigurationError", 0)
        BY <4>1, <2>1, <3>2 DEF AnthropicProvider
      <4> QED  BY <4>1, <4>2, <2>1, <3>2 DEF run_prompt, OpenRouterProvider, OpenAiProvider,
                    Registry, ProviderNames
    <3> QED  BY <3>1, <3>2
  <2>3. /\ Answer(run_prompt(env)).status = 422
        /\ Answer(run_prompt(env)).json = TRUE
    BY <2>2 DEF Answer, Outcome
  <2>4. ~ isRetryableAiOrchestratorFailure(Answer(run_prompt(env)))
    BY <2>3 DEF isRetryableAiOrchestratorFailure, isRetryableStatus
  <2> DEFINE answer == Answer(run_prompt(env))
  <2>5. runPrompt(env) =
          CASE ~env.inTime \/ ~answer.json                      -> Throws(TRUE)
            [] env.inTime /\ answer.json /\ answer.status = 200 -> "returns"
            [] env.inTime /\ answer.json /\ answer.status # 200 ->
                 Throws(isRetryableAiOrchestratorFailure(answer))
    BY Zenon DEF runPrompt
  <2> HIDE DEF answer
  <2>6. answer.status = 422 /\ answer.json = TRUE /\ ~ isRetryableAiOrchestratorFailure(answer)
    BY <2>3, <2>4 DEF answer
  <2>7. runPrompt(env) = Throws(isRetryableAiOrchestratorFailure(answer))
    <3>1. answer.status # 200
      BY <2>6
    <3> QED  BY <3>1, <2>1, <2>5, <2>6, Zenon
  <2>8. runPrompt(env) = "fatal"
    BY <2>6, <2>7 DEF Throws
  <2> QED  BY <2>1, <2>8 DEF executeWorkflowNode
<1> QED  BY <1>1 DEF MisconfiguredOutcome

-----------------------------------------------------------------------------
(* One process moves *)

\* It takes no execution into its hands that it did not hold.
LEMMA FewerHands ==
  ASSUME TypeOK, NEW p \in Procs, NEW l, NEW j,
         pc' = [pc EXCEPT ![p] = l], job' = [job EXCEPT ![p] = j],
         p \in Workers /\ l # "idle" => Holds(pc[p]) /\ j.exec = job[p].exec
  PROVE  \A w \in Workers, e \in Executions :
           (WorksOn(w, e)' => WorksOn(w, e)) /\ (Busy(w, e)' => Busy(w, e))
<1> SUFFICES ASSUME NEW w \in Workers, NEW e \in Executions
             PROVE  (WorksOn(w, e)' => WorksOn(w, e)) /\ (Busy(w, e)' => Busy(w, e))
  OBVIOUS
<1>a. w \in Procs /\ pc \in [Procs -> Labels] /\ job \in [Procs -> Jobs]
  BY DEF TypeOK, Procs
<1>1. CASE w = p
  <2>1. pc'[w] = l /\ job'[w] = j
    BY <1>a, <1>1
  <2> QED  BY <2>1, <1>1 DEF WorksOn, Busy, Holds
<1>2. CASE w # p
  <2>1. pc'[w] = pc[w] /\ job'[w] = job[w]
    BY <1>a, <1>2
  <2> QED  BY <2>1 DEF WorksOn, Busy
<1> QED  BY <1>1, <1>2

LEMMA CopiesKept ==
  ASSUME \A w \in Workers, e \in Executions :
           (WorksOn(w, e)' => WorksOn(w, e)) /\ (Busy(w, e)' => Busy(w, e)),
         commands' = commands, request' = request
  PROVE  (SoleCopy => SoleCopy') /\ (SentOnly => SentOnly')
<1>1. SoleCopy => SoleCopy'
  BY DEF SoleCopy
<1>2. SentOnly => SentOnly'
  BY DEF SentOnly
<1> QED  BY <1>1, <1>2

\* A worker that holds nothing relies on nothing.
LEMMA IdleRun ==
  ASSUME NEW l, ~ Holds(l), NEW j, NEW v, NEW st, NEW nr, NEW kd
  PROVE  SafeRun(l, j, v, st, nr) /\ OnceRun(l, j, v, kd)
BY DEF Holds, SafeRun, OnceRun, Active, SendingOne, Sending

Moves(p, l, j, s) ==
  /\ pc' = [pc EXCEPT ![p] = l]
  /\ job' = [job EXCEPT ![p] = j]
  /\ send' = [send EXCEPT ![p] = s]

\* The others keep what they rely on if the executions they hold are left alone.
LEMMA RunsMove ==
  ASSUME TypeOK, NEW p \in Procs, NEW l, NEW j, NEW s, Moves(p, l, j, s),
         NEW st, NEW nr, NEW kd, st = status', nr = nodeRow', kd = kind',
         \A w \in Workers : w # p /\ Holds(pc[w]) =>
            /\ st[job[w].exec] = status[job[w].exec]
            /\ nr[job[w].exec] = nodeRow[job[w].exec]
            /\ kd[job[w].exec] = kind[job[w].exec]
  PROVE  /\ SafeRuns /\ (p \in Workers => SafeRun(l, j, s.key[1], st, nr)) => SafeRuns'
         /\ OnceRuns /\ (p \in Workers => OnceRun(l, j, s.key[1], kd)) => OnceRuns'
<1>a. /\ pc \in [Procs -> Labels] /\ job \in [Procs -> Jobs] /\ send \in [Procs -> Sends]
      /\ Workers \subseteq Procs
  BY DEF TypeOK, Procs
<1>b. pc'[p] = l /\ job'[p] = j /\ send'[p] = s
  BY <1>a DEF Moves
<1>c. \A w \in Workers : w # p => pc'[w] = pc[w] /\ job'[w] = job[w] /\ send'[w] = send[w]
  BY <1>a DEF Moves
<1>1. ASSUME SafeRuns, p \in Workers => SafeRun(l, j, s.key[1], st, nr), NEW w \in Workers
      PROVE  SafeRun(pc'[w], job'[w], send'[w].key[1], st, nr)
  <2>1. CASE w = p
    BY <2>1, <1>1, <1>b
  <2>2. CASE w # p
    <3>1. SafeRun(pc[w], job[w], send[w].key[1], status, nodeRow)
      BY <1>1 DEF SafeRuns
    <3>2. CASE Holds(pc[w])
      <4>1. Ended(st, job[w].exec) <=> Ended(status, job[w].exec)
        BY <2>2, <3>2 DEF Ended
      <4>2. \A n : DoneUpTo(nr, job[w].exec, n) <=> DoneUpTo(nodeRow, job[w].exec, n)
        BY <2>2, <3>2 DEF DoneUpTo
      <4>3. SafeRun(pc[w], job[w], send[w].key[1], st, nr)
        BY <3>1, <4>1, <4>2 DEF SafeRun
      <4> QED  BY <4>3, <2>2, <1>c
    <3>3. CASE ~ Holds(pc[w])
      BY <3>3, <2>2, <1>c, IdleRun
    <3> QED  BY <3>2, <3>3
  <2> QED  BY <2>1, <2>2
<1>2. ASSUME OnceRuns, p \in Workers => OnceRun(l, j, s.key[1], kd), NEW w \in Workers
      PROVE  OnceRun(pc'[w], job'[w], send'[w].key[1], kd)
  <2>1. CASE w = p
    BY <2>1, <1>2, <1>b
  <2>2. CASE w # p
    <3>1. OnceRun(pc[w], job[w], send[w].key[1], kind)
      BY <1>2 DEF OnceRuns
    <3>2. CASE Holds(pc[w])
      <4>1. OnceRun(pc[w], job[w], send[w].key[1], kd)
        BY <3>1, <3>2, <2>2 DEF OnceRun
      <4> QED  BY <4>1, <2>2, <1>c
    <3>3. CASE ~ Holds(pc[w])
      BY <3>3, <2>2, <1>c, IdleRun
    <3> QED  BY <3>2, <3>3
  <2> QED  BY <2>1, <2>2
<1> QED  BY <1>1, <1>2 DEF SafeRuns, OnceRuns

-----------------------------------------------------------------------------
(* Steps that leave the rows of the executions and the commands alone *)

\* Only what was announced is stored, and only what was recorded is announced: the
\* latter is what the abstract lifecycle says.
LEMMA ToldStep ==
  ASSUME ExecInv, Told, [Next]_vars
  PROVE  Told'
<1>1. Announced' \subseteq Recorded'
  <2>1. [Lifecycle!LifecycleNext]_(Lifecycle!lifecycleVars)
    BY StepRefined
  <2> QED  BY <2>1 DEF Told, Lifecycle!LifecycleNext, Lifecycle!lifecycleVars, Lifecycle!Request,
             Lifecycle!Start, Lifecycle!Succeed, Lifecycle!FailIt, Lifecycle!Change,
             Lifecycle!Announce
<1>2. timeline' \subseteq announced'
  <2>a. timeline \subseteq announced
    BY DEF Told
  <2>0. ASSUME UNCHANGED brokerVars PROVE timeline' \subseteq announced'
    BY <2>0, <2>a DEF brokerVars
  <2>1. CASE UNCHANGED vars
    BY <2>1, <2>a DEF vars, brokerVars
  <2>2. ASSUME NEW e \in Executions, NEW k \in ExecutionKinds, CreateExecution(e, k)
        PROVE  timeline' \subseteq announced'
    BY <2>2, <2>0 DEF CreateExecution
  <2>3. ASSUME NEW e \in Executions, PublishRequest(e) \/ RequestLost(e)
        PROVE  timeline' \subseteq announced'
    BY <2>3, <2>a DEF PublishRequest, RequestLost, brokerVars
  <2>4. ASSUME NEW k \in EndKeys, PersistEvent(k)
        PROVE  timeline' \subseteq announced'
    BY <2>4, <2>a DEF PersistEvent
  <2>5. ASSUME NEW p \in Procs,
               \/ SkipPublished(p) \/ Publish(p) \/ PublishFails(p) \/ MarkSent(p)
               \/ DatabaseFails(p)
        PROVE  timeline' \subseteq announced'
    BY <2>5, <2>a DEF SkipPublished, Publish, PublishFails, MarkSent, DatabaseFails, brokerVars
  <2>6. ASSUME NEW d \in Dispatchers, (\E k \in Keys : FetchPending(d, k)) \/ CrashDispatcher(d)
        PROVE  timeline' \subseteq announced'
    BY <2>6, <2>0 DEF FetchPending, CrashDispatcher
  <2>7. ASSUME NEW w \in Workers,
               \/ \E e \in Executions, a \in Attempts : Receive(w, e, a)
               \/ Retry(w) \/ DeadLetter(w) \/ Nack(w) \/ CrashWorker(w)
        PROVE  timeline' \subseteq announced'
    BY <2>7, <2>a DEF Receive, Retry, DeadLetter, Nack, CrashWorker, GiveBack
  <2>8. ASSUME NEW w \in Workers,
               \/ FindTerminal(w) \/ FindPending(w) \/ FindRunning(w) \/ Claim(w) \/ ClaimLost(w)
               \/ Prepare(w) \/ StartNode(w) \/ RunNode(w) \/ NodeThrows(w) \/ FailNode(w)
               \/ Complete(w) \/ CompleteLost(w) \/ FlushNext(w) \/ FlushDone(w)
               \/ Fail(w) \/ FailLost(w) \/ Ack(w) \/ FailThrows(w)
        PROVE  timeline' \subseteq announced'
    BY <2>8, <2>0 DEF FindTerminal, FindPending, FindRunning, Claim, ClaimLost, Prepare,
         StartNode, RunNode, NodeThrows, FailNode, Complete, CompleteLost, FlushNext, FlushDone,
         Fail, FailLost, Ack, FailThrows, StartFlush
  <2>9. ASSUME NEW w \in Workers, WorkerStep(w) PROVE timeline' \subseteq announced'
    <3>1. w \in Procs
      BY DEF Procs
    <3> QED  BY <2>9, <3>1, <2>5, <2>7, <2>8 DEF WorkerStep, Dispatching
  <2>10. ASSUME NEW d \in Dispatchers, DispatcherStep(d) PROVE timeline' \subseteq announced'
    <3>1. d \in Procs
      BY DEF Procs
    <3> QED  BY <2>10, <3>1, <2>5, <2>6 DEF DispatcherStep, Dispatching
  <2>11. CASE Fault
    BY <2>11, <2>3, <2>5, <2>6, <2>7, <2>8 DEF Fault
  <2> QED  BY <2>1, <2>2, <2>3, <2>4, <2>9, <2>10, <2>11 DEF Next
<1> QED  BY <1>1, <1>2 DEF Told

LEMMA HeldIsSent ==
  ASSUME ExecInv, SentOnly, NEW w \in Workers, pc[w] # "idle"
  PROVE  request[job[w].exec] = "sent" /\ status[job[w].exec] # "NONE"
<1>1. job[w].exec \in Executions
  BY WorkerFacts, ProcFacts
<1>2. request[job[w].exec] = "sent"
  BY <1>1 DEF SentOnly, Busy
<1> QED  BY <1>1, <1>2 DEF ExecInv, RowsOK

LEMMA LocalRun ==
  ASSUME ExecInv, RunInv, Told', NEW p \in Procs, NEW l, NEW j, NEW s,
         pc' = [pc EXCEPT ![p] = l], job' = [job EXCEPT ![p] = j],
         send' = [send EXCEPT ![p] = s],
         UNCHANGED <<rowVars, commands, crashes>>, faults' \in {faults, faults + 1},
         p \in Workers /\ l # "idle" => Holds(pc[p]) /\ j.exec = job[p].exec,
         p \in Workers /\ crashes = 0 => SafeRun(l, j, s.key[1], status, nodeRow),
         p \in Workers /\ faults' = 0 => OnceRun(l, j, s.key[1], kind)
  PROVE  RunInv'
<1>a. /\ status' = status /\ kind' = kind /\ ends' = ends /\ request' = request
      /\ nodeRow' = nodeRow /\ traces' = traces /\ commands' = commands /\ crashes' = crashes
  BY DEF rowVars
<1>b. TypeOK /\ faults \in Nat /\ crashes \in Nat
  BY DEF ExecInv, TypeOK
<1>1. \A w \in Workers, e \in Executions :
        (WorksOn(w, e)' => WorksOn(w, e)) /\ (Busy(w, e)' => Busy(w, e))
  BY <1>b, FewerHands
<1>2. (SoleCopy => SoleCopy') /\ (SentOnly => SentOnly')
  BY <1>1, <1>a, CopiesKept
<1>3. /\ SafeRuns /\ (p \in Workers => SafeRun(l, j, s.key[1], status, nodeRow)) => SafeRuns'
      /\ OnceRuns /\ (p \in Workers => OnceRun(l, j, s.key[1], kind)) => OnceRuns'
  <2>1. Moves(p, l, j, s)
    BY DEF Moves
  <2>2. status = status' /\ nodeRow = nodeRow' /\ kind = kind'
    BY <1>a
  <2> QED  BY <2>1, <2>2, <1>b, RunsMove
<1>4. (SuccessesDone => SuccessesDone') /\ (SeenOnce => SeenOnce') /\ (Traced => Traced')
      /\ (Untouched => Untouched')
  BY <1>a DEF SuccessesDone, SeenOnce, Traced, Untouched
<1>5. crashes' <= faults'
  BY <1>a, <1>b DEF RunInv
<1>6. faults' = 0 => faults = 0
  BY <1>b
<1> QED  BY <1>a, <1>2, <1>3, <1>4, <1>5, <1>6 DEF RunInv

\* dispatchOutboxEvent has returned, to a worker.
LEMMA AfterRun ==
  ASSUME ExecInv, NEW w \in Workers, pc[w] \in {"dispatch", "mark"}, NEW v
  PROVE  /\ SafeRun(pc[w], job[w], send[w].key[1], status, nodeRow) =>
              SafeRun(After(w), job[w], v, status, nodeRow)
         /\ OnceRun(pc[w], job[w], send[w].key[1], kind) => OnceRun(After(w), job[w], v, kind)
<1> DEFINE j == job[w]
           k == send[w].key[1]
<1>a. w \in Procs /\ w \notin Dispatchers /\ k \in LifecycleEvents \cup NodeEvents
  BY WorkerFacts, ProcFacts, KeyFacts
<1>b. Holds(pc[w])
  BY DEF Holds
<1>1. CASE j.flushing
  <2>1. After(w) = "flush"
    BY <1>1, <1>a DEF After
  <2> QED  BY <2>1, <1>b DEF SafeRun, OnceRun, Active, SendingOne, Sending
<1>2. CASE ~ j.flushing
  <2>1. After(w) = CASE k = "started"       -> "prepare"
                     [] k = "nodeStarted"   -> "run"
                     [] k = "nodeCompleted" -> "nodes"
                     [] k = "nodeFailed"    -> "error"
                     [] k = "completed"     -> "ack"
                     [] k = "failed"        -> "deadletter"
    BY <1>2, <1>a DEF After
  <2>2. Sending(pc[w], j)
    BY <1>2 DEF Sending
  <2> HIDE DEF k
  <2>3. \/ k = "started" /\ After(w) = "prepare"
        \/ k = "nodeStarted" /\ After(w) = "run"
        \/ k = "nodeCompleted" /\ After(w) = "nodes"
        \/ k = "nodeFailed" /\ After(w) = "error"
        \/ k = "completed" /\ After(w) = "ack"
        \/ k = "failed" /\ After(w) = "deadletter"
    BY <2>1, <1>a DEF LifecycleEvents, NodeEvents
  <2>4. SafeRun(pc[w], j, k, status, nodeRow) => SafeRun(After(w), j, v, status, nodeRow)
    BY <2>2, <2>3 DEF SafeRun, Active, SendingOne, Sending
  <2>5. OnceRun(pc[w], j, k, kind) => OnceRun(After(w), j, v, kind)
    BY <2>2, <2>3, <1>b DEF OnceRun, SendingOne, Sending
  <2> QED  BY <2>4, <2>5 DEF k
<1> QED  BY <1>1, <1>2

\* An exception, in a worker.
LEMMA ThrowRun ==
  ASSUME ExecInv, NEW w \in Workers, NEW l,
         l = CASE w \in Dispatchers                                -> "idle"
               [] w \in Workers /\ job[w].failing                  -> "nack"
               [] w \in Workers /\ ~job[w].failing /\ InNode(w)    -> "failNode"
               [] w \in Workers /\ ~job[w].failing /\ ~InNode(w)   -> "error",
         NEW j, j.exec = job[w].exec, NEW v
  PROVE  /\ Holds(l)
         /\ SafeRun(pc[w], job[w], send[w].key[1], status, nodeRow) =>
              SafeRun(l, j, v, status, nodeRow)
<1>1. w \notin Dispatchers
  BY WorkerFacts
<1>2. \/ l \in {"nack", "error"}
      \/ l = "failNode" /\ InNode(w)
  BY <1>1
<1>3. InNode(w) => Active(pc[w], job[w], send[w].key[1])
  BY DEF InNode, Active, SendingOne, Sending
<1>4. Holds(l)
  BY <1>2 DEF Holds
<1>5. CASE l \in {"nack", "error"}
  BY <1>4, <1>5 DEF SafeRun, Active, SendingOne, Sending
<1>6. CASE l = "failNode" /\ InNode(w)
  <2>1. SafeRun(pc[w], job[w], send[w].key[1], status, nodeRow) => ~ Ended(status, j.exec)
    BY <1>3, <1>6 DEF SafeRun
  <2>2. ~ Sending(l, j)
    BY <1>6 DEF Sending
  <2> QED  BY <2>1, <2>2, <1>4, <1>6 DEF SafeRun, SendingOne
<1> QED  BY <1>2, <1>5, <1>6

LEMMA RunFacts ==
  ASSUME ExecInv, RunInv, NEW w \in Workers
  PROVE  /\ w \in Procs /\ w \notin Dispatchers
         /\ pc[w] \in Labels /\ job[w] \in Jobs /\ send[w] \in Sends /\ job[w].exec \in Executions
         /\ job = [job EXCEPT ![w] = job[w]] /\ send = [send EXCEPT ![w] = send[w]]
         /\ crashes = 0 => SafeRun(pc[w], job[w], send[w].key[1], status, nodeRow)
         /\ faults = 0 => OnceRun(pc[w], job[w], send[w].key[1], kind)
<1>1. w \in Procs /\ w \notin Dispatchers
  BY WorkerFacts
<1>2. /\ pc[w] \in Labels /\ job[w] \in Jobs /\ send[w] \in Sends /\ job[w].exec \in Executions
      /\ job = [job EXCEPT ![w] = job[w]] /\ send = [send EXCEPT ![w] = send[w]]
  BY <1>1, ProcFacts
<1>3. /\ crashes = 0 => SafeRun(pc[w], job[w], send[w].key[1], status, nodeRow)
      /\ faults = 0 => OnceRun(pc[w], job[w], send[w].key[1], kind)
  BY DEF RunInv, SafeRuns, OnceRuns
<1> QED  BY <1>1, <1>2, <1>3

LEMMA LocalProcRuns ==
  ASSUME ExecInv, RunInv, Told', NEW p \in Procs,
         SkipPublished(p) \/ Publish(p) \/ MarkSent(p) \/ PublishFails(p) \/ DatabaseFails(p)
  PROVE  RunInv'
<1>a. /\ job[p] \in Jobs /\ send[p] \in Sends
      /\ job = [job EXCEPT ![p] = job[p]] /\ send = [send EXCEPT ![p] = send[p]]
      /\ crashes \in Nat /\ faults \in Nat /\ faults + 1 # 0
  BY ProcFacts DEF ExecInv, TypeOK
<1>1. CASE SkipPublished(p) \/ MarkSent(p)
  <2>1. PICK l : l = After(p) /\ pc' = [pc EXCEPT ![p] = l]
    BY <1>1 DEF SkipPublished, MarkSent, Goto
  <2>2. PICK s : send' = [send EXCEPT ![p] = s]
    BY <1>1 DEF SkipPublished, MarkSent, EndSend
  <2>3. /\ pc[p] \in {"dispatch", "mark"} /\ job' = [job EXCEPT ![p] = job[p]]
        /\ UNCHANGED <<rowVars, commands, crashes>> /\ faults' = faults
    BY <1>1, <1>a DEF SkipPublished, MarkSent, brokerVars
  <2>4. Holds(pc[p])
    BY <2>3 DEF Holds
  <2>5. ASSUME p \in Workers
        PROVE  /\ crashes = 0 => SafeRun(l, job[p], s.key[1], status, nodeRow)
               /\ faults = 0 => OnceRun(l, job[p], s.key[1], kind)
    <3>1. /\ SafeRun(pc[p], job[p], send[p].key[1], status, nodeRow) =>
               SafeRun(After(p), job[p], s.key[1], status, nodeRow)
          /\ OnceRun(pc[p], job[p], send[p].key[1], kind) =>
               OnceRun(After(p), job[p], s.key[1], kind)
      BY <2>3, <2>5, AfterRun
    <3> QED  BY <3>1, <2>1, <2>5, RunFacts
  <2> QED  BY <2>1, <2>2, <2>3, <2>4, <2>5, LocalRun
<1>2. CASE Publish(p)
  <2>1. /\ pc[p] = "dispatch" /\ pc' = [pc EXCEPT ![p] = "mark"]
        /\ job' = [job EXCEPT ![p] = job[p]] /\ send' = [send EXCEPT ![p] = send[p]]
        /\ UNCHANGED <<rowVars, commands, crashes>> /\ faults' = faults
    BY <1>2, <1>a DEF Publish, Goto
  <2>2. Holds(pc[p]) /\ Holds("mark") /\ (Sending("mark", job[p]) <=> Sending(pc[p], job[p]))
    BY <2>1 DEF Holds, Sending
  <2>3. /\ SafeRun(pc[p], job[p], send[p].key[1], status, nodeRow) =>
             SafeRun("mark", job[p], send[p].key[1], status, nodeRow)
        /\ OnceRun(pc[p], job[p], send[p].key[1], kind) =>
             OnceRun("mark", job[p], send[p].key[1], kind)
    BY <2>1, <2>2 DEF SafeRun, OnceRun, Active, SendingOne
  <2>4. ASSUME p \in Workers
        PROVE  /\ crashes = 0 => SafeRun("mark", job[p], send[p].key[1], status, nodeRow)
               /\ faults = 0 => OnceRun("mark", job[p], send[p].key[1], kind)
    BY <2>3, <2>4, RunFacts
  <2> QED  BY <2>1, <2>2, <2>4, LocalRun
<1>3. CASE PublishFails(p) \/ DatabaseFails(p)
  <2>1. PICK l : /\ l = CASE p \in Dispatchers                                -> "idle"
                          [] p \in Workers /\ job[p].failing                  -> "nack"
                          [] p \in Workers /\ ~job[p].failing /\ InNode(p)    -> "failNode"
                          [] p \in Workers /\ ~job[p].failing /\ ~InNode(p)   -> "error"
                 /\ pc' = [pc EXCEPT ![p] = l]
    BY <1>3 DEF PublishFails, DatabaseFails, Throw, Goto
  <2>2. PICK s : send' = [send EXCEPT ![p] = s]
    BY <1>3 DEF PublishFails, DatabaseFails, Throw, EndSend
  <2>3. PICK j : j = [job[p] EXCEPT !.retryable = TRUE]
    OBVIOUS
  <2>4. job' = [job EXCEPT ![p] = j] /\ j.exec = job[p].exec
    BY <1>3, <2>3, <1>a DEF PublishFails, DatabaseFails, Throw, Jobs
  <2>5. /\ UNCHANGED <<rowVars, commands, crashes>> /\ faults' = faults + 1
        /\ pc[p] \notin {"idle", "ack"}
    BY <1>3 DEF PublishFails, DatabaseFails, brokerVars
  <2>6. Holds(pc[p])
    BY <2>5 DEF Holds
  <2>7. ASSUME p \in Workers, crashes = 0
        PROVE  SafeRun(l, j, s.key[1], status, nodeRow)
    BY <2>1, <2>4, <2>7, RunFacts, ThrowRun
  <2> QED  BY <2>1, <2>2, <2>4, <2>5, <2>6, <2>7, <1>a, LocalRun
<1> QED  BY <1>1, <1>2, <1>3

LEMMA LocalDispatcherRuns ==
  ASSUME ExecInv, RunInv, Told', NEW d \in Dispatchers, NEW k \in Keys, FetchPending(d, k)
  PROVE  RunInv'
<1>1. /\ d \in Procs /\ d \notin Workers /\ job = [job EXCEPT ![d] = job[d]]
  BY DispatcherFacts, ProcFacts
<1>2. PICK s : send' = [send EXCEPT ![d] = s]
  BY DEF FetchPending
<1>3. /\ pc' = [pc EXCEPT ![d] = "dispatch"] /\ job' = [job EXCEPT ![d] = job[d]]
      /\ UNCHANGED <<rowVars, commands, crashes>> /\ faults' = faults
  BY <1>1 DEF FetchPending, Goto, brokerVars
<1> QED  BY <1>1, <1>2, <1>3, LocalRun

\* At these labels a worker relies on nothing but the verdict it carries.
LEMMA PlainRun ==
  ASSUME NEW l \in {"find", "flush", "error", "deadletter", "nack"}, NEW j, NEW v, NEW st, NEW nr
  PROVE  /\ SafeRun(l, j, v, st, nr)
         /\ \A i, m, u, kd : Holds(m) /\ OnceRun(m, i, u, kd) /\ j.exec = i.exec
               /\ j.attempt = i.attempt /\ j.retryable = i.retryable => OnceRun(l, j, v, kd)
BY DEF SafeRun, OnceRun, Active, SendingOne, Sending, Holds

LEMMA FlushRun ==
  ASSUME ExecInv, RunInv, Told', NEW w \in Workers, Holds(pc[w]), StartFlush(w) \/ FailLost(w)
  PROVE  RunInv'
<1>a. w \in Procs /\ job[w] \in Jobs /\ send = [send EXCEPT ![w] = send[w]]
  BY RunFacts
<1>1. PICK j : /\ \/ j = [job[w] EXCEPT !.flushing = TRUE, !.todo = PendingOf(job[w].exec)]
                  \/ j = [job[w] EXCEPT !.failing = TRUE, !.flushing = TRUE,
                                        !.todo = PendingOf(job[w].exec)]
               /\ job' = [job EXCEPT ![w] = j]
  BY DEF StartFlush, FailLost
<1>2. j.exec = job[w].exec /\ j.attempt = job[w].attempt /\ j.retryable = job[w].retryable
  BY <1>1, <1>a DEF Jobs
<1>3. /\ pc' = [pc EXCEPT ![w] = "flush"] /\ send' = [send EXCEPT ![w] = send[w]]
      /\ UNCHANGED <<rowVars, commands, crashes>> /\ faults' = faults
  BY <1>a DEF StartFlush, FailLost, Goto, brokerVars
<1>4. SafeRun("flush", j, send[w].key[1], status, nodeRow)
  BY PlainRun
<1>5. faults = 0 => OnceRun("flush", j, send[w].key[1], kind)
  BY <1>2, RunFacts, PlainRun
<1> QED  BY <1>a, <1>1, <1>2, <1>3, <1>4, <1>5, LocalRun

LEMMA LocalWorkerRuns ==
  ASSUME ExecInv, RunInv, Told', NEW w \in Workers,
         \/ FindTerminal(w) \/ FindPending(w) \/ FindRunning(w) \/ ClaimLost(w) \/ Prepare(w)
         \/ NodeThrows(w) \/ CompleteLost(w) \/ FlushNext(w) \/ FlushDone(w) \/ FailLost(w)
         \/ FailThrows(w) \/ DeadLetter(w) \/ Ack(w)
  PROVE  RunInv'
<1> DEFINE e == job[w].exec
<1>a. /\ w \in Procs /\ job[w] \in Jobs /\ e \in Executions
      /\ job = [job EXCEPT ![w] = job[w]] /\ send = [send EXCEPT ![w] = send[w]]
      /\ crashes = 0 => SafeRun(pc[w], job[w], send[w].key[1], status, nodeRow)
      /\ faults = 0 => OnceRun(pc[w], job[w], send[w].key[1], kind)
      /\ faults \in Nat
  BY RunFacts DEF ExecInv, TypeOK
<1>1. CASE FindTerminal(w) \/ CompleteLost(w) \/ FailLost(w)
  BY <1>1, FlushRun DEF FindTerminal, CompleteLost, FailLost, GivesUp, Holds
<1>2. CASE FindPending(w)
  <2>1. /\ pc[w] = "find" /\ status[e] = "PENDING" /\ pc' = [pc EXCEPT ![w] = "claim"]
        /\ job' = [job EXCEPT ![w] = job[w]] /\ send' = [send EXCEPT ![w] = send[w]]
        /\ UNCHANGED <<rowVars, commands, crashes>> /\ faults' = faults
    BY <1>2, <1>a DEF FindPending, Goto, brokerVars
  <2>2. SafeRun("claim", job[w], send[w].key[1], status, nodeRow)
    BY <2>1 DEF SafeRun, SendingOne, Sending, Ended
  <2>3. faults = 0 => OnceRun("claim", job[w], send[w].key[1], kind)
    BY <2>1, <1>a DEF OnceRun, SendingOne, Sending, Holds
  <2>4. Holds(pc[w])
    BY <2>1 DEF Holds
  <2> QED  BY <2>1, <2>2, <2>3, <2>4, <1>a, LocalRun
<1>3. CASE FindRunning(w)
  <2>1. PICK s : /\ s = [key |-> <<"started", e, 0>>,
                         copy |-> persistOutboxEvent(outbox[<<"started", e, 0>>])]
                 /\ send' = [send EXCEPT ![w] = s]
    BY <1>3 DEF FindRunning, PersistAndDispatch
  <2>2. /\ pc[w] = "find" /\ status[e] = "RUNNING" /\ pc' = [pc EXCEPT ![w] = "dispatch"]
        /\ job' = [job EXCEPT ![w] = job[w]]
        /\ UNCHANGED <<rowVars, commands, crashes>> /\ faults' = faults
    BY <1>3, <1>a DEF FindRunning, PersistAndDispatch, Goto, brokerVars
  <2>3. s.key[1] = "started"
    BY <2>1
  <2>4. SafeRun("dispatch", job[w], s.key[1], status, nodeRow)
    BY <2>2, <2>3 DEF SafeRun, SendingOne, Ended
  <2>5. faults = 0 => OnceRun("dispatch", job[w], s.key[1], kind)
    BY <2>2, <2>3, <1>a DEF OnceRun, SendingOne, Holds
  <2>6. Holds(pc[w])
    BY <2>2 DEF Holds
  <2> QED  BY <2>1, <2>2, <2>4, <2>5, <2>6, <1>a, LocalRun
<1>4. CASE ClaimLost(w)
  <2>1. CASE Terminal(e) /\ StartFlush(w)
    BY <1>4, <2>1, FlushRun DEF ClaimLost, Holds
  <2>2. CASE ~ (Terminal(e) /\ StartFlush(w))
    <3>1. /\ pc[w] = "claim" /\ status[e] = "RUNNING" /\ pc' = [pc EXCEPT ![w] = "prepare"]
          /\ job' = [job EXCEPT ![w] = job[w]] /\ send' = [send EXCEPT ![w] = send[w]]
          /\ UNCHANGED <<rowVars, commands, crashes>> /\ faults' = faults
      BY <1>4, <2>2, <1>a DEF ClaimLost, Goto, brokerVars
    <3>2. SafeRun("prepare", job[w], send[w].key[1], status, nodeRow)
      BY <3>1 DEF SafeRun, SendingOne, Sending, Ended
    <3>3. faults = 0 => OnceRun("prepare", job[w], send[w].key[1], kind)
      BY <3>1, <1>a DEF OnceRun, SendingOne, Sending, Holds
    <3>4. Holds(pc[w])
      BY <3>1 DEF Holds
    <3> QED  BY <3>1, <3>2, <3>3, <3>4, <1>a, LocalRun
  <2> QED  BY <2>1, <2>2
<1>5. CASE Prepare(w)
  <2>1. PICK l : /\ l = IF kind[e] \in {"sound", "misconfigured"} THEN "nodes" ELSE "error"
                 /\ pc' = [pc EXCEPT ![w] = l]
    BY <1>5 DEF Prepare, Goto
  <2>2. PICK j : j = [job[w] EXCEPT !.node = 0, !.retryable = (kind[e] = "flaky")]
    OBVIOUS
  <2>3. /\ j.exec = e /\ j.attempt = job[w].attempt /\ j.node = 0
        /\ j.retryable = (kind[e] = "flaky")
    BY <2>2, <1>a DEF Jobs
  <2>4. job' = [job EXCEPT ![w] = j]
    BY <1>5, <2>2 DEF Prepare
  <2>5. /\ pc[w] = "prepare" /\ send' = [send EXCEPT ![w] = send[w]]
        /\ UNCHANGED <<rowVars, commands, crashes>> /\ faults' = faults
    BY <1>5, <1>a DEF Prepare, brokerVars
  <2>6. Holds(pc[w]) /\ Active(pc[w], job[w], send[w].key[1])
    BY <2>5 DEF Holds, Active
  <2>7. DoneUpTo(nodeRow, e, 0)
    BY DEF DoneUpTo
  <2>8. crashes = 0 => SafeRun(l, j, send[w].key[1], status, nodeRow)
    <3>1. CASE l = "error"
      BY <3>1, PlainRun
    <3>2. CASE l = "nodes"
      BY <3>2, <2>3, <2>6, <2>7, <1>a DEF SafeRun, SendingOne, Sending
    <3> QED  BY <3>1, <3>2, <2>1
  <2>9. faults = 0 => OnceRun(l, j, send[w].key[1], kind)
    BY <2>1, <2>3, <2>6, <1>a, ExecutionAssumption DEF OnceRun, SendingOne, Sending
  <2> QED  BY <2>1, <2>3, <2>4, <2>5, <2>6, <2>8, <2>9, <1>a, LocalRun
<1>6. CASE NodeThrows(w)
  <2>1. PICK o \in NodeOutcomes(w) \ {"returns"} :
            job' = [job EXCEPT ![w].retryable = (o = "retryable")]
    BY <1>6 DEF NodeThrows
  <2>2. PICK j : j = [job[w] EXCEPT !.retryable = (o = "retryable")]
    OBVIOUS
  <2>3. /\ j.exec = e /\ j.attempt = job[w].attempt /\ j.retryable = (o = "retryable")
    BY <2>2, <1>a DEF Jobs
  <2>4. job' = [job EXCEPT ![w] = j]
    BY <2>1, <2>2
  <2>5. /\ pc[w] = "run" /\ pc' = [pc EXCEPT ![w] = "failNode"]
        /\ send' = [send EXCEPT ![w] = send[w]]
        /\ UNCHANGED <<rowVars, commands, crashes>> /\ faults' = faults
    BY <1>6, <1>a DEF NodeThrows, Goto, brokerVars
  <2>6. Holds(pc[w]) /\ Active(pc[w], job[w], send[w].key[1])
    BY <2>5 DEF Holds, Active
  <2>7. crashes = 0 => SafeRun("failNode", j, send[w].key[1], status, nodeRow)
    BY <2>3, <2>6, <1>a DEF SafeRun, SendingOne, Sending
  <2>8. faults = 0 /\ kind[e] = "misconfigured" => o # "retryable"
    <3>1. faults = 0 /\ kind[e] = "misconfigured" => ends[e] \subseteq {"fatal"}
      BY <1>a DEF RunInv, SeenOnce
    <3> QED  BY <3>1 DEF NodeOutcomes
  <2>9. faults = 0 => OnceRun("failNode", j, send[w].key[1], kind)
    BY <2>3, <2>6, <2>8, <1>a DEF OnceRun, SendingOne, Sending
  <2> QED  BY <2>3, <2>4, <2>5, <2>6, <2>7, <2>9, <1>a, LocalRun
<1>7. CASE FlushNext(w)
  <2>1. PICK r \in job[w].todo :
          /\ job' = [job EXCEPT ![w].todo = @ \ {r}] /\ send' = [send EXCEPT ![w] = r]
    BY <1>7 DEF FlushNext
  <2>2. PICK j : j = [job[w] EXCEPT !.todo = job[w].todo \ {r}]
    OBVIOUS
  <2>3. /\ pc[w] = "flush" /\ pc' = [pc EXCEPT ![w] = "dispatch"]
        /\ UNCHANGED <<rowVars, commands, crashes>> /\ faults' = faults
    BY <1>7 DEF FlushNext, Goto, brokerVars
  <2>4. job[w].flushing
    BY <2>3, WorkerFacts DEF JobOK
  <2>5. /\ j.exec = e /\ j.attempt = job[w].attempt /\ j.retryable = job[w].retryable
        /\ j.flushing = job[w].flushing
    BY <2>2, <1>a DEF Jobs
  <2>6. job' = [job EXCEPT ![w] = j]
    BY <2>1, <2>2
  <2>7. Holds(pc[w]) /\ ~ Sending("dispatch", j)
    BY <2>3, <2>4, <2>5 DEF Holds, Sending
  <2>8. SafeRun("dispatch", j, r.key[1], status, nodeRow)
    BY <2>7 DEF SafeRun, Active, SendingOne
  <2>9. faults = 0 => OnceRun("dispatch", j, r.key[1], kind)
    BY <2>5, <2>7, <1>a DEF OnceRun, SendingOne
  <2> QED  BY <2>1, <2>3, <2>5, <2>6, <2>7, <2>8, <2>9, <1>a, LocalRun
<1>8. CASE FlushDone(w) \/ FailThrows(w) \/ DeadLetter(w)
  <2>1. PICK l \in {"deadletter", "ack", "nack"} : pc' = [pc EXCEPT ![w] = l]
    BY <1>8 DEF FlushDone, FailThrows, DeadLetter, Goto
  <2>2. /\ pc[w] \in {"flush", "error", "deadletter"}
        /\ job' = [job EXCEPT ![w] = job[w]] /\ send' = [send EXCEPT ![w] = send[w]]
        /\ UNCHANGED <<rowVars, commands, crashes>> /\ faults' \in {faults, faults + 1}
    BY <1>8, <1>a DEF FlushDone, FailThrows, DeadLetter, GivesUp, brokerVars
  <2>3. Holds(pc[w])
    BY <2>2 DEF Holds
  <2>4. SafeRun(l, job[w], send[w].key[1], status, nodeRow)
    BY PlainRun, IdleRun DEF Holds
  <2>5. faults = 0 => OnceRun(l, job[w], send[w].key[1], kind)
    <3>1. CASE l = "ack"
      BY <3>1, IdleRun DEF Holds
    <3>2. CASE l \in {"deadletter", "nack"}
      BY <3>2, <2>3, <1>a DEF OnceRun, SendingOne, Sending
    <3> QED  BY <3>1, <3>2
  <2>6. faults' = 0 => faults = 0
    BY <2>2, <1>a
  <2> QED  BY <2>1, <2>2, <2>3, <2>4, <2>5, <2>6, <1>a, LocalRun
<1>9. CASE Ack(w)
  <2>1. /\ pc' = [pc EXCEPT ![w] = "idle"] /\ job' = [job EXCEPT ![w] = NoJob(e)]
        /\ send' = [send EXCEPT ![w] = NoSend(e)]
        /\ UNCHANGED <<rowVars, commands, crashes>> /\ faults' = faults
    BY <1>9 DEF Ack, EndJob, EndSend, Goto, brokerVars
  <2>2. ~ Holds("idle")
    BY DEF Holds
  <2>3. /\ SafeRun("idle", NoJob(e), NoSend(e).key[1], status, nodeRow)
        /\ OnceRun("idle", NoJob(e), NoSend(e).key[1], kind)
    BY <2>2, IdleRun
  <2> QED  BY <2>1, <2>2, <2>3, <1>a, LocalRun
<1> QED  BY <1>1, <1>2, <1>3, <1>4, <1>5, <1>6, <1>7, <1>8, <1>9

-----------------------------------------------------------------------------
(* Steps that write the rows of an execution *)

\* A worker changes the rows of the execution it holds.
LEMMA RowRun ==
  ASSUME ExecInv, RunInv, Told', NEW w \in Workers, Holds(pc[w]), NEW l, NEW j, NEW s,
         Moves(w, l, j, s),
         UNCHANGED <<kind, ends, request, commands, crashes>>, faults' \in {faults, faults + 1},
         j.exec = job[w].exec,
         NEW e, e = job[w].exec, NEW st, NEW nr, NEW tr,
         st = status', nr = nodeRow', tr = traces',
         \A f \in Executions : f # e =>
            st[f] = status[f] /\ nr[f] = nodeRow[f] /\ tr[f] = traces[f],
         st[e] # "NONE",
         crashes = 0 => SafeRun(l, j, s.key[1], st, nr),
         crashes = 0 /\ st[e] = "SUCCEEDED" => DoneUpTo(nr, e, NodeCount),
         faults' = 0 => OnceRun(l, j, s.key[1], kind),
         faults' = 0 /\ kind[e] = "misconfigured" =>
            tr[e] \subseteq {<<NodeCount, 0, "FAILED">>} /\ st[e] # "SUCCEEDED",
         faults' = 0 /\ kind[e] # "misconfigured" =>
            \A n \in Nodes : nr[e][n] = "SUCCEEDED" =>
               \E t \in tr[e] : t[1] = n /\ t[3] = "SUCCEEDED"
  PROVE  RunInv'
<1>a. /\ kind' = kind /\ ends' = ends /\ request' = request /\ commands' = commands
      /\ crashes' = crashes
  OBVIOUS
<1>b. /\ TypeOK /\ faults \in Nat /\ crashes \in Nat /\ w \in Procs /\ e \in Executions
      /\ \A v \in Workers : job[v].exec \in Executions
  BY RunFacts DEF ExecInv, TypeOK
<1>1. \A v \in Workers, f \in Executions :
        (WorksOn(v, f)' => WorksOn(v, f)) /\ (Busy(v, f)' => Busy(v, f))
  BY <1>b, FewerHands DEF Moves
<1>2. (SoleCopy => SoleCopy') /\ (SentOnly => SentOnly')
  BY <1>1, <1>a, CopiesKept
<1>3. faults' = 0 => faults = 0 /\ crashes = 0
  BY <1>b DEF RunInv
<1>4. ASSUME crashes = 0
      PROVE  /\ SafeRuns'
             /\ faults' = 0 => OnceRuns'
  <2>1. ASSUME NEW v \in Workers, v # w, Holds(pc[v]) PROVE job[v].exec # e
    BY <1>4, <2>1, <1>b DEF RunInv, SoleCopy, WorksOn, Holds
  <2>2. \A v \in Workers : v # w /\ Holds(pc[v]) =>
          /\ st[job[v].exec] = status[job[v].exec]
          /\ nr[job[v].exec] = nodeRow[job[v].exec]
          /\ kind[job[v].exec] = kind[job[v].exec]
    BY <2>1, <1>b
  <2>3. Moves(w, l, j, s) /\ kind = kind'
    BY <1>a
  <2>4. /\ SafeRuns /\ (w \in Workers => SafeRun(l, j, s.key[1], st, nr)) => SafeRuns'
        /\ OnceRuns /\ (w \in Workers => OnceRun(l, j, s.key[1], kind)) => OnceRuns'
    BY <2>2, <2>3, <1>b, RunsMove
  <2> QED  BY <2>4, <1>3, <1>4 DEF RunInv
<1>5. ASSUME crashes = 0 PROVE SuccessesDone'
  <2>1. ASSUME NEW f \in Executions, st[f] = "SUCCEEDED" PROVE DoneUpTo(nr, f, NodeCount)
    <3>1. CASE f = e
      BY <1>5, <2>1, <3>1
    <3>2. CASE f # e
      <4>1. DoneUpTo(nodeRow, f, NodeCount)
        BY <1>5, <2>1, <3>2 DEF RunInv, SuccessesDone
      <4> QED  BY <4>1, <3>2 DEF DoneUpTo
    <3> QED  BY <3>1, <3>2
  <2> QED  BY <2>1 DEF SuccessesDone
<1>6. ASSUME faults' = 0 PROVE SeenOnce'
  <2>1. SeenOnce
    BY <1>3, <1>6 DEF RunInv
  <2> QED  BY <2>1, <1>6, <1>a DEF SeenOnce
<1>7. ASSUME faults' = 0 PROVE Traced'
  <2>1. Traced
    BY <1>3, <1>7 DEF RunInv
  <2>2. ASSUME NEW f \in Executions, NEW n \in Nodes, nr[f][n] = "SUCCEEDED",
               kind[f] # "misconfigured"
        PROVE  \E t \in tr[f] : t[1] = n /\ t[3] = "SUCCEEDED"
    <3>1. CASE f = e
      BY <1>7, <2>2, <3>1
    <3>2. CASE f # e
      BY <2>1, <2>2, <3>2 DEF Traced
    <3> QED  BY <3>1, <3>2
  <2> QED  BY <2>2, <1>a DEF Traced
<1>8. Untouched'
  <2>1. Untouched
    BY DEF RunInv
  <2>2. ASSUME NEW f \in Executions, st[f] = "NONE"
        PROVE  tr[f] = {} /\ \A n \in Nodes : nr[f][n] = "NONE"
    BY <2>1, <2>2 DEF Untouched
  <2> QED  BY <2>2 DEF Untouched
<1>9. crashes' <= faults'
  BY <1>a, <1>b DEF RunInv
<1> QED  BY <1>a, <1>2, <1>3, <1>4, <1>5, <1>6, <1>7, <1>8, <1>9 DEF RunInv
\* It writes the status x, and the row of event v, which it goes on to dispatch as s.
StatusMove(w, e, x, v, j, s) ==
  /\ status' = [status EXCEPT ![e] = x]
  /\ UNCHANGED <<kind, ends, request, nodeRow, traces, commands, crashes, faults>>
  /\ s = [key |-> <<v, e, 0>>, copy |-> persistOutboxEvent(outbox[<<v, e, 0>>])]
  /\ Moves(w, "dispatch", j, s)

LEMMA StatusRuns ==
  ASSUME ExecInv, RunInv, Told', NEW w \in Workers, Claim(w) \/ Complete(w) \/ Fail(w)
  PROVE  RunInv'
<1>0. PICK e : e = job[w].exec
  OBVIOUS
<1>a. /\ w \in Procs /\ job[w] \in Jobs /\ e \in Executions
      /\ job = [job EXCEPT ![w] = job[w]]
      /\ crashes = 0 => SafeRun(pc[w], job[w], send[w].key[1], status, nodeRow)
      /\ faults = 0 => OnceRun(pc[w], job[w], send[w].key[1], kind)
      /\ faults \in Nat /\ crashes \in Nat
      /\ status \in [Executions -> {"NONE", "PENDING", "RUNNING", "SUCCEEDED", "FAILED"}]
  BY <1>0, RunFacts DEF ExecInv, TypeOK
<1>b. faults = 0 => SeenOnce /\ Traced
  BY DEF RunInv
<1>1. PICK x, v, j, s :
        /\ StatusMove(w, e, x, v, j, s)
        /\ \/ x = "RUNNING" /\ v = "started" /\ j = job[w] /\ pc[w] = "claim"
           \/ x = "SUCCEEDED" /\ v = "completed" /\ j = job[w] /\ pc[w] = "nodes"
              /\ job[w].node = NodeCount
           \/ x = "FAILED" /\ v = "failed" /\ pc[w] = "error"
              /\ j = [job[w] EXCEPT !.failing = TRUE, !.flushing = FALSE]
  <2> DEFINE Row(v) == [key |-> <<v, e, 0>>, copy |-> persistOutboxEvent(outbox[<<v, e, 0>>])]
  <2>1. CASE Claim(w)
    <3>1. StatusMove(w, e, "RUNNING", "started", job[w], Row("started")) /\ pc[w] = "claim"
      BY <2>1, <1>0, <1>a DEF Claim, PersistAndDispatch, Goto, brokerVars, StatusMove, Moves
    <3> QED  BY <3>1
  <2>2. CASE Complete(w)
    <3>1. /\ StatusMove(w, e, "SUCCEEDED", "completed", job[w], Row("completed"))
          /\ pc[w] = "nodes" /\ job[w].node = NodeCount
      BY <2>2, <1>0, <1>a DEF Complete, PersistAndDispatch, Goto, brokerVars, StatusMove, Moves
    <3> QED  BY <3>1
  <2>3. CASE Fail(w)
    <3>1. PICK j : j = [job[w] EXCEPT !.failing = TRUE, !.flushing = FALSE]
      OBVIOUS
    <3>2. job' = [job EXCEPT ![w] = j]
      BY <2>3, <3>1 DEF Fail
    <3>3. StatusMove(w, e, "FAILED", "failed", j, Row("failed")) /\ pc[w] = "error"
      BY <2>3, <3>2, <1>0 DEF Fail, GivesUp, PersistAndDispatch, Goto, brokerVars, StatusMove,
           Moves
    <3> QED  BY <3>1, <3>3
  <2> QED  BY <2>1, <2>2, <2>3
<1>2. /\ status' = [status EXCEPT ![e] = x]
      /\ UNCHANGED <<kind, ends, request, nodeRow, traces, commands, crashes, faults>>
  BY <1>1 DEF StatusMove
<1>3. Moves(w, "dispatch", j, s) /\ s.key[1] = v
  BY <1>1 DEF StatusMove
<1>4. /\ j.exec = e /\ j.attempt = job[w].attempt /\ j.retryable = job[w].retryable
      /\ j.node = job[w].node
  BY <1>0, <1>1, <1>a DEF Jobs
<1>5. PICK st : st = status'
  OBVIOUS
<1>6. st[e] = x /\ \A f \in Executions : f # e => st[f] = status[f]
  BY <1>2, <1>5, <1>a
<1>7. Holds(pc[w]) /\ nodeRow' = nodeRow /\ traces' = traces /\ faults' = faults
  BY <1>1, <1>2 DEF Holds
<1>8. SafeRun("dispatch", j, s.key[1], st, nodeRow)
  BY <1>1, <1>3, <1>4, <1>6 DEF SafeRun, Active, SendingOne, Ended
<1>9. crashes = 0 /\ st[e] = "SUCCEEDED" => DoneUpTo(nodeRow, e, NodeCount)
  BY <1>0, <1>1, <1>6, <1>a DEF SafeRun
<1>10. faults = 0 => OnceRun("dispatch", j, s.key[1], kind)
  BY <1>0, <1>1, <1>3, <1>4, <1>7, <1>a DEF OnceRun, SendingOne
<1>11. faults = 0 /\ kind[e] = "misconfigured" =>
          traces[e] \subseteq {<<NodeCount, 0, "FAILED">>} /\ st[e] # "SUCCEEDED"
  BY <1>0, <1>1, <1>6, <1>7, <1>a, <1>b DEF SeenOnce, OnceRun
<1>12. faults = 0 /\ kind[e] # "misconfigured" =>
          \A n \in Nodes : nodeRow[e][n] = "SUCCEEDED" =>
             \E t \in traces[e] : t[1] = n /\ t[3] = "SUCCEEDED"
  BY <1>a, <1>b DEF Traced
<1>13. /\ UNCHANGED <<kind, ends, request, commands, crashes>> /\ faults' \in {faults, faults + 1}
       /\ nodeRow = nodeRow' /\ traces = traces' /\ st[e] # "NONE"
  BY <1>1, <1>2, <1>6
<1> QED  BY <1>0, <1>3, <1>4, <1>5, <1>6, <1>7, <1>8, <1>9, <1>10, <1>11, <1>12, <1>13, RowRun

\* What is written of a node, and what is traced of it.
LEMMA NodeWritten ==
  ASSUME ExecInv, NEW e \in Executions, NEW n \in Nodes, NEW x, SetNode(e, n, x)
  PROVE  /\ \A f \in Executions : f # e => nodeRow'[f] = nodeRow[f]
         /\ nodeRow'[e][n] = x
         /\ \A i \in Nodes : i # n => nodeRow'[e][i] = nodeRow[e][i]
<1>1. nodeRow \in [Executions -> [Nodes -> RowStatuses]]
  BY DEF ExecInv, TypeOK
<1> QED  BY <1>1 DEF SetNode

LEMMA TraceWritten ==
  ASSUME ExecInv, NEW w \in Workers, NEW x, recordAiTrace(w, x), NEW e, e = job[w].exec
  PROVE  /\ faults' \in {faults, faults + 1}
         /\ \A f \in Executions : f # e => traces'[f] = traces[f]
         /\ traces[e] \subseteq traces'[e]
         /\ traces'[e] \subseteq traces[e] \cup {<<job[w].node, job[w].attempt, x>>}
         /\ ~ CallsOut(w) => traces'[e] = traces[e]
         /\ faults' = 0 /\ CallsOut(w) => <<job[w].node, job[w].attempt, x>> \in traces'[e]
<1>1. /\ traces \in [Executions -> SUBSET (Nodes \X Attempts \X {"SUCCEEDED", "FAILED"})]
      /\ faults \in Nat /\ faults + 1 # 0
  BY DEF ExecInv, TypeOK
<1>2. e \in Executions
  BY WorkerFacts, ProcFacts
<1>3. PICK t : t = <<job[w].node, job[w].attempt, x>>
  OBVIOUS
<1>4. \/ /\ traces' = IF CallsOut(w) THEN [traces EXCEPT ![e] = @ \cup {t}] ELSE traces
         /\ faults' = faults
      \/ CallsOut(w) /\ faults' = faults + 1 /\ traces' = traces
  BY <1>3 DEF recordAiTrace
<1> QED  BY <1>1, <1>2, <1>3, <1>4

LEMMA StartNodeRun ==
  ASSUME ExecInv, RunInv, Told', NEW w \in Workers, StartNode(w)
  PROVE  RunInv'
<1>0. PICK e, n : e = job[w].exec /\ n = job[w].node + 1
  OBVIOUS
<1>a. /\ job[w] \in Jobs /\ e \in Executions
      /\ crashes = 0 => SafeRun(pc[w], job[w], send[w].key[1], status, nodeRow)
      /\ faults = 0 => OnceRun(pc[w], job[w], send[w].key[1], kind)
      /\ faults = 0 => SeenOnce /\ Traced
  BY <1>0, RunFacts DEF RunInv
<1>b. n \in Nodes /\ job[w].node \in 0 .. NodeCount /\ n - 1 = job[w].node
  BY <1>0, <1>a, ExecutionAssumption DEF StartNode, Nodes, Jobs
<1>1. PICK s : s = [key |-> <<"nodeStarted", e, n>>,
                    copy |-> persistOutboxEvent(outbox[<<"nodeStarted", e, n>>])]
  OBVIOUS
<1>2. PICK j : j = [job[w] EXCEPT !.node = n]
  OBVIOUS
<1>3. /\ j.exec = e /\ j.node = n /\ j.attempt = job[w].attempt
      /\ j.retryable = job[w].retryable /\ s.key[1] = "nodeStarted"
  <2>1. s.key[1] = "nodeStarted"
    BY <1>1
  <2> QED  BY <2>1, <1>0, <1>2, <1>a DEF Jobs
<1>4. /\ pc[w] = "nodes" /\ SetNode(e, n, "RUNNING")
      /\ UNCHANGED <<kind, ends, request, commands, crashes>> /\ faults' \in {faults, faults + 1}
      /\ faults' = faults /\ status = status' /\ traces = traces'
  BY <1>0 DEF StartNode, brokerVars
<1>5. Moves(w, "dispatch", j, s)
  <2>1. job' = [job EXCEPT ![w] = j]
    BY <1>0, <1>2 DEF StartNode
  <2>2. PersistAndDispatch(w, <<"nodeStarted", e, n>>)
    BY <1>0 DEF StartNode
  <2> QED  BY <2>1, <2>2, <1>1 DEF PersistAndDispatch, Goto, Moves
<1>6. PICK nr : nr = nodeRow'
  OBVIOUS
<1>7. /\ \A f \in Executions : f # e => nr[f] = nodeRow[f]
      /\ nr[e][n] = "RUNNING"
      /\ \A i \in Nodes : i # n => nr[e][i] = nodeRow[e][i]
  BY <1>4, <1>6, <1>a, <1>b, NodeWritten
<1>8. Holds(pc[w]) /\ Active(pc[w], job[w], send[w].key[1])
  BY <1>4 DEF Holds, Active
<1>9. status[e] # "NONE"
  BY <1>0, <1>8, HeldIsSent DEF RunInv, Holds
<1>10. crashes = 0 => ~ Ended(status, e) /\ DoneUpTo(nr, e, n - 1)
  <2>1. crashes = 0 => ~ Ended(status, e) /\ DoneUpTo(nodeRow, e, n - 1)
    BY <1>0, <1>a, <1>b, <1>4, <1>8 DEF SafeRun
  <2>2. \A i \in 1 .. (n - 1) : i \in Nodes /\ i # n
    BY <1>b, ExecutionAssumption DEF Nodes
  <2> QED  BY <2>1, <2>2, <1>7 DEF DoneUpTo
<1>11. crashes = 0 => SafeRun("dispatch", j, s.key[1], status, nr)
  BY <1>3, <1>10 DEF SafeRun, SendingOne
<1>12. crashes = 0 /\ status[e] = "SUCCEEDED" => DoneUpTo(nr, e, NodeCount)
  BY <1>10 DEF Ended
<1>13. faults' = 0 => OnceRun("dispatch", j, s.key[1], kind)
  BY <1>0, <1>a, <1>3, <1>4, <1>8 DEF OnceRun, SendingOne
<1>14. faults' = 0 /\ kind[e] = "misconfigured" =>
          traces[e] \subseteq {<<NodeCount, 0, "FAILED">>} /\ status[e] # "SUCCEEDED"
  BY <1>a, <1>4 DEF SeenOnce
<1>15. faults' = 0 /\ kind[e] # "misconfigured" =>
          \A i \in Nodes : nr[e][i] = "SUCCEEDED" =>
             \E t \in traces[e] : t[1] = i /\ t[3] = "SUCCEEDED"
  BY <1>a, <1>4, <1>7 DEF Traced
<1> QED  BY <1>0, <1>3, <1>4, <1>5, <1>6, <1>7, <1>8, <1>9, <1>11, <1>12, <1>13, <1>14, <1>15,
            RowRun

LEMMA EndNodeRun ==
  ASSUME ExecInv, RunInv, Told', NEW w \in Workers, RunNode(w) \/ FailNode(w)
  PROVE  RunInv'
<1>0. PICK e, n : e = job[w].exec /\ n = job[w].node
  OBVIOUS
<1>a. /\ job[w] \in Jobs /\ e \in Executions /\ job = [job EXCEPT ![w] = job[w]]
      /\ crashes = 0 => SafeRun(pc[w], job[w], send[w].key[1], status, nodeRow)
      /\ faults = 0 => OnceRun(pc[w], job[w], send[w].key[1], kind)
      /\ faults = 0 => SeenOnce /\ Traced
  BY <1>0, RunFacts DEF RunInv
<1>1. PICK x, v : /\ \/ /\ x = "SUCCEEDED" /\ v = "nodeCompleted" /\ pc[w] = "run"
                        /\ "returns" \in NodeOutcomes(w)
                     \/ x = "FAILED" /\ v = "nodeFailed" /\ pc[w] = "failNode"
                  /\ SetNode(e, n, x) /\ recordAiTrace(w, x)
                  /\ PersistAndDispatch(w, <<v, e, n>>)
                  /\ UNCHANGED <<status, kind, ends, request, brokerVars, job, crashes>>
  BY <1>0 DEF RunNode, FailNode
<1>b. n \in Nodes
  <2>1. JobOK(pc[w], job[w], send[w], status, outbox, announced)
    BY WorkerFacts
  <2> QED  BY <2>1, <1>0, <1>1 DEF JobOK
<1>2. PICK s : s = [key |-> <<v, e, n>>, copy |-> persistOutboxEvent(outbox[<<v, e, n>>])]
  OBVIOUS
<1>3. Moves(w, "dispatch", job[w], s) /\ s.key[1] = v
  BY <1>1, <1>2, <1>a DEF PersistAndDispatch, Goto, Moves
<1>4. /\ UNCHANGED <<kind, ends, request, commands, crashes>> /\ status = status'
  BY <1>1 DEF brokerVars
<1>6. PICK nr, tr : nr = nodeRow' /\ tr = traces'
  OBVIOUS
<1>7. /\ \A f \in Executions : f # e => nr[f] = nodeRow[f]
      /\ nr[e][n] = x
      /\ \A i \in Nodes : i # n => nr[e][i] = nodeRow[e][i]
  BY <1>1, <1>6, <1>a, <1>b, NodeWritten
<1>8. Holds(pc[w]) /\ Active(pc[w], job[w], send[w].key[1])
  BY <1>1 DEF Holds, Active
<1>9. status[e] # "NONE"
  BY <1>0, <1>8, HeldIsSent DEF RunInv, Holds
<1>5. /\ faults' \in {faults, faults + 1}
      /\ \A f \in Executions : f # e => tr[f] = traces[f]
      /\ traces[e] \subseteq tr[e]
      /\ tr[e] \subseteq traces[e] \cup {<<n, job[w].attempt, x>>}
      /\ ~ CallsOut(w) => tr[e] = traces[e]
      /\ faults' = 0 /\ CallsOut(w) => <<n, job[w].attempt, x>> \in tr[e]
  BY <1>0, <1>1, <1>6, TraceWritten
<1>c. faults' = 0 => faults = 0
  BY <1>5 DEF ExecInv, TypeOK
<1>10. crashes = 0 => /\ ~ Ended(status, e)
                      /\ v = "nodeCompleted" => DoneUpTo(nr, e, n)
  <2>1. crashes = 0 => /\ ~ Ended(status, e)
                       /\ v = "nodeCompleted" => DoneUpTo(nodeRow, e, n - 1)
    BY <1>0, <1>a, <1>1, <1>8 DEF SafeRun
  <2>2. \A i \in 1 .. n : i = n \/ (i \in Nodes /\ i # n /\ i \in 1 .. (n - 1))
    BY <1>b, ExecutionAssumption DEF Nodes
  <2>3. v = "nodeCompleted" => nr[e][n] = "SUCCEEDED"
    BY <1>1, <1>7
  <2> QED  BY <2>1, <2>2, <2>3, <1>7 DEF DoneUpTo
<1>11. crashes = 0 => SafeRun("dispatch", job[w], s.key[1], status, nr)
  BY <1>0, <1>1, <1>3, <1>10 DEF SafeRun, SendingOne
<1>12. crashes = 0 /\ status[e] = "SUCCEEDED" => DoneUpTo(nr, e, NodeCount)
  BY <1>10 DEF Ended
<1>13. ASSUME faults = 0, kind[e] = "misconfigured"
       PROVE  /\ v = "nodeCompleted" => n # NodeCount /\ ~ CallsOut(w)
              /\ v = "nodeFailed" /\ CallsOut(w) => n = NodeCount /\ x = "FAILED"
              /\ job[w].attempt = 0 /\ job[w].retryable = FALSE
  <2>1. ends[e] \subseteq {"fatal"}
    BY <1>13, <1>a DEF SeenOnce
  <2>2. CallsOut(w) => n = NodeCount /\ NodeOutcomes(w) \subseteq {"fatal"}
    BY <2>1, <1>0, <1>13 DEF CallsOut, NodeOutcomes
  <2>3. ~ CallsOut(w) => n # NodeCount
    BY <1>0 DEF CallsOut
  <2>4. job[w].attempt = 0 /\ job[w].retryable = FALSE
    BY <1>0, <1>13, <1>a, <1>8 DEF OnceRun
  <2> QED  BY <2>2, <2>3, <2>4, <1>1
<1>14. faults' = 0 => OnceRun("dispatch", job[w], s.key[1], kind)
  BY <1>0, <1>c, <1>3, <1>13 DEF OnceRun, SendingOne
<1>15. faults' = 0 /\ kind[e] = "misconfigured" =>
          tr[e] \subseteq {<<NodeCount, 0, "FAILED">>} /\ status[e] # "SUCCEEDED"
  <2>1. ASSUME faults' = 0, kind[e] = "misconfigured"
        PROVE  traces[e] \subseteq {<<NodeCount, 0, "FAILED">>} /\ status[e] # "SUCCEEDED"
    BY <2>1, <1>a, <1>c DEF SeenOnce
  <2> QED  BY <2>1, <1>c, <1>1, <1>5, <1>13
<1>16. faults' = 0 /\ kind[e] # "misconfigured" =>
          \A i \in Nodes : nr[e][i] = "SUCCEEDED" =>
             \E t \in tr[e] : t[1] = i /\ t[3] = "SUCCEEDED"
  <2>1. ASSUME faults' = 0, kind[e] # "misconfigured", NEW i \in Nodes, nr[e][i] = "SUCCEEDED"
        PROVE  \E t \in tr[e] : t[1] = i /\ t[3] = "SUCCEEDED"
    <3>1. CASE i = n
      <4>1. CallsOut(w) /\ x = "SUCCEEDED"
        BY <2>1, <3>1, <1>0, <1>7 DEF CallsOut
      <4>2. <<n, job[w].attempt, x>> \in tr[e]
        BY <4>1, <2>1, <1>5
      <4> QED  BY <4>1, <4>2, <3>1
    <3>2. CASE i # n
      <4>1. \E t \in traces[e] : t[1] = i /\ t[3] = "SUCCEEDED"
        BY <2>1, <3>2, <1>7, <1>a, <1>c DEF Traced
      <4> QED  BY <4>1, <1>5
    <3> QED  BY <3>1, <3>2
  <2> QED  BY <2>1
<1> QED  BY <1>0, <1>3, <1>4, <1>5, <1>6, <1>7, <1>8, <1>9, <1>11, <1>12, <1>14, <1>15, <1>16,
            RowRun

-----------------------------------------------------------------------------
(* Steps that move a copy of a command *)

LEMMA QueueRun ==
  ASSUME ExecInv, RunInv, Told', NEW w \in Workers, NEW l, NEW j, NEW s, Moves(w, l, j, s),
         UNCHANGED <<rowVars, crashes, faults>>,
         crashes = 0 => SoleCopy', SentOnly',
         SafeRun(l, j, s.key[1], status, nodeRow),
         faults = 0 => OnceRun(l, j, s.key[1], kind),
         faults = 0 => \A e \in Executions, a \in Attempts :
                          kind[e] = "misconfigured" /\ a # 0 => commands'[e][a] = 0
  PROVE  RunInv'
<1>a. /\ status = status' /\ kind = kind' /\ ends' = ends /\ request' = request
      /\ nodeRow = nodeRow' /\ traces' = traces /\ crashes' = crashes /\ faults' = faults
  BY DEF rowVars
<1>b. TypeOK /\ w \in Procs
  BY RunFacts DEF ExecInv
<1>1. /\ SafeRuns /\ (w \in Workers => SafeRun(l, j, s.key[1], status, nodeRow)) => SafeRuns'
      /\ OnceRuns /\ (w \in Workers => OnceRun(l, j, s.key[1], kind)) => OnceRuns'
  BY <1>a, <1>b, RunsMove
<1>2. (SuccessesDone => SuccessesDone') /\ (Traced => Traced') /\ (Untouched => Untouched')
  BY <1>a DEF SuccessesDone, Traced, Untouched
<1>3. faults = 0 /\ SeenOnce => SeenOnce'
  BY <1>a DEF SeenOnce
<1> QED  BY <1>a, <1>1, <1>2, <1>3 DEF RunInv

\* A worker takes a copy.
LEMMA ReceiveRun ==
  ASSUME ExecInv, RunInv, Told', NEW w \in Workers, NEW e \in Executions, NEW a \in Attempts,
         Receive(w, e, a)
  PROVE  RunInv'
<1>a. /\ w \in Procs /\ send = [send EXCEPT ![w] = send[w]]
      /\ pc \in [Procs -> Labels] /\ job \in [Procs -> Jobs]
      /\ commands \in [Executions -> [Attempts -> Nat]] /\ Workers \subseteq Procs
  BY RunFacts DEF ExecInv, TypeOK, Procs
<1>1. PICK j : j = [NoJob(e) EXCEPT !.attempt = a]
  OBVIOUS
<1>2. j.exec = e /\ j.attempt = a /\ j.retryable = FALSE
  BY <1>1 DEF NoJob
<1>3. /\ pc[w] = "idle" /\ commands[e][a] > 0
      /\ commands' = [commands EXCEPT ![e][a] = @ - 1]
      /\ UNCHANGED <<rowVars, crashes, faults>> /\ request' = request
  BY DEF Receive, rowVars
<1>4. Moves(w, "find", j, send[w])
  BY <1>1, <1>a DEF Receive, Goto, Moves
<1>5. /\ pc'[w] = "find" /\ job'[w] = j
      /\ \A v \in Workers : v # w => pc'[v] = pc[v] /\ job'[v] = job[v]
  BY <1>4, <1>a DEF Moves
<1>6. \A v \in Workers, f \in Executions :
        /\ WorksOn(v, f)' => WorksOn(v, f) \/ (v = w /\ f = e)
        /\ Busy(v, f)' => Busy(v, f) \/ (v = w /\ f = e)
  BY <1>5, <1>2 DEF WorksOn, Busy
<1>7. \A f \in Executions, b \in Attempts :
        commands'[f][b] = IF f = e /\ b = a THEN commands[f][b] - 1 ELSE commands[f][b]
  BY <1>3, <1>a
<1>8. ASSUME crashes = 0 PROVE SoleCopy'
  <2>1. SoleCopy
    BY <1>8 DEF RunInv
  <2>2. commands[e][a] = 1 /\ \A b \in Attempts : b # a => commands[e][b] = 0
    BY <2>1, <1>3 DEF SoleCopy
  <2>3. \A v \in Workers : ~ WorksOn(v, e)
    BY <2>1, <2>2 DEF SoleCopy
  <2>4. \A b \in Attempts : commands'[e][b] = 0
    BY <2>2, <1>7
  <2>5. \A v, u \in Workers : WorksOn(v, e)' /\ WorksOn(u, e)' => v = u
    BY <2>3, <1>6
  <2>6. ASSUME NEW f \in Executions
        PROVE  /\ \A v, u \in Workers : WorksOn(v, f)' /\ WorksOn(u, f)' => v = u
               /\ \A v \in Workers, b \in Attempts : WorksOn(v, f)' => commands'[f][b] = 0
               /\ \A b \in Attempts : commands'[f][b] \in {0, 1}
               /\ \A b, c \in Attempts : commands'[f][b] = 1 /\ commands'[f][c] = 1 => b = c
    <3>1. CASE f = e
      BY <3>1, <2>4, <2>5
    <3>2. CASE f # e
      BY <3>2, <2>1, <1>6, <1>7 DEF SoleCopy
    <3> QED  BY <3>1, <3>2
  <2> QED  BY <2>6 DEF SoleCopy
<1>9. SentOnly'
  <2>1. request[e] = "sent"
    BY <1>3 DEF RunInv, SentOnly
  <2> QED  BY <2>1, <1>3, <1>6, <1>7 DEF RunInv, SentOnly
<1>10. ASSUME faults = 0 PROVE OnceRun("find", j, send[w].key[1], kind)
  <2>1. kind[e] = "misconfigured" => a = 0
    BY <1>10, <1>3 DEF RunInv, SeenOnce
  <2> QED  BY <2>1, <1>2 DEF OnceRun, SendingOne, Sending
<1>11. SafeRun("find", j, send[w].key[1], status, nodeRow)
  BY PlainRun
<1>12. faults = 0 => \A f \in Executions, b \in Attempts :
                        kind[f] = "misconfigured" /\ b # 0 => commands'[f][b] = 0
  <2>1. ASSUME faults = 0, NEW f \in Executions, NEW b \in Attempts,
               kind[f] = "misconfigured", b # 0
        PROVE  commands'[f][b] = 0
    <3>1. commands[f][b] = 0
      BY <2>1 DEF RunInv, SeenOnce
    <3> QED  BY <3>1, <1>3, <1>7
  <2> QED  BY <2>1
<1> QED  BY <1>3, <1>4, <1>8, <1>9, <1>10, <1>11, <1>12, QueueRun

Enqueued(e, a) == commands' = [commands EXCEPT ![e][a] = @ + 1]

\* A worker gives its copy back, or publishes another in its place.
LEMMA ReturnRun ==
  ASSUME ExecInv, RunInv, Told', NEW w \in Workers, Retry(w) \/ Nack(w)
  PROVE  RunInv'
<1>0. PICK e : e = job[w].exec
  OBVIOUS
<1>a. /\ w \in Procs /\ send = [send EXCEPT ![w] = send[w]] /\ job = [job EXCEPT ![w] = job[w]]
      /\ pc \in [Procs -> Labels] /\ job \in [Procs -> Jobs] /\ job[w] \in Jobs
      /\ commands \in [Executions -> [Attempts -> Nat]] /\ Workers \subseteq Procs
      /\ e \in Executions
      /\ faults = 0 => OnceRun(pc[w], job[w], send[w].key[1], kind)
  BY <1>0, RunFacts DEF ExecInv, TypeOK, Procs
<1>1. PICK l, j, s, a :
        /\ l \in {"ack", "idle"} /\ a \in Attempts /\ Enqueued(e, a)
        /\ Moves(w, l, j, s)
        /\ l = "ack" => j = job[w] /\ job[w].retryable
        /\ l = "idle" => a = job[w].attempt
        /\ pc[w] \in {"error", "nack"}
        /\ UNCHANGED <<rowVars, crashes, faults>> /\ request' = request
  <2>1. CASE Retry(w)
    <3>1. PICK a \in Attempts : a = job[w].attempt + 1
      BY <2>1, <1>a, ExecutionAssumption DEF Retry, Attempts, Jobs
    <3>2. Moves(w, "ack", job[w], send[w])
      BY <2>1, <1>a DEF Retry, Goto, Moves
    <3>3. /\ Enqueued(e, a)
          /\ pc[w] \in {"error", "nack"} /\ job[w].retryable
          /\ UNCHANGED <<rowVars, crashes, faults>> /\ request' = request
      BY <2>1, <1>0, <3>1 DEF Retry, rowVars, Enqueued
    <3> QED  BY <3>2, <3>3
  <2>2. CASE Nack(w)
    <3>1. PICK a \in Attempts : a = job[w].attempt
      BY <1>a DEF Jobs
    <3>2. Moves(w, "idle", NoJob(e), NoSend(e))
      BY <2>2, <1>0 DEF Nack, GiveBack, EndJob, EndSend, Goto, Moves
    <3>3. /\ Enqueued(e, a)
          /\ pc[w] \in {"error", "nack"}
          /\ UNCHANGED <<rowVars, crashes, faults>> /\ request' = request
      BY <2>2, <1>0, <3>1 DEF Nack, GiveBack, rowVars, Enqueued
    <3> QED  BY <3>1, <3>2, <3>3
  <2> QED  BY <2>1, <2>2
<1>2. Holds(pc[w]) /\ ~ Holds(l) /\ WorksOn(w, e) /\ pc[w] # "idle"
  BY <1>0, <1>1 DEF Holds, WorksOn
<1>3. /\ pc'[w] = l /\ job'[w] = j
      /\ \A v \in Workers : v # w => pc'[v] = pc[v] /\ job'[v] = job[v]
  BY <1>1, <1>a DEF Moves
<1>4. \A v \in Workers, f \in Executions :
        /\ WorksOn(v, f)' => WorksOn(v, f) /\ v # w
        /\ Busy(v, f)' => Busy(v, f)
  BY <1>0, <1>1, <1>2, <1>3 DEF WorksOn, Busy, Holds
<1>5. \A f \in Executions, b \in Attempts :
        commands'[f][b] = IF f = e /\ b = a THEN commands[f][b] + 1 ELSE commands[f][b]
  BY <1>1, <1>a DEF Enqueued
<1>6. ASSUME crashes = 0 PROVE SoleCopy'
  <2>1. SoleCopy
    BY <1>6 DEF RunInv
  <2>2. \A b \in Attempts : commands[e][b] = 0
    BY <2>1, <1>2, <1>a DEF SoleCopy
  <2>3. \A v \in Workers : ~ WorksOn(v, e)'
    BY <2>1, <1>2, <1>4, <1>a DEF SoleCopy
  <2>4. \A b \in Attempts : commands'[e][b] = IF b = a THEN 1 ELSE 0
    BY <2>2, <1>5, <1>a
  <2>5. ASSUME NEW f \in Executions
        PROVE  /\ \A v, u \in Workers : WorksOn(v, f)' /\ WorksOn(u, f)' => v = u
               /\ \A v \in Workers, b \in Attempts : WorksOn(v, f)' => commands'[f][b] = 0
               /\ \A b \in Attempts : commands'[f][b] \in {0, 1}
               /\ \A b, c \in Attempts : commands'[f][b] = 1 /\ commands'[f][c] = 1 => b = c
    <3>1. CASE f = e
      BY <3>1, <2>3, <2>4
    <3>2. CASE f # e
      BY <3>2, <2>1, <1>4, <1>5 DEF SoleCopy
    <3> QED  BY <3>1, <3>2
  <2> QED  BY <2>5 DEF SoleCopy
<1>7. SentOnly'
  <2>1. request[e] = "sent"
    BY <1>0, <1>2, HeldIsSent DEF RunInv
  <2> QED  BY <2>1, <1>1, <1>4, <1>5 DEF RunInv, SentOnly
<1>8. SafeRun(l, j, s.key[1], status, nodeRow) /\ OnceRun(l, j, s.key[1], kind)
  BY <1>2, IdleRun
<1>9. faults = 0 => \A f \in Executions, b \in Attempts :
                       kind[f] = "misconfigured" /\ b # 0 => commands'[f][b] = 0
  <2>1. ASSUME faults = 0, NEW f \in Executions, NEW b \in Attempts,
               kind[f] = "misconfigured", b # 0
        PROVE  commands'[f][b] = 0
    <3>1. commands[f][b] = 0
      BY <2>1 DEF RunInv, SeenOnce
    <3>2. f = e => job[w].attempt = 0 /\ job[w].retryable = FALSE
      BY <2>1, <1>0, <1>2, <1>a DEF OnceRun
    <3> QED  BY <3>1, <3>2, <2>1, <1>1, <1>5
  <2> QED  BY <2>1
<1> QED  BY <1>1, <1>6, <1>7, <1>8, <1>9, QueueRun

\* After a crash only this is left.
LEMMA CrashRuns ==
  ASSUME ExecInv, RunInv, Told', NEW p \in Procs,
         (p \in Workers /\ CrashWorker(p)) \/ (p \in Dispatchers /\ CrashDispatcher(p))
  PROVE  RunInv'
<1>0. PICK e : e = job[p].exec
  OBVIOUS
<1>a. /\ e \in Executions /\ job[p].attempt \in Attempts
      /\ pc \in [Procs -> Labels] /\ job \in [Procs -> Jobs]
      /\ commands \in [Executions -> [Attempts -> Nat]] /\ Workers \subseteq Procs
      /\ faults \in Nat /\ crashes \in Nat
  BY <1>0, ProcFacts DEF ExecInv, TypeOK, Procs, Jobs
<1>1. /\ faults' = faults + 1 /\ crashes' = crashes + 1 /\ UNCHANGED rowVars
      /\ pc[p] # "idle" /\ pc' = [pc EXCEPT ![p] = "idle"] /\ job' = [job EXCEPT ![p] = NoJob(e)]
      /\ commands' = commands \/ p \in Workers
      /\ commands' = commands \/ Enqueued(e, job[p].attempt)
  BY <1>0 DEF CrashWorker, CrashDispatcher, GiveBack, EndJob, Goto, brokerVars, Enqueued
<1>2. /\ status' = status /\ request' = request /\ nodeRow' = nodeRow /\ traces' = traces
      /\ crashes' <= faults' /\ crashes' # 0 /\ faults' # 0
  BY <1>1, <1>a DEF rowVars, RunInv
<1>3. \A v \in Workers, f \in Executions : Busy(v, f)' => Busy(v, f)
  BY <1>1, <1>a DEF Busy
<1>4. \A f \in Executions, b \in Attempts : f # e => commands'[f][b] = commands[f][b]
  BY <1>1, <1>a DEF Enqueued
<1>5. commands' # commands => request[e] = "sent"
  BY <1>0, <1>1, HeldIsSent DEF RunInv
<1>6. SentOnly'
  BY <1>2, <1>3, <1>4, <1>5, <1>a DEF RunInv, SentOnly
<1>7. Untouched'
  BY <1>2 DEF RunInv, Untouched
<1> QED  BY <1>2, <1>6, <1>7 DEF RunInv

-----------------------------------------------------------------------------
(* The API, and the workflow service *)

\* The workers and dispatchers stay where they are.
LEMMA StillRuns ==
  ASSUME UNCHANGED procVars,
         \A w \in Workers : Holds(pc[w]) =>
            /\ status'[job[w].exec] = status[job[w].exec]
            /\ nodeRow'[job[w].exec] = nodeRow[job[w].exec]
            /\ kind'[job[w].exec] = kind[job[w].exec]
  PROVE  (SafeRuns => SafeRuns') /\ (OnceRuns => OnceRuns')
<1>a. pc' = pc /\ job' = job /\ send' = send
  BY DEF procVars
<1>0. PICK st, nr, kd : st = status' /\ nr = nodeRow' /\ kd = kind'
  OBVIOUS
<1>1. ASSUME NEW w \in Workers
      PROVE  /\ SafeRun(pc[w], job[w], send[w].key[1], status, nodeRow) =>
                  SafeRun(pc[w], job[w], send[w].key[1], st, nr)
             /\ OnceRun(pc[w], job[w], send[w].key[1], kind) =>
                  OnceRun(pc[w], job[w], send[w].key[1], kd)
  <2>1. CASE Holds(pc[w])
    <3>1. Ended(st, job[w].exec) <=> Ended(status, job[w].exec)
      BY <2>1, <1>0 DEF Ended
    <3>2. \A n : DoneUpTo(nr, job[w].exec, n) <=> DoneUpTo(nodeRow, job[w].exec, n)
      BY <2>1, <1>0 DEF DoneUpTo
    <3>3. kd[job[w].exec] = kind[job[w].exec]
      BY <2>1, <1>0
    <3> QED  BY <3>1, <3>2, <3>3 DEF SafeRun, OnceRun
  <2>2. CASE ~ Holds(pc[w])
    BY <2>2, IdleRun
  <2> QED  BY <2>1, <2>2
<1> QED  BY <1>0, <1>1, <1>a DEF SafeRuns, OnceRuns

LEMMA OutsideRuns ==
  ASSUME ExecInv, RunInv, Told',
         \/ UNCHANGED vars
         \/ \E e \in Executions : RequestLost(e)
         \/ \E k \in EndKeys : PersistEvent(k)
  PROVE  RunInv'
<1>a. /\ faults \in Nat /\ crashes \in Nat
      /\ request \in [Executions -> {"none", "created", "sent", "lost"}]
  BY DEF ExecInv, TypeOK
<1>1. /\ UNCHANGED procVars /\ status' = status /\ kind' = kind /\ ends' = ends
      /\ nodeRow' = nodeRow /\ traces' = traces /\ commands' = commands /\ crashes' = crashes
      /\ faults' \in {faults, faults + 1}
      /\ \A e \in Executions : request'[e] = request[e] \/ request[e] # "sent"
  BY <1>a DEF vars, RequestLost, PersistEvent, rowVars, brokerVars
<1>2. pc' = pc /\ job' = job
  BY <1>1 DEF procVars
<1>3. (SafeRuns => SafeRuns') /\ (OnceRuns => OnceRuns')
  BY <1>1, StillRuns
<1>4. (SoleCopy => SoleCopy') /\ SentOnly'
  BY <1>1, <1>2 DEF RunInv, SoleCopy, SentOnly, WorksOn, Busy
<1>5. /\ (SuccessesDone => SuccessesDone') /\ (SeenOnce => SeenOnce') /\ (Traced => Traced')
      /\ (Untouched => Untouched')
  BY <1>1 DEF SuccessesDone, SeenOnce, Traced, Untouched
<1>6. crashes' <= faults' /\ (faults' = 0 => faults = 0)
  BY <1>1, <1>a DEF RunInv
<1> QED  BY <1>1, <1>3, <1>4, <1>5, <1>6 DEF RunInv

LEMMA PublishRequestRun ==
  ASSUME ExecInv, RunInv, Told', NEW e \in Executions, PublishRequest(e)
  PROVE  RunInv'
<1>a. /\ request \in [Executions -> {"none", "created", "sent", "lost"}]
      /\ commands \in [Executions -> [Attempts -> Nat]] /\ 0 \in Attempts
  BY ExecutionAssumption DEF ExecInv, TypeOK, Attempts
<1>1. /\ UNCHANGED procVars /\ status' = status /\ kind' = kind /\ ends' = ends
      /\ nodeRow' = nodeRow /\ traces' = traces /\ crashes' = crashes /\ faults' = faults
      /\ request[e] # "sent" /\ request' = [request EXCEPT ![e] = "sent"]
      /\ commands' = [commands EXCEPT ![e][0] = @ + 1]
  BY DEF PublishRequest
<1>2. pc' = pc /\ job' = job
  BY <1>1 DEF procVars
<1>3. (SafeRuns => SafeRuns') /\ (OnceRuns => OnceRuns')
  BY <1>1, StillRuns
<1>4. /\ \A a \in Attempts : commands[e][a] = 0
      /\ \A w \in Workers : ~ WorksOn(w, e)
  BY <1>1 DEF RunInv, SentOnly, WorksOn, Busy
<1>5. /\ \A a \in Attempts : commands'[e][a] = IF a = 0 THEN 1 ELSE 0
      /\ \A f \in Executions : f # e => commands'[f] = commands[f] /\ request'[f] = request[f]
      /\ request'[e] = "sent"
  BY <1>1, <1>4, <1>a
<1>6. SentOnly'
  BY <1>2, <1>5 DEF RunInv, SentOnly, Busy
<1>7. ASSUME SoleCopy PROVE SoleCopy'
  <2>1. \A w \in Workers, f \in Executions : WorksOn(w, f)' <=> WorksOn(w, f)
    BY <1>2 DEF WorksOn
  <2>2. ASSUME NEW f \in Executions
        PROVE  /\ \A v, u \in Workers : WorksOn(v, f)' /\ WorksOn(u, f)' => v = u
               /\ \A v \in Workers, b \in Attempts : WorksOn(v, f)' => commands'[f][b] = 0
               /\ \A b \in Attempts : commands'[f][b] \in {0, 1}
               /\ \A b, c \in Attempts : commands'[f][b] = 1 /\ commands'[f][c] = 1 => b = c
    <3>1. CASE f = e
      BY <3>1, <2>1, <1>4, <1>5
    <3>2. CASE f # e
      BY <3>2, <2>1, <1>5, <1>7 DEF SoleCopy
    <3> QED  BY <3>1, <3>2
  <2> QED  BY <2>2 DEF SoleCopy
<1>8. /\ (SuccessesDone => SuccessesDone') /\ (Traced => Traced') /\ (Untouched => Untouched')
  BY <1>1 DEF SuccessesDone, Traced, Untouched
<1>9. SeenOnce => SeenOnce'
  BY <1>1, <1>5 DEF SeenOnce
<1> QED  BY <1>1, <1>3, <1>6, <1>7, <1>8, <1>9 DEF RunInv

LEMMA CreateRun ==
  ASSUME ExecInv, RunInv, Told', NEW e \in Executions, NEW k \in ExecutionKinds,
         CreateExecution(e, k)
  PROVE  RunInv'
<1>a. /\ request \in [Executions -> {"none", "created", "sent", "lost"}]
      /\ status \in [Executions -> {"NONE", "PENDING", "RUNNING", "SUCCEEDED", "FAILED"}]
      /\ kind \in [Executions -> ExecutionKinds]
      /\ ends \in [Executions -> SUBSET {"returns", "retryable", "fatal"}]
      /\ \A w \in Workers : job[w].exec \in Executions
  BY RunFacts DEF ExecInv, TypeOK
<1>1. /\ UNCHANGED procVars /\ nodeRow' = nodeRow /\ traces' = traces /\ commands' = commands
      /\ crashes' = crashes /\ faults' = faults /\ request[e] = "none"
      /\ request' = [request EXCEPT ![e] = "created"]
      /\ status' = [status EXCEPT ![e] = "PENDING"]
      /\ kind' = [kind EXCEPT ![e] = k]
      /\ ends' = [ends EXCEPT ![e] = IF k = "misconfigured" THEN MisconfiguredOutcome
                                     ELSE AnyOutcome]
  BY DEF CreateExecution, brokerVars
<1>2. pc' = pc /\ job' = job
  BY <1>1 DEF procVars
<1>3. /\ \A f \in Executions : f # e =>
           status'[f] = status[f] /\ kind'[f] = kind[f] /\ ends'[f] = ends[f]
           /\ request'[f] = request[f]
      /\ status'[e] = "PENDING" /\ request'[e] # "sent"
      /\ kind'[e] = "misconfigured" => ends'[e] \subseteq {"fatal"}
  BY <1>1, <1>a, FatalOutcome
<1>4. /\ status[e] = "NONE"
      /\ \A a \in Attempts : commands[e][a] = 0
      /\ \A w \in Workers : ~ Busy(w, e)
      /\ traces[e] = {} /\ \A n \in Nodes : nodeRow[e][n] = "NONE"
  BY <1>1 DEF RunInv, SentOnly, Untouched, ExecInv, RowsOK
<1>5. (SafeRuns => SafeRuns') /\ (OnceRuns => OnceRuns')
  <2>1. \A w \in Workers : Holds(pc[w]) => job[w].exec # e
    BY <1>4 DEF Busy, Holds
  <2> QED  BY <2>1, <1>1, <1>3, <1>a, StillRuns
<1>6. (SoleCopy => SoleCopy') /\ SentOnly'
  <2>1. SoleCopy => SoleCopy'
    BY <1>1, <1>2 DEF SoleCopy, WorksOn
  <2>2. SentOnly'
    BY <1>1, <1>2, <1>3, <1>4 DEF RunInv, SentOnly, Busy
  <2> QED  BY <2>1, <2>2
<1>7. SuccessesDone => SuccessesDone'
  BY <1>1, <1>3 DEF SuccessesDone
<1>8. (Traced => Traced') /\ Untouched'
  <2>1. Traced => Traced'
    BY <1>1, <1>3, <1>4 DEF Traced
  <2>2. Untouched'
    BY <1>1, <1>3 DEF RunInv, Untouched
  <2> QED  BY <2>1, <2>2
<1>9. SeenOnce => SeenOnce'
  BY <1>1, <1>3, <1>4 DEF SeenOnce
<1> QED  BY <1>1, <1>5, <1>6, <1>7, <1>8, <1>9 DEF RunInv

-----------------------------------------------------------------------------
(* The theorems about runs *)

LEMMA RunInit == Init => RunInv
<1> SUFFICES ASSUME Init PROVE RunInv
  OBVIOUS
<1>1. \A p \in Procs : pc[p] = "idle"
  BY DEF Init
<1>2. \A w \in Workers : pc[w] = "idle"
  BY <1>1 DEF Procs
<1>3. \A w \in Workers, e \in Executions : ~ WorksOn(w, e) /\ ~ Busy(w, e)
  BY <1>2 DEF WorksOn, Busy
<1>4. SoleCopy /\ SentOnly
  BY <1>3 DEF Init, SoleCopy, SentOnly
<1>5. SafeRuns /\ OnceRuns
  BY <1>2, IdleRun DEF SafeRuns, OnceRuns, Holds
<1>6. SuccessesDone /\ SeenOnce /\ Traced /\ Untouched
  BY DEF Init, SuccessesDone, SeenOnce, Traced, Untouched
<1>7. Told
  BY DEF Init, Told, Announced
<1>8. crashes <= faults
  BY DEF Init
<1> QED  BY <1>4, <1>5, <1>6, <1>7, <1>8 DEF RunInv

LEMMA RunStep == ExecInv /\ RunInv /\ [Next]_vars => RunInv'
<1> SUFFICES ASSUME ExecInv, RunInv, [Next]_vars PROVE RunInv'
  OBVIOUS
<1>a. Told'
  BY ToldStep DEF RunInv
<1>b. Workers \subseteq Procs /\ Dispatchers \subseteq Procs
  BY DEF Procs
<1>1. CASE UNCHANGED vars
  BY <1>1, <1>a, OutsideRuns
<1>2. ASSUME NEW e \in Executions, NEW k \in ExecutionKinds, CreateExecution(e, k)
      PROVE  RunInv'
  BY <1>2, <1>a, CreateRun
<1>3. ASSUME NEW e \in Executions, PublishRequest(e)
      PROVE  RunInv'
  BY <1>3, <1>a, PublishRequestRun
<1>4. ASSUME NEW w \in Workers, WorkerStep(w)
      PROVE  RunInv'
  <2>1. CASE \E e \in Executions, a \in Attempts : Receive(w, e, a)
    BY <2>1, <1>a, ReceiveRun
  <2>2. CASE Claim(w) \/ Complete(w) \/ Fail(w)
    BY <2>2, <1>a, StatusRuns
  <2>3. CASE StartNode(w) \/ RunNode(w) \/ FailNode(w)
    BY <2>3, <1>a, StartNodeRun, EndNodeRun
  <2>4. CASE Retry(w) \/ Nack(w)
    BY <2>4, <1>a, ReturnRun
  <2>5. CASE Dispatching(w)
    BY <2>5, <1>a, <1>b, LocalProcRuns DEF Dispatching
  <2>6. CASE \/ FindTerminal(w) \/ FindPending(w) \/ FindRunning(w) \/ ClaimLost(w) \/ Prepare(w)
             \/ NodeThrows(w) \/ CompleteLost(w) \/ FlushNext(w) \/ FlushDone(w) \/ FailLost(w)
             \/ DeadLetter(w) \/ Ack(w)
    BY <2>6, <1>a, LocalWorkerRuns
  <2> QED  BY <1>4, <2>1, <2>2, <2>3, <2>4, <2>5, <2>6 DEF WorkerStep
<1>5. ASSUME NEW d \in Dispatchers, DispatcherStep(d)
      PROVE  RunInv'
  BY <1>5, <1>a, <1>b, LocalProcRuns, LocalDispatcherRuns DEF DispatcherStep, Dispatching
<1>6. ASSUME NEW k \in EndKeys, PersistEvent(k)
      PROVE  RunInv'
  BY <1>6, <1>a, OutsideRuns
<1>7. CASE Fault
  <2>1. ASSUME NEW e \in Executions, RequestLost(e) PROVE RunInv'
    BY <2>1, <1>a, OutsideRuns
  <2>2. ASSUME NEW w \in Workers, CrashWorker(w) \/ FailThrows(w) PROVE RunInv'
    BY <2>2, <1>a, <1>b, CrashRuns, LocalWorkerRuns
  <2>3. ASSUME NEW d \in Dispatchers, CrashDispatcher(d) PROVE RunInv'
    BY <2>3, <1>a, <1>b, CrashRuns
  <2>4. ASSUME NEW p \in Procs, PublishFails(p) \/ DatabaseFails(p) PROVE RunInv'
    BY <2>4, <1>a, LocalProcRuns
  <2> QED  BY <1>7, <2>1, <2>2, <2>3, <2>4 DEF Fault
<1> QED  BY <1>1, <1>2, <1>3, <1>4, <1>5, <1>6, <1>7 DEF Next

LEMMA RunInvariant == Spec => [](ExecInv /\ RunInv)
<1>1. Init => ExecInv /\ RunInv
  BY ExecInit, RunInit
<1>2. ExecInv /\ RunInv /\ [Next]_vars => (ExecInv /\ RunInv)'
  BY ExecStep, RunStep
<1> QED  BY <1>1, <1>2, PTL DEF Spec

\* Without a crash the nodes of an execution that has SUCCEEDED stay as its run left
\* them: the retries of handleDelivery never make two workers process one execution.
THEOREM NoRerunWithoutRedeliveryHolds == Spec => []NoRerunWithoutRedelivery
<1>1. RunInv => NoRerunWithoutRedelivery
  BY DEF RunInv, SuccessesDone, DoneUpTo, NoRerunWithoutRedelivery, Nodes
<1> QED  BY <1>1, RunInvariant, PTL

\* The verdict on a misconfigured prompt node survives the way from the orchestrator to
\* handleDelivery: no retry, and no second call of the model.
THEOREM MisconfiguredNotRetriedHolds == Spec => []MisconfiguredNotRetried
<1>1. \A a \in 1 .. MaxRetry : a \in Attempts /\ a # 0
  BY ExecutionAssumption DEF Attempts
<1>2. RunInv => MisconfiguredNotRetried
  BY <1>1 DEF RunInv, SeenOnce, MisconfiguredNotRetried
<1> QED  BY <1>2, RunInvariant, PTL

-----------------------------------------------------------------------------
(* The page *)

Pages ==
  [pc : {"closed", "loading", "reading", "shown"}, for : {"summary", "diagnostics"},
   exec : Executions, status : {"NONE", "PENDING", "RUNNING", "SUCCEEDED", "FAILED"},
   nodes : [Nodes -> RowStatuses],
   traces : SUBSET (Nodes \X Attempts \X {"SUCCEEDED", "FAILED"}),
   events : SUBSET EndKeys, rows : SUBSET (LifecycleEvents \X OutboxStatuses)]

\* What page q says of the end of its execution is so.
PageOK(q, st, nr, tr, tl) ==
  /\ q.pc \in {"reading", "shown"} /\ isTerminalExecutionStatus(q.status) =>
       q.status = st[q.exec]
  /\ q.pc = "shown" /\ q.for = "summary" /\ isTerminalExecutionStatus(q.status) =>
       q.nodes = nr[q.exec] /\ q.traces = tr[q.exec]
  /\ q.pc = "shown" =>
       /\ q.events \subseteq tl
       /\ Failure(q.status, q.events) /\ q.for = "diagnostics" => st[q.exec] = "FAILED"
       /\ <<"completed", "PUBLISHED">> \in q.rows /\ q.for = "diagnostics" =>
            st[q.exec] = "SUCCEEDED"

PageInv ==
  /\ ExecInv /\ RunInv
  /\ page \in Pages
  /\ page.pc # "closed" => faults = 0
  /\ PageOK(page, status, nodeRow, traces, timeline)

\* Until a crash nobody touches an execution that has ended.
LEMMA EndedStays ==
  ASSUME ExecInv, RunInv, crashes = 0, [Next]_vars, NEW e \in Executions
  PROVE  /\ Terminal(e) =>
              status'[e] = status[e] /\ nodeRow'[e] = nodeRow[e] /\ traces'[e] = traces[e]
         /\ timeline \subseteq timeline'
<1> DEFINE Same == /\ Terminal(e) => /\ status'[e] = status[e] /\ nodeRow'[e] = nodeRow[e]
                                     /\ traces'[e] = traces[e]
                   /\ timeline \subseteq timeline'
<1>a. /\ status \in [Executions -> {"NONE", "PENDING", "RUNNING", "SUCCEEDED", "FAILED"}]
      /\ nodeRow \in [Executions -> [Nodes -> RowStatuses]]
      /\ Terminal(e) => status[e] \in {"SUCCEEDED", "FAILED"}
      /\ traces \in [Executions -> SUBSET (Nodes \X Attempts \X {"SUCCEEDED", "FAILED"})]
  BY DEF ExecInv, TypeOK, Terminal
<1>0. ASSUME UNCHANGED <<status, nodeRow, traces>>, timeline \subseteq timeline' PROVE Same
  BY <1>0
<1>1. CASE UNCHANGED vars
  BY <1>1, <1>0 DEF vars, rowVars, brokerVars
<1>2. ASSUME NEW f \in Executions, NEW k \in ExecutionKinds, CreateExecution(f, k)
      PROVE  Same
  <2>1. status[f] = "NONE"
    BY <1>2 DEF CreateExecution, ExecInv, RowsOK
  <2>2. /\ status' = [status EXCEPT ![f] = "PENDING"] /\ nodeRow' = nodeRow /\ traces' = traces
        /\ timeline' = timeline
    BY <1>2 DEF CreateExecution, brokerVars
  <2> QED  BY <2>1, <2>2, <1>a
<1>3. ASSUME NEW f \in Executions, PublishRequest(f) \/ RequestLost(f) PROVE Same
  BY <1>3, <1>0 DEF PublishRequest, RequestLost, brokerVars
<1>4. ASSUME NEW k \in EndKeys, PersistEvent(k) PROVE Same
  BY <1>4, <1>0 DEF PersistEvent, rowVars
<1>5. ASSUME NEW p \in Procs,
             \/ SkipPublished(p) \/ Publish(p) \/ PublishFails(p) \/ MarkSent(p)
             \/ DatabaseFails(p)
      PROVE  Same
  BY <1>5, <1>0 DEF SkipPublished, Publish, PublishFails, MarkSent, DatabaseFails, rowVars,
       brokerVars
<1>6. ASSUME NEW d \in Dispatchers, (\E k \in Keys : FetchPending(d, k)) \/ CrashDispatcher(d)
      PROVE  Same
  BY <1>6, <1>0 DEF FetchPending, CrashDispatcher, rowVars, brokerVars
<1>7. ASSUME NEW w \in Workers,
             \/ \E f \in Executions, a \in Attempts : Receive(w, f, a)
             \/ Retry(w) \/ DeadLetter(w) \/ Nack(w) \/ CrashWorker(w) \/ Ack(w)
             \/ FailLost(w) \/ FailThrows(w)
      PROVE  Same
  BY <1>7, <1>0 DEF Receive, Retry, DeadLetter, Nack, CrashWorker, GiveBack, Ack, FailLost,
       FailThrows, rowVars, brokerVars
<1>8. ASSUME NEW w \in Workers,
             \/ FindTerminal(w) \/ FindPending(w) \/ FindRunning(w) \/ ClaimLost(w) \/ Prepare(w)
             \/ NodeThrows(w) \/ CompleteLost(w) \/ FlushNext(w) \/ FlushDone(w)
      PROVE  Same
  BY <1>8, <1>0 DEF FindTerminal, FindPending, FindRunning, ClaimLost, Prepare, NodeThrows,
       CompleteLost, FlushNext, FlushDone, StartFlush, rowVars, brokerVars
<1>9. ASSUME NEW w \in Workers, Claim(w) \/ Complete(w) \/ Fail(w) PROVE Same
  <2>1. PICK x : /\ status' = [status EXCEPT ![job[w].exec] = x]
                 /\ status[job[w].exec] \in {"PENDING", "RUNNING"}
    BY <1>9 DEF Claim, Complete, Fail
  <2>2. nodeRow' = nodeRow /\ traces' = traces /\ timeline' = timeline
    BY <1>9 DEF Claim, Complete, Fail, brokerVars
  <2> QED  BY <2>1, <2>2, <1>a
<1>10. ASSUME NEW w \in Workers, StartNode(w) \/ RunNode(w) \/ FailNode(w) PROVE Same
  <2>1. pc[w] \in {"nodes", "run", "failNode"}
    BY <1>10 DEF StartNode, RunNode, FailNode
  <2>2. ~ Ended(status, job[w].exec) /\ job[w].exec \in Executions
    <3>1. SafeRun(pc[w], job[w], send[w].key[1], status, nodeRow) /\ job[w].exec \in Executions
      BY RunFacts
    <3> QED  BY <3>1, <2>1 DEF SafeRun, Active
  <2>3. Terminal(e) => e # job[w].exec
    BY <2>2, <1>a DEF Ended
  <2>4. PICK n, x : SetNode(job[w].exec, n, x)
    BY <1>10 DEF StartNode, RunNode, FailNode
  <2>5. Terminal(e) => nodeRow'[e] = nodeRow[e]
    BY <2>3, <2>4, <1>a DEF SetNode
  <2>6. Terminal(e) => traces'[e] = traces[e]
    <3>1. CASE StartNode(w)
      BY <3>1 DEF StartNode
    <3>2. CASE RunNode(w) \/ FailNode(w)
      <4>1. \/ traces' = traces
            \/ \E t : traces' = [traces EXCEPT ![job[w].exec] = @ \cup {t}]
        BY <3>2 DEF RunNode, FailNode, recordAiTrace
      <4> QED  BY <4>1, <2>3, <1>a
    <3> QED  BY <3>1, <3>2, <1>10
  <2>7. status' = status /\ timeline' = timeline
    BY <1>10 DEF StartNode, RunNode, FailNode, brokerVars
  <2> QED  BY <2>5, <2>6, <2>7
<1>b. Workers \subseteq Procs /\ Dispatchers \subseteq Procs
  BY DEF Procs
<1>11. ASSUME NEW w \in Workers, WorkerStep(w) PROVE Same
  BY <1>11, <1>b, <1>5, <1>7, <1>8, <1>9, <1>10 DEF WorkerStep, Dispatching
<1>12. ASSUME NEW d \in Dispatchers, DispatcherStep(d) PROVE Same
  BY <1>12, <1>b, <1>5, <1>6 DEF DispatcherStep, Dispatching
<1>13. CASE Fault
  BY <1>13, <1>3, <1>5, <1>6, <1>7 DEF Fault
<1> QED  BY <1>1, <1>2, <1>3, <1>4, <1>11, <1>12, <1>13 DEF Next

\* An event in the timeline was recorded with the end it tells of.
LEMMA TimelineTells ==
  ASSUME ExecInv, Told, NEW k \in timeline, k[1] = "failed"
  PROVE  status[k[2]] = "FAILED"
<1>1. k \in EndKeys /\ k \in announced
  BY DEF Told, ExecInv, TypeOK
<1>2. k[2] \in Executions /\ k = <<"failed", k[2], 0>> /\ k \in LifecycleKeys
  BY <1>1 DEF EndKeys, LifecycleKeys, LifecycleEvents
<1>3. <<k[1], k[2]>> \in Announced
  BY <1>1, <1>2 DEF Announced
<1>4. PICK l \in LifecycleKeys : Exists(outbox[l]) /\ <<l[1], l[2]>> = <<k[1], k[2]>>
  BY <1>3 DEF Told, Recorded
<1>5. l = k
  BY <1>2, <1>4 DEF LifecycleKeys
<1> QED  BY <1>2, <1>4, <1>5 DEF ExecInv, RowsOK

\* The system moves under an open page.
LEMMA PageKept ==
  ASSUME PageInv, [Next]_vars, page' = page, page.pc # "closed" => faults' = faults
  PROVE  PageInv'
<1>1. ExecInv' /\ RunInv'
  BY ExecStep, RunStep DEF PageInv
<1>2. page' \in Pages /\ (page'.pc # "closed" => faults' = 0)
  BY DEF PageInv
<1>3. PICK st, nr, tr, tl : st = status' /\ nr = nodeRow' /\ tr = traces' /\ tl = timeline'
  OBVIOUS
<1>4. PageOK(page, st, nr, tr, tl)
  <2>a. page.exec \in Executions /\ PageOK(page, status, nodeRow, traces, timeline)
    BY DEF PageInv, Pages
  <2>1. CASE page.pc = "closed"
    BY <2>1 DEF PageOK
  <2>2. CASE page.pc # "closed"
    <3>1. crashes = 0
      BY <2>2 DEF PageInv, RunInv, ExecInv, TypeOK
    <3>2. Terminal(page.exec) => /\ st[page.exec] = status[page.exec]
                                 /\ nr[page.exec] = nodeRow[page.exec]
                                 /\ tr[page.exec] = traces[page.exec]
      BY <3>1, <1>3, <2>a, EndedStays DEF PageInv
    <3>3. timeline \subseteq tl
      BY <3>1, <1>3, <2>a, EndedStays DEF PageInv
    <3>4. isTerminalExecutionStatus(page.status) /\ page.status = status[page.exec] =>
            Terminal(page.exec)
      BY DEF isTerminalExecutionStatus, Terminal
    <3>5. status[page.exec] \in {"SUCCEEDED", "FAILED"} => Terminal(page.exec)
      BY DEF Terminal
    <3> QED  BY <3>2, <3>3, <3>4, <3>5, <2>a DEF PageOK
  <2> QED  BY <2>1, <2>2
<1> QED  BY <1>1, <1>2, <1>3, <1>4 DEF PageInv

\* The page moves.
LEMMA PageMoves ==
  ASSUME PageInv, PageStep, UNCHANGED vars
  PROVE  PageInv'
<1>a. /\ ExecInv /\ RunInv /\ page \in Pages /\ page.exec \in Executions
      /\ PageOK(page, status, nodeRow, traces, timeline)
      /\ page.pc # "closed" => faults = 0
  BY DEF PageInv, Pages
<1>b. /\ status \in [Executions -> {"NONE", "PENDING", "RUNNING", "SUCCEEDED", "FAILED"}]
      /\ nodeRow \in [Executions -> [Nodes -> RowStatuses]]
      /\ traces \in [Executions -> SUBSET (Nodes \X Attempts \X {"SUCCEEDED", "FAILED"})]
      /\ outbox \in [Keys -> OutboxRows] /\ timeline \subseteq EndKeys
  BY <1>a DEF ExecInv, TypeOK
<1>c. status' = status /\ nodeRow' = nodeRow /\ traces' = traces /\ timeline' = timeline
      /\ faults' = faults
  BY DEF vars, rowVars, brokerVars
<1>d. ExecInv' /\ RunInv'
  BY <1>a, ExecStep, RunStep
<1>0. SUFFICES ASSUME NEW q, q = page'
               PROVE  /\ q \in Pages /\ (q.pc # "closed" => faults = 0)
                      /\ PageOK(q, status, nodeRow, traces, timeline)
  BY <1>c, <1>d DEF PageInv
<1>e. EventsOf(page.exec) \subseteq EndKeys /\ EventsOf(page.exec) \subseteq timeline
  BY <1>b DEF EventsOf
<1>f. OutboxOf(page.exec) \subseteq LifecycleEvents \X OutboxStatuses
  <2>1. ASSUME NEW k \in EndKeys
        PROVE  k[1] \in LifecycleEvents /\ outbox[k].status \in OutboxStatuses
    <3>1. k \in Keys /\ k[1] \in LifecycleEvents
      BY DEF EndKeys, Keys, LifecycleKeys, LifecycleEvents
    <3> QED  BY <3>1, <1>b DEF OutboxRows
  <2> QED  BY <2>1 DEF OutboxOf
<1>1. ASSUME NEW e \in Executions, NEW r \in {"summary", "diagnostics"}, open(e, r)
      PROVE  /\ q \in Pages /\ (q.pc # "closed" => faults = 0)
             /\ PageOK(q, status, nodeRow, traces, timeline)
  <2>1. q = [Closed(e) EXCEPT !.pc = "loading", !.for = r] /\ faults = 0
    BY <1>0, <1>1 DEF open
  <2>2. q \in Pages /\ q.pc = "loading"
    BY <2>1 DEF Closed, NoNodes, Pages, RowStatuses
  <2> QED  BY <2>1, <2>2 DEF PageOK
<1>2. CASE findExecution
  <2>1. q = [page EXCEPT !.pc = "reading", !.status = status[page.exec]] /\ page.pc = "loading"
    BY <1>0, <1>2 DEF findExecution
  <2>2. q \in Pages /\ q.pc = "reading" /\ q.exec = page.exec /\ q.status = status[page.exec]
    BY <2>1, <1>a, <1>b DEF Pages
  <2> QED  BY <2>1, <2>2, <1>a DEF PageOK
<1>3. CASE findExecutionSummary
  <2>1. /\ page.pc = "reading" /\ page.for = "summary"
        /\ q = [page EXCEPT !.pc = "shown", !.events = EventsOf(page.exec),
                            !.nodes = NodesOf(page.exec), !.traces = TracesOf(page.exec)]
    BY <1>0, <1>3 DEF findExecutionSummary
  <2>2. NodesOf(page.exec) = nodeRow[page.exec] /\ TracesOf(page.exec) = traces[page.exec]
    BY DEF NodesOf, TracesOf
  <2>3. /\ q \in Pages /\ q.pc = "shown" /\ q.for = "summary" /\ q.exec = page.exec
        /\ q.status = page.status /\ q.nodes = nodeRow[page.exec]
        /\ q.traces = traces[page.exec] /\ q.events = EventsOf(page.exec)
    BY <2>1, <2>2, <1>a, <1>b, <1>e DEF Pages
  <2> QED  BY <2>1, <2>3, <1>a, <1>e DEF PageOK
<1>4. CASE findExecutionDiagnostics
  <2>1. /\ page.pc = "reading" /\ page.for = "diagnostics"
        /\ q = [page EXCEPT !.pc = "shown", !.events = EventsOf(page.exec),
                            !.rows = OutboxOf(page.exec)]
    BY <1>0, <1>4 DEF findExecutionDiagnostics
  <2>2. /\ q \in Pages /\ q.pc = "shown" /\ q.for = "diagnostics" /\ q.exec = page.exec
        /\ q.status = page.status /\ q.rows = OutboxOf(page.exec)
        /\ q.events = EventsOf(page.exec)
    BY <2>1, <1>a, <1>e, <1>f DEF Pages
  <2>3. isTerminalExecutionStatus(q.status) => q.status = status[q.exec]
    BY <2>1, <2>2, <1>a DEF PageOK
  <2>4. Failure(q.status, q.events) => status[q.exec] = "FAILED"
    <3>1. q.status = "FAILED" => status[q.exec] = "FAILED"
      BY <2>3 DEF isTerminalExecutionStatus
    <3>2. \A k \in q.events : k \in timeline /\ k[2] = q.exec
      BY <2>2 DEF EventsOf
    <3>3. \A k \in q.events : k[1] = "failed" => status[q.exec] = "FAILED"
      BY <3>2, <1>a, TimelineTells DEF RunInv
    <3> QED  BY <3>1, <3>3 DEF Failure
  <2>5. <<"completed", "PUBLISHED">> \in q.rows => status[q.exec] = "SUCCEEDED"
    <3>1. ASSUME <<"completed", "PUBLISHED">> \in q.rows PROVE status[q.exec] = "SUCCEEDED"
      <4>1. PICK k \in EndKeys : k[2] = q.exec /\ Exists(outbox[k]) /\ k[1] = "completed"
        BY <3>1, <2>2 DEF OutboxOf
      <4>2. k = <<"completed", q.exec, 0>>
        BY <4>1 DEF EndKeys
      <4> QED  BY <4>1, <4>2, <2>2, <1>a DEF ExecInv, RowsOK
    <3> QED  BY <3>1
  <2> QED  BY <2>1, <2>2, <2>3, <2>4, <2>5, <1>a, <1>e DEF PageOK
<1>5. CASE refetch
  <2>1. q = [page EXCEPT !.pc = "loading"] /\ page.pc = "shown"
    BY <1>0, <1>5 DEF refetch
  <2>2. q \in Pages /\ q.pc = "loading"
    BY <2>1, <1>a DEF Pages
  <2> QED  BY <2>1, <2>2, <1>a DEF PageOK
<1> QED  BY <1>1, <1>2, <1>3, <1>4, <1>5 DEF PageStep

LEMMA PageInvariant == PageSpec => []PageInv
<1>1. PageInit => PageInv
  <2> SUFFICES ASSUME PageInit PROVE PageInv
    OBVIOUS
  <2>1. ExecInv /\ RunInv
    BY ExecInit, RunInit DEF PageInit
  <2>2. PICK e \in Executions : page = Closed(e)
    BY DEF PageInit
  <2>3. page \in Pages /\ page.pc = "closed"
    BY <2>2 DEF Closed, NoNodes, Pages, RowStatuses
  <2> QED  BY <2>1, <2>3 DEF PageInv, PageOK
<1>2. PageInv /\ [PageNext]_pageVars => PageInv'
  <2> SUFFICES ASSUME PageInv, [PageNext]_pageVars PROVE PageInv'
    OBVIOUS
  <2>1. CASE Next /\ UNCHANGED page /\ (page.pc # "closed" => UNCHANGED faults)
    BY <2>1, PageKept
  <2>2. CASE PageStep /\ UNCHANGED vars
    BY <2>2, PageMoves
  <2>3. CASE UNCHANGED pageVars
    <3>1. UNCHANGED vars /\ page' = page /\ faults' = faults
      BY <2>3 DEF pageVars, vars
    <3> QED  BY <3>1, PageKept
  <2> QED  BY <2>1, <2>2, <2>3 DEF PageNext
<1> QED  BY <1>1, <1>2, PTL DEF PageSpec

\* What the page shows when it stops asking stays true, and the diagnosis that is never
\* refreshed reports no failure and no publication of an end that did not happen.
THEOREM ShownEndIsFinalHolds == PageSpec => []ShownEndIsFinal
<1>1. PageInv => ShownEndIsFinal
  <2> SUFFICES ASSUME PageInv, page.pc = "shown" PROVE ShownEndIsFinal
    BY DEF ShownEndIsFinal
  <2>a. /\ page \in Pages /\ page.exec \in Executions /\ faults = 0 /\ RunInv /\ ExecInv
        /\ PageOK(page, status, nodeRow, traces, timeline)
    BY DEF PageInv, Pages
  <2>b. crashes = 0
    BY <2>a DEF RunInv, ExecInv, TypeOK
  <2>c. SuccessesDone /\ SeenOnce /\ Traced
    BY <2>a, <2>b DEF RunInv
  <2>1. ASSUME page.for = "summary", ~ isLive
        PROVE  /\ page.status = status[page.exec]
               /\ page.nodes = nodeRow[page.exec]
               /\ page.traces = traces[page.exec]
    BY <2>1, <2>a DEF PageOK, isLive
  <2>2. ASSUME page.for = "summary", ~ isLive, page.status = "SUCCEEDED"
        PROVE  /\ MetricCard("SUCCEEDED") = NodeCount
               /\ \A n \in Nodes : \E t \in AiObservabilityCard("SUCCEEDED") : t[1] = n
    <3>1. status[page.exec] = "SUCCEEDED" /\ page.nodes = nodeRow[page.exec]
          /\ page.traces = traces[page.exec]
      BY <2>1, <2>2
    <3>2. \A n \in Nodes : page.nodes[n] = "SUCCEEDED"
      BY <3>1, <2>a, <2>c DEF SuccessesDone, DoneUpTo, Nodes
    <3>3. {n \in NodeProgressCard : page.nodes[n] = "SUCCEEDED"} = 1 .. NodeCount
      BY <3>2 DEF NodeProgressCard, Nodes
    <3>4. Cardinality(1 .. NodeCount) = NodeCount
      BY ExecutionAssumption, FS_Interval
    <3>5. MetricCard("SUCCEEDED") = NodeCount
      BY <3>3, <3>4 DEF MetricCard
    <3>6. kind[page.exec] # "misconfigured"
      BY <3>1, <2>a, <2>c DEF SeenOnce
    <3>7. ASSUME NEW n \in Nodes
          PROVE  \E t \in AiObservabilityCard("SUCCEEDED") : t[1] = n
      <4>1. PICK t \in page.traces : t[1] = n /\ t[3] = "SUCCEEDED"
        BY <3>1, <3>2, <3>6, <2>a, <2>c DEF Traced
      <4> QED  BY <4>1 DEF AiObservabilityCard
    <3> QED  BY <3>5, <3>7
  <2>3. TimelineCard \subseteq timeline
    BY <2>a DEF PageOK, TimelineCard
  <2>4. ASSUME page.for = "diagnostics"
        PROVE  /\ DiagnosticsCard.failure => status[page.exec] = "FAILED"
               /\ <<"completed", "PUBLISHED">> \in DiagnosticsCard.outbox
                       => status[page.exec] = "SUCCEEDED" /\ ~DiagnosticsCard.deadLettered
    <3>1. /\ DiagnosticsCard.failure = Failure(page.status, page.events)
          /\ DiagnosticsCard.outbox = page.rows
          /\ DiagnosticsCard.deadLettered =
               (page.status = "FAILED" /\ Failure(page.status, page.events))
      BY DEF DiagnosticsCard
    <3> QED  BY <3>1, <2>4, <2>a DEF PageOK
  <2> QED  BY <2>1, <2>2, <2>3, <2>4 DEF ShownEndIsFinal
<1> QED  BY <1>1, PageInvariant, PTL


=============================================================================
