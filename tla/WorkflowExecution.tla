-------------------------- MODULE WorkflowExecution --------------------------
(***************************************************************************)
(* Workflow executions: the API that creates an execution and sends the    *)
(* command, the replicas of the execution worker that consume it, with     *)
(* retries, redeliveries after a crash and dead letters, the outbox of     *)
(* lifecycle and node events with its periodic dispatcher, and the         *)
(* workflow service that stores the events it receives.                    *)
(*                                                                         *)
(* A delivery is held by a worker until it is acknowledged; a crash gives  *)
(* it back to the queue.  A retry waits in a delay queue before it is      *)
(* consumed again; here it waits in `commands', from which a worker may    *)
(* take it at any later time.  The nodes of a workflow are 1..NodeCount in *)
(* the order in which orderWorkflowNodes returned them.                    *)
(***************************************************************************)
EXTENDS Outbox, NodeRunner, Messaging

CONSTANTS
    Executions,   \* executions that may be requested
    Workers,      \* consumers of the command queue, one per replica
    Dispatchers,  \* overlapping cycles of the periodic outbox dispatcher
    NodeCount,    \* nodes of the workflow
    MaxRetry,     \* FLOWPILOT_MAX_RETRY_ATTEMPTS
    MaxFaults     \* bound on crashes, failed publications and database errors

ASSUME ExecutionAssumption ==
    /\ NodeCount \in Nat \ {0}
    /\ MaxRetry \in Nat
    /\ MaxFaults \in Nat
    /\ Workers \cap Dispatchers = {}

VARIABLES
    status,      \* workflowExecution.status, "NONE" before the row exists
    kind,        \* what was requested, one of ExecutionKinds
    ends,        \* how the nodes that call out can end, from their configuration
    request,     \* the API call: "none", "created" the row, "sent" the command, "lost" it
    nodeRow,     \* workflowNodeExecution.status of each node
    traces,      \* workflowAiTrace: <<node, attempt, status>> of the model calls
    outbox,      \* the outbox row of each event
    announced,   \* events handed to the events exchange
    timeline,    \* events stored by the workflow service
    commands,    \* copies of the command waiting, by retry attempt
    deadLetters, \* executions whose command was dead-lettered
    pc, job, send,  \* the workers and dispatchers
    crashes, faults

Nodes == 1..NodeCount

\* The command first sent, and one delay queue per retry (retryQueueConfig).
Attempts == 0..MaxRetry

\* A workflow whose nodes run in an environment that may do anything, one that ends with
\* a misconfigured prompt node, one that does not pass the checks before its nodes run,
\* and a simulated failure that is worth a retry.
ExecutionKinds == {"sound", "misconfigured", "broken", "flaky"}
Procs == Workers \cup Dispatchers

\* The idempotency keys <<event, execution, node>>; node 0 for the execution itself.
LifecycleKeys == LifecycleEvents \X Executions \X {0}
NodeKeys == NodeEvents \X Executions \X Nodes
Keys == LifecycleKeys \cup NodeKeys

Terminal(e) == status[e] \in {"SUCCEEDED", "FAILED"}  \* isTerminalExecutionStatus

rowVars    == <<status, kind, ends, request, nodeRow, traces>>
brokerVars == <<announced, timeline, commands, deadLetters>>
procVars   == <<pc, job, send>>
vars == <<rowVars, outbox, brokerVars, procVars, crashes, faults>>

\* A process that holds no delivery, and one that dispatches no row.
NoSend(e) == [key |-> <<"started", e, 0>>, copy |-> NoRow]
NoJob(e) == [exec |-> e, attempt |-> 0, node |-> 0, retryable |-> FALSE,
             failing |-> FALSE, flushing |-> FALSE, todo |-> {}]

Init ==
    /\ status = [e \in Executions |-> "NONE"]
    /\ kind = [e \in Executions |-> "sound"]
    /\ ends = [e \in Executions |-> {}]
    /\ request = [e \in Executions |-> "none"]
    /\ nodeRow = [e \in Executions |-> [n \in Nodes |-> "NONE"]]
    /\ traces = [e \in Executions |-> {}]
    /\ outbox = [k \in Keys |-> NoRow]
    /\ announced = {}
    /\ timeline = {}
    /\ commands = [e \in Executions |-> [a \in Attempts |-> 0]]
    /\ deadLetters = {}
    /\ pc = [p \in Procs |-> "idle"]
    /\ \E e \in Executions : /\ job = [p \in Procs |-> NoJob(e)]
                             /\ send = [p \in Procs |-> NoSend(e)]
    /\ crashes = 0
    /\ faults = 0

-----------------------------------------------------------------------------
(* The API *)

\* requestExecution writes the row first.
CreateExecution(e, k) ==
    /\ request[e] = "none"
    /\ request' = [request EXCEPT ![e] = "created"]
    /\ status' = [status EXCEPT ![e] = "PENDING"]
    /\ kind' = [kind EXCEPT ![e] = k]
    /\ ends' = [ends EXCEPT ![e] = IF k = "misconfigured" THEN MisconfiguredOutcome
                                   ELSE AnyOutcome]
    /\ UNCHANGED <<nodeRow, traces, outbox, brokerVars, procVars, crashes, faults>>

\* It then publishes the command; nothing else ever publishes it.
PublishRequest(e) ==
    /\ request[e] = "created"
    /\ request' = [request EXCEPT ![e] = "sent"]
    /\ commands' = [commands EXCEPT ![e][0] = @ + 1]
    /\ UNCHANGED <<status, kind, ends, nodeRow, traces, outbox, announced, timeline, deadLetters,
                   procVars, crashes, faults>>

\* The broker cannot be reached, or the process ends: the call fails, the row stays.
RequestLost(e) ==
    /\ request[e] = "created" /\ faults < MaxFaults
    /\ faults' = faults + 1
    /\ request' = [request EXCEPT ![e] = "lost"]
    /\ UNCHANGED <<status, kind, ends, nodeRow, traces, outbox, brokerVars, procVars, crashes>>

-----------------------------------------------------------------------------
(* Dispatching one outbox row: the steps a worker and the dispatcher share *)

Goto(p, l) == pc' = [pc EXCEPT ![p] = l]

\* The row is written unless it exists, and the row as it now is will be dispatched.
PersistAndDispatch(p, k) ==
    /\ outbox' = [outbox EXCEPT ![k] = persistOutboxEvent(@)]
    /\ send' = [send EXCEPT ![p] = [key |-> k, copy |-> persistOutboxEvent(outbox[k])]]
    /\ Goto(p, "dispatch")

\* Where a process goes on once dispatchOutboxEvent has returned.
After(p) ==
    CASE p \in Dispatchers                    -> "idle"
      [] p \in Workers /\ job[p].flushing     -> "flush"
      [] p \in Workers /\ ~job[p].flushing    ->
           CASE send[p].key[1] = "started"       -> "prepare"
             [] send[p].key[1] = "nodeStarted"   -> "run"
             [] send[p].key[1] = "nodeCompleted" -> "nodes"
             [] send[p].key[1] = "nodeFailed"    -> "error"
             [] send[p].key[1] = "completed"     -> "ack"
             [] send[p].key[1] = "failed"        -> "deadletter"

EndSend(p) == send' = [send EXCEPT ![p] = NoSend(job[p].exec)]

\* Inside the try block around the execution of a node.
InNode(p) ==
    \/ pc[p] = "run"
    \/ /\ pc[p] \in {"dispatch", "mark"}
       /\ ~job[p].flushing
       /\ send[p].key[1] = "nodeCompleted"

\* An exception that carries no verdict of its own, hence retryable: it ends a
\* dispatcher's row, requeues a delivery whose execution was being failed, fails
\* the node that was running, and ends the processing of the command otherwise.
Throw(p) ==
    /\ job' = [job EXCEPT ![p].retryable = TRUE]
    /\ Goto(p, CASE p \in Dispatchers                                -> "idle"
                 [] p \in Workers /\ job[p].failing                  -> "nack"
                 [] p \in Workers /\ ~job[p].failing /\ InNode(p)    -> "failNode"
                 [] p \in Workers /\ ~job[p].failing /\ ~InNode(p)   -> "error")
    /\ EndSend(p)

\* A cycle of the dispatcher has read a row that is still to be published.
FetchPending(d, k) ==
    /\ pc[d] = "idle"
    /\ Dispatchable(outbox[k])
    /\ send' = [send EXCEPT ![d] = [key |-> k, copy |-> outbox[k]]]
    /\ Goto(d, "dispatch")
    /\ UNCHANGED <<rowVars, outbox, brokerVars, job, crashes, faults>>

\* dispatchOutboxEvent returns at once when the copy is PUBLISHED.
SkipPublished(p) ==
    /\ pc[p] = "dispatch" /\ send[p].copy.status = "PUBLISHED"
    /\ Goto(p, After(p))
    /\ EndSend(p)
    /\ UNCHANGED <<rowVars, outbox, brokerVars, job, crashes, faults>>

Publish(p) ==
    /\ pc[p] = "dispatch" /\ send[p].copy.status # "PUBLISHED"
    /\ announced' = announced \cup {send[p].key}
    /\ Goto(p, "mark")
    /\ UNCHANGED <<rowVars, outbox, timeline, commands, deadLetters, job, send,
                   crashes, faults>>

\* Mutant: the failure is recorded but not thrown on.
PublishFails_Swallowed(p) ==
    /\ pc[p] = "dispatch" /\ send[p].copy.status # "PUBLISHED"
    /\ faults < MaxFaults
    /\ faults' = faults + 1
    /\ outbox' = [outbox EXCEPT ![send[p].key] = markOutboxPublishFailure(send[p].copy)]
    /\ Goto(p, After(p))
    /\ EndSend(p)
    /\ UNCHANGED <<rowVars, brokerVars, job, crashes>>

\* Mutant: what the channel answered is not looked at.
PublishFails_Unnoticed(p) ==
    /\ pc[p] = "dispatch" /\ send[p].copy.status # "PUBLISHED"
    /\ faults < MaxFaults
    /\ faults' = faults + 1
    /\ Goto(p, "mark")
    /\ UNCHANGED <<rowVars, outbox, brokerVars, job, send, crashes>>

\* The channel throws, or returns false although it has buffered the event.
PublishFails(p) ==
    /\ pc[p] = "dispatch" /\ send[p].copy.status # "PUBLISHED"
    /\ faults < MaxFaults
    /\ faults' = faults + 1
    /\ announced' \in {announced, announced \cup {send[p].key}}
    /\ outbox' = [outbox EXCEPT ![send[p].key] = markOutboxPublishFailure(send[p].copy)]
    /\ Throw(p)
    /\ UNCHANGED <<rowVars, timeline, commands, deadLetters, crashes>>

MarkSent(p) ==
    /\ pc[p] = "mark"
    /\ outbox' = [outbox EXCEPT ![send[p].key] = MarkPublished]
    /\ Goto(p, After(p))
    /\ EndSend(p)
    /\ UNCHANGED <<rowVars, brokerVars, job, crashes, faults>>

-----------------------------------------------------------------------------
(* A worker processes a delivery *)

\* Mutant: a delivery although the queue is empty.
Receive_Unguarded(w, e, a) ==
    /\ pc[w] = "idle"
    /\ commands' = [commands EXCEPT ![e][a] = @ - 1]
    /\ job' = [job EXCEPT ![w] = [NoJob(e) EXCEPT !.attempt = a]]
    /\ Goto(w, "find")
    /\ UNCHANGED <<rowVars, outbox, announced, timeline, deadLetters, send, crashes,
                   faults>>

\* A command that is not one would be dead-lettered unread.
Receive(w, e, a) ==
    /\ pc[w] = "idle" /\ commands[e][a] > 0
    /\ isWorkflowExecutionRequestedMessage(createWorkflowExecutionRequestedMessage)
    /\ commands' = [commands EXCEPT ![e][a] = @ - 1]
    /\ job' = [job EXCEPT ![w] = [NoJob(e) EXCEPT !.attempt = a]]
    /\ Goto(w, "find")
    /\ UNCHANGED <<rowVars, outbox, announced, timeline, deadLetters, send, crashes,
                   faults>>

\* The lifecycle rows of the execution that are still to be published, as read by
\* dispatchPendingWorkflowExecutionOutboxMessages.
PendingOf(e) ==
    {[key |-> k, copy |-> outbox[k]] :
        k \in {l \in LifecycleEvents \X {e} \X {0} : outbox[l].status = "PENDING"}}

StartFlush(w) ==
    /\ job' = [job EXCEPT ![w].flushing = TRUE, ![w].todo = PendingOf(job[w].exec)]
    /\ Goto(w, "flush")
    /\ UNCHANGED <<rowVars, outbox, brokerVars, send, crashes, faults>>

\* processWorkflowExecution reads the execution.
FindTerminal(w) == pc[w] = "find" /\ Terminal(job[w].exec) /\ StartFlush(w)

FindPending(w) ==
    /\ pc[w] = "find" /\ status[job[w].exec] = "PENDING"
    /\ Goto(w, "claim")
    /\ UNCHANGED <<rowVars, outbox, brokerVars, job, send, crashes, faults>>

\* Mutant: a RUNNING execution is left to whoever started it.
FindRunning_Skips(w) ==
    /\ pc[w] = "find" /\ status[job[w].exec] = "RUNNING"
    /\ Goto(w, "ack")
    /\ UNCHANGED <<rowVars, outbox, brokerVars, job, send, crashes, faults>>

FindRunning(w) ==
    /\ pc[w] = "find" /\ status[job[w].exec] = "RUNNING"
    /\ PersistAndDispatch(w, <<"started", job[w].exec, 0>>)
    /\ UNCHANGED <<rowVars, brokerVars, job, crashes, faults>>

\* The transaction that starts the execution, if it is still PENDING.
Claim(w) ==
    /\ pc[w] = "claim" /\ status[job[w].exec] = "PENDING"
    /\ status' = [status EXCEPT ![job[w].exec] = "RUNNING"]
    /\ PersistAndDispatch(w, <<"started", job[w].exec, 0>>)
    /\ UNCHANGED <<kind, ends, request, nodeRow, traces, brokerVars, job, crashes, faults>>

\* It was started or ended meanwhile: the worker stops, or goes on without
\* dispatching the started event.
ClaimLost(w) ==
    /\ pc[w] = "claim"
    /\ \/ Terminal(job[w].exec) /\ StartFlush(w)
       \/ /\ status[job[w].exec] = "RUNNING"
          /\ Goto(w, "prepare")
          /\ UNCHANGED <<rowVars, outbox, brokerVars, job, send, crashes, faults>>

\* The simulated failure, the check of the definition and the ordering of its nodes.
Prepare(w) ==
    LET k == kind[job[w].exec] IN
    /\ pc[w] = "prepare"
    /\ Goto(w, IF k \in {"sound", "misconfigured"} THEN "nodes" ELSE "error")
    /\ job' = [job EXCEPT ![w].node = 0, ![w].retryable = (k = "flaky")]
    /\ UNCHANGED <<rowVars, outbox, brokerVars, send, crashes, faults>>

SetNode(e, n, st) == nodeRow' = [nodeRow EXCEPT ![e][n] = st]

\* The next node: its row is RUNNING again whatever it was.
StartNode(w) ==
    LET e == job[w].exec
        n == job[w].node + 1 IN
    /\ pc[w] = "nodes" /\ job[w].node < NodeCount
    /\ SetNode(e, n, "RUNNING")
    /\ job' = [job EXCEPT ![w].node = n]
    /\ PersistAndDispatch(w, <<"nodeStarted", e, n>>)
    /\ UNCHANGED <<status, kind, ends, request, traces, brokerVars, crashes, faults>>

\* The last node of a misconfigured workflow is the one that cannot run; the others
\* compute and return.  The nodes that call out are prompt nodes here: the outcomes of
\* an HTTP request are among theirs, and it leaves no trace.
CallsOut(w) == kind[job[w].exec] = "misconfigured" => job[w].node = NodeCount

NodeOutcomes(w) == IF CallsOut(w) THEN ends[job[w].exec] ELSE {"returns"}

\* recordAiTraceForSuccessfulNode and recordAiTraceForFailedNode: every call of a model
\* gets a row of its own.  An error is swallowed, and the node goes on without one.
recordAiTrace(w, st) ==
    LET trace == <<job[w].node, job[w].attempt, st>> IN
    \/ /\ traces' = IF CallsOut(w) THEN [traces EXCEPT ![job[w].exec] = @ \cup {trace}]
                    ELSE traces
       /\ UNCHANGED faults
    \/ /\ CallsOut(w) /\ faults < MaxFaults
       /\ faults' = faults + 1
       /\ UNCHANGED traces

\* executeNode returns: the row is completed, the trace stored and the event recorded.
RunNode(w) ==
    /\ pc[w] = "run" /\ "returns" \in NodeOutcomes(w)
    /\ SetNode(job[w].exec, job[w].node, "SUCCEEDED")
    /\ recordAiTrace(w, "SUCCEEDED")
    /\ PersistAndDispatch(w, <<"nodeCompleted", job[w].exec, job[w].node>>)
    /\ UNCHANGED <<status, kind, ends, request, brokerVars, job, crashes>>

\* executeNode throws an error with a verdict.
NodeThrows(w) ==
    /\ pc[w] = "run"
    /\ \E o \in NodeOutcomes(w) \ {"returns"} :
            job' = [job EXCEPT ![w].retryable = (o = "retryable")]
    /\ Goto(w, "failNode")
    /\ UNCHANGED <<rowVars, outbox, brokerVars, send, crashes, faults>>

FailNode(w) ==
    /\ pc[w] = "failNode"
    /\ SetNode(job[w].exec, job[w].node, "FAILED")
    /\ recordAiTrace(w, "FAILED")
    /\ PersistAndDispatch(w, <<"nodeFailed", job[w].exec, job[w].node>>)
    /\ UNCHANGED <<status, kind, ends, request, brokerVars, job, crashes>>

\* Mutant: the row is updated by id, whatever its status.
Complete_ById(w) ==
    /\ pc[w] = "nodes" /\ job[w].node = NodeCount
    /\ status' = [status EXCEPT ![job[w].exec] = "SUCCEEDED"]
    /\ PersistAndDispatch(w, <<"completed", job[w].exec, 0>>)
    /\ UNCHANGED <<kind, ends, request, nodeRow, traces, brokerVars, job, crashes, faults>>

\* The transaction that ends the execution after its last node.
Complete(w) ==
    /\ pc[w] = "nodes" /\ job[w].node = NodeCount
    /\ status[job[w].exec] = "RUNNING"
    /\ status' = [status EXCEPT ![job[w].exec] = "SUCCEEDED"]
    /\ PersistAndDispatch(w, <<"completed", job[w].exec, 0>>)
    /\ UNCHANGED <<kind, ends, request, nodeRow, traces, brokerVars, job, crashes, faults>>

CompleteLost(w) ==
    /\ pc[w] = "nodes" /\ job[w].node = NodeCount
    /\ Terminal(job[w].exec)
    /\ StartFlush(w)

\* The rows of a flush are dispatched one after the other, the oldest first.
FlushNext(w) ==
    /\ pc[w] = "flush"
    /\ \E r \in job[w].todo :
        /\ r.key[1] = "started" \/ \A q \in job[w].todo : q.key[1] # "started"
        /\ job' = [job EXCEPT ![w].todo = @ \ {r}]
        /\ send' = [send EXCEPT ![w] = r]
    /\ Goto(w, "dispatch")
    /\ UNCHANGED <<rowVars, outbox, brokerVars, crashes, faults>>

FlushDone(w) ==
    /\ pc[w] = "flush" /\ job[w].todo = {}
    /\ Goto(w, IF job[w].failing THEN "deadletter" ELSE "ack")
    /\ UNCHANGED <<rowVars, outbox, brokerVars, job, send, crashes, faults>>

-----------------------------------------------------------------------------
(* The end of a delivery: handleDelivery *)

\* Mutant: the delivery is given back as well.
Retry_Requeues(w) ==
    /\ pc[w] = "error"
    /\ job[w].retryable /\ job[w].attempt < MaxRetry
    /\ commands' = [commands EXCEPT ![job[w].exec][job[w].attempt + 1] = @ + 1,
                                    ![job[w].exec][job[w].attempt] = @ + 1]
    /\ Goto(w, "ack")
    /\ UNCHANGED <<rowVars, outbox, announced, timeline, deadLetters, job, send,
                   crashes, faults>>

\* publishRetryCommand: through the delay queue of the next attempt the command comes
\* back to the queue of the workers.
Retry(w) ==
    /\ pc[w] = "error"
    /\ job[w].retryable /\ job[w].attempt < MaxRetry
    /\ "workflowExecutions" \in Redelivered(workflowExecutionRequested, job[w].attempt + 1)
    /\ commands' = [commands EXCEPT ![job[w].exec][job[w].attempt + 1] = @ + 1]
    /\ Goto(w, "ack")
    /\ UNCHANGED <<rowVars, outbox, announced, timeline, deadLetters, job, send,
                   crashes, faults>>

\* The other failures end the execution: failWorkflowExecution.
GivesUp(w) == pc[w] = "error" /\ ~(job[w].retryable /\ job[w].attempt < MaxRetry)

Fail(w) ==
    /\ GivesUp(w) /\ status[job[w].exec] \in {"PENDING", "RUNNING"}
    /\ status' = [status EXCEPT ![job[w].exec] = "FAILED"]
    /\ job' = [job EXCEPT ![w].failing = TRUE, ![w].flushing = FALSE]
    /\ PersistAndDispatch(w, <<"failed", job[w].exec, 0>>)
    /\ UNCHANGED <<kind, ends, request, nodeRow, traces, brokerVars, crashes, faults>>

FailLost(w) ==
    /\ GivesUp(w) /\ Terminal(job[w].exec)
    /\ job' = [job EXCEPT ![w].failing = TRUE, ![w].flushing = TRUE,
                          ![w].todo = PendingOf(job[w].exec)]
    /\ Goto(w, "flush")
    /\ UNCHANGED <<rowVars, outbox, brokerVars, send, crashes, faults>>

\* Mutant: an error of the transaction does not keep the dead letter back.
FailThrows_DeadLetters(w) ==
    /\ GivesUp(w)
    /\ faults < MaxFaults
    /\ faults' = faults + 1
    /\ Goto(w, "deadletter")
    /\ UNCHANGED <<rowVars, outbox, brokerVars, job, send, crashes>>

\* Its transaction throws: the delivery is requeued.
FailThrows(w) ==
    /\ GivesUp(w)
    /\ faults < MaxFaults
    /\ faults' = faults + 1
    /\ Goto(w, "nack")
    /\ UNCHANGED <<rowVars, outbox, brokerVars, job, send, crashes>>

\* publishCommandDeadLetter
DeadLetter(w) ==
    /\ pc[w] = "deadletter"
    /\ deadLetters' = deadLetters \cup {job[w].exec}
    /\ Goto(w, "ack")
    /\ UNCHANGED <<rowVars, outbox, announced, timeline, commands, job, send, crashes,
                   faults>>

EndJob(w) ==
    /\ job' = [job EXCEPT ![w] = NoJob(@.exec)]
    /\ EndSend(w)
    /\ Goto(w, "idle")

Ack(w) ==
    /\ pc[w] = "ack"
    /\ EndJob(w)
    /\ UNCHANGED <<rowVars, outbox, brokerVars, crashes, faults>>

\* The delivery a worker holds goes back to the queue.
GiveBack(w) ==
    /\ commands' = [commands EXCEPT ![job[w].exec][job[w].attempt] = @ + 1]
    /\ EndJob(w)
    /\ UNCHANGED <<rowVars, outbox, announced, timeline, deadLetters>>

\* Mutant: the delivery is rejected without being requeued.
Nack_Drops(w) ==
    /\ pc[w] = "nack"
    /\ EndJob(w)
    /\ UNCHANGED <<rowVars, outbox, brokerVars, crashes, faults>>

Nack(w) == pc[w] = "nack" /\ GiveBack(w) /\ UNCHANGED <<crashes, faults>>

-----------------------------------------------------------------------------
(* Faults *)

\* The process ends, or its connection does; the broker delivers again.
CrashWorker(w) ==
    /\ pc[w] # "idle" /\ faults < MaxFaults
    /\ faults' = faults + 1
    /\ crashes' = crashes + 1
    /\ GiveBack(w)

CrashDispatcher(d) ==
    /\ pc[d] # "idle" /\ faults < MaxFaults
    /\ faults' = faults + 1
    /\ crashes' = crashes + 1
    /\ EndJob(d)
    /\ UNCHANGED <<rowVars, outbox, brokerVars>>

\* A query throws in a step that makes one.
DatabaseFails(p) ==
    /\ pc[p] \in {"find", "claim", "nodes", "run", "failNode", "mark"}
    /\ faults < MaxFaults
    /\ faults' = faults + 1
    /\ Throw(p)
    /\ UNCHANGED <<rowVars, outbox, brokerVars, crashes>>

-----------------------------------------------------------------------------
(* The workflow service stores an event under its id, once.  It treats every event
   it is bound to alike; only those of the end of an execution are followed here. *)

EndKeys == {"completed", "failed"} \X Executions \X {0}

PersistEvent(k) ==
    /\ k \in announced \ timeline
    /\ "workflowService" \in Queues(RoutingKey(k[1]))
    /\ isWorkflowExecutionLifecycleMessage(createLifecycleMessage(k[1]))
    /\ timeline' = timeline \cup {k}
    /\ UNCHANGED <<rowVars, outbox, announced, commands, deadLetters, procVars, crashes,
                   faults>>

-----------------------------------------------------------------------------
Dispatching(p) == SkipPublished(p) \/ Publish(p) \/ MarkSent(p)

WorkerStep(w) ==
    \/ \E e \in Executions, a \in Attempts : Receive(w, e, a)
    \/ FindTerminal(w) \/ FindPending(w) \/ FindRunning(w) \/ Claim(w) \/ ClaimLost(w)
    \/ Prepare(w) \/ StartNode(w) \/ RunNode(w) \/ NodeThrows(w)
    \/ FailNode(w) \/ Complete(w) \/ CompleteLost(w)
    \/ FlushNext(w) \/ FlushDone(w)
    \/ Retry(w) \/ Fail(w) \/ FailLost(w) \/ DeadLetter(w) \/ Ack(w) \/ Nack(w)
    \/ Dispatching(w)

DispatcherStep(d) == (\E k \in Keys : FetchPending(d, k)) \/ Dispatching(d)

Fault ==
    \/ \E e \in Executions : RequestLost(e)
    \/ \E w \in Workers : CrashWorker(w) \/ FailThrows(w)
    \/ \E d \in Dispatchers : CrashDispatcher(d)
    \/ \E p \in Procs : PublishFails(p) \/ DatabaseFails(p)

Next ==
    \/ \E e \in Executions, k \in ExecutionKinds : CreateExecution(e, k)
    \/ \E e \in Executions : PublishRequest(e)
    \/ \E w \in Workers : WorkerStep(w)
    \/ \E d \in Dispatchers : DispatcherStep(d)
    \/ \E k \in EndKeys : PersistEvent(k)
    \/ Fault

Spec == Init /\ [][Next]_vars

(***************************************************************************)
(* Fairness.  A consumer that is connected is given what is queued and     *)
(* every call it awaits returns or throws; the dispatcher's timer fires as *)
(* long as a worker runs; the workflow service consumes its queue; a call  *)
(* of the API goes on.  Faults may happen, at most MaxFaults of them.      *)
(***************************************************************************)
Fairness ==
    /\ \A w \in Workers : WF_vars(WorkerStep(w))
    /\ \A e \in Executions : WF_vars(PublishRequest(e))
    /\ \A d \in Dispatchers : WF_vars(DispatcherStep(d))
    /\ WF_vars(\E k \in EndKeys : PersistEvent(k))

FairSpec == Spec /\ Fairness

-----------------------------------------------------------------------------
(* Properties *)

Labels == {"idle", "find", "claim", "prepare", "nodes", "run", "failNode",
           "dispatch", "mark", "flush", "error", "deadletter", "ack", "nack"}
Sends == [key : Keys, copy : OutboxRows]
Jobs == [exec : Executions, attempt : Attempts, node : 0..NodeCount,
         retryable : BOOLEAN, failing : BOOLEAN, flushing : BOOLEAN,
         todo : SUBSET [key : LifecycleKeys, copy : OutboxRows]]
RowStatuses == {"NONE", "RUNNING", "SUCCEEDED", "FAILED"}

\* The type of every variable.
TypeOK ==
    /\ status \in [Executions -> {"NONE", "PENDING", "RUNNING", "SUCCEEDED", "FAILED"}]
    /\ kind \in [Executions -> ExecutionKinds]
    /\ ends \in [Executions -> SUBSET {"returns", "retryable", "fatal"}]
    /\ request \in [Executions -> {"none", "created", "sent", "lost"}]
    /\ nodeRow \in [Executions -> [Nodes -> RowStatuses]]
    /\ traces \in [Executions -> SUBSET (Nodes \X Attempts \X {"SUCCEEDED", "FAILED"})]
    /\ outbox \in [Keys -> OutboxRows]
    /\ announced \subseteq Keys
    /\ timeline \subseteq EndKeys
    /\ commands \in [Executions -> [Attempts -> Nat]]
    /\ deadLetters \subseteq Executions
    /\ pc \in [Procs -> Labels]
    /\ job \in [Procs -> Jobs]
    /\ send \in [Procs -> Sends]
    /\ crashes \in Nat
    /\ faults \in Nat

\* What the system shows of an execution, with everything about workers, queues and
\* outbox rows hidden: it is an ExecutionLifecycle.
Recorded == {<<k[1], k[2]>> : k \in {l \in LifecycleKeys : Exists(outbox[l])}}
Announced == {<<k[1], k[2]>> : k \in announced \cap LifecycleKeys}
Lifecycle == INSTANCE ExecutionLifecycle WITH facts <- Recorded, announced <- Announced

\* The execution rows and the lifecycle events, as readers see them, behave as an
\* ExecutionLifecycle: updateMany with a status condition and the outbox row in the
\* same transaction let no retry, redelivery or concurrent worker start or end an
\* execution twice, record both ends, or announce what was not recorded.
ImplementsLifecycle == Lifecycle!LifecycleSpec

\* A worker that still has to do something about an execution.
WorksOn(w, e) == pc[w] \notin {"idle", "ack"} /\ job[w].exec = e

\* handleDelivery never loses a command: an execution whose command was published and
\* that has not ended has a copy of it waiting in a queue or in the hands of a worker,
\* through every retry, crash, nack and failed publication.
NeverStranded ==
    \A e \in Executions :
        request[e] = "sent" /\ ~Terminal(e) =>
            \/ \E a \in Attempts : commands[e][a] > 0
            \/ \E w \in Workers : WorksOn(w, e)

\* The history of a success is complete: when an execution has SUCCEEDED, the events
\* of the start and of the completion of each of its nodes have been published, over
\* however many attempts and workers.
CompletedHasHistory ==
    \A e \in Executions : status[e] = "SUCCEEDED" =>
        \A n \in Nodes : {<<"nodeStarted", e, n>>, <<"nodeCompleted", e, n>>} \subseteq announced

\* A command is dead-lettered only once its execution has ended.
DeadLetterMeansEnded == \A e \in deadLetters : Terminal(e)

\* Retries alone never make two workers process an execution: the nodes of an
\* execution that has SUCCEEDED are reset or failed by nobody, unless a crash
\* made the broker deliver the command again.
NoRerunWithoutRedelivery ==
    crashes = 0 => \A e \in Executions : status[e] = "SUCCEEDED" =>
        \A n \in Nodes : nodeRow[e][n] = "SUCCEEDED"

\* A prompt node the orchestrator refuses as misconfigured ends its execution on the
\* first attempt: through the 422 of the orchestrator, the client's reading of it, the
\* failure of the node and handleDelivery, no retry is published and no other call of
\* the model is traced, unless a fault of the broker or the database replaced the verdict
\* on the way.
MisconfiguredNotRetried ==
    faults = 0 => \A e \in Executions : kind[e] = "misconfigured" =>
        /\ \A a \in 1..MaxRetry : commands[e][a] = 0
        /\ traces[e] \subseteq {<<NodeCount, 0, "FAILED">>}
        /\ status[e] # "SUCCEEDED"

\* Every execution whose command was published ends, whatever the nodes throw and
\* whichever of the bounded faults happen.
Settles == \A e \in Executions : request[e] = "sent" ~> Terminal(e)

\* The end of an execution reaches the timeline the workflow service keeps, unless its
\* row was given up as FAILED after MaxPublishAttempts.
EndReachesTimeline ==
    \A k \in EndKeys :
        Exists(outbox[k]) ~> k \in timeline \/ outbox[k].status = "FAILED"

\* An execution that was created ends.
CreatedSettles == \A e \in Executions : status[e] = "PENDING" ~> Terminal(e)

=============================================================================
