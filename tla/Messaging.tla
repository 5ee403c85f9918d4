------------------------------- MODULE Messaging -------------------------------
(***************************************************************************)
(* The exchanges, routing keys, queues and envelopes of the system, as the *)
(* contracts package names them and the API and the services declare them. *)
(* A routing key is the sequence of its words; "*" in the key of a binding *)
(* stands for one word of a topic exchange.  Of an envelope only what its  *)
(* readers compare is kept: its name, its producer and who asked for it.   *)
(***************************************************************************)
EXTENDS Naturals, Sequences

LifecycleEvents == {"started", "completed", "failed"}
NodeEvents == {"nodeStarted", "nodeCompleted", "nodeFailed"}

\* FLOWPILOT_ROUTING_KEYS of the events of an execution and of its nodes.
RoutingKey(event) ==
    CASE event = "nodeStarted"   -> <<"workflow", "node", "execution", "started">>
      [] event = "nodeCompleted" -> <<"workflow", "node", "execution", "completed">>
      [] event = "nodeFailed"    -> <<"workflow", "node", "execution", "failed">>
      [] OTHER                   -> <<"workflow", "execution", event>>

workflowExecutionRequested == <<"workflow", "execution", "requested">>
leadEnrichmentRequested == <<"lead", "enrichment", "requested">>

CommandKeys == {leadEnrichmentRequested, workflowExecutionRequested}

getExchangeForRoutingKey(key) == IF key \in CommandKeys THEN "commands" ELSE "events"

\* Two queues consume events; those of the commands have one key each.
flowPilotQueueBindings ==
    ({"workflowService", "observabilityService"} \X {"events"} \X
        {<<"workflow", "execution", "*">>, <<"workflow", "node", "execution", "*">>,
         <<"workflow", "created">>})
    \cup {<<"observabilityServiceTraces", "events", <<"ai", "trace", "created">> >>}
    \cup {<<"leadEnrichment", "commands", leadEnrichmentRequested>>,
          <<"workflowExecutions", "commands", workflowExecutionRequested>>}

Matches(pattern, key) ==
    /\ Len(pattern) = Len(key)
    /\ \A i \in DOMAIN key : pattern[i] \in {"*", key[i]}

\* The queues a message with this key is put into.
Queues(key) ==
    {b[1] : b \in {c \in flowPilotQueueBindings :
                      c[2] = getExchangeForRoutingKey(key) /\ Matches(c[3], key)}}

-----------------------------------------------------------------------------
(* Retries *)

\* FLOWPILOT_RETRY_DELAYS, in the order of the attempts.
RetryDelays == <<"10s", "1m", "5m">>

RetryKey(key, attempt) == key \o <<"retry", RetryDelays[attempt]>>

\* The retry queues: the key each is bound to, and the key under which the broker puts
\* an expired message back into the commands exchange.
retryQueueConfig ==
    {[bound |-> RetryKey(key, a), expired |-> key] :
        key \in CommandKeys, a \in DOMAIN RetryDelays}

\* Where the retry of a command is delivered once its delay is over.
Redelivered(key, attempt) ==
    UNION {Queues(q.expired) : q \in {r \in retryQueueConfig :
                                         attempt \in DOMAIN RetryDelays
                                         /\ r.bound = RetryKey(key, attempt)}}

-----------------------------------------------------------------------------
(* Envelopes *)

FLOWPILOT_MESSAGE_PRODUCERS ==
    {"api", "engagementWorker", "workflowService", "executionWorker", "aiOrchestrator",
     "observabilityService"}

\* What the API sends, and the worker publishes again for a retry.
createWorkflowExecutionRequestedMessage ==
    [eventName |-> workflowExecutionRequested, producer |-> "api", requestedBy |-> "user"]

isWorkflowExecutionRequestedMessage(m) ==
    m.eventName = workflowExecutionRequested /\ m.producer = "api" /\ m.requestedBy = "user"

\* The event the worker writes into the outbox.
createLifecycleMessage(event) ==
    [eventName |-> RoutingKey(event), producer |-> "executionWorker"]

\* The workflow service knows every producer but the engagement worker.
isFlowPilotMessageProducer(p) == p \in FLOWPILOT_MESSAGE_PRODUCERS \ {"engagementWorker"}

\* ... and drops what is no event of an execution or a node, "workflow.created" say.
isWorkflowExecutionLifecycleMessage(m) ==
    /\ m.eventName \in {RoutingKey(event) : event \in LifecycleEvents \cup NodeEvents}
    /\ isFlowPilotMessageProducer(m.producer)

=============================================================================
