-------------------------- MODULE WorkflowDefinition --------------------------
(* The graph of a workflow: what the contracts package accepts, how the       *)
(* execution worker orders it and how the canvas of the web client lays it    *)
(* out (packages/contracts/src/workflow-definition.ts, execution-worker/src/  *)
(* index.ts, web/src/features/workflow-canvas/workflow-canvas.tsx).           *)
(*                                                                            *)
(* A definition is a set of node ids and a set of edges.  Ids of edges and    *)
(* the configuration of nodes are left out: the canvas derives an edge's id   *)
(* from its two ends, and the order of the arrays only breaks ties, so any    *)
(* fixed order will do.                                                       *)
EXTENDS Naturals, Sequences, SequencesExt

CONSTANTS Triggers,    \* ids of manual trigger nodes
          Actions      \* ids of the other nodes

NodeIds == Triggers \cup Actions

ASSUME DefinitionAssumption == IsFiniteSet(NodeIds)

Definitions == [nodes : SUBSET NodeIds, edges : SUBSET (NodeIds \X NodeIds)]

outgoingEdges(d, n) == {m \in NodeIds : <<n, m>> \in d.edges}
incomingCount(d, n) == Cardinality({m \in NodeIds : <<m, n>> \in d.edges})
TriggersOf(d) == d.nodes \cap Triggers

\* The nodes a path of `k' edges leads to from `starts': the k-th wave of a work list.
After(d, starts, k) ==
  LET wave[i \in 0 .. k] ==
        IF i = 0 THEN starts
        ELSE UNION {outgoingEdges(d, n) : n \in wave[i - 1]}
  IN  wave[k]

\* Work list from the triggers; a node is entered once.
validateReachability(d) ==
  d.nodes \subseteq UNION {After(d, TriggersOf(d), k) : k \in 0 .. Cardinality(NodeIds)}

\* The depth first search fails when it meets a node on its own path: some
\* path of edges returns to its start.
validateAcyclicGraph(d) ==
  \A n \in d.nodes, k \in 1 .. Cardinality(NodeIds) : n \notin After(d, {n}, k)

\* Mutant: the depth first search is not called.
workflowDefinitionSchema_Cyclic(d) ==
  /\ d.nodes # {}
  /\ TriggersOf(d) # {}
  /\ \A e \in d.edges : e[1] \in d.nodes /\ e[2] \in d.nodes /\ e[1] # e[2]
  /\ \A t \in TriggersOf(d) : incomingCount(d, t) = 0
  /\ validateReachability(d)

workflowDefinitionSchema(d) ==
  /\ d.nodes # {}
  /\ TriggersOf(d) # {}
  /\ \A e \in d.edges : e[1] \in d.nodes /\ e[2] \in d.nodes /\ e[1] # e[2]
  /\ \A t \in TriggersOf(d) : incomingCount(d, t) = 0
  /\ validateReachability(d)
  /\ validateAcyclicGraph(d)

\* The bodies the API's validation pipe lets through.
ValidDefinitions ==
  {[nodes |-> d.nodes, edges |-> d.edges] :
     d \in {d \in Definitions : workflowDefinitionSchema(d)}}

DEFAULT_WORKFLOW_DEFINITION(t) == [nodes |-> {t}, edges |-> {}]

\* The start of the worker's ordering, and one turn of its loop: a node enters the
\* queue when its last incoming edge is used up.  A turn that finds the queue empty
\* changes nothing.  (A node that was taken before is skipped by the code; in the graphs
\* the schema accepts none enters the queue twice.)
startOrder(d) ==
  [queue   |-> SetToSeq(TriggersOf(d)),
   count   |-> [m \in NodeIds |-> incomingCount(d, m)],
   ordered |-> <<>>]

takeNext(d, s) ==
  LET n     == Head(s.queue)
      count == [m \in NodeIds |->
                  IF <<n, m>> \in d.edges THEN s.count[m] - 1 ELSE s.count[m]]
  IN  IF s.queue = <<>> THEN s
      ELSE [queue   |-> Tail(s.queue)
                          \o SetToSeq({m \in outgoingEdges(d, n) : count[m] = 0}),
            count   |-> count,
            ordered |-> Append(s.ordered, n)]

orderWorkflowNodes(d) ==
  LET kahn[i \in 0 .. Cardinality(NodeIds)] ==
        IF i = 0 THEN startOrder(d) ELSE takeNext(d, kahn[i - 1])
  IN  kahn[Cardinality(NodeIds)].ordered

\* getNodeLevels puts the targets of every node it takes back on its list and
\* never marks one as seen: it ends when a wave is empty, and a cycle behind
\* a node without incoming edges keeps it, and the page, busy for ever.
Hangs(d) ==
  After(d, {n \in d.nodes : incomingCount(d, n) = 0}, Cardinality(NodeIds)) # {}

\* What executing the nodes one after the other needs: each node once, after
\* the nodes it takes its input from (getNodeInput).
InOrder(d, order) ==
  /\ Len(order) = Cardinality(d.nodes)
  /\ {order[i] : i \in DOMAIN order} = d.nodes
  /\ \A i, j \in DOMAIN order : <<order[i], order[j]>> \in d.edges => i < j

\* The schema accepts only definitions that can be executed and shown.
OrderingSound ==
  \A d \in ValidDefinitions : InOrder(d, orderWorkflowNodes(d)) /\ ~ Hangs(d)
================================================================================
