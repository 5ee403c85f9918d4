----------------------------- MODULE ExecutionPage -----------------------------
(***************************************************************************)
(* The page of one execution in the web client (execution-detail-page.tsx) *)
(* while the system executes it, and the API's queries behind it.  The     *)
(* page asks for the summary, shows it and asks again every two seconds    *)
(* until the execution it shows has ended; it asks for the diagnostics     *)
(* once, when it is opened, and never again.  The API answers either with  *)
(* two rounds of reads of the database: the execution, then everything     *)
(* that belongs to it, in queries that run side by side.                   *)
(*                                                                         *)
(* The two requests of a page share nothing, so `page' follows one of      *)
(* them.  The events are those of the end of the execution, all that       *)
(* WorkflowExecution follows.  Inputs, outputs, times, costs, the filters  *)
(* and the dialogs of the page are left out.                               *)
(***************************************************************************)
EXTENDS WorkflowExecution, FiniteSets

VARIABLE page  \* the execution shown, the request followed, and what it has found

NoNodes == [n \in Nodes |-> "NONE"]

\* No page is open.
Closed(e) == [pc |-> "closed", for |-> "summary", exec |-> e, status |-> "NONE",
              nodes |-> NoNodes, traces |-> {}, events |-> {}, rows |-> {}]

pageVars == <<vars, page>>

PageInit == Init /\ \E e \in Executions : page = Closed(e)

-----------------------------------------------------------------------------
(* What the queries of the API find *)

\* The stored events of the execution.
EventsOf(e) == {k \in timeline : k[2] = e}

\* Its nodes, those that were started, and the calls of a model they made.
NodesOf(e) == nodeRow[e]
TracesOf(e) == traces[e]

\* The outbox rows of the end of the execution, by event and status.  The attempts that
\* are shown as the retries of the command are those of the publication of its failure.
OutboxOf(e) == {<<k[1], outbox[k].status>> : k \in {l \in EndKeys : l[2] = e /\ Exists(outbox[l])}}

\* getFailureFromExecutionDiagnostics: the error of the execution, which is stored with
\* the status FAILED, or the one in the event.
Failure(st, events) == st = "FAILED" \/ \E k \in events : k[1] = "failed"

-----------------------------------------------------------------------------
(* The requests *)

\* The link to the page needs an execution.  Bound: a page is opened only in behaviours
\* without faults, and for one execution.
open(e, r) ==
    /\ page.pc = "closed" /\ faults = 0
    /\ status[e] # "NONE"
    /\ page' = [Closed(e) EXCEPT !.pc = "loading", !.for = r]

\* The first query of either request.  (While an answer is awaited the page shows the
\* status before, which had not ended.)
findExecution ==
    /\ page.pc = "loading"
    /\ page' = [page EXCEPT !.pc = "reading", !.status = status[page.exec]]

\* Mutant: once nodes are shown, asking again does not refresh them.
findExecutionSummary_Cached ==
    /\ page.pc = "reading" /\ page.for = "summary"
    /\ page' = [page EXCEPT !.pc = "shown", !.events = EventsOf(page.exec),
                            !.nodes = IF @ = NoNodes THEN NodesOf(page.exec) ELSE @,
                            !.traces = TracesOf(page.exec)]

\* The other queries of the summary; the answer is shown.  They run side by side: once
\* the execution has ended none of them finds anything else later, so that they are one
\* step here.
findExecutionSummary ==
    /\ page.pc = "reading" /\ page.for = "summary"
    /\ page' = [page EXCEPT !.pc = "shown", !.events = EventsOf(page.exec),
                            !.nodes = NodesOf(page.exec), !.traces = TracesOf(page.exec)]

\* Those of the diagnostics.
findExecutionDiagnostics ==
    /\ page.pc = "reading" /\ page.for = "diagnostics"
    /\ page' = [page EXCEPT !.pc = "shown", !.events = EventsOf(page.exec),
                            !.rows = OutboxOf(page.exec)]

\* isTerminalExecutionStatus of the web client.
isTerminalExecutionStatus(st) == st \in {"SUCCEEDED", "FAILED"}

isLive == ~isTerminalExecutionStatus(page.status)

\* refetchInterval
refetch ==
    /\ page.pc = "shown" /\ page.for = "summary" /\ isLive
    /\ page' = [page EXCEPT !.pc = "loading"]

-----------------------------------------------------------------------------
(* What the cards of the page say *)

\* A node that was never started has no row.
NodeProgressCard == {n \in Nodes : page.nodes[n] # "NONE"}
MetricCard(st) == Cardinality({n \in NodeProgressCard : page.nodes[n] = st})
TimelineCard == page.events

\* The model calls with the status that is chosen in the filter of the card.
AiObservabilityCard(statusFilter) == {t \in page.traces : statusFilter \in {"all", t[3]}}

\* "Dead-lettered", the last failure, and the rows of the outbox.
DiagnosticsCard ==
    LET failure == Failure(page.status, page.events)
    IN  [deadLettered |-> page.status = "FAILED" /\ failure, failure |-> failure,
         outbox |-> page.rows]

-----------------------------------------------------------------------------
PageStep ==
    \/ \E e \in Executions, r \in {"summary", "diagnostics"} : open(e, r)
    \/ findExecution \/ findExecutionSummary \/ findExecutionDiagnostics \/ refetch

PageNext ==
    \/ Next /\ UNCHANGED page /\ (page.pc # "closed" => UNCHANGED faults)
    \/ PageStep /\ UNCHANGED vars

\* The fairness of the system; nothing is assumed of the page.
PageSpec == PageInit /\ [][PageNext]_pageVars /\ Fairness

-----------------------------------------------------------------------------
\* What the page says when it stops asking stays true: the nodes and the model calls it
\* shows next to SUCCEEDED or FAILED are as they are and will be, because they are read
\* after the execution and no worker touches a node once the execution has ended; after
\* a success every node is counted as successful and has a successful call.  (After a
\* crash a redelivery does touch them; see NoRerunWithoutRedelivery.)  The diagnosis,
\* which is never refreshed, may come too early, but when it reports a failure, or that
\* an end was published, the execution has ended that way.
ShownEndIsFinal ==
    page.pc = "shown" =>
        /\ page.for = "summary" /\ ~isLive =>
            /\ page.status = status[page.exec]
            /\ page.nodes = nodeRow[page.exec]
            /\ page.traces = traces[page.exec]
            /\ page.status = "SUCCEEDED" =>
                /\ MetricCard("SUCCEEDED") = NodeCount
                /\ \A n \in Nodes : \E t \in AiObservabilityCard("SUCCEEDED") : t[1] = n
            /\ TimelineCard \subseteq timeline
        /\ page.for = "diagnostics" =>
            /\ DiagnosticsCard.failure => status[page.exec] = "FAILED"
            /\ <<"completed", "PUBLISHED">> \in DiagnosticsCard.outbox
                    => status[page.exec] = "SUCCEEDED" /\ ~DiagnosticsCard.deadLettered

=============================================================================
