------------------------- MODULE ExecutionLifecycle -------------------------
(***************************************************************************)
(* What the execution of workflows promises to whoever reads execution     *)
(* rows and lifecycle events: an execution is started once and ends once,  *)
(* in SUCCEEDED or FAILED; every change of state is recorded together with *)
(* the event that announces it; only recorded facts are announced.         *)
(* Workers, retries, redeliveries and the outbox are not visible here.     *)
(***************************************************************************)
CONSTANT Executions

VARIABLES
    status,     \* the status column of each execution
    facts,      \* the lifecycle events recorded so far, as <<name, execution>>
    announced   \* the recorded events that subscribers have been sent

lifecycleVars == <<status, facts, announced>>

LifecycleInit ==
    /\ status = [e \in Executions |-> "NONE"]
    /\ facts = {}
    /\ announced = {}

Request(e) ==
    /\ status[e] = "NONE"
    /\ status' = [status EXCEPT ![e] = "PENDING"]
    /\ UNCHANGED <<facts, announced>>

\* A change of state and its event, in one step.
Change(e, from, to, name) ==
    /\ status[e] \in from
    /\ <<name, e>> \notin facts
    /\ status' = [status EXCEPT ![e] = to]
    /\ facts' = facts \cup {<<name, e>>}
    /\ UNCHANGED announced

Start(e)   == Change(e, {"PENDING"}, "RUNNING", "started")
Succeed(e) == Change(e, {"RUNNING"}, "SUCCEEDED", "completed")
FailIt(e)  == Change(e, {"PENDING", "RUNNING"}, "FAILED", "failed")

Announce(f) ==
    /\ f \in facts \ announced
    /\ announced' = announced \cup {f}
    /\ UNCHANGED <<status, facts>>

LifecycleNext ==
    \/ \E e \in Executions : Request(e) \/ Start(e) \/ Succeed(e) \/ FailIt(e)
    \/ \E f \in facts : Announce(f)

LifecycleSpec == LifecycleInit /\ [][LifecycleNext]_lifecycleVars

=============================================================================
