---------------------------- MODULE MCExecution ----------------------------
(***************************************************************************)
(* The module of the runs of WorkflowExecution: workers, the API and the   *)
(* page together.  Their constants are in execution.cfg and stuck.cfg.     *)
(***************************************************************************)
EXTENDS ExecutionPage

=============================================================================
