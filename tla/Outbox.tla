------------------------------- MODULE Outbox -------------------------------
(***************************************************************************)
(* A row of the transactional outbox (outboxMessage), as the execution     *)
(* worker writes and dispatches it.  A row is written in the transaction   *)
(* of the state change it announces and published afterwards; both the     *)
(* worker that wrote it and the periodic dispatcher may publish it, each   *)
(* from the copy of the row it has read.                                   *)
(***************************************************************************)
EXTENDS Naturals

CONSTANT MaxPublishAttempts  \* outboxMaxPublishAttempts

ASSUME MaxPublishAttemptsAssumption == MaxPublishAttempts \in Nat \ {0}

OutboxStatuses == {"NONE", "PENDING", "PUBLISHED", "FAILED"}

OutboxRows == [status : OutboxStatuses, attempts : Nat]

\* No row has this idempotency key.
NoRow == [status |-> "NONE", attempts |-> 0]

Exists(row) == row.status # "NONE"

\* The upsert by idempotency key: a row that exists is left as it is.
persistOutboxEvent(row) ==
    IF Exists(row) THEN row ELSE [status |-> "PENDING", attempts |-> 0]

\* The rows the periodic dispatcher selects.
Dispatchable(row) == row.status = "PENDING" /\ row.attempts < MaxPublishAttempts

\* The row after a publication the channel took.  The count the code increments here
\* bounds further attempts; those of a PUBLISHED row never happen, and it is dropped.
MarkPublished == [status |-> "PUBLISHED", attempts |-> 0]

\* The row after a failed publication: everything is computed from the copy that
\* was read, so that the stored status and count are overwritten.
markOutboxPublishFailure(copy) ==
    [status   |-> IF copy.attempts + 1 >= MaxPublishAttempts THEN "FAILED"
                                                             ELSE copy.status,
     attempts |-> copy.attempts + 1]

=============================================================================
