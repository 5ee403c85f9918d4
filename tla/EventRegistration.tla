--------------------------- MODULE EventRegistration ---------------------------
(***************************************************************************)
(* The seats of one event (apps/api/src/modules/events/events.service.ts): *)
(* public registrations in serializable transactions that are retried,     *)
(* operators and leads who change the status of a registration             *)
(* (engagement.service.ts), and operators who edit the event, all at once. *)
(*                                                                         *)
(* A registration's transaction is two steps: its snapshot, on which it    *)
(* decides, and its commit.  PostgreSQL tells it of registrations that     *)
(* were committed in between; of the writes of the other operations, which *)
(* run read committed, it is not told.  These read, check and then update  *)
(* by id, in two steps.                                                    *)
(***************************************************************************)
EXTENDS RegistrationStatus, Naturals, FiniteSets

CONSTANTS
  Leads,         \* the work emails, normalized
  Requests,      \* bound: the public registration requests
  Operators,     \* changes of a registration or of the event at once
  Capacities,    \* the capacities an event may be given
  MaxAttempts    \* the attempts of a registration's transaction

ASSUME RegistrationAssumption ==
  /\ IsFiniteSet(Leads) /\ IsFiniteSet(Requests)
  /\ Capacities \subseteq Nat
  /\ MaxAttempts \in Nat \ {0}

VARIABLES
  event,       \* the event's status and capacity
  reg,         \* lead -> Registration.status, "none" if there is no row
  enrichment,  \* leads with a lead.enrichment.requested row in the outbox
  request,     \* the registration requests
  change,      \* the changes in progress
  peak,        \* history: the largest capacity the event has had
  reclaimed    \* history: seats given by a status change

vars == <<event, reg, enrichment, request, change, peak, reclaimed>>

EventStatuses == {"DRAFT", "PUBLISHED", "LIVE", "COMPLETED", "CANCELLED"}
Open          == {"PUBLISHED", "LIVE"}

\* activeCapacityStatuses
Active   == {"REGISTERED", "CONFIRMED", "ATTENDED"}
Occupied == {l \in Leads : reg[l] \in Active}

\* A refusal creates nothing.
\* conflict: a registration was committed since the snapshot.
Refusals == {"existing", "closed", "duplicate", "conflict"}
InFlight == [pc : {"begin", "commit"}, lead : Leads, attempt : 1..MaxAttempts,
             status : {"none", "REGISTERED", "WAITLISTED"},
             conflict : BOOLEAN]
Answered == [pc : {"done"}, answer : {"created"}, lead : Leads]
              \cup [pc : {"done"}, answer : Refusals]
NotSent  == [pc |-> "none"]
Idle     == [op |-> "none"]

TypeOK ==
  /\ event \in [status : EventStatuses, capacity : Capacities]
  /\ reg \in [Leads -> RegStatuses \cup {"none"}]
  /\ enrichment \in SUBSET Leads
  /\ request \in [Requests -> {NotSent} \cup InFlight \cup Answered]
  /\ change \in [Operators -> {Idle} \cup
                   [op : {"status"}, lead : Leads, target : RegStatuses] \cup
                   [op : {"transition"}, target : EventStatuses] \cup
                   [op : {"update"}, capacity : Capacities]]
  /\ peak \in Capacities /\ reclaimed \in Nat

\* EventsService.create: an event starts as a draft.
Init ==
  /\ event \in [status : {"DRAFT"}, capacity : Capacities]
  /\ reg = [l \in Leads |-> "none"] /\ enrichment = {}
  /\ request = [r \in Requests |-> NotSent]
  /\ change = [o \in Operators |-> Idle]
  /\ peak = event.capacity /\ reclaimed = 0

-----------------------------------------------------------------------------
(* Public registration *)

Answer(r, answer) ==
  request' = [request EXCEPT ![r] = [pc |-> "done", answer |-> answer]]

\* A request that PublicRegistrationProtectionService has let through.
submit(r) ==
  /\ request[r] = NotSent
  /\ \E l \in Leads :
       request' = [request EXCEPT ![r] =
                     [pc |-> "begin", lead |-> l, attempt |-> 1,
                      status |-> "none", conflict |-> FALSE]]
  /\ UNCHANGED <<event, reg, enrichment, change, peak, reclaimed>>

\* What a transaction decides, on its snapshot.  The transactions that write
\* nothing are over with it.
registerInTransaction(r) ==
  /\ request[r].pc = "begin"
  /\ \/ event.status \notin Open /\ Answer(r, "closed")
     \/ /\ event.status \in Open /\ reg[request[r].lead] # "none"
        /\ Answer(r, "existing")
     \/ /\ event.status \in Open /\ reg[request[r].lead] = "none"
        /\ request' = [request EXCEPT
             ![r].pc = "commit", ![r].conflict = FALSE,
             ![r].status = IF Cardinality(Occupied) >= event.capacity
                           THEN "WAITLISTED" ELSE "REGISTERED"]
  /\ UNCHANGED <<event, reg, enrichment, change, peak, reclaimed>>

\* The others that are at their commit meet a conflict from now on.
Conflicting(r) ==
  [q \in Requests |->
     IF q = r THEN [pc |-> "done", lead |-> request[r].lead,
                    answer |-> "created"]
     ELSE IF request[q].pc = "commit"
          THEN [request[q] EXCEPT !.conflict = TRUE]
          ELSE request[q]]

\* Mutant: the transaction runs at the default isolation level.
commitRegistration_ReadCommitted(r) ==
  /\ request[r].pc = "commit" /\ reg[request[r].lead] = "none"
  /\ reg' = [reg EXCEPT ![request[r].lead] = request[r].status]
  /\ enrichment' = enrichment \cup {request[r].lead}
  /\ request' = Conflicting(r)
  /\ UNCHANGED <<event, change, peak, reclaimed>>

\* Mutant: a lead that is found again is registered again.
commitRegistration_Upserts(r) ==
  /\ request[r].pc = "commit"
  /\ ~request[r].conflict \/ reg[request[r].lead] # "none"
  /\ reg' = [reg EXCEPT ![request[r].lead] = request[r].status]
  /\ enrichment' = enrichment \cup {request[r].lead}
  /\ request' = Conflicting(r)
  /\ UNCHANGED <<event, change, peak, reclaimed>>

\* The lead, the registration, the consents and the enrichment command are
\* written together.
commitRegistration(r) ==
  /\ request[r].pc = "commit" /\ ~request[r].conflict
  /\ reg' = [reg EXCEPT ![request[r].lead] = request[r].status]
  /\ enrichment' = enrichment \cup {request[r].lead}
  /\ request' = Conflicting(r)
  /\ UNCHANGED <<event, change, peak, reclaimed>>

\* Mutant: the last attempt is not made.
register_OneLess(r) ==
  /\ request[r].pc = "commit" /\ request[r].conflict
  /\ \/ /\ request[r].attempt + 1 < MaxAttempts
        /\ request' = [request EXCEPT ![r].pc = "begin", ![r].status = "none",
                         ![r].conflict = FALSE, ![r].attempt = @ + 1]
     \/ /\ request[r].attempt + 1 >= MaxAttempts
        /\ Answer(r, "conflict")
  /\ UNCHANGED <<event, reg, enrichment, change, peak, reclaimed>>

\* Mutant: a conflict is retried for as long as it lasts.
register_Endless(r) ==
  /\ request[r].pc = "commit" /\ request[r].conflict
  /\ request' = [request EXCEPT ![r].pc = "begin", ![r].status = "none",
                   ![r].conflict = FALSE, ![r].attempt = @ + 1]
  /\ UNCHANGED <<event, reg, enrichment, change, peak, reclaimed>>

\* The loop of register on a conflict.  PostgreSQL reports it as a
\* serialization failure (P2034), which is retried, or, when both register
\* the same lead, as a unique violation (P2002), which is not.
register(r) ==
  /\ request[r].pc = "commit" /\ request[r].conflict
  /\ \/ /\ request[r].attempt < MaxAttempts
        /\ request' = [request EXCEPT ![r].pc = "begin", ![r].status = "none",
                         ![r].conflict = FALSE, ![r].attempt = @ + 1]
     \/ /\ request[r].attempt = MaxAttempts
        /\ Answer(r, "conflict")
     \/ /\ reg[request[r].lead] # "none"
        /\ Answer(r, "duplicate")
  /\ UNCHANGED <<event, reg, enrichment, change, peak, reclaimed>>

-----------------------------------------------------------------------------
(* Status changes: updateRegistrationStatus, and the confirmations and     *)
(* declines of recordInbound and consumePublicAction.                      *)

readStatus(o) ==
  /\ change[o] = Idle
  /\ \E l \in Leads :
       /\ reg[l] # "none"
       /\ \E target \in transitions[reg[l]] :
            change' = [change EXCEPT ![o] =
                         [op |-> "status", lead |-> l, target |-> target]]
  /\ UNCHANGED <<event, reg, enrichment, request, peak,
                 reclaimed>>

\* The status that was checked may no longer be the row's, and the capacity
\* is not asked for.
writeStatus(o) ==
  /\ change[o].op = "status"
  /\ reg' = [reg EXCEPT ![change[o].lead] = change[o].target]
  /\ reclaimed' = IF /\ reg[change[o].lead] \notin Active
                     /\ change[o].target \in Active
                  THEN reclaimed + 1 ELSE reclaimed
  /\ change' = [change EXCEPT ![o] = Idle]
  /\ UNCHANGED <<event, enrichment, request, peak>>

-----------------------------------------------------------------------------
(* The event *)

publish ==
  /\ event.status = "DRAFT"
  /\ event' = [event EXCEPT !.status = "PUBLISHED"]
  /\ UNCHANGED <<reg, enrichment, request, change, peak,
                 reclaimed>>

\* `allowed` of EventsService.transition
Allowed(status) ==
  CASE status = "PUBLISHED" -> {"LIVE", "CANCELLED"}
    [] status = "LIVE"      -> {"COMPLETED", "CANCELLED"}
    [] OTHER                -> {}

transitionRead(o) ==
  /\ change[o] = Idle
  /\ \E target \in Allowed(event.status) :
       change' = [change EXCEPT ![o] = [op |-> "transition", target |-> target]]
  /\ UNCHANGED <<event, reg, enrichment, request, peak, reclaimed>>

transition(o) ==
  /\ change[o].op = "transition"
  /\ event' = [event EXCEPT !.status = change[o].target]
  /\ change' = [change EXCEPT ![o] = Idle]
  /\ UNCHANGED <<reg, enrichment, request, peak, reclaimed>>

updateRead(o) ==
  /\ change[o] = Idle /\ event.status \notin {"COMPLETED", "CANCELLED"}
  /\ \E c \in Capacities :
       change' = [change EXCEPT ![o] = [op |-> "update", capacity |-> c]]
  /\ UNCHANGED <<event, reg, enrichment, request, peak, reclaimed>>

update(o) ==
  /\ change[o].op = "update"
  /\ event' = [event EXCEPT !.capacity = change[o].capacity]
  /\ peak' = IF change[o].capacity > peak THEN change[o].capacity ELSE peak
  /\ change' = [change EXCEPT ![o] = Idle]
  /\ UNCHANGED <<reg, enrichment, request, reclaimed>>

-----------------------------------------------------------------------------

RequestStep(r) ==
  submit(r) \/ registerInTransaction(r) \/ commitRegistration(r) \/ register(r)

Next ==
  \/ \E r \in Requests : RequestStep(r)
  \/ \E o \in Operators :
       \/ readStatus(o) \/ writeStatus(o)
       \/ transitionRead(o) \/ transition(o)
       \/ updateRead(o) \/ update(o)
  \/ publish

Spec == Init /\ [][Next]_vars

-----------------------------------------------------------------------------
(* Properties *)

\* Registrations never oversell the event: more leads than the largest
\* capacity the event ever had hold a seat only if a status change, which
\* does not look at the capacity, gave some of them a seat: by promoting from
\* the waiting list or by overwriting a status that had changed meanwhile.
SeatsBounded == Cardinality(Occupied) <= peak + reclaimed

\* Two requests for the same lead are never both told that they created the
\* registration.
CreatedOnce ==
  \A r, q \in Requests :
    /\ request[r].pc = "done" /\ request[r].answer = "created"
    /\ request[q].pc = "done" /\ request[q].answer = "created"
    /\ request[r].lead = request[q].lead
    => r = q

Creations == {q \in Requests : request[q].pc = "done"
                                 /\ request[q].answer = "created"}

\* A request is given up for conflicts only when as many other requests as it
\* made attempts have registered meanwhile: the retries cannot starve all.
RefusedOnlyUnderContention ==
  \A r \in Requests :
    request[r].pc = "done" /\ request[r].answer = "conflict"
      => Cardinality(Creations) >= MaxAttempts

=============================================================================
