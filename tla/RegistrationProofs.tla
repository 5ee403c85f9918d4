-------------------------- MODULE RegistrationProofs --------------------------
(***************************************************************************)
(* Proofs about the seats of an event, for every number of leads,          *)
(* requests, operators, attempts and every set of capacities: the types,   *)
(* the bound on the seats, one creation per lead, and what a refusal after *)
(* the last attempt takes.                                                 *)
(***************************************************************************)
EXTENDS EventRegistration, FiniteSetTheorems, TLAPS

-----------------------------------------------------------------------------
(* The inductive invariant *)

AtCommit(r) == request[r].pc = "commit"
Created(r)  == request[r].pc = "done" /\ request[r].answer = "created"

\* A transaction at its commit has decided.
Decided == \A r \in Requests : AtCommit(r) => request[r].status # "none"

\* A transaction that will give a seat and was told of no conflict has one to
\* give: its snapshot is as good as the present state.
SeatLeft ==
  \A r \in Requests :
    AtCommit(r) /\ ~ request[r].conflict /\ request[r].status = "REGISTERED"
      => Cardinality(Occupied) < peak + reclaimed

\* ... and finds its lead still without a registration.
LeadFree ==
  \A r \in Requests :
    AtCommit(r) /\ ~ request[r].conflict => reg[request[r].lead] = "none"

\* Registrations are never deleted: what was created, or is being changed, is
\* there.
CreatedIsThere ==
  \A r \in Requests : Created(r) => reg[request[r].lead] # "none"

ChangedIsThere ==
  \A o \in Operators : change[o].op = "status" => reg[change[o].lead] # "none"

\* Every attempt but the last, and that one too once it has met its conflict,
\* has met a conflict with a registration of its own.
AttemptsPaid ==
  \A r \in Requests :
    /\ request[r].pc \in {"begin", "commit"} =>
         request[r].attempt <= Cardinality(Creations) + 1
    /\ AtCommit(r) /\ request[r].conflict =>
         request[r].attempt <= Cardinality(Creations)

-----------------------------------------------------------------------------
(* Types *)

LEMMA InitTypes == Init => TypeOK
BY RegistrationAssumption DEF Init, TypeOK, EventStatuses, NotSent, Idle

LEMMA RequestTypes ==
  ASSUME TypeOK, NEW r \in Requests, RequestStep(r)
  PROVE  TypeOK'
<1>a. /\ MaxAttempts \in Nat \ {0}
      /\ request \in [Requests -> {NotSent} \cup InFlight \cup Answered]
      /\ reg \in [Leads -> RegStatuses \cup {"none"}]
  BY RegistrationAssumption DEF TypeOK
<1>b. request[r].pc \in {"begin", "commit"} => request[r] \in InFlight
  BY <1>a DEF NotSent, Answered, InFlight
<1>c. ASSUME NEW x \in {NotSent} \cup InFlight \cup Answered,
             request' = [request EXCEPT ![r] = x]
      PROVE  request' \in [Requests -> {NotSent} \cup InFlight \cup Answered]
  BY <1>a, <1>c
<1>d. ASSUME NEW a \in Refusals, Answer(r, a)
      PROVE  request' \in [Requests -> {NotSent} \cup InFlight \cup Answered]
  BY <1>d, <1>c DEF Answer, Answered
<1>1. CASE submit(r)
  <2>1. PICK l \in Leads : request' = [request EXCEPT ![r] =
                     [pc |-> "begin", lead |-> l, attempt |-> 1,
                      status |-> "none", conflict |-> FALSE]]
    BY <1>1 DEF submit
  <2>2. request' \in [Requests -> {NotSent} \cup InFlight \cup Answered]
    BY <2>1, <1>a, <1>c DEF InFlight
  <2> QED  BY <1>1, <2>2 DEF submit, TypeOK
<1>2. CASE registerInTransaction(r)
  <2>1. request' \in [Requests -> {NotSent} \cup InFlight \cup Answered]
    <3>1. CASE Answer(r, "closed") \/ Answer(r, "existing")
      BY <3>1, <1>d DEF Refusals
    <3>2. CASE request' = [request EXCEPT
             ![r].pc = "commit", ![r].conflict = FALSE,
             ![r].status = IF Cardinality(Occupied) >= event.capacity
                           THEN "WAITLISTED" ELSE "REGISTERED"]
      BY <3>2, <1>2, <1>a, <1>b DEF registerInTransaction, InFlight
    <3> QED  BY <3>1, <3>2, <1>2 DEF registerInTransaction
  <2> QED  BY <1>2, <2>1 DEF registerInTransaction, TypeOK
<1>3. CASE commitRegistration(r)
  <2>a. request[r] \in InFlight
    BY <1>3, <1>b DEF commitRegistration
  <2>1. \A q \in Requests : Conflicting(r)[q] \in {NotSent} \cup InFlight \cup Answered
    <3> SUFFICES ASSUME NEW q \in Requests
                 PROVE  Conflicting(r)[q] \in {NotSent} \cup InFlight \cup Answered
      OBVIOUS
    <3>1. CASE q = r
      BY <3>1, <2>a DEF Conflicting, InFlight, Answered
    <3>2. CASE q # r /\ request[q].pc = "commit"
      <4>1. request[q] \in InFlight
        BY <3>2, <1>a DEF NotSent, Answered, InFlight
      <4> QED  BY <4>1, <3>2 DEF Conflicting, InFlight
    <3>3. CASE q # r /\ request[q].pc # "commit"
      BY <3>3, <1>a DEF Conflicting
    <3> QED  BY <3>1, <3>2, <3>3
  <2>2. request' \in [Requests -> {NotSent} \cup InFlight \cup Answered]
    BY <2>1, <1>3 DEF commitRegistration, Conflicting
  <2>3. /\ reg' \in [Leads -> RegStatuses \cup {"none"}]
        /\ enrichment' \in SUBSET Leads
    BY <2>a, <1>3, <1>a DEF commitRegistration, InFlight, RegStatuses, TypeOK
  <2> QED  BY <1>3, <2>2, <2>3 DEF commitRegistration, TypeOK
<1>4. CASE register(r)
  <2>1. request' \in [Requests -> {NotSent} \cup InFlight \cup Answered]
    <3>1. CASE Answer(r, "conflict") \/ Answer(r, "duplicate")
      BY <3>1, <1>d DEF Refusals
    <3>2. CASE /\ request[r].attempt < MaxAttempts
               /\ request' = [request EXCEPT ![r].pc = "begin", ![r].status = "none",
                         ![r].conflict = FALSE, ![r].attempt = @ + 1]
      <4>1. request[r] \in InFlight
        BY <1>4, <1>b DEF register
      <4>2. request[r].attempt + 1 \in 1..MaxAttempts
        BY <4>1, <3>2, <1>a DEF InFlight
      <4> QED  BY <4>1, <4>2, <3>2, <1>a DEF InFlight
    <3> QED  BY <3>1, <3>2, <1>4 DEF register
  <2> QED  BY <1>4, <2>1 DEF register, TypeOK
<1> QED  BY <1>1, <1>2, <1>3, <1>4 DEF RequestStep

OperatorStep(o) ==
  \/ readStatus(o) \/ writeStatus(o)
  \/ transitionRead(o) \/ transition(o)
  \/ updateRead(o) \/ update(o)

LEMMA OperatorTypes ==
  ASSUME TypeOK, NEW o \in Operators, OperatorStep(o)
  PROVE  TypeOK'
<1> DEFINE Change == {Idle} \cup
                   [op : {"status"}, lead : Leads, target : RegStatuses] \cup
                   [op : {"transition"}, target : EventStatuses] \cup
                   [op : {"update"}, capacity : Capacities]
<1>a. /\ change \in [Operators -> Change] /\ change[o] \in Change
      /\ reg \in [Leads -> RegStatuses \cup {"none"}]
      /\ event \in [status : EventStatuses, capacity : Capacities]
      /\ Capacities \subseteq Nat
  BY RegistrationAssumption DEF TypeOK
<1>b. ASSUME NEW c \in Change, change' = [change EXCEPT ![o] = c]
      PROVE  change' \in [Operators -> Change]
  BY <1>a, <1>b
<1>c. Idle \in Change
  OBVIOUS
<1>1. CASE readStatus(o)
  <2>1. PICK l \in Leads, t \in RegStatuses :
          change' = [change EXCEPT ![o] = [op |-> "status", lead |-> l, target |-> t]]
    <3>1. PICK l \in Leads :
            /\ reg[l] # "none"
            /\ \E t \in transitions[reg[l]] :
                change' = [change EXCEPT ![o] = [op |-> "status", lead |-> l, target |-> t]]
      BY <1>1 DEF readStatus
    <3>2. transitions[reg[l]] \subseteq RegStatuses
      BY <3>1, <1>a DEF transitions, RegStatuses
    <3> QED  BY <3>1, <3>2
  <2>2. change' \in [Operators -> Change]
    BY <2>1, <1>b
  <2> QED  BY <1>1, <2>2 DEF readStatus, TypeOK
<1>2. CASE writeStatus(o)
  <2>1. change[o].lead \in Leads /\ change[o].target \in RegStatuses
    BY <1>2, <1>a DEF writeStatus, Idle
  <2>2. reg' \in [Leads -> RegStatuses \cup {"none"}] /\ reclaimed' \in Nat
    BY <2>1, <1>2, <1>a DEF writeStatus, TypeOK
  <2>3. change' \in [Operators -> Change]
    BY <1>2, <1>b, <1>c DEF writeStatus
  <2> QED  BY <1>2, <2>2, <2>3 DEF writeStatus, TypeOK
<1>3. CASE transitionRead(o)
  <2>1. PICK t \in EventStatuses :
          change' = [change EXCEPT ![o] = [op |-> "transition", target |-> t]]
    BY <1>3 DEF transitionRead, Allowed, EventStatuses
  <2>2. change' \in [Operators -> Change]
    BY <2>1, <1>b
  <2> QED  BY <1>3, <2>2 DEF transitionRead, TypeOK
<1>4. CASE transition(o)
  <2>1. change[o].target \in EventStatuses
    BY <1>4, <1>a DEF transition, Idle
  <2>2. event' \in [status : EventStatuses, capacity : Capacities]
    BY <2>1, <1>4, <1>a DEF transition
  <2>3. change' \in [Operators -> Change]
    BY <1>4, <1>b, <1>c DEF transition
  <2> QED  BY <1>4, <2>2, <2>3 DEF transition, TypeOK
<1>5. CASE updateRead(o)
  <2>1. PICK c \in Capacities :
          change' = [change EXCEPT ![o] = [op |-> "update", capacity |-> c]]
    BY <1>5 DEF updateRead
  <2>2. change' \in [Operators -> Change]
    BY <2>1, <1>b
  <2> QED  BY <1>5, <2>2 DEF updateRead, TypeOK
<1>6. CASE update(o)
  <2>1. change[o].capacity \in Capacities
    BY <1>6, <1>a DEF update, Idle
  <2>2. event' \in [status : EventStatuses, capacity : Capacities] /\ peak' \in Capacities
    BY <2>1, <1>6, <1>a DEF update, TypeOK
  <2>3. change' \in [Operators -> Change]
    BY <1>6, <1>b, <1>c DEF update
  <2> QED  BY <1>6, <2>2, <2>3 DEF update, TypeOK
<1> QED  BY <1>1, <1>2, <1>3, <1>4, <1>5, <1>6 DEF OperatorStep

LEMMA NextTypes ==
  ASSUME TypeOK, [Next]_vars
  PROVE  TypeOK'
<1>1. CASE publish
  BY <1>1 DEF publish, TypeOK, EventStatuses
<1>2. CASE UNCHANGED vars
  BY <1>2 DEF vars, TypeOK
<1> QED  BY <1>1, <1>2, RequestTypes, OperatorTypes DEF Next, OperatorStep

\* Every reachable state of the registrations, requests and changes is well
\* typed (events.service.ts, engagement.service.ts).
THEOREM RegistrationTypeCorrect == Spec => []TypeOK
<1>1. Init => TypeOK
  BY InitTypes
<1>2. TypeOK /\ [Next]_vars => TypeOK'
  BY NextTypes
<1> QED  BY <1>1, <1>2, PTL DEF Spec

-----------------------------------------------------------------------------
(* Seats *)

\* A set of leads that gains at most one element.
LEMMA OneMore ==
  ASSUME NEW S, NEW T, NEW x, IsFiniteSet(S), T \subseteq S \cup {x}
  PROVE  /\ Cardinality(T) \in Nat /\ Cardinality(S) \in Nat
         /\ Cardinality(T) <= Cardinality(S) + 1
         /\ T \subseteq S => Cardinality(T) <= Cardinality(S)
<1>0. Cardinality(S) \in Nat
  BY FS_CardinalityType
<1>1. IsFiniteSet(S \cup {x}) /\ Cardinality(S \cup {x}) <= Cardinality(S) + 1
  <2>1. /\ IsFiniteSet(S \cup {x})
        /\ Cardinality(S \cup {x}) = IF x \in S THEN Cardinality(S) ELSE Cardinality(S) + 1
    BY FS_AddElement
  <2> QED  BY <2>1, <1>0
<1>2. IsFiniteSet(T) /\ Cardinality(T) <= Cardinality(S \cup {x})
  BY <1>1, FS_Subset
<1>3. /\ Cardinality(S) \in Nat /\ Cardinality(T) \in Nat
      /\ Cardinality(S \cup {x}) \in Nat
  BY <1>1, <1>2, FS_CardinalityType
<1>4. T \subseteq S => Cardinality(T) <= Cardinality(S)
  BY FS_Subset
<1> QED  BY <1>1, <1>2, <1>3, <1>4

LEMMA OccupiedFinite ==
  ASSUME TypeOK
  PROVE  IsFiniteSet(Occupied) /\ Cardinality(Occupied) \in Nat
BY RegistrationAssumption, FS_Subset, FS_CardinalityType DEF Occupied

Seats == Decided /\ event.capacity <= peak /\ SeatsBounded /\ SeatLeft

LEMMA RequestSeats ==
  ASSUME TypeOK, Seats, NEW r \in Requests, RequestStep(r)
  PROVE  Seats'
<1> USE DEF Seats
<1>a. /\ request \in [Requests -> {NotSent} \cup InFlight \cup Answered]
      /\ reg \in [Leads -> RegStatuses \cup {"none"}]
      /\ event.capacity \in Nat /\ peak \in Nat /\ reclaimed \in Nat
  BY RegistrationAssumption DEF TypeOK
<1>b. Cardinality(Occupied) \in Nat
  BY OccupiedFinite
<1>c. ASSUME reg' = reg  PROVE Occupied' = Occupied
  BY <1>c DEF Occupied
<1>d. ASSUME reg' = reg, peak' = peak, reclaimed' = reclaimed, event' = event,
             \A q \in Requests : q # r => request'[q] = request[q],
             request'[r].pc # "commit"
      PROVE  Seats'
  BY <1>c, <1>d DEF Decided, SeatsBounded, SeatLeft, AtCommit
<1>e. ASSUME NEW a, Answer(r, a)
      PROVE  /\ \A q \in Requests : q # r => request'[q] = request[q]
             /\ request'[r].pc # "commit"
  BY <1>e, <1>a DEF Answer
<1>1. CASE submit(r)
  BY <1>1, <1>a, <1>d DEF submit
<1>2. CASE registerInTransaction(r)
  <2>1. CASE \E a : Answer(r, a)
    BY <2>1, <1>2, <1>d, <1>e DEF registerInTransaction
  <2>2. CASE request' = [request EXCEPT
             ![r].pc = "commit", ![r].conflict = FALSE,
             ![r].status = IF Cardinality(Occupied) >= event.capacity
                           THEN "WAITLISTED" ELSE "REGISTERED"]
    <3>1. request[r] \in InFlight
      BY <1>2, <1>a DEF registerInTransaction, NotSent, Answered, InFlight
    <3>2. /\ \A q \in Requests : q # r => request'[q] = request[q]
          /\ request'[r].status # "none"
          /\ request'[r].status = "REGISTERED" => Cardinality(Occupied) < event.capacity
      BY <2>2, <3>1, <1>a, <1>b DEF InFlight
    <3>3. /\ Occupied' = Occupied /\ event' = event /\ peak' = peak
          /\ reclaimed' = reclaimed
      BY <1>2, <1>c DEF registerInTransaction
    <3>4. Decided'
      BY <3>2 DEF Decided, AtCommit
    <3>5. SeatLeft'
      <4> SUFFICES ASSUME NEW q \in Requests, request'[q].pc = "commit",
                          ~ request'[q].conflict, request'[q].status = "REGISTERED"
                   PROVE  Cardinality(Occupied) < peak + reclaimed
        BY <3>3 DEF SeatLeft, AtCommit
      <4>1. CASE q = r
        BY <4>1, <3>2, <1>a, <1>b
      <4>2. CASE q # r
        BY <4>2, <3>2 DEF SeatLeft, AtCommit
      <4> QED  BY <4>1, <4>2
    <3> QED  BY <3>3, <3>4, <3>5 DEF SeatsBounded
  <2> QED  BY <1>2, <2>1, <2>2 DEF registerInTransaction
<1>3. CASE commitRegistration(r)
  <2>a. request[r] \in InFlight
    BY <1>3, <1>a DEF commitRegistration, NotSent, Answered, InFlight
  <2>b. /\ request[r].lead \in Leads
        /\ request[r].status \in {"REGISTERED", "WAITLISTED"}
    BY <2>a, <1>3 DEF InFlight, Decided, AtCommit, commitRegistration
  <2>c. reg' = [reg EXCEPT ![request[r].lead] = request[r].status]
    BY <1>3 DEF commitRegistration
  <2>d. /\ event' = event /\ peak' = peak /\ reclaimed' = reclaimed
        /\ request' = Conflicting(r)
    BY <1>3 DEF commitRegistration
  <2>1. \A q \in Requests : AtCommit(q)' =>
            /\ request'[q].conflict
            /\ AtCommit(q) /\ request'[q].status = request[q].status
    <3> SUFFICES ASSUME NEW q \in Requests, Conflicting(r)[q].pc = "commit"
                 PROVE  /\ Conflicting(r)[q].conflict
                        /\ AtCommit(q)
                        /\ Conflicting(r)[q].status = request[q].status
      BY <2>d DEF AtCommit
    <3>1. q # r
      BY DEF Conflicting
    <3>2. request[q].pc = "commit"
      BY <3>1 DEF Conflicting
    <3>3. request[q] \in InFlight
      BY <3>2, <1>a DEF NotSent, Answered, InFlight
    <3> QED  BY <3>1, <3>2, <3>3 DEF Conflicting, AtCommit, InFlight
  <2>2. Occupied' \subseteq Occupied \cup {request[r].lead}
    BY <2>b, <2>c, <1>a DEF Occupied
  <2>3. request[r].status = "WAITLISTED" => Occupied' \subseteq Occupied
    BY <2>b, <2>c, <1>a DEF Occupied, Active
  <2>4. request[r].status = "REGISTERED" => Cardinality(Occupied) < peak + reclaimed
    BY <1>3 DEF SeatLeft, AtCommit, commitRegistration
  <2>5. /\ Cardinality(Occupied') \in Nat
        /\ Cardinality(Occupied') <= Cardinality(Occupied) + 1
        /\ Occupied' \subseteq Occupied => Cardinality(Occupied') <= Cardinality(Occupied)
    BY <2>2, OccupiedFinite, OneMore
  <2>6. Cardinality(Occupied') <= peak + reclaimed
    BY <2>3, <2>4, <2>5, <2>b, <1>a, <1>b DEF SeatsBounded
  <2> QED  BY <2>1, <2>6, <2>d DEF SeatsBounded, SeatLeft, Decided, AtCommit
<1>4. CASE register(r)
  <2>1. CASE \E a : Answer(r, a)
    BY <2>1, <1>4, <1>d, <1>e DEF register
  <2>2. CASE request' = [request EXCEPT ![r].pc = "begin", ![r].status = "none",
                         ![r].conflict = FALSE, ![r].attempt = @ + 1]
    <3>1. request[r] \in InFlight
      BY <1>4, <1>a DEF register, NotSent, Answered, InFlight
    <3>2. /\ \A q \in Requests : q # r => request'[q] = request[q]
          /\ request'[r].pc # "commit"
      BY <2>2, <3>1, <1>a DEF InFlight
    <3> QED  BY <3>2, <1>4, <1>d DEF register
  <2> QED  BY <1>4, <2>1, <2>2 DEF register
<1> QED  BY <1>1, <1>2, <1>3, <1>4 DEF RequestStep

LEMMA OperatorSeats ==
  ASSUME TypeOK, Seats, NEW o \in Operators, OperatorStep(o)
  PROVE  Seats'
<1> USE DEF Seats
<1>a. /\ reg \in [Leads -> RegStatuses \cup {"none"}]
      /\ event \in [status : EventStatuses, capacity : Capacities]
      /\ event.capacity \in Nat /\ peak \in Nat /\ reclaimed \in Nat
      /\ Capacities \subseteq Nat
  BY RegistrationAssumption DEF TypeOK
<1>b. Cardinality(Occupied) \in Nat
  BY OccupiedFinite
<1>c. ASSUME reg' = reg, request' = request, reclaimed' = reclaimed, peak' \in Nat,
             peak <= peak', event'.capacity <= peak'
      PROVE  Seats'
  <2>1. Occupied' = Occupied
    BY <1>c DEF Occupied
  <2>2. Cardinality(Occupied) <= peak' + reclaimed
    BY <1>a, <1>b, <1>c DEF SeatsBounded
  <2>3. \A r \in Requests :
          AtCommit(r) /\ ~ request[r].conflict /\ request[r].status = "REGISTERED"
            => Cardinality(Occupied) < peak' + reclaimed
    BY <1>a, <1>b, <1>c DEF SeatLeft
  <2> QED  BY <2>1, <2>2, <2>3, <1>c DEF SeatsBounded, SeatLeft, Decided, AtCommit
<1>1. CASE readStatus(o)
  BY <1>1, <1>a, <1>c DEF readStatus
<1>2. CASE writeStatus(o)
  <2>a. change[o].lead \in Leads /\ change[o].target \in RegStatuses
    BY <1>2 DEF writeStatus, Idle, TypeOK
  <2>b. reg' = [reg EXCEPT ![change[o].lead] = change[o].target]
    BY <1>2 DEF writeStatus
  <2>1. Occupied' \subseteq Occupied \cup {change[o].lead}
    BY <2>a, <2>b, <1>a DEF Occupied
  <2>2. ~ (reg[change[o].lead] \notin Active /\ change[o].target \in Active)
          => Occupied' \subseteq Occupied
    BY <2>a, <2>b, <1>a DEF Occupied
  <2>3. /\ Cardinality(Occupied') \in Nat
        /\ Cardinality(Occupied') <= Cardinality(Occupied) + 1
        /\ Occupied' \subseteq Occupied => Cardinality(Occupied') <= Cardinality(Occupied)
    BY <2>1, OccupiedFinite, OneMore
  <2>4. /\ reclaimed' \in Nat
        /\ Cardinality(Occupied') - Cardinality(Occupied) <= reclaimed' - reclaimed
    BY <1>2, <2>2, <2>3, <1>a, <1>b DEF writeStatus
  <2>5. SeatsBounded'
    BY <2>3, <2>4, <1>2, <1>a, <1>b DEF SeatsBounded, writeStatus
  <2>6. SeatLeft'
    <3> SUFFICES ASSUME NEW r \in Requests, request[r].pc = "commit",
                        ~ request[r].conflict, request[r].status = "REGISTERED"
                 PROVE  Cardinality(Occupied') < peak + reclaimed'
      BY <1>2 DEF SeatLeft, AtCommit, writeStatus
    <3>1. Cardinality(Occupied) < peak + reclaimed
      BY DEF SeatLeft, AtCommit
    <3> QED  BY <3>1, <2>3, <2>4, <1>a, <1>b
  <2> QED  BY <2>5, <2>6, <1>2 DEF writeStatus, Decided, AtCommit
<1>3. CASE transitionRead(o)
  BY <1>3, <1>a, <1>c DEF transitionRead
<1>4. CASE transition(o)
  BY <1>4, <1>a, <1>c DEF transition
<1>5. CASE updateRead(o)
  BY <1>5, <1>a, <1>c DEF updateRead
<1>6. CASE update(o)
  <2>1. change[o].capacity \in Nat
    BY <1>6, <1>a DEF update, Idle, TypeOK
  <2> QED  BY <2>1, <1>6, <1>a, <1>c DEF update
<1> QED  BY <1>1, <1>2, <1>3, <1>4, <1>5, <1>6 DEF OperatorStep

\* However many requests register at once and whatever operators and leads
\* change meanwhile, more leads than the event's largest capacity hold a seat
\* only if a status change gave one (events.service.ts, registerInTransaction).
THEOREM SeatsBoundedHolds == Spec => []SeatsBounded
<1>1. Init => Seats
  <2> SUFFICES ASSUME Init  PROVE Seats
    OBVIOUS
  <2>1. Occupied = {} /\ peak = event.capacity /\ reclaimed = 0 /\ peak \in Nat
    BY RegistrationAssumption DEF Init, Occupied, Active
  <2>2. Cardinality(Occupied) = 0
    BY <2>1, FS_EmptySet
  <2>3. \A r \in Requests : ~ AtCommit(r)
    BY DEF Init, AtCommit, NotSent
  <2> QED  BY <2>1, <2>2, <2>3 DEF Seats, SeatsBounded, SeatLeft, Decided
<1>2. TypeOK /\ Seats /\ [Next]_vars => Seats'
  <2> SUFFICES ASSUME TypeOK, Seats, [Next]_vars  PROVE Seats'
    OBVIOUS
  <2>1. CASE publish
    <3>1. Occupied' = Occupied /\ event'.capacity = event.capacity
      BY <2>1 DEF publish, Occupied, TypeOK
    <3> QED  BY <2>1, <3>1 DEF publish, Seats, SeatsBounded, SeatLeft, Decided, AtCommit
  <2>2. CASE UNCHANGED vars
    BY <2>2 DEF vars, Seats, SeatsBounded, SeatLeft, Decided, AtCommit, Occupied
  <2> QED  BY <2>1, <2>2, RequestSeats, OperatorSeats DEF Next, OperatorStep
<1>3. Seats => SeatsBounded
  BY DEF Seats
<1> QED  BY <1>1, <1>2, <1>3, RegistrationTypeCorrect, PTL DEF Spec

-----------------------------------------------------------------------------
(* One creation per lead *)

Once == /\ Decided /\ LeadFree /\ CreatedIsThere /\ ChangedIsThere /\ CreatedOnce

\* A request that is created at its commit or earlier stays what it is in the
\* steps that answer or move one request r and write no registration.
LEMMA OnceMoves ==
  ASSUME Once, NEW r \in Requests, reg' = reg, change' = change,
         \A q \in Requests : q # r => request'[q] = request[q],
         ~ Created(r)',
         AtCommit(r)' => /\ request'[r].status # "none"
                         /\ reg[request'[r].lead] = "none"
  PROVE  Once'
<1>1. Decided'
  BY DEF Once, Decided, AtCommit
<1>2. LeadFree'
  BY DEF Once, LeadFree, AtCommit
<1>3. CreatedIsThere'
  BY DEF Once, CreatedIsThere, Created
<1>4. ChangedIsThere'
  BY DEF Once, ChangedIsThere
<1>5. CreatedOnce'
  BY DEF Once, CreatedOnce, Created
<1> QED  BY <1>1, <1>2, <1>3, <1>4, <1>5 DEF Once

LEMMA RequestOnce ==
  ASSUME TypeOK, Once, NEW r \in Requests, RequestStep(r)
  PROVE  Once'
<1>a. /\ request \in [Requests -> {NotSent} \cup InFlight \cup Answered]
      /\ reg \in [Leads -> RegStatuses \cup {"none"}]
  BY DEF TypeOK
<1>e. ASSUME NEW a \in Refusals, Answer(r, a)
      PROVE  /\ \A q \in Requests : q # r => request'[q] = request[q]
             /\ ~ Created(r)' /\ ~ AtCommit(r)'
  BY <1>e, <1>a DEF Answer, Created, AtCommit, Refusals
<1>1. CASE submit(r)
  <2>1. /\ \A q \in Requests : q # r => request'[q] = request[q]
        /\ ~ Created(r)' /\ ~ AtCommit(r)'
    BY <1>1, <1>a DEF submit, Created, AtCommit
  <2> QED  BY <2>1, <1>1, OnceMoves DEF submit
<1>2. CASE registerInTransaction(r)
  <2>1. CASE Answer(r, "closed") \/ Answer(r, "existing")
    <3>1. /\ \A q \in Requests : q # r => request'[q] = request[q]
          /\ ~ Created(r)' /\ ~ AtCommit(r)'
      BY <2>1, <1>e DEF Refusals
    <3> QED  BY <3>1, <1>2, OnceMoves DEF registerInTransaction
  <2>2. CASE /\ reg[request[r].lead] = "none"
             /\ request' = [request EXCEPT
                  ![r].pc = "commit", ![r].conflict = FALSE,
                  ![r].status = IF Cardinality(Occupied) >= event.capacity
                                THEN "WAITLISTED" ELSE "REGISTERED"]
    <3>1. request[r] \in InFlight
      BY <1>2, <1>a DEF registerInTransaction, NotSent, Answered, InFlight
    <3>2. /\ \A q \in Requests : q # r => request'[q] = request[q]
          /\ request'[r].status # "none" /\ request'[r].pc = "commit"
          /\ request'[r].lead = request[r].lead
      BY <2>2, <3>1, <1>a DEF InFlight
    <3> QED  BY <2>2, <3>2, <1>2, OnceMoves DEF registerInTransaction, Created, AtCommit
  <2> QED  BY <1>2, <2>1, <2>2 DEF registerInTransaction
<1>3. CASE commitRegistration(r)
  <2>a. request[r] \in InFlight
    BY <1>3, <1>a DEF commitRegistration, NotSent, Answered, InFlight
  <2>b. /\ request[r].lead \in Leads /\ request[r].status # "none"
        /\ reg[request[r].lead] = "none"
    BY <2>a, <1>3 DEF InFlight, Once, Decided, LeadFree, AtCommit, commitRegistration
  <2>c. reg' = [reg EXCEPT ![request[r].lead] = request[r].status]
    BY <1>3 DEF commitRegistration
  <2>d. change' = change /\ request' = Conflicting(r)
    BY <1>3 DEF commitRegistration
  <2>1. \A q \in Requests : AtCommit(q)' =>
            /\ request'[q].conflict
            /\ AtCommit(q) /\ request'[q].status = request[q].status
    <3> SUFFICES ASSUME NEW q \in Requests, Conflicting(r)[q].pc = "commit"
                 PROVE  /\ Conflicting(r)[q].conflict
                        /\ AtCommit(q)
                        /\ Conflicting(r)[q].status = request[q].status
      BY <2>d DEF AtCommit
    <3>1. q # r
      BY DEF Conflicting
    <3>2. request[q].pc = "commit"
      BY <3>1 DEF Conflicting
    <3>3. request[q] \in InFlight
      BY <3>2, <1>a DEF NotSent, Answered, InFlight
    <3> QED  BY <3>1, <3>2, <3>3 DEF Conflicting, AtCommit, InFlight
  <2>2. \A q \in Requests : Created(q)' =>
            \/ q = r /\ request'[q].lead = request[r].lead
            \/ Created(q) /\ q # r /\ request'[q] = request[q]
    <3> SUFFICES ASSUME NEW q \in Requests, Conflicting(r)[q].pc = "done",
                        Conflicting(r)[q].answer = "created"
                 PROVE  \/ q = r /\ Conflicting(r)[q].lead = request[r].lead
                        \/ Created(q) /\ q # r /\ Conflicting(r)[q] = request[q]
      BY <2>d DEF Created
    <3>1. CASE q = r
      BY <3>1 DEF Conflicting
    <3>2. CASE q # r /\ request[q].pc = "commit"
      <4>1. request[q] \in InFlight
        BY <3>2, <1>a DEF NotSent, Answered, InFlight
      <4> QED  BY <4>1, <3>2 DEF Conflicting, InFlight
    <3>3. CASE q # r /\ request[q].pc # "commit"
      BY <3>3 DEF Conflicting, Created
    <3> QED  BY <3>1, <3>2, <3>3
  <2>3. \A l \in Leads : reg[l] # "none" => reg'[l] # "none"
    BY <2>b, <2>c, <1>a
  <2>4. Decided'
    BY <2>1 DEF Decided, Once, AtCommit
  <2>5. LeadFree'
    BY <2>1 DEF LeadFree, AtCommit
  <2>6. CreatedIsThere'
    <3> SUFFICES ASSUME NEW q \in Requests, Created(q)'
                 PROVE  reg'[request'[q].lead] # "none"
      BY DEF CreatedIsThere
    <3>1. CASE q = r /\ request'[q].lead = request[r].lead
      BY <3>1, <2>b, <2>c, <1>a
    <3>2. CASE Created(q) /\ request'[q] = request[q]
      <4>1. request[q] \in Answered
        BY <3>2, <1>a DEF Created, NotSent, InFlight
      <4>2. request[q].lead \in Leads
        BY <4>1, <3>2 DEF Created, Answered, Refusals
      <4> QED  BY <4>2, <3>2, <2>3 DEF Once, CreatedIsThere
    <3> QED  BY <3>1, <3>2, <2>2
  <2>7. ChangedIsThere'
    <3> SUFFICES ASSUME NEW o \in Operators, change[o].op = "status"
                 PROVE  reg'[change[o].lead] # "none"
      BY <2>d DEF ChangedIsThere
    <3>1. change[o].lead \in Leads
      BY DEF TypeOK, Idle
    <3> QED  BY <3>1, <2>3 DEF Once, ChangedIsThere
  <2>8. CreatedOnce'
    <3> SUFFICES ASSUME NEW p \in Requests, NEW q \in Requests, Created(p)', Created(q)',
                        request'[p].lead = request'[q].lead
                 PROVE  p = q
      BY DEF CreatedOnce, Created
    <3>1. \A s \in Requests : Created(s) => request[s].lead # request[r].lead
      BY <2>b DEF Once, CreatedIsThere
    <3>2. CASE p # r /\ q # r
      BY <3>2, <2>2 DEF Once, CreatedOnce, Created
    <3>3. CASE p = r \/ q = r
      BY <3>3, <3>1, <2>2
    <3> QED  BY <3>2, <3>3
  <2> QED  BY <2>4, <2>5, <2>6, <2>7, <2>8 DEF Once
<1>4. CASE register(r)
  <2>1. CASE Answer(r, "conflict") \/ Answer(r, "duplicate")
    <3>1. /\ \A q \in Requests : q # r => request'[q] = request[q]
          /\ ~ Created(r)' /\ ~ AtCommit(r)'
      BY <2>1, <1>e DEF Refusals
    <3> QED  BY <3>1, <1>4, OnceMoves DEF register
  <2>2. CASE request' = [request EXCEPT ![r].pc = "begin", ![r].status = "none",
                         ![r].conflict = FALSE, ![r].attempt = @ + 1]
    <3>1. request[r] \in InFlight
      BY <1>4, <1>a DEF register, NotSent, Answered, InFlight
    <3>2. /\ \A q \in Requests : q # r => request'[q] = request[q]
          /\ ~ Created(r)' /\ ~ AtCommit(r)'
      BY <2>2, <3>1, <1>a DEF InFlight, Created, AtCommit
    <3> QED  BY <3>2, <1>4, OnceMoves DEF register
  <2> QED  BY <1>4, <2>1, <2>2 DEF register
<1> QED  BY <1>1, <1>2, <1>3, <1>4 DEF RequestStep

LEMMA OperatorOnce ==
  ASSUME TypeOK, Once, NEW o \in Operators, OperatorStep(o)
  PROVE  Once'
<1>a. reg \in [Leads -> RegStatuses \cup {"none"}]
  BY DEF TypeOK
<1>b. ASSUME request' = request, reg' = reg, ChangedIsThere'
      PROVE  Once'
  BY <1>b DEF Once, Decided, LeadFree, CreatedIsThere, CreatedOnce, AtCommit, Created
<1>1. CASE readStatus(o)
  <2>0. PICK l \in Leads :
          /\ reg[l] # "none"
          /\ \E t : change' = [change EXCEPT ![o] = [op |-> "status", lead |-> l, target |-> t]]
    BY <1>1 DEF readStatus
  <2>1. PICK t :
          change' = [change EXCEPT ![o] = [op |-> "status", lead |-> l, target |-> t]]
    BY <2>0
  <2>2. ChangedIsThere'
    BY <2>0, <2>1, <1>1 DEF readStatus, Once, ChangedIsThere, TypeOK
  <2> QED  BY <2>2, <1>1, <1>b DEF readStatus
<1>2. CASE writeStatus(o)
  <2>a. change[o].lead \in Leads /\ change[o].target \in RegStatuses
    BY <1>2 DEF writeStatus, Idle, TypeOK
  <2>b. /\ reg' = [reg EXCEPT ![change[o].lead] = change[o].target]
        /\ change' = [change EXCEPT ![o] = Idle] /\ request' = request
    BY <1>2 DEF writeStatus
  <2>1. \A l \in Leads : reg'[l] = "none" <=> reg[l] = "none"
    BY <2>a, <2>b, <1>a, <1>2 DEF writeStatus, RegStatuses, Once, ChangedIsThere
  <2>2. LeadFree'
    <3> SUFFICES ASSUME NEW r \in Requests, AtCommit(r), ~ request[r].conflict
                 PROVE  reg'[request[r].lead] = "none"
      BY <2>b DEF LeadFree, AtCommit
    <3>1. request[r].lead \in Leads
      BY DEF TypeOK, AtCommit, NotSent, InFlight, Answered
    <3> QED  BY <3>1, <2>1 DEF Once, LeadFree
  <2>3. CreatedIsThere'
    <3> SUFFICES ASSUME NEW r \in Requests, Created(r)
                 PROVE  reg'[request[r].lead] # "none"
      BY <2>b DEF CreatedIsThere, Created
    <3>1. request[r].lead \in Leads
      <4>1. request[r] \in Answered
        BY DEF TypeOK, Created, NotSent, InFlight
      <4> QED  BY <4>1 DEF Created, Answered, Refusals
    <3> QED  BY <3>1, <2>1 DEF Once, CreatedIsThere
  <2>4. ChangedIsThere'
    <3> SUFFICES ASSUME NEW q \in Operators, change'[q].op = "status"
                 PROVE  reg'[change'[q].lead] # "none"
      BY DEF ChangedIsThere
    <3>1. q # o /\ change'[q] = change[q]
      BY <2>b DEF Idle, TypeOK
    <3>2. change[q].lead \in Leads
      BY <3>1 DEF TypeOK, Idle
    <3> QED  BY <3>1, <3>2, <2>1 DEF Once, ChangedIsThere
  <2> QED  BY <2>2, <2>3, <2>4, <2>b DEF Once, Decided, CreatedOnce, AtCommit, Created
<1>3. CASE transitionRead(o)
  <2>1. PICK t : change' = [change EXCEPT ![o] = [op |-> "transition", target |-> t]]
    BY <1>3 DEF transitionRead
  <2>2. ChangedIsThere'
    BY <2>1, <1>3 DEF transitionRead, Once, ChangedIsThere, TypeOK
  <2> QED  BY <2>2, <1>3, <1>b DEF transitionRead
<1>4. CASE transition(o) \/ update(o)
  <2>1. ChangedIsThere'
    BY <1>4 DEF transition, update, Once, ChangedIsThere, TypeOK, Idle
  <2> QED  BY <2>1, <1>4, <1>b DEF transition, update
<1>5. CASE updateRead(o)
  <2>1. PICK c : change' = [change EXCEPT ![o] = [op |-> "update", capacity |-> c]]
    BY <1>5 DEF updateRead
  <2>2. ChangedIsThere'
    BY <2>1, <1>5 DEF updateRead, Once, ChangedIsThere, TypeOK
  <2> QED  BY <2>2, <1>5, <1>b DEF updateRead
<1> QED  BY <1>1, <1>2, <1>3, <1>4, <1>5 DEF OperatorStep

\* Two requests for one lead are never both told that they created its
\* registration, whatever retries and status changes happen (events.service.ts,
\* register).
THEOREM CreatedOnceHolds == Spec => []CreatedOnce
<1>1. Init => Once
  BY DEF Init, Once, Decided, LeadFree, CreatedIsThere, ChangedIsThere, CreatedOnce,
         AtCommit, Created, NotSent, Idle
<1>2. TypeOK /\ Once /\ [Next]_vars => Once'
  <2> SUFFICES ASSUME TypeOK, Once, [Next]_vars  PROVE Once'
    OBVIOUS
  <2>1. CASE publish \/ UNCHANGED vars
    BY <2>1 DEF publish, vars, Once, Decided, LeadFree, CreatedIsThere, ChangedIsThere,
                CreatedOnce, AtCommit, Created
  <2> QED  BY <2>1, RequestOnce, OperatorOnce DEF Next, OperatorStep
<1>3. Once => CreatedOnce
  BY DEF Once
<1> QED  BY <1>1, <1>2, <1>3, RegistrationTypeCorrect, PTL DEF Spec

-----------------------------------------------------------------------------
(* Refusals *)

Contention == AttemptsPaid /\ RefusedOnlyUnderContention

LEMMA CreationsFinite ==
  /\ IsFiniteSet(Creations)
  /\ Cardinality(Creations) \in Nat
BY RegistrationAssumption, FS_Subset, FS_CardinalityType DEF Creations

\* A step that leaves the creations and the other requests alone.
LEMMA ContentionMoves ==
  ASSUME Contention, NEW r \in Requests,
         Creations' = Creations,
         \A q \in Requests : q # r => request'[q] = request[q],
         request'[r].pc \in {"begin", "commit"} =>
           request'[r].attempt <= Cardinality(Creations) + 1,
         AtCommit(r)' => ~ request'[r].conflict,
         request'[r].pc = "done" /\ request'[r].answer = "conflict"
           => Cardinality(Creations) >= MaxAttempts
  PROVE  Contention'
<1>1. AttemptsPaid'
  BY DEF Contention, AttemptsPaid, AtCommit
<1>2. RefusedOnlyUnderContention'
  BY DEF Contention, RefusedOnlyUnderContention
<1> QED  BY <1>1, <1>2 DEF Contention

LEMMA RequestContention ==
  ASSUME TypeOK, Contention, NEW r \in Requests, RequestStep(r)
  PROVE  Contention'
<1>a. /\ request \in [Requests -> {NotSent} \cup InFlight \cup Answered]
      /\ MaxAttempts \in Nat
  BY RegistrationAssumption DEF TypeOK
<1>b. Cardinality(Creations) \in Nat
  BY CreationsFinite
<1>c. ASSUME \A q \in Requests : q # r => request'[q] = request[q],
             ~ Created(r), ~ Created(r)'
      PROVE  Creations' = Creations
  BY <1>c DEF Creations, Created
<1>d. ASSUME NEW a \in Refusals, Answer(r, a), ~ Created(r)
      PROVE  /\ \A q \in Requests : q # r => request'[q] = request[q]
             /\ request'[r].pc = "done" /\ request'[r].answer = a
             /\ Creations' = Creations
  <2>1. /\ \A q \in Requests : q # r => request'[q] = request[q]
        /\ request'[r].pc = "done" /\ request'[r].answer = a
    BY <1>d, <1>a DEF Answer
  <2> QED  BY <2>1, <1>c, <1>d DEF Created, Refusals
<1>1. CASE submit(r)
  <2>1. PICK l \in Leads : request' = [request EXCEPT ![r] =
                     [pc |-> "begin", lead |-> l, attempt |-> 1,
                      status |-> "none", conflict |-> FALSE]]
    BY <1>1 DEF submit
  <2>2. /\ \A q \in Requests : q # r => request'[q] = request[q]
        /\ request'[r].pc = "begin" /\ request'[r].attempt = 1
        /\ ~ Created(r)
    BY <1>1, <2>1, <1>a DEF submit, Created, NotSent
  <2>3. Creations' = Creations
    BY <2>2, <1>c DEF Created
  <2>4. 1 <= Cardinality(Creations) + 1
    BY <1>b
  <2> QED  BY <2>2, <2>3, <2>4, ContentionMoves DEF AtCommit
<1>2. CASE registerInTransaction(r)
  <2>a. request[r] \in InFlight /\ ~ Created(r)
    BY <1>2, <1>a DEF registerInTransaction, NotSent, Answered, InFlight, Created
  <2>1. CASE Answer(r, "closed") \/ Answer(r, "existing")
    <3>1. PICK a \in {"closed", "existing"} : Answer(r, a)
      BY <2>1
    <3> QED  BY <3>1, <2>a, <1>d, ContentionMoves DEF Refusals, AtCommit
  <2>2. CASE request' = [request EXCEPT
             ![r].pc = "commit", ![r].conflict = FALSE,
             ![r].status = IF Cardinality(Occupied) >= event.capacity
                           THEN "WAITLISTED" ELSE "REGISTERED"]
    <3>1. /\ \A q \in Requests : q # r => request'[q] = request[q]
          /\ request'[r].pc = "commit" /\ ~ request'[r].conflict
          /\ request'[r].attempt = request[r].attempt
      BY <2>2, <2>a, <1>a DEF InFlight
    <3>2. Creations' = Creations
      BY <3>1, <2>a, <1>c DEF Created
    <3>3. request[r].attempt <= Cardinality(Creations) + 1
      BY <1>2 DEF registerInTransaction, Contention, AttemptsPaid
    <3> QED  BY <3>1, <3>2, <3>3, ContentionMoves
  <2> QED  BY <1>2, <2>1, <2>2 DEF registerInTransaction
<1>3. CASE commitRegistration(r)
  <2>a. request[r] \in InFlight /\ r \notin Creations
    BY <1>3, <1>a DEF commitRegistration, NotSent, Answered, InFlight, Creations
  <2>d. request' = Conflicting(r)
    BY <1>3 DEF commitRegistration
  <2>1. \A q \in Requests : q # r =>
          IF request[q].pc = "commit"
          THEN /\ request'[q].pc = "commit" /\ request'[q].conflict
               /\ request'[q].attempt = request[q].attempt
          ELSE request'[q] = request[q]
    <3> SUFFICES ASSUME NEW q \in Requests, q # r
                 PROVE  IF request[q].pc = "commit"
                        THEN /\ request'[q].pc = "commit" /\ request'[q].conflict
                             /\ request'[q].attempt = request[q].attempt
                        ELSE request'[q] = request[q]
      OBVIOUS
    <3>1. CASE request[q].pc = "commit"
      <4>1. request[q] \in InFlight
        BY <3>1, <1>a DEF NotSent, Answered, InFlight
      <4>2. request'[q] = [request[q] EXCEPT !.conflict = TRUE]
        BY <3>1, <2>d DEF Conflicting
      <4> QED  BY <4>1, <4>2, <3>1 DEF InFlight
    <3>2. CASE request[q].pc # "commit"
      BY <3>2, <2>d DEF Conflicting
    <3> QED  BY <3>1, <3>2
  <2>2. request'[r].pc = "done" /\ request'[r].answer = "created"
    BY <2>d DEF Conflicting
  <2>3. Creations' = Creations \cup {r}
    <3>1. \A q \in Requests : q # r => (q \in Creations' <=> q \in Creations)
      BY <2>1 DEF Creations
    <3> QED  BY <3>1, <2>2 DEF Creations
  <2>4. Cardinality(Creations') = Cardinality(Creations) + 1
    BY <2>3, <2>a, CreationsFinite, FS_AddElement
  <2>5. AttemptsPaid'
    <3> SUFFICES ASSUME NEW q \in Requests, request'[q].pc \in {"begin", "commit"}
                 PROVE  /\ request'[q].attempt <= Cardinality(Creations) + 1
                        /\ request'[q].attempt <= Cardinality(Creations) + 2
      BY <2>4, <1>b DEF AttemptsPaid, AtCommit
    <3>1. /\ request[q].pc \in {"begin", "commit"}
          /\ request'[q].attempt = request[q].attempt
      BY <2>1, <2>2
    <3>2. request[q].attempt \in Nat
      BY <3>1, <1>a DEF NotSent, Answered, InFlight
    <3>3. request[q].attempt <= Cardinality(Creations) + 1
      BY <3>1 DEF Contention, AttemptsPaid
    <3> QED  BY <3>1, <3>2, <3>3, <1>b
  <2>6. RefusedOnlyUnderContention'
    <3> SUFFICES ASSUME NEW q \in Requests, request'[q].pc = "done",
                        request'[q].answer = "conflict"
                 PROVE  Cardinality(Creations) + 1 >= MaxAttempts
      BY <2>4 DEF RefusedOnlyUnderContention
    <3>1. request[q].pc = "done" /\ request[q].answer = "conflict"
      BY <2>1, <2>2
    <3>2. Cardinality(Creations) >= MaxAttempts
      BY <3>1 DEF Contention, RefusedOnlyUnderContention
    <3> QED  BY <3>2, <1>a, <1>b
  <2> QED  BY <2>5, <2>6 DEF Contention
<1>4. CASE register(r)
  <2>a. request[r] \in InFlight /\ ~ Created(r)
    BY <1>4, <1>a DEF register, NotSent, Answered, InFlight, Created
  <2>b. request[r].attempt \in Nat /\ request[r].attempt <= Cardinality(Creations)
    BY <1>4, <2>a DEF register, Contention, AttemptsPaid, AtCommit, InFlight
  <2>1. CASE Answer(r, "duplicate")
    BY <2>1, <2>a, <1>d, ContentionMoves DEF Refusals, AtCommit
  <2>2. CASE request[r].attempt = MaxAttempts /\ Answer(r, "conflict")
    BY <2>2, <2>a, <2>b, <1>d, ContentionMoves DEF Refusals, AtCommit
  <2>3. CASE request' = [request EXCEPT ![r].pc = "begin", ![r].status = "none",
                         ![r].conflict = FALSE, ![r].attempt = @ + 1]
    <3>1. /\ \A q \in Requests : q # r => request'[q] = request[q]
          /\ request'[r].pc = "begin"
          /\ request'[r].attempt = request[r].attempt + 1
      BY <2>3, <2>a, <1>a DEF InFlight
    <3>2. Creations' = Creations
      BY <3>1, <2>a, <1>c DEF Created
    <3>3. request[r].attempt + 1 <= Cardinality(Creations) + 1
      BY <2>b, <1>b
    <3> QED  BY <3>1, <3>2, <3>3, ContentionMoves DEF AtCommit
  <2> QED  BY <1>4, <2>1, <2>2, <2>3 DEF register
<1> QED  BY <1>1, <1>2, <1>3, <1>4 DEF RequestStep

\* A registration is refused for conflicts only after as many others have been
\* created as it made attempts (events.service.ts, register): every conflict is
\* somebody else's success.
THEOREM RefusedOnlyUnderContentionHolds == Spec => []RefusedOnlyUnderContention
<1>1. Init => Contention
  BY DEF Init, Contention, AttemptsPaid, RefusedOnlyUnderContention, AtCommit, NotSent
<1>2. TypeOK /\ Contention /\ [Next]_vars => Contention'
  <2> SUFFICES ASSUME TypeOK, Contention, [Next]_vars  PROVE Contention'
    OBVIOUS
  <2>1. CASE request' = request
    BY <2>1 DEF Contention, AttemptsPaid, RefusedOnlyUnderContention, AtCommit, Creations
  <2>2. \A o \in Operators : OperatorStep(o) => request' = request
    BY DEF OperatorStep, readStatus, writeStatus, transitionRead, transition, updateRead,
           update
  <2>3. publish \/ UNCHANGED vars => request' = request
    BY DEF publish, vars
  <2> QED  BY <2>1, <2>2, <2>3, RequestContention DEF Next, OperatorStep
<1>3. Contention => RefusedOnlyUnderContention
  BY DEF Contention
<1> QED  BY <1>1, <1>2, <1>3, RegistrationTypeCorrect, PTL DEF Spec
=============================================================================
