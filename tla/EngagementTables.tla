--------------------------- MODULE EngagementTables ---------------------------
(***************************************************************************)
(* The PostgreSQL rows that the engagement API (apps/api) and the worker's *)
(* dispatcher (apps/execution-worker) share, for ONE registration of one   *)
(* lead, and the three helpers of engagement.service.ts that several       *)
(* operations run inside their transaction: stopCadence,                   *)
(* schedulePostEvent and suppressLead.                                     *)
(*                                                                         *)
(* A transaction is one step.  What the code reads outside, or earlier in, *)
(* the transaction that uses it is read by an earlier step of its actor.   *)
(***************************************************************************)
EXTENDS CommunicationPolicy, RegistrationStatus, FiniteSets

CONSTANTS
  PreKeys,      \* cadence steps of buildPreEventSchedule
  WelcomeKey,   \* the first of them, due at once
  PostKeys,     \* "ATTENDED" or "NO_SHOW" -> steps of buildPostEventSchedule
  Offset,       \* cadence step -> its distance to the event
  StartsAt,     \* the event's start
  EndsAt,       \* its end, 0 if the event has none
  Msgs,         \* ids of outbound messages (a bound on how many are drafted)
  Registrations,  \* bound: how the registration may have been made, as
                  \* pairs of its first status and the commercial checkbox
  MaxAttempts,  \* maxAttempts: the retry budget of a scheduled action
  MaxTime       \* bound: the last instant; later ones count as this one

VARIABLES
  reg,         \* Registration.status
  consent,     \* purpose -> a consent record with withdrawnAt = null exists
  suppressed,  \* purposes with an active suppression
  anonymized,  \* Lead.suppressedAt is set (deleteLeadData)
  meeting,     \* a BOOKED meeting exists
  enrollment,  \* CadenceEnrollment.status, "none" before the row exists
  act,         \* ScheduledAction rows
  conv,        \* Conversation.status, "none" if there is no row
  msg,         \* outbound Message rows
  tokens,      \* PublicActionToken rows, by message and action
  mailed,      \* external: messages the mail provider has accepted
  origin,      \* message -> the cadence step whose decision drafted it
  clock        \* the time new Date() returns

leadVars    == <<reg, consent, suppressed, anonymized, meeting>>
cadenceVars == <<enrollment, act>>
mailVars    == <<conv, msg, tokens, origin>>
tableVars   == <<leadVars, cadenceVars, mailVars, mailed, clock>>

PostStatuses == {"ATTENDED", "NO_SHOW"}
Keys         == PreKeys \cup PostKeys["ATTENDED"] \cup PostKeys["NO_SHOW"]
ActionIds    == Keys \cup Msgs
Time         == 0..MaxTime
NoKey        == "none"

ASSUME TablesAssumption ==
  /\ MaxTime \in Nat /\ MaxAttempts \in Nat \ {0}
  /\ StartsAt \in Nat /\ EndsAt \in Nat
  /\ PostKeys \in [PostStatuses -> SUBSET Keys]
  /\ Offset \in [Keys -> Nat]
  /\ WelcomeKey \in PreKeys
  /\ PreKeys \cap (PostKeys["ATTENDED"] \cup PostKeys["NO_SHOW"]) = {}
  /\ Keys \cap Msgs = {} /\ IsFiniteSet(Msgs)
  /\ NoKey \notin ActionIds
  /\ Registrations \subseteq {"REGISTERED", "WAITLISTED"} \X BOOLEAN

\* The values that some code writes; "none": there is no row.  The schema has
\* more (DISPATCHED, for one), which nothing ever stores.
ActStatuses == {"none", "PENDING", "DISPATCHING", "COMPLETED", "CANCELLED",
                "FAILED"}
MsgStatuses == {"none", "SCHEDULED", "SENT", "DELIVERED", "BOUNCED",
                "SUPPRESSED"}
ConvStatuses == {"none", "OPEN", "QUALIFIED", "HANDOFF", "SUPPRESSED"}
TokenActions == {"CONFIRM", "DECLINE", "UNSUBSCRIBE"}
TokenStates  == {"none", "unused", "consumed"}

\* lease is 0 where the code writes leaseUntil: null.  Nothing reads the
\* dueAt of a row that is settled, so settling it forgets due (0).
ActRow == [st : ActStatuses, due : Time, lease : Time,
           attempts : 0..MaxAttempts]
\* pid: the row carries the provider's message id, which webhooks look up.
MsgRow == [st : MsgStatuses, pid : BOOLEAN]

NoAct == [st |-> "none", due |-> 0, lease |-> 0, attempts |-> 0]
NoMsg == [st |-> "none", pid |-> FALSE]
NoTokens == [t \in Msgs \X TokenActions |-> "none"]

AtMost(t) == IF t \in Time THEN t ELSE MaxTime

NewAction(due) ==
  [st |-> "PENDING", due |-> AtMost(due), lease |-> 0, attempts |-> 0]

KeyPurpose(k) ==
  IF k \in PreKeys THEN "EVENT_COMMUNICATION" ELSE "COMMERCIAL_FOLLOW_UP"

\* A message keeps the purpose of the decision that drafted it.
PurposeOf(a) == KeyPurpose(IF a \in Msgs THEN origin[a] ELSE a)

TablesTypeOK ==
  /\ reg \in RegStatuses
  /\ consent \in [Purposes -> BOOLEAN]
  /\ suppressed \in SUBSET Purposes
  /\ anonymized \in BOOLEAN
  /\ meeting \in BOOLEAN
  /\ enrollment \in {"none", "ACTIVE", "CANCELLED"}
  /\ act \in [ActionIds -> ActRow]
  /\ conv \in ConvStatuses
  /\ msg \in [Msgs -> MsgRow]
  /\ tokens \in [Msgs \X TokenActions -> TokenStates]
  /\ mailed \in SUBSET Msgs
  /\ origin \in [Msgs -> Keys \cup {NoKey}]
  /\ clock \in Time

(***************************************************************************)
(* Just after a public registration (EventsService.registerInTransaction): *)
(* event mail is always consented to, commercial mail by a checkbox, and a *)
(* full event puts the registration on the waiting list.                   *)
(***************************************************************************)
TablesInit ==
  /\ \E r \in Registrations :
       /\ reg = r[1]
       /\ consent = [p \in Purposes |-> p = "EVENT_COMMUNICATION" \/ r[2]]
  /\ suppressed = {} /\ anonymized = FALSE /\ meeting = FALSE
  /\ enrollment = "none" /\ act = [a \in ActionIds |-> NoAct]
  /\ conv = "none" /\ msg = [m \in Msgs |-> NoMsg] /\ tokens = NoTokens
  /\ mailed = {} /\ origin = [m \in Msgs |-> NoKey]
  /\ clock = 0

\* The registration's actions after stopCadence.
Stopped ==
  [a \in ActionIds |->
     IF act[a].st \in {"PENDING", "DISPATCHING"}
     THEN [act[a] EXCEPT !.st = "CANCELLED", !.due = 0, !.lease = 0]
     ELSE act[a]]

\* Without an enrollment there are no actions to cancel either.
stopCadence ==
  /\ act' = Stopped
  /\ enrollment' = IF enrollment = "none" THEN "none" ELSE "CANCELLED"

PostEventDue(k) == (IF EndsAt = 0 THEN clock ELSE EndsAt) + Offset[k]

\* Cancels what is PENDING (not what is DISPATCHING), then upserts the
\* steps, which leaves the rows that exist as they are.
schedulePostEvent(status) ==
  /\ act' = [a \in ActionIds |->
       IF act[a].st = "PENDING" THEN [act[a] EXCEPT !.st = "CANCELLED", !.due = 0]
       ELSE IF a \in PostKeys[status] /\ act[a].st = "none"
            THEN NewAction(PostEventDue(a))
            ELSE act[a]]
  /\ enrollment' = "ACTIVE"

suppressLead(purpose) ==
  /\ suppressed' = suppressed \cup {purpose}
  /\ consent' = [consent EXCEPT ![purpose] = FALSE]
=============================================================================
