------------------------- MODULE CommunicationPolicy -------------------------
(***************************************************************************)
(* evaluateCommunicationPolicy of                                          *)
(* apps/execution-worker/src/engagement/communication-policy.ts: the pure  *)
(* rule the dispatcher applies twice to every mail, when the agent's       *)
(* decision is taken and again when the message is sent.                   *)
(*                                                                         *)
(* One tick of time is one hour of the event's local day.  The code's      *)
(* numbers (24, 8, 18, and the limits 5 and 4) are constants, so that TLC  *)
(* can use a short day and small limits.                                   *)
(***************************************************************************)
EXTENDS Integers

CONSTANTS
  Limit,      \* purpose -> mails that may be delivered for it
  DayHours,   \* hours in a day
  OpenHour,   \* first local hour at which a mail may leave
  CloseHour   \* first local hour at which it may no longer leave

Purposes == {"EVENT_COMMUNICATION", "COMMERCIAL_FOLLOW_UP"}

ASSUME PolicyAssumption ==
  /\ Limit \in [Purposes -> Nat]
  /\ DayHours \in Nat \ {0}
  /\ OpenHour \in 0..(DayHours - 1)
  /\ CloseHour \in (OpenHour + 1)..DayHours

localHour(now) == now % DayHours

nextLocalWindow(now, hour) ==
  now + (IF hour < OpenHour THEN OpenHour - hour
                            ELSE DayHours - hour + OpenHour)

\* Mutant: one mail too many (> where the code has >=).
Refused_LimitOffByOne(input) ==
  \/ ~ input.hasConsent
  \/ input.isSuppressed
  \/ input.hasMeeting
  \/ input.registrationStatus = "DECLINED"
  \/ input.deliveredCount > Limit[input.purpose]

(***************************************************************************)
(* The refusals that no later moment can undo by itself: each of them is   *)
(* an early return without retryAt.                                        *)
(***************************************************************************)
Refused(input) ==
  \/ ~ input.hasConsent
  \/ input.isSuppressed
  \/ input.hasMeeting
  \/ input.registrationStatus = "DECLINED"
  \/ input.deliveredCount >= Limit[input.purpose]

QuietHours(now) == localHour(now) < OpenHour \/ localHour(now) >= CloseHour

(***************************************************************************)
(* "rejected" stands for { allowed: false, reason }, "retry" for the one   *)
(* result that carries a retryAt, which is nextLocalWindow of the same now *)
(***************************************************************************)
evaluateCommunicationPolicy(input) ==
  IF Refused(input)              THEN "rejected"
  ELSE IF QuietHours(input.now)  THEN "retry"
  ELSE                                "allowed"
=============================================================================
