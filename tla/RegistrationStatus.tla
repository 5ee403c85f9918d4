-------------------------- MODULE RegistrationStatus --------------------------
(***************************************************************************)
(* The status of a registration and the changes of it that the engagement  *)
(* API allows (engagement.service.ts).                                     *)
(***************************************************************************)

RegStatuses == {"REGISTERED", "WAITLISTED", "CONFIRMED", "DECLINED",
                "ATTENDED", "NO_SHOW"}

transitions ==
  [s \in RegStatuses |->
     CASE s = "REGISTERED" -> {"CONFIRMED", "DECLINED"}
       [] s = "WAITLISTED" -> {"REGISTERED", "DECLINED"}
       [] s = "CONFIRMED"  -> {"ATTENDED", "NO_SHOW", "DECLINED"}
       [] OTHER            -> {}]

=============================================================================
