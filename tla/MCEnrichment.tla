----------------------------- MODULE MCEnrichment -----------------------------
(* The instances of LeadEnrichment that TLC checks. *)
EXTENDS LeadEnrichment

\* A lead that is enrolled and one that is not.
TwoProfiles ==
  {[seniority |-> "DIRECTOR", target |-> TRUE, relevant |-> FALSE,
    size |-> "match", industry |-> FALSE, signals |-> FALSE],
   [seniority |-> "MANAGER", target |-> FALSE, relevant |-> FALSE,
    size |-> "below", industry |-> TRUE, signals |-> TRUE]}

=============================================================================
