---------------------------- MODULE MCRegistration ----------------------------
(* The instances of EventRegistration that TLC checks. *)
EXTENDS EventRegistration, TLC

Symmetry == Permutations(Leads) \cup Permutations(Requests)
              \cup Permutations(Operators)

=============================================================================
