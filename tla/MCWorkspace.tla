----------------------------- MODULE MCWorkspace -----------------------------
(* Instances of WorkflowEditor for TLC. *)
EXTENDS WorkflowEditor

CONSTANTS o, a, b, t, x, y, p1, p2, p3

\* A chain of two actions behind the trigger.
MCFirstVersions == {[nodes |-> {t, x, y}, edges |-> {<<t, x>>, <<x, y>>}]}

Team == [u \in {o, a, b} |-> IF u = o THEN "OWNER" ELSE IF u = a THEN "ADMIN" ELSE "MEMBER"]
Pair == [Team EXCEPT ![b] = "NONE"]
AllRegistered == [u \in {o, a, b} |-> p1]
OwnerRegistered == [u \in {o, a, b} |-> IF u = o THEN p1 ELSE IF u = a THEN "invited" ELSE "none"]

\* Overlapping requests for the members; one of them against an edit and a
\* write; two writes with two edits; accounts while a member is added, and
\* sessions.
MCScenarios ==
  [roles : {Team}, account : {AllRegistered},
   budget : {[calls |-> 2, edits |-> 0, writes |-> 0, sessions |-> 0],
             [calls |-> 1, edits |-> 1, writes |-> 1, sessions |-> 0],
             [calls |-> 0, edits |-> 2, writes |-> 2, sessions |-> 0]}]
  \cup
  [roles : {Pair}, account : {OwnerRegistered},
   budget : {[calls |-> 1, edits |-> 0, writes |-> 0, sessions |-> 3],
             [calls |-> 0, edits |-> 0, writes |-> 0, sessions |-> 6]}]

Symmetry == Permutations({x, y}) \cup Permutations({p2, p3})
==============================================================================
