---------------------------- MODULE MCEngagement ----------------------------
(***************************************************************************)
(* Constants of the model-checking runs of Engagement.                     *)
(***************************************************************************)
EXTENDS Engagement, TLC

MCPostKeys == [s \in PostStatuses |-> IF s = "ATTENDED" THEN {"h2"} ELSE {}]
NoPostKeys == [s \in PostStatuses |-> {}]
MCOffset == [k \in Keys |-> IF k = "d1" THEN 1 ELSE 0]
LimitOne == [p \in Purposes |-> 1]

JustRegistered == {<<"REGISTERED", TRUE>>}

SomeReplies == {{"HANDOFF"}, {"OPT_OUT", "CONFIRM"}}

Symmetry == Permutations(Msgs) \cup Permutations(Passes)
=============================================================================
