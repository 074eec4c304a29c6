---------------------------- MODULE MCOwnership ----------------------------
(* Instances of Ownership for TLC: a search that donates two orders of the   *)
(* same two vertices, and from each of them prefixes that meet again.        *)
EXTENDS Ownership

CONSTANTS R, A, B, C, D

MCParent == [r \in Regions \ {R} |-> IF r \in {A, B} THEN R ELSE IF r = C THEN A ELSE B]
MCKey    == [r \in Regions |-> IF r = R THEN {} ELSE IF r \in {A, B} THEN {1, 2} ELSE {1, 2, 3}]
=============================================================================
