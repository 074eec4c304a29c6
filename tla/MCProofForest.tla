---------------------------- MODULE MCProofForest ----------------------------
(* Instances of ProofForest for TLC: a search without a solution served by   *)
(* sessions alone, and one with a solution and the recursive kernel.         *)
EXTENDS ProofForest

CONSTANTS w1, w2, l1, l2

MCSearches == {[feasible |-> {}, recursive |-> FALSE], [feasible |-> {l1}, recursive |-> TRUE]}
=============================================================================
