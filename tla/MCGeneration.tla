---------------------------- MODULE MCGeneration ----------------------------
(* Instances of Generation for TLC. *)
EXTENDS Generation, TLC

CONSTANTS h1, h2, k1, k2, k3

OneUnit == [r \in 1..MaxRetries |-> 1]

Symmetry == Permutations(Handlers) \cup Permutations(Keys)
=============================================================================
