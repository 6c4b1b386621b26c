---------------------------- MODULE MCBoardFlows ----------------------------
(* Instances of BoardFlows for TLC. *)
EXTENDS BoardFlows, TLC

CONSTANTS f1, f2, h1, h2, h3, blank, small, u1

Sizes == [d \in Docs |-> IF d = blank THEN 0 ELSE 1]
Symmetry == Permutations(FlowIds) \cup Permutations(Handlers)
=============================================================================
