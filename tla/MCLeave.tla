------------------------------ MODULE MCLeave ------------------------------
(* Instances of Leave for TLC: two seeded leave types, and requests of one
   user that compete for one balance. *)
EXTENDS Leave, TLC

CONSTANTS h1, h2, u1, sick, casual, r1, r2

Seeds == <<sick, casual>>

OneAccount == [r \in Requests |-> <<u1, sick, 1>>]
OneDayEach == [r \in Requests |-> 1]

(* Handlers are alike, and so are requests for one day of one balance. *)
Symmetry == Permutations(Handlers) \cup Permutations(Requests)
=============================================================================
