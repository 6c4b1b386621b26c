----------------------------- MODULE MCSession -----------------------------
(* Instances of Session for TLC. *)
EXTENDS Session, TLC

CONSTANTS u1, t1, t2, c1, c2, b1, l1, l2, l3, a, b

OneUser == [t \in Tabs |-> u1]
Whole == [l \in Lists |-> Urls]
Symmetry == Permutations(Calls) \cup Permutations(Tabs)
            \cup Permutations(Lists)
=============================================================================
