----------------------------- MODULE MCKanban -----------------------------
(* Instances of Kanban and the health of its board for TLC. *)
EXTENDS Reports, TLC

CONSTANTS h1, h2, t1, t2, t3, Planning, Deployment

Symmetry == Permutations(Tasks) \cup Permutations(Handlers)
            \cup Permutations(Stages)
=============================================================================
