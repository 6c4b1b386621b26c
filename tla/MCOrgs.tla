------------------------------- MODULE MCOrgs -------------------------------
(* Instances of Orgs for TLC. *)
EXTENDS Orgs, TLC

CONSTANTS u1, u2, o1, o2, k1, h1, h2

Symmetry == Permutations(Users) \cup Permutations(OrgIds) \cup Permutations(Handlers)
=============================================================================
