------------------------------ MODULE MCFlows ------------------------------
(* Instances of Flows for TLC. *)
EXTENDS Flows

CONSTANTS c1, c2, h1, h2, e1, e2
=============================================================================
