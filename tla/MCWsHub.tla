------------------------------ MODULE MCWsHub ------------------------------
(* Instances of WsHub for TLC: who the connections belong to and which server
   they are on. *)
EXTENDS WsHub, TLC

CONSTANTS c1, c2, c3, u1, u2, s1, s2, f1

(* One connection per user: Users is Clients. *)
OneTabEach == [c \in Clients |-> c]

(* c1 and c3 are connections of one user, on two instances. *)
TabsApart == [c \in Clients |-> IF c \in {c1, c3} THEN u1 ELSE u2]

OneHost  == [c \in Clients |-> s1]
TwoHosts == [c \in Clients |-> IF c = c3 THEN s2 ELSE s1]

OneFrame  == [c \in Clients |-> 1]
TwoFrames == [c \in Clients |-> 2]

JoinsOnly   == [c \in Clients |-> {"flow.join"}]
JoinsLeaves == [c \in Clients |-> {"flow.join", "flow.leave"}]
AnyFrames   == [c \in Clients |-> AllFrameKinds]

(* c1 joins, leaves and joins again, while another moves its cursor. *)
LeaverReturns == [c \in Clients |-> IF c = c1 THEN 3 ELSE 1]
LeaverFrames  == [c \in Clients |-> IF c = c1 THEN {"flow.join", "flow.leave"}
                                   ELSE {"cursor.update"}]

Symmetry == Permutations(Clients)
=============================================================================
