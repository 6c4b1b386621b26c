------------------------------- MODULE EditLog -------------------------------
(***************************************************************************)
(* What the version of a flow is for: its edits form one list, and each    *)
(* was made by a client that knew every edit before it.                    *)
(***************************************************************************)
EXTENDS Naturals, Sequences

CONSTANTS Clients, Edits

VARIABLES log,   \* the edits, in the order they took effect
          seen   \* per client: how many of them it knows

Entries == [by: Clients, edit: Edits, base: Nat]

Init == log = << >> /\ seen = [c \in Clients |-> 0]

(* A client that knows the whole list adds to it... *)
Add(c, e) ==
    /\ seen[c] = Len(log)
    /\ log' = Append(log, [by |-> c, edit |-> e, base |-> Len(log)])
    /\ UNCHANGED seen

(* ...and a client learns of edits, in order and never fewer than it knew. *)
Learn(c) ==
    /\ \E n \in seen[c]..Len(log) : seen' = [seen EXCEPT ![c] = n]
    /\ UNCHANGED log

Next == \E c \in Clients : Learn(c) \/ \E e \in Edits : Add(c, e)

Spec == Init /\ [][Next]_<<log, seen>>
=============================================================================
