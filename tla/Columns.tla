------------------------------ MODULE Columns ------------------------------
(***************************************************************************)
(* What the users of a board see: every column is a list of tasks, to      *)
(* which new ones are added at the bottom, and out of which a task is      *)
(* taken to be deleted, or put anywhere into a column.  Nothing else in    *)
(* the lists changes, until something upsets the board.                    *)
(***************************************************************************)
EXTENDS Naturals, SequencesExt

CONSTANTS Tasks, Stages

VARIABLES column,  \* per stage: its tasks, the top one first
          created, \* the ids that have been given out
          upset    \* nothing is promised any longer

vars == <<column, created, upset>>

Init == column = [s \in Stages |-> << >>] /\ created = {} /\ upset = FALSE

Add(t, s) ==
    /\ t \notin created
    /\ created' = created \cup {t}
    /\ column' = [column EXCEPT ![s] = Append(@, t)]

(* A task leaves its place, to be deleted or put into a column. *)
Take(s, i) ==
    /\ LET left == [column EXCEPT ![s] = RemoveAt(@, i)] IN
       \/ column' = left
       \/ \E r \in Stages : \E n \in 1..Len(left[r]) + 1 :
             column' = [left EXCEPT ![r] = InsertAt(@, n, column[s][i])]
    /\ UNCHANGED created

Change ==
    \/ UNCHANGED <<column, created>>  \* a task is edited, or a list read
    \/ \E s \in Stages : \/ \E t \in Tasks : Add(t, s)
                         \/ \E i \in 1..Len(column[s]) : Take(s, i)

Next == IF upset' THEN TRUE ELSE ~upset /\ Change

Spec == Init /\ [][Next]_vars
=============================================================================
