------------------------------ MODULE Reports ------------------------------
(***************************************************************************)
(* The health of a board (board_service.go): one query over the tasks that *)
(* Kanban keeps, as time passes and requests change them.  The tasks are   *)
(* all of high priority.  A count is modelled by the set of tasks counted. *)
(***************************************************************************)
EXTENDS Kanban

CONSTANTS RiskDays,  \* 2: tasks due within these are at risk
          Critical,  \* 5: overdue tasks a board may have before it is critical
          MaxDay     \* bound: the days that pass

ASSUME ReportsConstants ==
    /\ "due" \in Fields /\ Values \subseteq Nat
    /\ "done" \notin Stages
    /\ RiskDays \in Nat /\ Critical \in Nat /\ MaxDay \in Nat

VARIABLE today

rvars == <<vars, today>>

RInit == Init /\ today = 1

-----------------------------------------------------------------------------
Stored == {t \in Tasks : Exists(t)}

(* due_date; 0 is NULL. *)
Due(t) == content[t]["due"]
DueWithin(t, days) == Due(t) # 0 /\ Due(t) \in today..(today + days)

(* Mutant: a day of grace, which the other count knows nothing of. *)
PastMutant(d) == d + 1 < today

Past(d) == d < today

(* What the query takes for a finished task.  No task has this stage: the last one
   is Deployment. *)
Done(t) == stage[t] = "done"

(* GetTaskRiskCounts. *)
Overdue == {t \in Stored : Due(t) # 0 /\ Past(Due(t)) /\ ~Done(t)}
AtRisk == {t \in Stored : DueWithin(t, RiskDays) /\ ~Done(t)}

(* GetBoardHealth; bottlenecks are always 0. *)
Health == IF Cardinality(Overdue) > Critical THEN "critical"
          ELSE IF Overdue \cup AtRisk # {} THEN "warning" ELSE "healthy"

-----------------------------------------------------------------------------
NextDay ==
    /\ today < MaxDay
    /\ today' = today + 1
    /\ UNCHANGED vars

Edit == Next /\ UNCHANGED today

RNext == Edit \/ NextDay

RSpec == RInit /\ [][RNext]_rvars

-----------------------------------------------------------------------------
(* board_repo.go:149-154.  Time alone does not improve the health of a board: a task
   at risk one day is overdue the next, with no day between when it is in neither
   count.  What finished tasks do to the counts is another matter: nothing, as no
   task has the stage they look for. *)
Rank == [healthy |-> 0, warning |-> 1, critical |-> 2]
TimeOnlyWorsens == [][today' # today => Rank[Health'] >= Rank[Health]]_rvars
=============================================================================
