------------------------------- MODULE Kanban -------------------------------
(***************************************************************************)
(* The tasks of one board and their places in its stage columns:           *)
(* task_service.go over task_repo.go.                                      *)
(*                                                                         *)
(* A handler runs one SQL statement per step, at PostgreSQL's default      *)
(* isolation, READ COMMITTED.  An UPDATE of several rows takes two steps:  *)
(* it finds them in what is committed when it starts; then it waits for    *)
(* those that other transactions have changed, and changes the ones that   *)
(* still match.  Changed rows stay locked until the commit, so it is the   *)
(* same to take their locks with the last one that was waited for; for the *)
(* same reason the commit goes with the last statement.                    *)
(***************************************************************************)
EXTENDS Integers, FiniteSets

CONSTANTS Handlers,  \* HTTP requests in progress at once
          Tasks,     \* task ids; a new task has a fresh one
          Stages,    \* validStages
          NoStage,
          Fields,    \* columns UpdateTask writes, other than stage and position
          Values, Default,
          Drops,     \* positions clients ask for
          MaxPosition, \* the largest INTEGER: a statement that needs more fails
          MaxMarred    \* bound: requests begin while no more columns are marred

ASSUME KanbanConstants ==
    /\ NoStage \notin Stages
    /\ "new" \notin Stages /\ "deleted" \notin Stages
    /\ Default \in Values
    /\ MaxPosition \in Nat /\ MaxMarred \in Nat
    /\ Drops \subseteq 0..MaxPosition

VARIABLES stage,    \* tasks.stage; "new" before the insert, "deleted" after the delete
          position, \* tasks.position
          content,  \* the other columns
          job,      \* per handler: its next statement, what it has read and changed
          misled,   \* history: handlers whose request may act on what is no longer
                    \* so: after it read something of a column another one changed
                    \* the column, or NextPosition failed
          marred    \* history: columns changed by such a request, or into which a
                    \* task was dropped below their end

row  == <<stage, position, content>>
history == <<misled, marred>>
vars == <<row, job, history>>

Contents == [Fields -> Values]
Column(s) == {t \in Tasks : stage[t] = s}
Exists(t) == stage[t] \in Stages

Idle == [at |-> "idle"]
InsertJobs == [at: {"insert"}, task: Tasks, to: Stages, pos: Nat]
EditJobs   == [at: {"write"}, task: Tasks, to: Stages \cup {NoStage}, seen: Contents,
               field: Fields]
AppendJobs == [at: {"append"}, task: Tasks, to: Stages]
SelectJobs == [at: {"select"}, task: Tasks, to: Stages, pos: Nat, bottom: BOOLEAN]
CloseJobs  == [at: {"find", "close"}, task: Tasks, to: Stages, pos: Nat,
               bottom: BOOLEAN, from: Stages, old: Nat, found: SUBSET Tasks]
OpenJobs   == [at: {"open"}, task: Tasks, to: Stages, pos: Nat, bottom: BOOLEAN,
               closed: SUBSET Tasks, found: SUBSET Tasks]
DeleteJobs == [at: {"gap"}, task: Tasks, found: SUBSET Tasks]
Jobs == {Idle} \cup InsertJobs \cup EditJobs \cup AppendJobs \cup SelectJobs
        \cup CloseJobs \cup OpenJobs \cup DeleteJobs

TypeOK ==
    /\ stage \in [Tasks -> Stages \cup {"new", "deleted"}]
    /\ position \in [Tasks -> Nat]
    /\ content \in [Tasks -> Contents]
    /\ job \in [Handlers -> Jobs]
    /\ misled \subseteq Handlers
    /\ marred \subseteq Stages

Init ==
    /\ stage = [t \in Tasks |-> "new"]
    /\ position = [t \in Tasks |-> 0]
    /\ content = [t \in Tasks |-> [f \in Fields |-> Default]]
    /\ job = [h \in Handlers |-> Idle]
    /\ misled = {}
    /\ marred = {}

Go(h, j) == job' = [job EXCEPT ![h] = j]

Begins(h) == job[h] = Idle /\ Cardinality(marred) <= MaxMarred

(* A request goes on; it ends without a change of a column. *)
Step(h, j) == Go(h, j) /\ UNCHANGED history
Stop(h) == Go(h, Idle) /\ misled' = misled \ {h} /\ UNCHANGED marred

(* The columns of which a request in progress has read something, or which it
   changes when it commits. *)
About(g) ==
    LET j == job[g] IN
    CASE j.at = "insert" -> {j.to}
      [] j.at \in {"write", "append", "gap"} -> {stage[j.task]}
      [] j.at \in {"select", "find", "close"} ->
            {stage[j.task]} \cup (IF j.bottom THEN {j.to} ELSE {})
      [] j.at = "open" -> {stage[j.task], j.to} \cup {stage[u] : u \in j.closed}
      [] OTHER -> {}

(* Handler h commits its changes, with a drop below the end of the columns low. *)
Commit(h, low) ==
    /\ Go(h, Idle)
    /\ misled' = (misled \ {h})
                 \cup {g \in Handlers \ {h} : About(g) \cap About(h) # {}}
    /\ marred' = marred \cup low \cup (IF h \in misled THEN About(h) ELSE {})

(* The rows handler g has changed and not committed; those h has to wait for. *)
Held(g) ==
    CASE job[g].at = "open" -> job[g].closed
      [] job[g].at = "gap" -> {job[g].task}
      [] OTHER -> {}
Locked(h) == UNION {Held(g) : g \in Handlers \ {h}}

-----------------------------------------------------------------------------
(* Mutant: MAX(position). *)
IsNextPositionMutant(p, s) ==
    /\ \A t \in Column(s) : position[t] <= p
    /\ p = 0 \/ \E t \in Column(s) : position[t] = p

(* NextPosition: COALESCE(MAX(position) + 1, 0) of the column. *)
IsNextPosition(p, s) ==
    /\ \A t \in Column(s) : position[t] < p
    /\ p = 0 \/ \E t \in Column(s) : position[t] = p - 1

(* The answers NextPosition may give: the Go zero value if the query failed. *)
Slots(s) == {0} \cup {position[t] + 1 : t \in Column(s)}
NextPositions(s) == {p \in Slots(s) : p = 0 \/ (IsNextPosition(p, s) /\ p <= MaxPosition)}

(* Handler h takes p for the bottom of s. *)
Misread(h, p, s) == IF IsNextPosition(p, s) THEN {} ELSE {h}

(* CreateTask: NextPosition, before and outside the insert... *)
CreateTask(h, t, s) ==
    /\ Begins(h)
    /\ stage[t] = "new"
    /\ \A g \in Handlers : job[g] \in InsertJobs => job[g].task # t
    /\ \E p \in NextPositions(s) :
          /\ Go(h, [at |-> "insert", task |-> t, to |-> s, pos |-> p])
          /\ misled' = misled \cup Misread(h, p, s)
    /\ UNCHANGED <<row, marred>>

(* ...then the insert. *)
InsertTask(h) ==
    /\ job[h].at = "insert"
    /\ stage' = [stage EXCEPT ![job[h].task] = job[h].to]
    /\ position' = [position EXCEPT ![job[h].task] = job[h].pos]
    /\ UNCHANGED content
    /\ Commit(h, {})

-----------------------------------------------------------------------------
(* UpdateTask loads the task, applies the patch to what it loaded... *)
UpdateTask(h, t, f, v, s) ==
    /\ Begins(h)
    /\ Exists(t)
    /\ Step(h, [at |-> "write", task |-> t, to |-> IF s = stage[t] THEN NoStage ELSE s,
                seen |-> [content[t] EXCEPT ![f] = v], field |-> f])
    /\ UNCHANGED row

(* ...and writes every column back but stage and position.  A change of stage
   follows, as a move to the bottom of the new column. *)
WriteTask(h) ==
    LET t == job[h].task IN
    /\ job[h].at = "write"
    /\ t \notin Locked(h)
    /\ IF Exists(t)
       THEN /\ content' = [content EXCEPT ![t] = job[h].seen]
            /\ IF job[h].to = NoStage THEN Stop(h)
               ELSE Step(h, [at |-> "append", task |-> t, to |-> job[h].to])
       ELSE UNCHANGED content /\ Stop(h)
    /\ UNCHANGED <<stage, position>>

AppendTask(h) ==
    /\ job[h].at = "append"
    /\ \E p \in NextPositions(job[h].to) :
          /\ Go(h, [at |-> "select", task |-> job[h].task, to |-> job[h].to, pos |-> p,
                    bottom |-> TRUE])
          /\ misled' = misled \cup Misread(h, p, job[h].to)
    /\ UNCHANGED <<row, marred>>

-----------------------------------------------------------------------------
(* The rows of column s below position p, t excepted. *)
Below(pos, s, t, p) == {u \in Column(s) \ {t} : pos[u] > p}
From(pos, s, t, p) == {u \in Column(s) \ {t} : pos[u] >= p}

(* Positions one less, or one more, for the rows S. *)
Raised(pos, S) == [u \in Tasks |-> IF u \in S THEN pos[u] - 1 ELSE pos[u]]
Lowered(pos, S) == [u \in Tasks |-> IF u \in S THEN pos[u] + 1 ELSE pos[u]]

(* What handler h sees of the positions: its own changes, and what is committed. *)
Seen(h) == Raised(position, job[h].closed)

(* MoveTask: any position from 0 up. *)
MoveTask(h, t, s, p) ==
    /\ Begins(h)
    /\ Exists(t)
    /\ Step(h, [at |-> "select", task |-> t, to |-> s, pos |-> p, bottom |-> FALSE])
    /\ UNCHANGED row

(* UpdateTaskStage: the SELECT, which locks nothing. *)
SelectTask(h) ==
    LET t == job[h].task IN
    /\ job[h].at = "select"
    /\ IF Exists(t)
       THEN Step(h, [at |-> "find", task |-> t, to |-> job[h].to, pos |-> job[h].pos,
                     bottom |-> job[h].bottom, from |-> stage[t], old |-> position[t],
                     found |-> {}])
       ELSE Stop(h)
    /\ UNCHANGED row

(* The first UPDATE finds the tasks below the gap in the source column... *)
FindBelow(h) ==
    LET j == job[h] IN
    /\ j.at = "find"
    /\ Step(h, [j EXCEPT !.at = "close", !.found = Below(position, j.from, j.task, j.old)])
    /\ UNCHANGED row

(* ...and closes it; the second one finds, in the destination column, the tasks
   from the new position down. *)
CloseGap(h) ==
    LET j == job[h]
        closed == j.found \cap Below(position, j.from, j.task, j.old)
    IN
    /\ j.at = "close"
    /\ j.found \cap Locked(h) = {}
    /\ Step(h, [at |-> "open", task |-> j.task, to |-> j.to, pos |-> j.pos,
                bottom |-> j.bottom, closed |-> closed,
                found |-> From(Raised(position, closed), j.to, j.task, j.pos)])
    /\ UNCHANGED row

(* A position at the top of a column, or just below another task of it. *)
Fits(pos, t, s, p) == p = 0 \/ \E u \in Column(s) \ {t} : pos[u] = p - 1

(* Mutant: the destination column makes no room. *)
PlaceTaskMutant(h) ==
    LET j == job[h] IN
    /\ j.at = "open"
    /\ (j.found \cup {j.task}) \cap Locked(h) = {}
    /\ IF Exists(j.task)
       THEN /\ position' = [Seen(h) EXCEPT ![j.task] = j.pos]
            /\ stage' = [stage EXCEPT ![j.task] = j.to]
            /\ Commit(h, IF Fits(Seen(h), j.task, j.to, j.pos) THEN {} ELSE {j.to})
       ELSE UNCHANGED <<stage, position>> /\ Stop(h)
    /\ UNCHANGED content

(* The second UPDATE makes room, the third one places the task.  A task deleted
   since is not found by the third, and the transaction rolls back. *)
PlaceTask(h) ==
    LET j == job[h]
        open == j.found \cap From(Seen(h), j.to, j.task, j.pos)
    IN
    /\ j.at = "open"
    /\ (j.found \cup {j.task}) \cap Locked(h) = {}
    /\ IF Exists(j.task)
       THEN /\ \A u \in open : Seen(h)[u] < MaxPosition
            /\ position' = [Lowered(Seen(h), open) EXCEPT ![j.task] = j.pos]
            /\ stage' = [stage EXCEPT ![j.task] = j.to]
            /\ Commit(h, IF Fits(Seen(h), j.task, j.to, j.pos) THEN {} ELSE {j.to})
       ELSE UNCHANGED <<stage, position>> /\ Stop(h)
    /\ UNCHANGED content

(* DeleteTask: DELETE ... RETURNING; the UPDATE that follows finds the tasks below
   the gap... *)
DeleteTask(h, t) ==
    /\ Begins(h)
    /\ Exists(t)
    /\ t \notin Locked(h)
    /\ Step(h, [at |-> "gap", task |-> t,
                found |-> Below(position, stage[t], t, position[t])])
    /\ UNCHANGED row

(* Mutant: the bottom task of the column fills the gap. *)
CloseDeletedMutant(h) ==
    LET t == job[h].task IN
    /\ job[h].at = "gap"
    /\ job[h].found \cap Locked(h) = {}
    /\ stage' = [stage EXCEPT ![t] = "deleted"]
    /\ position' = [u \in Tasks |->
           IF u \in Column(stage[t]) /\ IsNextPosition(position[u] + 1, stage[t])
           THEN position[t] ELSE position[u]]
    /\ Commit(h, {})
    /\ UNCHANGED content

(* ...and closes it.  The row is locked: what RETURNING gave is still so. *)
CloseDeleted(h) ==
    LET t == job[h].task IN
    /\ job[h].at = "gap"
    /\ job[h].found \cap Locked(h) = {}
    /\ stage' = [stage EXCEPT ![t] = "deleted"]
    /\ position' = Raised(position,
                          job[h].found \cap Below(position, stage[t], t, position[t]))
    /\ Commit(h, {})
    /\ UNCHANGED content

(* A statement fails, a deadlock of transactions is broken or the request is
   cancelled; an open transaction rolls back. *)
Fail(h) ==
    /\ job[h] # Idle
    /\ Stop(h)
    /\ UNCHANGED row

Next ==
    \E h \in Handlers :
        \/ \E t \in Tasks, s \in Stages :
              \/ CreateTask(h, t, s)
              \/ \E f \in Fields, v \in Values : UpdateTask(h, t, f, v, s)
              \/ \E p \in Drops : MoveTask(h, t, s, p)
        \/ InsertTask(h) \/ WriteTask(h) \/ AppendTask(h)
        \/ SelectTask(h) \/ FindBelow(h) \/ CloseGap(h) \/ PlaceTask(h)
        \/ \E t \in Tasks : DeleteTask(h, t)
        \/ CloseDeleted(h)
        \/ Fail(h)

Spec == Init /\ [][Next]_vars

-----------------------------------------------------------------------------
(* task_repo.go:232-234, 395: moves keep "all position values contiguous".  In
   a column no two tasks share a position, and none above a task is free, however
   requests overlap and fail: as long as no request that was misled has changed the
   column, and no client has dropped a task below its end. *)
NoTies(S, pos) == \A t, u \in S : t # u => pos[t] # pos[u]
NoGaps(S, pos) == \A t \in S : \A p \in 0..(pos[t] - 1) : \E u \in S : pos[u] = p
Contiguous(S, pos) == NoTies(S, pos) /\ NoGaps(S, pos)
ColumnsContiguous == \A s \in Stages \ marred : Contiguous(Column(s), position)

(* GetTasksByBoard: the tasks of a column by position. *)
Listed(S, pos) ==
    LET n == CHOOSE n \in {0} \cup {pos[t] + 1 : t \in S} : \A t \in S : pos[t] < n
    IN [i \in 1..n |-> CHOOSE t \in S : pos[t] = i - 1]

(* task_repo.go:119: "ordered by stage then position so the client gets
   Kanban-ready data".  What requests do to stages and positions is what Columns
   does to lists, as long as no column is marred. *)
Board == INSTANCE Columns WITH column <- [s \in Stages |-> Listed(Column(s), position)],
                               created <- {t \in Tasks : stage[t] # "new"},
                               upset <- marred # {}
ImplementsColumns == Board!Spec

(* Why they hold.  What a request that is not misled has read is still so. *)
FreshJob(h) ==
    LET j == job[h] IN
    /\ j.at = "insert" => IsNextPosition(j.pos, j.to)
    /\ j.at \in {"write", "append", "select", "find", "close", "open"} => Exists(j.task)
    /\ j.at \in {"write", "append"} => j.to # stage[j.task]
    /\ j.at \in {"select", "find", "close", "open"} /\ j.bottom =>
          j.to # stage[j.task] /\ IsNextPosition(j.pos, j.to)
    /\ j.at \in {"find", "close"} => j.from = stage[j.task] /\ j.old = position[j.task]
    /\ j.at \in {"close", "gap"} =>
          j.found = Below(position, stage[j.task], j.task, position[j.task])
    /\ j.at = "open" =>
          /\ j.closed = Below(position, stage[j.task], j.task, position[j.task])
          /\ j.found = From(Seen(h), j.to, j.task, j.pos)

(* What holds of every request: nobody changes the rows it has changed, which it
   found in its source column, and of a row it has moved up there its second UPDATE
   knows whether it has to move down again. *)
HeldJob(h) ==
    LET j == job[h] IN
    /\ j.at = "insert" =>
          stage[j.task] = "new" /\ \A g \in Handlers \ {h} :
             job[g].at = "insert" => job[g].task # j.task
    /\ j.at = "gap" => Exists(j.task)
    /\ j.at = "open" => \A u \in j.closed :
          /\ u # j.task /\ Exists(u) /\ position[u] > 0
          /\ stage[u] = j.to /\ position[u] - 1 >= j.pos => u \in j.found
    /\ Held(h) \cap Locked(h) = {}

KanbanInv == \A h \in Handlers : HeldJob(h) /\ (h \notin misled => FreshJob(h))

(* task_repo.go:313-447.  Whatever is moved or deleted meanwhile, and however stale
   its position was when read, no request turns round the order of two other tasks of
   a column: at worst they are left with the same position. *)
OrderKept ==
    [][\A t, u \in Tasks :
          /\ Exists(t) /\ stage[u] = stage[t] /\ position[t] < position[u]
          /\ \A h \in Handlers : job[h].at \in {"open", "gap"} /\ job'[h] # job[h]
                => job[h].task \notin {t, u}
          => position'[t] <= position'[u]]_vars

(* task_service.go:287: "A stage change moves the task to the bottom of the new
   column."  So it does unless the request was misled. *)
StageChangeAppends ==
    [][\A h \in Handlers \ misled :
          /\ job[h].at = "open" /\ job'[h] # job[h]
          /\ job[h].bottom /\ stage'[job[h].task] # stage[job[h].task]
          => \A u \in Tasks \ {job[h].task} :
                stage'[u] = job[h].to => position'[u] < position'[job[h].task]]_vars

(* task_controller.go:115: "PATCH only touches supplied fields".  True of one
   request at a time; of two patches that overlap the later one writes back
   every column it loaded. *)
PatchTouchesOnlySupplied ==
    [][\A h \in Handlers : job[h].at = "write" /\ job'[h] # job[h] =>
          \A f \in Fields \ {job[h].field} :
              content'[job[h].task][f] = content[job[h].task][f]]_vars

=============================================================================
