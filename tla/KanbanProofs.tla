---------------------------- MODULE KanbanProofs ----------------------------
(***************************************************************************)
(* Proofs about Kanban, for any number of overlapping requests: type       *)
(* correctness, that no interleaving turns round two tasks that are not    *)
(* being moved, what a request that was not misled has read, and from it   *)
(* that the columns stay contiguous, that a change of stage ends at the    *)
(* bottom of the new column, and that the board implements the lists of    *)
(* Columns.  About Reports: the health of a board and the clock.           *)
(***************************************************************************)
EXTENDS Reports, FiniteSetTheorems, SequenceTheorems, TLAPS

-----------------------------------------------------------------------------
(* A column S in which the place p is given up, and one in which it is made free. *)
Closed(pos, S, p) ==
    [u \in Tasks |-> IF u \in S /\ pos[u] > p THEN pos[u] - 1 ELSE pos[u]]
Opened(pos, S, p) ==
    [u \in Tasks |-> IF u \in S /\ pos[u] >= p THEN pos[u] + 1 ELSE pos[u]]

(* The positions once x has left its column. *)
Without(x) == Closed(position, Column(stage[x]) \ {x}, position[x])

(* This is what the two UPDATEs do, when they change what is there to change. *)
LEMMA RaisedIsClosed ==
    ASSUME NEW pos, NEW s, NEW x, NEW p
    PROVE  Raised(pos, Below(pos, s, x, p)) = Closed(pos, Column(s) \ {x}, p)
BY DEF Raised, Below, Closed, Column

LEMMA LoweredIsOpened ==
    ASSUME NEW pos, NEW s, NEW x, NEW p
    PROVE  Lowered(pos, From(pos, s, x, p)) = Opened(pos, Column(s) \ {x}, p)
BY DEF Lowered, From, Opened, Column

(* What Closed and Opened return: positions again, in the same order. *)

(* Positions after a task left are positions. *)
LEMMA ClosedType ==
    ASSUME NEW pos \in [Tasks -> Nat], NEW S \in SUBSET Tasks, NEW p \in Nat
    PROVE  Closed(pos, S, p) \in [Tasks -> Nat]
BY DEF Closed

(* Positions after room was made are positions. *)
LEMMA OpenedType ==
    ASSUME NEW pos \in [Tasks -> Nat], NEW S \in SUBSET Tasks, NEW p \in Nat
    PROVE  Opened(pos, S, p) \in [Tasks -> Nat]
BY DEF Opened

(* A contiguous column that loses a task and closes the gap is contiguous. *)
LEMMA ClosedContiguous ==
    ASSUME NEW pos \in [Tasks -> Nat], NEW S \in SUBSET Tasks, NEW t \in S,
           Contiguous(S, pos)
    PROVE  Contiguous(S \ {t}, Closed(pos, S \ {t}, pos[t]))
<1> DEFINE q == Closed(pos, S \ {t}, pos[t])
<1>1. NoTies(S \ {t}, q)
  BY DEF Contiguous, NoTies, Closed
<1>2. NoGaps(S \ {t}, q)
  <2> SUFFICES ASSUME NEW u \in S \ {t}, NEW r \in 0..(q[u] - 1)
               PROVE  \E v \in S \ {t} : q[v] = r
    BY DEF NoGaps
  <2>0. q \in [Tasks -> Nat] /\ r \in Nat /\ r < q[u] /\ pos[t] \in Nat /\ pos[u] \in Nat
    BY ClosedType
  <2>1. CASE r < pos[t]
    <3>1. r \in 0..(pos[t] - 1)
      BY <2>0, <2>1
    <3>2. PICK v \in S : pos[v] = r
      BY <3>1 DEF Contiguous, NoGaps
    <3> QED
      BY <2>0, <2>1, <3>2 DEF Closed
  <2>2. CASE r >= pos[t]
    <3>1. r + 1 \in 0..(pos[u] - 1)
      BY <2>0, <2>2 DEF Closed
    <3>2. PICK v \in S : pos[v] = r + 1
      BY <3>1 DEF Contiguous, NoGaps
    <3> QED
      BY <2>0, <2>2, <3>2 DEF Closed
  <2>3. r < pos[t] \/ r >= pos[t]
    BY <2>0
  <2> QED
    BY <2>1, <2>2, <2>3
<1> QED
  BY <1>1, <1>2 DEF Contiguous

(* A contiguous column that makes room at its top or just below one of its
   tasks, and takes a task in there, is contiguous. *)
LEMMA OpenedContiguous ==
    ASSUME NEW pos \in [Tasks -> Nat], NEW S \in SUBSET Tasks, NEW t \in Tasks \ S,
           NEW p \in Nat, Contiguous(S, pos),
           p = 0 \/ \E w \in S : pos[w] = p - 1
    PROVE  Contiguous(S \cup {t}, [Opened(pos, S, p) EXCEPT ![t] = p])
<1> DEFINE q == [Opened(pos, S, p) EXCEPT ![t] = p]
<1>0. /\ q \in [Tasks -> Nat] /\ q[t] = p
      /\ \A u \in S : u # t /\ q[u] = IF pos[u] >= p THEN pos[u] + 1 ELSE pos[u]
  BY OpenedType DEF Opened
<1>1. NoTies(S \cup {t}, q)
  BY <1>0 DEF Contiguous, NoTies
<1>2. NoGaps(S \cup {t}, q)
  <2> SUFFICES ASSUME NEW u \in S \cup {t}, NEW r \in 0..(q[u] - 1)
               PROVE  \E v \in S \cup {t} : q[v] = r
    BY DEF NoGaps
  <2>0. r \in Nat /\ r < q[u] /\ q[u] \in Nat
    BY <1>0
  <2>1. CASE r = p
    BY <1>0, <2>1
  <2>2. CASE r < p
    <3>1. PICK w \in S : pos[w] = p - 1
      BY <2>0, <2>2
    <3>2. CASE r = p - 1
      BY <1>0, <2>2, <3>1, <3>2
    <3>3. CASE r < p - 1
      <4>1. r \in 0..(pos[w] - 1)
        BY <2>0, <3>1, <3>3
      <4>2. PICK v \in S : pos[v] = r
        BY <4>1 DEF Contiguous, NoGaps
      <4> QED
        BY <1>0, <2>2, <4>2
    <3> QED
      BY <2>0, <2>2, <3>2, <3>3
  <2>3. CASE r > p
    <3>1. u \in S /\ r - 1 \in 0..(pos[u] - 1)
      BY <1>0, <2>0, <2>3
    <3>2. PICK v \in S : pos[v] = r - 1
      BY <3>1 DEF Contiguous, NoGaps
    <3> QED
      BY <1>0, <2>0, <2>3, <3>2
  <2> QED
    BY <2>0, <2>1, <2>2, <2>3
<1> QED
  BY <1>1, <1>2 DEF Contiguous

(* Whether a column is contiguous depends on its own positions only. *)
LEMMA SamePositions ==
    ASSUME NEW S \in SUBSET Tasks, NEW pos, NEW q, \A u \in S : q[u] = pos[u],
           Contiguous(S, pos)
    PROVE  Contiguous(S, q)
BY DEF Contiguous, NoTies, NoGaps

-----------------------------------------------------------------------------
(* What requests hold and have read *)

(* What a job's next statement tells of what the handler has read. *)
LEMMA JobKinds ==
    ASSUME NEW j \in Jobs
    PROVE  /\ j.at = "insert" <=> j \in InsertJobs
           /\ j.at = "write" <=> j \in EditJobs
           /\ j.at = "append" <=> j \in AppendJobs
           /\ j.at = "select" <=> j \in SelectJobs
           /\ j.at \in {"find", "close"} <=> j \in CloseJobs
           /\ j.at = "open" <=> j \in OpenJobs
           /\ j.at = "gap" <=> j \in DeleteJobs
BY DEF Jobs, Idle, InsertJobs, EditJobs, AppendJobs, SelectJobs, CloseJobs, OpenJobs,
       DeleteJobs

(* The parts of HeldJob: the rows a request changes, its new task and its locks. *)
OwnRows(h) ==
    LET j == job[h] IN
    /\ j.at = "insert" => stage[j.task] = "new"
    /\ j.at = "gap" => Exists(j.task)
    /\ j.at = "open" => \A u \in j.closed :
          /\ u # j.task /\ Exists(u) /\ position[u] > 0
          /\ stage[u] = j.to /\ position[u] - 1 >= j.pos => u \in j.found
InsertsAlone(h) ==
    job[h].at = "insert" =>
        \A g \in Handlers \ {h} : job[g].at = "insert" => job[g].task # job[h].task
LocksAlone(h) == \A g \in Handlers \ {h} : Held(g) \cap Held(h) = {}

LEMMA HeldParts ==
    ASSUME NEW h \in Handlers
    PROVE  HeldJob(h) <=> OwnRows(h) /\ InsertsAlone(h) /\ LocksAlone(h)
<1>1. LocksAlone(h) <=> Held(h) \cap Locked(h) = {}
  BY DEF LocksAlone, Locked
<1> QED
  BY <1>1 DEF HeldJob, OwnRows, InsertsAlone

(* A statement of handler h that commits nothing, after which its job is j. *)
Private(h, j) ==
    /\ job' = [job EXCEPT ![h] = j]
    /\ UNCHANGED <<stage, position>>
    /\ \A g \in Handlers \ {h} : g \in misled' <=> g \in misled

(* It is enough to look at h: at what it holds, takes and has read. *)
LEMMA PrivateStep ==
    ASSUME TypeOK, KanbanInv, NEW h \in Handlers, NEW j, Private(h, j), OwnRows(h)',
           j.at = "insert" =>
               \A g \in Handlers : job[g].at = "insert" => job[g].task # j.task,
           Held(h)' \cap Locked(h) = {},
           h \notin misled' => FreshJob(h)'
    PROVE  KanbanInv'
<1>1. /\ job'[h] = j /\ stage' = stage /\ position' = position
      /\ \A g \in Handlers \ {h} : job'[g] = job[g] /\ (g \in misled' <=> g \in misled)
  BY DEF Private, TypeOK
<1>2. ASSUME NEW g \in Handlers \ {h}
      PROVE  FreshJob(g) => FreshJob(g)'
  BY <1>1 DEF FreshJob, IsNextPosition, Exists, Column, Below, From, Seen, Raised
<1>3. ASSUME NEW g \in Handlers \ {h}
      PROVE  OwnRows(g)' /\ Held(g)' = Held(g)
  <2>1. OwnRows(g)
    BY HeldParts DEF KanbanInv
  <2> QED
    BY <1>1, <2>1 DEF OwnRows, Held, Exists
<1>4. ASSUME NEW g \in Handlers
      PROVE  InsertsAlone(g)'
  <2>1. \A f \in Handlers : InsertsAlone(f)
    BY HeldParts DEF KanbanInv
  <2> QED
    BY <1>1, <2>1 DEF InsertsAlone
<1>5. ASSUME NEW g \in Handlers
      PROVE  LocksAlone(g)'
  <2>1. \A f \in Handlers : LocksAlone(f)
    BY HeldParts DEF KanbanInv
  <2>2. \A f \in Handlers \ {h} : Held(h)' \cap Held(f) = {}
    BY DEF Locked
  <2> QED
    BY <1>3, <2>1, <2>2 DEF LocksAlone
<1>6. \A g \in Handlers : HeldJob(g)'
  <2>1. \A g \in Handlers : OwnRows(g)'
    BY <1>3
  <2>2. ASSUME NEW g \in Handlers
        PROVE  HeldJob(g)' <=> OwnRows(g)' /\ InsertsAlone(g)' /\ LocksAlone(g)'
    <3>1. LocksAlone(g)' <=> Held(g)' \cap Locked(g)' = {}
      BY DEF LocksAlone, Locked
    <3> QED
      BY <3>1 DEF HeldJob, OwnRows, InsertsAlone
  <2> QED
    BY <1>4, <1>5, <2>1, <2>2
<1>7. \A g \in Handlers : g \notin misled' => FreshJob(g)'
  BY <1>1, <1>2 DEF KanbanInv
<1> QED
  BY <1>6, <1>7 DEF KanbanInv

(* A request that ends. *)
LEMMA EndStep ==
    ASSUME TypeOK, KanbanInv, NEW h \in Handlers, Private(h, Idle)
    PROVE  KanbanInv'
<1>1. job'[h] = Idle
  BY DEF Private, TypeOK
<1>2. OwnRows(h)' /\ Held(h)' = {} /\ FreshJob(h)'
  BY <1>1 DEF OwnRows, Held, FreshJob, Idle
<1> QED
  BY <1>2, PrivateStep DEF Idle

(* A column keeps its tasks and their positions. *)
SameColumn(s) ==
    /\ {u \in Tasks : stage'[u] = s} = Column(s)
    /\ \A u \in Column(s) : position'[u] = position[u]

(* What a request has read is still so when the columns it is about are as before. *)
LEMMA FreshStays ==
    ASSUME TypeOK, NEW g \in Handlers, job'[g] = job[g], FreshJob(g), HeldJob(g),
           HeldJob(g)', \A s \in About(g) : s \in Stages => SameColumn(s)
    PROVE  FreshJob(g)'
<1> DEFINE j == job[g]
           t == j.task
<1>1. j \in Jobs /\ stage \in [Tasks -> Stages \cup {"new", "deleted"}]
  BY DEF TypeOK
<1>2. ASSUME NEW s \in Stages, SameColumn(s), NEW p, IsNextPosition(p, s)
      PROVE  IsNextPosition(p, s)'
  BY <1>2 DEF SameColumn, IsNextPosition, Column
<1>3. ASSUME NEW u \in Tasks, Exists(u), SameColumn(stage[u])
      PROVE  stage'[u] = stage[u] /\ position'[u] = position[u] /\ Exists(u)'
  <2>1. u \in Column(stage[u])
    BY DEF Column
  <2>2. stage'[u] = stage[u]
    BY <1>3, <2>1 DEF SameColumn
  <2> QED
    BY <1>3, <2>1, <2>2 DEF SameColumn, Exists
<1>4. CASE j.at = "insert"
  <2>1. j.to \in Stages /\ SameColumn(j.to)
    BY <1>1, <1>4, JobKinds DEF InsertJobs, About
  <2>2. IsNextPosition(j.pos, j.to)
    BY <1>4 DEF FreshJob
  <2>3. IsNextPosition(j.pos, j.to)'
    BY <1>2, <2>1, <2>2
  <2> QED
    BY <1>4, <2>3 DEF FreshJob
<1>5. CASE j.at \in {"write", "append"}
  <2>1. t \in Tasks /\ Exists(t)
    BY <1>1, <1>5, JobKinds DEF EditJobs, AppendJobs, FreshJob
  <2>2. SameColumn(stage[t])
    BY <1>5, <2>1 DEF About, Exists
  <2>3. stage'[t] = stage[t] /\ Exists(t)'
    BY <1>3, <2>1, <2>2
  <2> QED
    BY <1>5, <2>3 DEF FreshJob
<1>6. CASE j.at \in {"select", "find", "close"}
  <2>1. t \in Tasks /\ Exists(t) /\ j.to \in Stages
    BY <1>1, <1>6, JobKinds DEF SelectJobs, CloseJobs, FreshJob
  <2>2. SameColumn(stage[t])
    BY <1>6, <2>1 DEF About, Exists
  <2>3. stage'[t] = stage[t] /\ position'[t] = position[t] /\ Exists(t)'
    BY <1>3, <2>1, <2>2
  <2>4. j.bottom => j.to # stage[t] /\ IsNextPosition(j.pos, j.to)'
    <3> SUFFICES ASSUME j.bottom PROVE j.to # stage[t] /\ IsNextPosition(j.pos, j.to)'
      OBVIOUS
    <3>1. SameColumn(j.to)
      BY <1>6, <2>1 DEF About
    <3>2. j.to # stage[t] /\ IsNextPosition(j.pos, j.to)
      BY <1>6 DEF FreshJob
    <3> QED
      BY <1>2, <2>1, <3>1, <3>2
  <2>5. Below(position, stage[t], t, position[t])' = Below(position, stage[t], t, position[t])
    BY <2>2, <2>3 DEF Below, SameColumn, Column
  <2>6. /\ j.at \in {"find", "close"} => j.from = stage[t] /\ j.old = position[t]
        /\ j.at = "close" => j.found = Below(position, stage[t], t, position[t])
    BY DEF FreshJob
  <2> QED
    BY <1>6, <2>3, <2>4, <2>5, <2>6 DEF FreshJob
<1>7. CASE j.at = "gap"
  <2>1. t \in Tasks /\ Exists(t)
    BY <1>1, <1>7, JobKinds DEF DeleteJobs, HeldJob
  <2>2. SameColumn(stage[t])
    BY <1>7, <2>1 DEF About, Exists
  <2>3. stage'[t] = stage[t] /\ position'[t] = position[t]
    BY <1>3, <2>1, <2>2
  <2>4. Below(position, stage[t], t, position[t])' = Below(position, stage[t], t, position[t])
    BY <2>2, <2>3 DEF Below, SameColumn, Column
  <2>5. j.found = Below(position, stage[t], t, position[t])
    BY <1>7 DEF FreshJob
  <2> QED
    BY <1>7, <2>4, <2>5 DEF FreshJob
<1>8. CASE j.at = "open"
  <2>1. t \in Tasks /\ Exists(t) /\ j.to \in Stages
    BY <1>1, <1>8, JobKinds DEF OpenJobs, FreshJob
  <2>2. SameColumn(stage[t]) /\ SameColumn(j.to)
    BY <1>8, <2>1 DEF About, Exists
  <2>3. stage'[t] = stage[t] /\ position'[t] = position[t] /\ Exists(t)'
    BY <1>3, <2>1, <2>2
  <2>4. Below(position, stage[t], t, position[t])' = Below(position, stage[t], t, position[t])
    BY <2>2, <2>3 DEF Below, SameColumn, Column
  <2>5. From(Seen(g), j.to, t, j.pos)' = From(Seen(g), j.to, t, j.pos)
    <3>1. Column(j.to) \subseteq Tasks
      BY DEF Column
    <3>2. \A u \in Column(j.to) : Seen(g)'[u] = Seen(g)[u]
      BY <2>2, <3>1 DEF SameColumn, Seen, Raised
    <3>3. Column(j.to)' = Column(j.to) /\ j' = j
      BY <2>2 DEF SameColumn, Column
    <3> HIDE DEF j
    <3>4. \A u \in Column(j.to) : Seen(g)'[u] = Seen(g)[u]
      BY <3>2
    <3> QED
      BY <3>3, <3>4 DEF From
  <2>6. j.bottom => j.to # stage[t] /\ IsNextPosition(j.pos, j.to)'
    <3>1. j.bottom => j.to # stage[t] /\ IsNextPosition(j.pos, j.to)
      BY <1>8 DEF FreshJob
    <3> QED
      BY <1>2, <2>1, <2>2, <3>1
  <2>7. /\ j.closed = Below(position, stage[t], t, position[t])
        /\ j.found = From(Seen(g), j.to, t, j.pos)
    BY <1>8 DEF FreshJob
  <2> QED
    BY <1>8, <2>3, <2>4, <2>5, <2>6, <2>7 DEF FreshJob
<1>9. CASE j.at \notin {"insert", "write", "append", "select", "find", "close", "gap", "open"}
  BY <1>9 DEF FreshJob
<1> QED
  BY <1>4, <1>5, <1>6, <1>7, <1>8, <1>9

(* What a commit of handler h leaves alone: the columns it is not about, the rows
   that others have changed, and the tasks that others are about to insert. *)
Writes(h) ==
    /\ job' = [job EXCEPT ![h] = Idle]
    /\ misled' = (misled \ {h})
                 \cup {g \in Handlers \ {h} : About(g) \cap About(h) # {}}
    /\ \A s \in Stages \ About(h) : SameColumn(s)
    /\ \A g \in Handlers \ {h} :
          /\ \A u \in Held(g) : stage'[u] = stage[u] /\ position'[u] = position[u]
          /\ job[g].at = "insert" => stage'[job[g].task] = "new"

LEMMA CommitStep ==
    ASSUME TypeOK, KanbanInv, NEW h \in Handlers, Writes(h)
    PROVE  KanbanInv'
<1>1. /\ job'[h] = Idle /\ \A g \in Handlers \ {h} : job'[g] = job[g]
      /\ job \in [Handlers -> Jobs]
  BY DEF Writes, TypeOK
<1>2. OwnRows(h)' /\ Held(h)' = {} /\ FreshJob(h)'
  BY <1>1 DEF OwnRows, Held, FreshJob, Idle
<1>3. ASSUME NEW g \in Handlers \ {h}
      PROVE  OwnRows(g)' /\ Held(g)' = Held(g)
  <2>1. OwnRows(g)
    BY HeldParts DEF KanbanInv
  <2>2. Held(g)' = Held(g)
    BY <1>1 DEF Held
  <2>3. job[g].at = "gap" => Exists(job[g].task)'
    BY <2>1 DEF OwnRows, Writes, Held, Exists
  <2>4. job[g].at = "open" => \A u \in job[g].closed : stage'[u] = stage[u] /\ position'[u] = position[u]
    BY DEF Writes, Held
  <2>5. job[g].at = "insert" => stage'[job[g].task] = "new"
    BY DEF Writes
  <2> QED
    BY <1>1, <2>1, <2>2, <2>3, <2>4, <2>5 DEF OwnRows, Exists
<1>4. ASSUME NEW g \in Handlers
      PROVE  InsertsAlone(g)' /\ LocksAlone(g)'
  <2>1. \A f \in Handlers : InsertsAlone(f) /\ LocksAlone(f)
    BY HeldParts DEF KanbanInv
  <2>2. InsertsAlone(g)'
    BY <1>1, <2>1 DEF InsertsAlone, Idle
  <2>3. LocksAlone(g)'
    BY <1>2, <1>3, <2>1 DEF LocksAlone
  <2> QED
    BY <2>2, <2>3
<1>5. ASSUME NEW g \in Handlers
      PROVE  HeldJob(g)'
  <2>1. LocksAlone(g)' <=> Held(g)' \cap Locked(g)' = {}
    BY DEF LocksAlone, Locked
  <2>2. OwnRows(g)'
    BY <1>2, <1>3
  <2> QED
    BY <1>4, <2>1, <2>2 DEF HeldJob, OwnRows, InsertsAlone
<1>6. ASSUME NEW g \in Handlers \ {h}, g \notin misled'
      PROVE  FreshJob(g)'
  <2>1. g \notin misled /\ About(g) \cap About(h) = {}
    BY <1>6 DEF Writes
  <2>2. FreshJob(g) /\ HeldJob(g)
    BY <2>1 DEF KanbanInv
  <2>3. \A s \in About(g) : s \in Stages => SameColumn(s)
    BY <2>1 DEF Writes
  <2> QED
    BY <1>1, <1>5, <2>2, <2>3, FreshStays
<1> QED
  BY <1>2, <1>5, <1>6 DEF KanbanInv

(* A new task is nobody else's and in no column. *)
LEMMA InsertWrites ==
    ASSUME TypeOK, KanbanInv, NEW h \in Handlers, InsertTask(h)
    PROVE  Writes(h) /\ TypeOK' /\ marred \subseteq marred'
<1> DEFINE j == job[h]
           t == j.task
<1>1. /\ j \in InsertJobs /\ t \in Tasks /\ j.to \in Stages /\ j.pos \in Nat
      /\ stage[t] = "new" /\ t \notin Locked(h)
  <2>1. j \in InsertJobs
    BY JobKinds DEF TypeOK, InsertTask
  <2>2. stage[t] = "new"
    BY DEF InsertTask, KanbanInv, HeldJob
  <2>3. t \notin Locked(h)
    <3>1. ASSUME NEW g \in Handlers \ {h}, NEW u \in Held(g)
          PROVE  Exists(u)
      BY HeldParts DEF KanbanInv, OwnRows, Held
    <3> QED
      BY <2>2, <3>1, KanbanConstants DEF Locked, Exists
  <2> QED
    BY <2>1, <2>2, <2>3 DEF InsertJobs
<1>2. /\ stage' = [stage EXCEPT ![t] = j.to] /\ position' = [position EXCEPT ![t] = j.pos]
      /\ content' = content /\ job' = [job EXCEPT ![h] = Idle] /\ About(h) = {j.to}
      /\ misled' = (misled \ {h})
                       \cup {g \in Handlers \ {h} : About(g) \cap About(h) # {}}
      /\ marred' = marred \cup (IF h \in misled THEN About(h) ELSE {})
  BY DEF InsertTask, Commit, Go, About
<1>3. TypeOK'
  BY <1>1, <1>2 DEF TypeOK, Jobs
<1>4. ASSUME NEW s \in Stages \ About(h)
      PROVE  SameColumn(s)
  BY <1>1, <1>2, KanbanConstants DEF TypeOK, SameColumn, Column
<1>5. ASSUME NEW g \in Handlers \ {h}
      PROVE  /\ \A u \in Held(g) : stage'[u] = stage[u] /\ position'[u] = position[u]
             /\ job[g].at = "insert" => stage'[job[g].task] = "new"
  <2>1. \A u \in Held(g) : u # t /\ u \in Tasks
    <3>1. Held(g) \subseteq Tasks
      BY JobKinds DEF TypeOK, Held, OpenJobs, DeleteJobs
    <3> QED
      BY <1>1, <3>1 DEF Locked
  <2>2. job[g].at = "insert" => job[g].task # t /\ job[g].task \in Tasks /\ stage[job[g].task] = "new"
    <3>1. job[g].at = "insert" => job[g] \in InsertJobs
      BY JobKinds DEF TypeOK
    <3>2. j.at = "insert"
      BY DEF InsertTask
    <3> QED
      BY <3>1, <3>2 DEF KanbanInv, HeldJob, InsertJobs
  <2> QED
    BY <1>2, <2>1, <2>2 DEF TypeOK
<1> QED
  BY <1>2, <1>3, <1>4, <1>5 DEF Writes

(* The rows that other handlers have locked. *)
LEMMA LockedRows ==
    ASSUME TypeOK, KanbanInv, NEW h \in Handlers, NEW g \in Handlers \ {h}
    PROVE  /\ Held(g) \subseteq Tasks \cap Locked(h)
           /\ \A u \in Held(g) : Exists(u)
           /\ Held(h) \cap Held(g) = {}
           /\ job[g].at = "insert" =>
                 job[g].task \in Tasks /\ stage[job[g].task] = "new" /\ ~Exists(job[g].task)
<1>1. Held(g) \subseteq Tasks
  BY JobKinds DEF TypeOK, Held, OpenJobs, DeleteJobs
<1>2. \A u \in Held(g) : Exists(u)
  BY HeldParts DEF KanbanInv, OwnRows, Held
<1>3. Held(h) \cap Held(g) = {}
  BY HeldParts DEF KanbanInv, LocksAlone
<1>4. ASSUME job[g].at = "insert"
      PROVE  job[g].task \in Tasks /\ stage[job[g].task] = "new" /\ ~Exists(job[g].task)
  <2>1. job[g] \in InsertJobs /\ stage[job[g].task] = "new"
    BY <1>4, JobKinds DEF TypeOK, KanbanInv, HeldJob
  <2> QED
    BY <2>1, KanbanConstants DEF InsertJobs, Exists
<1> QED
  BY <1>1, <1>2, <1>3, <1>4 DEF Locked

(* What the last statement of a move does to the positions. *)
Room(h) == job[h].found \cap From(Seen(h), job[h].to, job[h].task, job[h].pos)

LEMMA PlaceFacts ==
    ASSUME TypeOK, KanbanInv, NEW h \in Handlers, PlaceTask(h), Exists(job[h].task)
    PROVE  /\ job[h].task \in Tasks /\ job[h].to \in Stages /\ job[h].pos \in Nat
           /\ job[h].closed \subseteq Tasks /\ job[h].found \subseteq Tasks
           /\ job[h].at = "open" /\ (job[h].found \cup {job[h].task}) \cap Locked(h) = {}
           /\ Seen(h) \in [Tasks -> Nat]
           /\ stage' = [stage EXCEPT ![job[h].task] = job[h].to]
           /\ position' = [Lowered(Seen(h), Room(h)) EXCEPT ![job[h].task] = job[h].pos]
           /\ position' \in [Tasks -> Nat] /\ position'[job[h].task] = job[h].pos
           /\ \A u \in Tasks \ {job[h].task} :
                 position'[u] = IF u \in Room(h) THEN Seen(h)[u] + 1 ELSE Seen(h)[u]
           /\ UNCHANGED content
           /\ Commit(h, IF Fits(Seen(h), job[h].task, job[h].to, job[h].pos)
                        THEN {} ELSE {job[h].to})
<1>1. job[h] \in OpenJobs /\ job[h].at = "open"
  BY JobKinds DEF TypeOK, PlaceTask
<1>2. /\ job[h].task \in Tasks /\ job[h].to \in Stages /\ job[h].pos \in Nat
      /\ job[h].closed \subseteq Tasks /\ job[h].found \subseteq Tasks
  BY <1>1 DEF OpenJobs
<1>3. /\ position \in [Tasks -> Nat]
      /\ \A u \in job[h].closed : position[u] > 0
  BY <1>1 DEF TypeOK, KanbanInv, HeldJob
<1>4. Seen(h) \in [Tasks -> Nat]
  BY <1>2, <1>3 DEF Seen, Raised
<1>5. /\ position' = [Lowered(Seen(h), Room(h)) EXCEPT ![job[h].task] = job[h].pos]
      /\ stage' = [stage EXCEPT ![job[h].task] = job[h].to]
      /\ (job[h].found \cup {job[h].task}) \cap Locked(h) = {}
      /\ UNCHANGED content
      /\ Commit(h, IF Fits(Seen(h), job[h].task, job[h].to, job[h].pos)
                   THEN {} ELSE {job[h].to})
  BY DEF PlaceTask, Room
<1>6. Lowered(Seen(h), Room(h)) \in [Tasks -> Nat]
  BY <1>4 DEF Lowered
<1>7. /\ position' \in [Tasks -> Nat] /\ position'[job[h].task] = job[h].pos
      /\ \A u \in Tasks \ {job[h].task} : position'[u] = Lowered(Seen(h), Room(h))[u]
  BY <1>2, <1>5, <1>6
<1>8. \A u \in Tasks : Lowered(Seen(h), Room(h))[u]
                           = IF u \in Room(h) THEN Seen(h)[u] + 1 ELSE Seen(h)[u]
  BY DEF Lowered
<1> QED
  BY <1>1, <1>2, <1>4, <1>5, <1>7, <1>8

(* A move changes rows it has locked itself, in the columns it is about. *)
LEMMA PlaceWrites ==
    ASSUME TypeOK, KanbanInv, NEW h \in Handlers, PlaceTask(h), Exists(job[h].task)
    PROVE  Writes(h) /\ TypeOK' /\ marred \subseteq marred'
<1> DEFINE j == job[h]
           t == j.task
           low == IF Fits(Seen(h), t, j.to, j.pos) THEN {} ELSE {j.to}
<1>1. /\ t \in Tasks /\ j.to \in Stages /\ j.pos \in Nat
      /\ j.closed \subseteq Tasks /\ j.found \subseteq Tasks /\ j.at = "open"
      /\ (j.found \cup {t}) \cap Locked(h) = {}
      /\ stage' = [stage EXCEPT ![t] = j.to] /\ position' \in [Tasks -> Nat]
      /\ content' = content
  BY PlaceFacts
<1>2. ASSUME NEW u \in Tasks \ {t}, u \notin j.closed \cup Room(h)
      PROVE  position'[u] = position[u]
  <2>1. position'[u] = Seen(h)[u]
    BY <1>2, PlaceFacts
  <2>2. Seen(h)[u] = position[u]
    BY <1>2 DEF Seen, Raised
  <2> QED
    BY <2>1, <2>2
<1>3. Commit(h, low)
  BY PlaceFacts
<1>4. low \subseteq Stages
  BY <1>1
<1> HIDE DEF low
<1>5. /\ job' = [job EXCEPT ![h] = Idle]
      /\ misled' = (misled \ {h})
                       \cup {g \in Handlers \ {h} : About(g) \cap About(h) # {}}
      /\ marred' = marred \cup low \cup (IF h \in misled THEN About(h) ELSE {})
  BY <1>3 DEF Commit, Go
<1>6. /\ About(h) = {stage[t], j.to} \cup {stage[u] : u \in j.closed}
      /\ About(h) \subseteq Stages
  <2>1. About(h) = {stage[t], j.to} \cup {stage[u] : u \in j.closed}
    BY <1>1 DEF About
  <2>2. \A u \in j.closed : Exists(u)
    BY <1>1 DEF KanbanInv, HeldJob
  <2> QED
    BY <1>1, <2>1, <2>2 DEF Exists
<1>7. TypeOK'
  BY <1>1, <1>4, <1>5, <1>6 DEF TypeOK, Jobs
<1>8. ASSUME NEW s \in Stages \ About(h)
      PROVE  SameColumn(s)
  <2>1. Column(s) \subseteq Tasks \ ({t} \cup j.closed) /\ s # j.to
    BY <1>6 DEF Column
  <2>2. Column(s) \cap Room(h) = {}
    BY <2>1 DEF Room, From, Column
  <2>3. \A u \in Column(s) : position'[u] = position[u]
    BY <1>2, <2>1, <2>2
  <2>4. {u \in Tasks : stage'[u] = s} = Column(s)
    BY <1>1, <1>6 DEF TypeOK, Column
  <2> QED
    BY <2>3, <2>4 DEF SameColumn
<1>9. ASSUME NEW g \in Handlers \ {h}
      PROVE  /\ \A u \in Held(g) : stage'[u] = stage[u] /\ position'[u] = position[u]
             /\ job[g].at = "insert" => stage'[job[g].task] = "new"
  <2>1. Held(h) = j.closed
    BY <1>1 DEF Held
  <2>2. \A u \in Held(g) : u \in Tasks /\ u # t /\ u \notin j.closed \cup Room(h)
    BY <1>1, <2>1, LockedRows DEF Room
  <2>3. job[g].at = "insert" => job[g].task # t /\ job[g].task \in Tasks /\ stage[job[g].task] = "new"
    BY LockedRows
  <2> QED
    BY <1>1, <1>2, <2>2, <2>3 DEF TypeOK
<1> QED
  BY <1>5, <1>7, <1>8, <1>9 DEF Writes

(* What the last statement of a deletion does to the positions. *)
LEMMA DeletedFacts ==
    ASSUME TypeOK, KanbanInv, NEW h \in Handlers, CloseDeleted(h)
    PROVE  LET t == job[h].task
               closed == job[h].found \cap Below(position, stage[t], t, position[t])
           IN  /\ t \in Tasks /\ Exists(t) /\ job[h].at = "gap"
               /\ closed \cap Locked(h) = {} /\ t \notin closed
               /\ closed \subseteq Column(stage[t])
               /\ stage' = [stage EXCEPT ![t] = "deleted"]
               /\ position' = Raised(position, closed) /\ position' \in [Tasks -> Nat]
               /\ \A u \in Tasks :
                     /\ u \notin closed => position'[u] = position[u]
                     /\ u \in closed =>
                           position'[u] = position[u] - 1 /\ position[u] > position[t]
               /\ UNCHANGED content /\ Commit(h, {}) /\ About(h) = {stage[t]}
<1> DEFINE t == job[h].task
           closed == job[h].found \cap Below(position, stage[t], t, position[t])
<1>1. job[h] \in DeleteJobs /\ job[h].at = "gap"
  BY JobKinds DEF TypeOK, CloseDeleted
<1>2. t \in Tasks /\ Exists(t) /\ About(h) = {stage[t]}
  BY <1>1 DEF KanbanInv, HeldJob, DeleteJobs, About
<1>3. /\ closed \cap Locked(h) = {} /\ stage' = [stage EXCEPT ![t] = "deleted"]
      /\ position' = Raised(position, closed) /\ UNCHANGED content /\ Commit(h, {})
  BY DEF CloseDeleted
<1>4. /\ closed \subseteq Column(stage[t]) /\ t \notin closed
      /\ \A u \in closed : u \in Tasks /\ position[u] > position[t]
  BY DEF Below, Column
<1> HIDE DEF closed
<1>5. position \in [Tasks -> Nat] /\ position[t] \in Nat
  BY <1>2 DEF TypeOK
<1>6. \A u \in Tasks : /\ u \notin closed => position'[u] = position[u]
                       /\ u \in closed => position'[u] = position[u] - 1
  BY <1>3 DEF Raised
<1>7. position' \in [Tasks -> Nat]
  BY <1>3, <1>4, <1>5 DEF Raised
<1> QED
  BY <1>1, <1>2, <1>3, <1>4, <1>6, <1>7 DEF closed

(* A deletion changes rows of its own column that it had found. *)
LEMMA DeletedWrites ==
    ASSUME TypeOK, KanbanInv, NEW h \in Handlers, CloseDeleted(h)
    PROVE  Writes(h) /\ TypeOK' /\ marred \subseteq marred'
<1> DEFINE t == job[h].task
           closed == job[h].found \cap Below(position, stage[t], t, position[t])
<1>1. /\ t \in Tasks /\ Exists(t) /\ job[h].at = "gap"
      /\ closed \cap Locked(h) = {} /\ closed \subseteq Column(stage[t])
      /\ stage' = [stage EXCEPT ![t] = "deleted"] /\ position' \in [Tasks -> Nat]
      /\ \A u \in Tasks : u \notin closed => position'[u] = position[u]
      /\ content' = content /\ Commit(h, {}) /\ About(h) = {stage[t]}
  BY DeletedFacts
<1> HIDE DEF closed
<1>2. /\ job' = [job EXCEPT ![h] = Idle]
      /\ misled' = (misled \ {h})
                       \cup {g \in Handlers \ {h} : About(g) \cap About(h) # {}}
      /\ marred' = marred \cup (IF h \in misled THEN About(h) ELSE {})
  BY <1>1 DEF Commit, Go
<1>3. TypeOK'
  BY <1>1, <1>2 DEF TypeOK, Jobs, Exists
<1>4. ASSUME NEW s \in Stages \ About(h)
      PROVE  SameColumn(s)
  <2>1. Column(s) \subseteq Tasks \ ({t} \cup closed)
    BY <1>1 DEF Column
  <2>2. {u \in Tasks : stage'[u] = s} = Column(s)
    BY <1>1, KanbanConstants DEF TypeOK, Column
  <2> QED
    BY <1>1, <2>1, <2>2 DEF SameColumn
<1>5. ASSUME NEW g \in Handlers \ {h}
      PROVE  /\ \A u \in Held(g) : stage'[u] = stage[u] /\ position'[u] = position[u]
             /\ job[g].at = "insert" => stage'[job[g].task] = "new"
  <2>1. Held(h) = {t}
    BY <1>1 DEF Held
  <2>2. \A u \in Held(g) : u \in Tasks /\ u # t /\ u \notin closed
    BY <1>1, <2>1, LockedRows
  <2>3. job[g].at = "insert" => job[g].task # t /\ job[g].task \in Tasks /\ stage[job[g].task] = "new"
    BY <1>1, LockedRows
  <2> QED
    BY <1>1, <2>2, <2>3 DEF TypeOK
<1> QED
  BY <1>2, <1>3, <1>4, <1>5 DEF Writes

-----------------------------------------------------------------------------
(* Only the last statements of a creation, a move and a deletion change columns. *)
Commits(h) ==
    \/ InsertTask(h)
    \/ PlaceTask(h) /\ Exists(job[h].task)
    \/ CloseDeleted(h)

(* A handler begins a request: it holds nothing yet. *)
LEMMA BeginKeeps ==
    ASSUME TypeOK, KanbanInv, NEW h \in Handlers, NEW t \in Tasks, NEW s \in Stages,
           \/ CreateTask(h, t, s)
           \/ \E f \in Fields, v \in Values : UpdateTask(h, t, f, v, s)
           \/ \E p \in Drops : MoveTask(h, t, s, p)
    PROVE  TypeOK' /\ KanbanInv' /\ UNCHANGED <<stage, position, marred>>
<1> USE DEF Go
<1>0. job \in [Handlers -> Jobs] /\ position \in [Tasks -> Nat]
  BY DEF TypeOK
<1>1. CASE CreateTask(h, t, s)
  <2>1. NextPositions(s) \subseteq Nat
    BY <1>0 DEF NextPositions, Slots, Column
  <2>2. PICK p \in NextPositions(s) :
            /\ job' = [job EXCEPT ![h] = [at |-> "insert", task |-> t, to |-> s, pos |-> p]]
            /\ misled' = misled \cup Misread(h, p, s)
    BY <1>1 DEF CreateTask
  <2> DEFINE j == [at |-> "insert", task |-> t, to |-> s, pos |-> p]
  <2>3. j \in Jobs
    BY <2>1 DEF Jobs, InsertJobs
  <2>4. stage[t] = "new" /\ UNCHANGED <<row, marred>>
    BY <1>1 DEF CreateTask
  <2>5. TypeOK'
    BY <2>2, <2>3, <2>4 DEF TypeOK, row, Misread
  <2>6. job'[h] = j /\ Private(h, j)
    BY <1>0, <2>2, <2>4 DEF Private, row, Misread
  <2>7. OwnRows(h)' /\ Held(h)' = {}
    BY <2>4, <2>6 DEF OwnRows, Held, row
  <2>8. h \notin misled' => FreshJob(h)'
    <3> SUFFICES ASSUME h \notin misled' PROVE FreshJob(h)'
      OBVIOUS
    <3>1. IsNextPosition(p, s)
      BY <2>2 DEF Misread
    <3> QED
      BY <2>4, <2>6, <3>1 DEF FreshJob, row, IsNextPosition, Column
  <2>9. \A g \in Handlers : job[g].at = "insert" => job[g].task # j.task
    BY <1>0, <1>1, JobKinds DEF CreateTask
  <2> HIDE DEF j
  <2>10. KanbanInv'
    BY <2>6, <2>7, <2>8, <2>9, PrivateStep
  <2> QED
    BY <2>4, <2>5, <2>10 DEF row
<1>2. ASSUME NEW f \in Fields, NEW v \in Values, UpdateTask(h, t, f, v, s)
      PROVE  TypeOK' /\ KanbanInv' /\ UNCHANGED <<stage, position, marred>>
  <2> DEFINE j == [at |-> "write", task |-> t, to |-> IF s = stage[t] THEN NoStage ELSE s,
                   seen |-> [content[t] EXCEPT ![f] = v], field |-> f]
  <2>1. /\ job' = [job EXCEPT ![h] = j] /\ Exists(t) /\ UNCHANGED row /\ UNCHANGED history
    BY <1>2 DEF UpdateTask, Step
  <2>2. j \in Jobs
    BY DEF Jobs, EditJobs, Contents, TypeOK
  <2>3. TypeOK'
    BY <2>1, <2>2 DEF TypeOK, row, history
  <2>4. job'[h] = j /\ Private(h, j)
    BY <1>0, <2>1 DEF Private, row, history
  <2>5. OwnRows(h)' /\ Held(h)' = {}
    BY <2>4 DEF OwnRows, Held
  <2>6. FreshJob(h)'
    BY <2>1, <2>4, KanbanConstants DEF FreshJob, row, Exists
  <2>7. j.at # "insert"
    OBVIOUS
  <2> HIDE DEF j
  <2>8. KanbanInv'
    BY <2>4, <2>5, <2>6, <2>7, PrivateStep
  <2> QED
    BY <2>1, <2>3, <2>8 DEF row, history
<1>3. ASSUME NEW p \in Drops, MoveTask(h, t, s, p)
      PROVE  TypeOK' /\ KanbanInv' /\ UNCHANGED <<stage, position, marred>>
  <2> DEFINE j == [at |-> "select", task |-> t, to |-> s, pos |-> p, bottom |-> FALSE]
  <2>1. /\ job' = [job EXCEPT ![h] = j] /\ Exists(t) /\ UNCHANGED row /\ UNCHANGED history
    BY <1>3 DEF MoveTask, Step
  <2>2. j \in Jobs
    BY KanbanConstants DEF Jobs, SelectJobs
  <2>3. TypeOK'
    BY <2>1, <2>2 DEF TypeOK, row, history
  <2>4. job'[h] = j /\ Private(h, j)
    BY <1>0, <2>1 DEF Private, row, history
  <2>5. OwnRows(h)' /\ Held(h)' = {}
    BY <2>4 DEF OwnRows, Held
  <2>6. FreshJob(h)'
    BY <2>1, <2>4 DEF FreshJob, row, Exists
  <2>7. j.at # "insert"
    OBVIOUS
  <2> HIDE DEF j
  <2>8. KanbanInv'
    BY <2>4, <2>5, <2>6, <2>7, PrivateStep
  <2> QED
    BY <2>1, <2>3, <2>8 DEF row, history
<1> QED
  BY <1>1, <1>2, <1>3

(* A request that ends without a commit, or rolls back. *)
LEMMA StopKeeps ==
    ASSUME TypeOK, KanbanInv, NEW h \in Handlers, Stop(h), UNCHANGED <<stage, position>>,
           content' \in [Tasks -> Contents]
    PROVE  TypeOK' /\ KanbanInv' /\ UNCHANGED marred
<1>1. job' = [job EXCEPT ![h] = Idle] /\ misled' = misled \ {h} /\ marred' = marred
  BY DEF Stop, Go
<1>2. TypeOK'
  BY <1>1 DEF TypeOK, Jobs
<1>3. Private(h, Idle)
  BY <1>1 DEF Private
<1> QED
  BY <1>1, <1>2, <1>3, EndStep

(* A request goes on without a commit: what it then holds it had found unlocked. *)
LEMMA GoOnKeeps ==
    ASSUME TypeOK, KanbanInv, NEW h \in Handlers,
           \/ WriteTask(h) \/ AppendTask(h) \/ SelectTask(h) \/ FindBelow(h)
           \/ CloseGap(h) \/ (PlaceTask(h) /\ ~Exists(job[h].task)) \/ Fail(h)
           \/ \E t \in Tasks : DeleteTask(h, t)
    PROVE  TypeOK' /\ KanbanInv' /\ UNCHANGED <<stage, position, marred>>
<1> USE DEF Go
<1> DEFINE k == job[h]
           t == k.task
<1>0. /\ job \in [Handlers -> Jobs] /\ position \in [Tasks -> Nat]
      /\ stage \in [Tasks -> Stages \cup {"new", "deleted"}]
      /\ content \in [Tasks -> Contents] /\ k \in Jobs
      /\ misled \subseteq Handlers /\ marred \subseteq Stages
  BY DEF TypeOK
<1>a. h \notin misled => FreshJob(h)
  BY DEF KanbanInv
<1>b. ASSUME NEW j \in Jobs, Step(h, j), content' \in [Tasks -> Contents],
             UNCHANGED <<stage, position>>, j.at # "insert",
             OwnRows(h)', Held(h)' \cap Locked(h) = {}, h \notin misled => FreshJob(h)'
      PROVE  TypeOK' /\ KanbanInv' /\ UNCHANGED <<stage, position, marred>>
  <2>1. job' = [job EXCEPT ![h] = j] /\ misled' = misled /\ marred' = marred
    BY <1>b DEF Step, history
  <2>2. TypeOK'
    BY <1>0, <1>b, <2>1 DEF TypeOK
  <2>3. Private(h, j)
    BY <1>b, <2>1 DEF Private
  <2> QED
    BY <1>b, <2>1, <2>2, <2>3, PrivateStep
<1>1. CASE WriteTask(h)
  <2> DEFINE j == [at |-> "append", task |-> t, to |-> k.to]
  <2>1. k \in EditJobs /\ UNCHANGED <<stage, position>> /\ k.at = "write"
    BY <1>0, <1>1, JobKinds DEF WriteTask
  <2>2. content' \in [Tasks -> Contents]
    BY <1>0, <1>1, <2>1 DEF WriteTask, EditJobs
  <2>3. CASE Stop(h)
    BY <2>1, <2>2, <2>3, StopKeeps
  <2>4. CASE Step(h, j) /\ k.to # NoStage /\ Exists(t)
    <3>1. j \in Jobs
      BY <2>1, <2>4 DEF Jobs, AppendJobs, EditJobs
    <3>2. job'[h] = j
      BY <1>0, <2>4 DEF Step
    <3>3. OwnRows(h)' /\ Held(h)' = {}
      BY <3>2 DEF OwnRows, Held
    <3>4. h \notin misled => FreshJob(h)'
      <4>1. h \notin misled => k.to # stage[t]
        BY <1>a, <2>1 DEF FreshJob
      <4> QED
        BY <2>1, <2>4, <3>2, <4>1 DEF FreshJob, Exists
    <3>5. j.at # "insert"
      OBVIOUS
    <3> HIDE DEF j
    <3> QED
      BY <1>b, <2>1, <2>2, <2>4, <3>1, <3>3, <3>4, <3>5
  <2> QED
    BY <1>1, <2>3, <2>4 DEF WriteTask
<1>2. CASE AppendTask(h)
  <2>1. k \in AppendJobs /\ k.at = "append"
    BY <1>0, <1>2, JobKinds DEF AppendTask
  <2>2. NextPositions(k.to) \subseteq Nat
    BY <1>0 DEF NextPositions, Slots, Column
  <2>3. PICK p \in NextPositions(k.to) :
            /\ job' = [job EXCEPT ![h] = [at |-> "select", task |-> t, to |-> k.to,
                                          pos |-> p, bottom |-> TRUE]]
            /\ misled' = misled \cup Misread(h, p, k.to)
    BY <1>2 DEF AppendTask
  <2> DEFINE j == [at |-> "select", task |-> t, to |-> k.to, pos |-> p, bottom |-> TRUE]
  <2>4. j \in Jobs /\ UNCHANGED <<row, marred>>
    BY <1>2, <2>1, <2>2 DEF AppendTask, Jobs, AppendJobs, SelectJobs
  <2>5. TypeOK'
    BY <1>0, <2>3, <2>4 DEF TypeOK, row, Misread
  <2>6. job'[h] = j /\ Private(h, j)
    BY <1>0, <2>3, <2>4 DEF Private, row, Misread
  <2>7. OwnRows(h)' /\ Held(h)' = {}
    BY <2>6 DEF OwnRows, Held
  <2>8. h \notin misled' => FreshJob(h)'
    <3> SUFFICES ASSUME h \notin misled' PROVE FreshJob(h)'
      OBVIOUS
    <3>1. IsNextPosition(p, k.to) /\ h \notin misled
      BY <2>3 DEF Misread
    <3>2. Exists(t) /\ k.to # stage[t]
      BY <1>a, <2>1, <3>1 DEF FreshJob
    <3>3. /\ job'[h].at = "select" /\ job'[h].task = t /\ job'[h].to = k.to
          /\ job'[h].pos = p
      BY <2>6
    <3> HIDE DEF j, k
    <3> QED
      BY <2>4, <3>1, <3>2, <3>3 DEF FreshJob, row, Exists, IsNextPosition, Column
  <2>9. j.at # "insert"
    OBVIOUS
  <2> HIDE DEF j
  <2>10. KanbanInv'
    BY <2>6, <2>7, <2>8, <2>9, PrivateStep
  <2> QED
    BY <2>4, <2>5, <2>10 DEF row
<1>3. CASE SelectTask(h)
  <2>1. k \in SelectJobs /\ UNCHANGED row /\ k.at = "select" /\ content' \in [Tasks -> Contents]
    BY <1>0, <1>3, JobKinds DEF SelectTask, row
  <2>2. CASE ~Exists(t)
    BY <1>3, <2>1, <2>2, StopKeeps DEF SelectTask, row
  <2>3. CASE Exists(t)
    <3> DEFINE j == [at |-> "find", task |-> t, to |-> k.to, pos |-> k.pos,
                     bottom |-> k.bottom, from |-> stage[t], old |-> position[t],
                     found |-> {}]
    <3>1. Step(h, j)
      BY <1>3, <2>3 DEF SelectTask
    <3>2. j \in Jobs
      BY <1>0, <2>1, <2>3 DEF Jobs, SelectJobs, CloseJobs, Exists
    <3>3. job'[h] = j
      BY <1>0, <3>1 DEF Step
    <3>4. OwnRows(h)' /\ Held(h)' = {}
      BY <3>3 DEF OwnRows, Held
    <3>5. h \notin misled => FreshJob(h)'
      <4> SUFFICES ASSUME h \notin misled PROVE FreshJob(h)'
        OBVIOUS
      <4>1. k.bottom => k.to # stage[t] /\ IsNextPosition(k.pos, k.to)
        BY <1>a, <2>1 DEF FreshJob
      <4>2. /\ job'[h].at = "find" /\ job'[h].task = t /\ job'[h].to = k.to
            /\ job'[h].pos = k.pos /\ job'[h].bottom = k.bottom
            /\ job'[h].from = stage[t] /\ job'[h].old = position[t]
        BY <3>3
      <4> HIDE DEF j, k
      <4> QED
        BY <2>1, <2>3, <4>1, <4>2 DEF FreshJob, row, Exists, IsNextPosition, Column
    <3>6. j.at # "insert"
      OBVIOUS
    <3> HIDE DEF j
    <3> QED
      BY <1>b, <2>1, <3>1, <3>2, <3>4, <3>5, <3>6 DEF row
  <2> QED
    BY <2>2, <2>3
<1>4. CASE FindBelow(h)
  <2> DEFINE B == Below(position, k.from, t, k.old)
             j == [k EXCEPT !.at = "close", !.found = B]
  <2>1. /\ k \in CloseJobs /\ k.at = "find" /\ UNCHANGED row /\ Step(h, j)
        /\ content' \in [Tasks -> Contents]
    BY <1>0, <1>4, JobKinds DEF FindBelow, row
  <2>2. B \subseteq Tasks
    BY DEF Below, Column
  <2>3. /\ j.at = "close" /\ j.task = t /\ j.to = k.to /\ j.pos = k.pos
        /\ j.bottom = k.bottom /\ j.from = k.from /\ j.old = k.old /\ j.found = B
        /\ j \in Jobs
    <3> HIDE DEF B
    <3> QED
      BY <2>1, <2>2 DEF Jobs, CloseJobs
  <2>4. job'[h] = j
    BY <1>0, <2>1 DEF Step
  <2> HIDE DEF j
  <2>5. OwnRows(h)' /\ Held(h)' = {}
    BY <2>3, <2>4 DEF OwnRows, Held
  <2>6. h \notin misled => FreshJob(h)'
    <3> SUFFICES ASSUME h \notin misled PROVE FreshJob(h)'
      OBVIOUS
    <3>1. /\ Exists(t) /\ k.from = stage[t] /\ k.old = position[t]
          /\ k.bottom => k.to # stage[t] /\ IsNextPosition(k.pos, k.to)
      BY <1>a, <2>1 DEF FreshJob
    <3>2. B = Below(position, stage[t], t, position[t])
      BY <3>1
    <3>3. /\ job'[h].at = "close" /\ job'[h].task = t /\ job'[h].to = k.to
          /\ job'[h].pos = k.pos /\ job'[h].bottom = k.bottom
          /\ job'[h].from = k.from /\ job'[h].old = k.old /\ job'[h].found = B
      BY <2>3, <2>4
    <3> HIDE DEF B, k
    <3> QED
      BY <2>1, <3>1, <3>2, <3>3 DEF FreshJob, row, Exists, IsNextPosition, Column, Below
  <2> QED
    BY <1>b, <2>1, <2>3, <2>5, <2>6 DEF row
<1>5. CASE CloseGap(h)
  <2> DEFINE closed == k.found \cap Below(position, k.from, t, k.old)
             F == From(Raised(position, closed), k.to, t, k.pos)
             j == [at |-> "open", task |-> t, to |-> k.to, pos |-> k.pos,
                   bottom |-> k.bottom, closed |-> closed, found |-> F]
  <2>1. /\ k \in CloseJobs /\ k.at = "close" /\ UNCHANGED row /\ Step(h, j)
        /\ content' \in [Tasks -> Contents] /\ k.found \cap Locked(h) = {}
    BY <1>0, <1>5, JobKinds DEF CloseGap, row
  <2>2. /\ t \in Tasks /\ k.from \in Stages /\ k.to \in Stages /\ k.pos \in Nat /\ k.old \in Nat
        /\ k.bottom \in BOOLEAN
    BY <2>1 DEF CloseJobs
  <2>3. closed \subseteq Tasks /\ F \subseteq Tasks
    BY DEF Below, From, Column
  <2>4. j \in Jobs
    <3> HIDE DEF closed, F
    <3> QED
      BY <2>2, <2>3 DEF Jobs, OpenJobs
  <2>5. job'[h] = j
    BY <1>0, <2>1 DEF Step
  <2>6. \A u \in closed : /\ u # t /\ stage[u] = k.from /\ position[u] > k.old
                          /\ stage[u] = k.to /\ position[u] - 1 >= k.pos => u \in F
    BY <2>2, <2>3 DEF Below, Column, From, Raised
  <2>7. OwnRows(h)'
    <3> HIDE DEF closed, F
    <3>1. /\ job'[h].at = "open" /\ job'[h].closed = closed /\ job'[h].task = t
          /\ job'[h].to = k.to /\ job'[h].pos = k.pos /\ job'[h].found = F
      BY <2>5
    <3>2. \A u \in closed : Exists(u) /\ position[u] > 0
      BY <1>0, <2>2, <2>3, <2>6 DEF Exists
    <3> QED
      BY <2>1, <2>6, <3>1, <3>2 DEF OwnRows, row, Exists
  <2>8. Held(h)' = closed /\ closed \cap Locked(h) = {}
    BY <2>1, <2>5 DEF Held
  <2>9. h \notin misled => FreshJob(h)'
    <3> SUFFICES ASSUME h \notin misled PROVE FreshJob(h)'
      OBVIOUS
    <3>1. /\ Exists(t) /\ k.from = stage[t] /\ k.old = position[t]
          /\ k.found = Below(position, stage[t], t, position[t])
          /\ k.bottom => k.to # stage[t] /\ IsNextPosition(k.pos, k.to)
      BY <1>a, <2>1 DEF FreshJob
    <3>2. closed = Below(position, stage[t], t, position[t])
      BY <3>1
    <3> HIDE DEF closed
    <3>3. /\ job'[h].at = "open" /\ job'[h].closed = closed /\ job'[h].task = t
          /\ job'[h].to = k.to /\ job'[h].pos = k.pos /\ job'[h].found = F
          /\ job'[h].bottom = k.bottom
      BY <2>5
    <3> HIDE DEF j
    <3>4. F = From(Raised(position, closed), k.to, t, k.pos)
      OBVIOUS
    <3> HIDE DEF k, F
    <3>5. Seen(h)' = Raised(position, closed)
      BY <2>1, <3>3 DEF Seen, Raised, row
    <3>6. job'[h].found = From(Seen(h), job[h].to, job[h].task, job[h].pos)'
      <4> DEFINE r == Raised(position, closed)
      <4>1. Seen(h)' = r /\ F = From(r, k.to, t, k.pos)
        BY <3>4, <3>5
      <4> HIDE DEF r
      <4> QED
        BY <2>1, <3>3, <4>1 DEF From, Column, row
    <3>7. job'[h].closed = Below(position, stage[job[h].task], job[h].task, position[job[h].task])'
      BY <2>1, <3>2, <3>3 DEF Below, Column, row
    <3>8. job'[h].bottom => job'[h].to # stage'[job'[h].task] /\ IsNextPosition(job[h].pos, job[h].to)'
      BY <2>1, <3>1, <3>3 DEF row, IsNextPosition, Column
    <3> QED
      BY <2>1, <3>1, <3>3, <3>6, <3>7, <3>8 DEF FreshJob, row, Exists
  <2>10. j.at # "insert"
    OBVIOUS
  <2> HIDE DEF j
  <2> QED
    BY <1>b, <2>1, <2>4, <2>7, <2>8, <2>9, <2>10 DEF row
<1>6. CASE PlaceTask(h) /\ ~Exists(t)
  BY <1>0, <1>6, StopKeeps DEF PlaceTask
<1>7. CASE Fail(h)
  BY <1>0, <1>7, StopKeeps DEF Fail, row
<1>8. ASSUME NEW x \in Tasks, DeleteTask(h, x)
      PROVE  TypeOK' /\ KanbanInv' /\ UNCHANGED <<stage, position, marred>>
  <2> DEFINE B == Below(position, stage[x], x, position[x])
             j == [at |-> "gap", task |-> x, found |-> B]
  <2>1. /\ Exists(x) /\ x \notin Locked(h) /\ UNCHANGED row /\ Step(h, j)
        /\ content' \in [Tasks -> Contents]
    BY <1>0, <1>8 DEF DeleteTask, row
  <2>2. B \subseteq Tasks
    BY DEF Below, Column
  <2>3. j \in Jobs
    <3> HIDE DEF B
    <3> QED
      BY <2>2 DEF Jobs, DeleteJobs
  <2>4. job'[h] = j
    BY <1>0, <2>1 DEF Step
  <2>5. OwnRows(h)' /\ Held(h)' = {x}
    BY <2>1, <2>4 DEF OwnRows, Held, row, Exists
  <2>6. FreshJob(h)'
    <3>1. Below(position, stage[x], x, position[x])' = B
      BY <2>1 DEF row, Below, Column
    <3> HIDE DEF B
    <3> QED
      BY <2>4, <3>1 DEF FreshJob
  <2>7. j.at # "insert"
    OBVIOUS
  <2> HIDE DEF j
  <2> QED
    BY <1>b, <2>1, <2>3, <2>5, <2>6, <2>7 DEF row
<1> QED
  BY <1>1, <1>2, <1>3, <1>4, <1>5, <1>6, <1>7, <1>8

(* A step of Kanban commits, or changes no column. *)
LEMMA StepKinds ==
    ASSUME TypeOK, KanbanInv, [Next]_vars
    PROVE  \/ \E h \in Handlers : Commits(h)
           \/ TypeOK' /\ KanbanInv' /\ UNCHANGED <<stage, position, marred>>
<1>1. CASE UNCHANGED vars
  <2>1. /\ stage' = stage /\ position' = position /\ content' = content /\ job' = job
        /\ misled' = misled /\ marred' = marred
    BY <1>1 DEF vars, row, history
  <2>2. TypeOK'
    BY <2>1 DEF TypeOK
  <2>3. ASSUME NEW h \in Handlers
        PROVE  HeldJob(h)' /\ (h \notin misled' => FreshJob(h)')
    <3>1. HeldJob(h) /\ (h \notin misled => FreshJob(h))
      BY DEF KanbanInv
    <3>2. Locked(h)' = Locked(h) /\ Held(h)' = Held(h)
      BY <2>1 DEF Locked, Held
    <3>3. HeldJob(h)'
      BY <2>1, <3>1, <3>2 DEF HeldJob, Exists
    <3>4. h \notin misled' => FreshJob(h)'
      BY <2>1, <3>1 DEF FreshJob, Exists, IsNextPosition, Column, Below, From, Seen, Raised
    <3> QED
      BY <3>3, <3>4
  <2> QED
    BY <2>1, <2>2, <2>3 DEF KanbanInv
<1>2. CASE Next
  <2>1. PICK h \in Handlers :
          \/ \E t \in Tasks, s \in Stages :
                \/ CreateTask(h, t, s)
                \/ \E f \in Fields, v \in Values : UpdateTask(h, t, f, v, s)
                \/ \E p \in Drops : MoveTask(h, t, s, p)
          \/ InsertTask(h) \/ WriteTask(h) \/ AppendTask(h)
          \/ SelectTask(h) \/ FindBelow(h) \/ CloseGap(h) \/ PlaceTask(h)
          \/ \E t \in Tasks : DeleteTask(h, t)
          \/ CloseDeleted(h)
          \/ Fail(h)
    BY <1>2 DEF Next
  <2> DEFINE Kept == TypeOK' /\ KanbanInv' /\ UNCHANGED <<stage, position, marred>>
  <2>2. ASSUME NEW t \in Tasks, NEW s \in Stages,
               \/ CreateTask(h, t, s)
               \/ \E f \in Fields, v \in Values : UpdateTask(h, t, f, v, s)
               \/ \E p \in Drops : MoveTask(h, t, s, p)
        PROVE  Kept
    BY <2>2, BeginKeeps
  <2>3. ASSUME \/ WriteTask(h) \/ AppendTask(h) \/ SelectTask(h) \/ FindBelow(h)
               \/ CloseGap(h) \/ (PlaceTask(h) /\ ~Exists(job[h].task)) \/ Fail(h)
               \/ \E t \in Tasks : DeleteTask(h, t)
        PROVE  Kept
    BY <2>3, GoOnKeeps
  <2>4. ASSUME InsertTask(h) \/ (PlaceTask(h) /\ Exists(job[h].task)) \/ CloseDeleted(h)
        PROVE  Commits(h)
    BY <2>4 DEF Commits
  <2> HIDE DEF Kept
  <2>5. Kept \/ Commits(h)
    <3>1. CASE \E t \in Tasks, s \in Stages :
                  \/ CreateTask(h, t, s)
                  \/ \E f \in Fields, v \in Values : UpdateTask(h, t, f, v, s)
                  \/ \E p \in Drops : MoveTask(h, t, s, p)
      BY <2>2, <3>1
    <3>2. CASE InsertTask(h) \/ CloseDeleted(h)
      BY <2>4, <3>2
    <3>3. CASE PlaceTask(h)
      BY <2>3, <2>4, <3>3
    <3>4. CASE WriteTask(h) \/ AppendTask(h) \/ SelectTask(h)
      BY <2>3, <3>4
    <3>5. CASE FindBelow(h) \/ CloseGap(h) \/ Fail(h) \/ \E t \in Tasks : DeleteTask(h, t)
      BY <2>3, <3>5
    <3> QED
      BY <2>1, <3>1, <3>2, <3>3, <3>4, <3>5
  <2> QED
    BY <2>5 DEF Kept
<1> QED
  BY <1>1, <1>2

(* A commit writes nothing of what the others rely on. *)
LEMMA CommitsKeep ==
    ASSUME TypeOK, KanbanInv, NEW h \in Handlers, Commits(h)
    PROVE  Writes(h) /\ TypeOK' /\ KanbanInv' /\ marred \subseteq marred'
<1>1. Writes(h) /\ TypeOK' /\ marred \subseteq marred'
  BY InsertWrites, PlaceWrites, DeletedWrites DEF Commits
<1> QED
  BY <1>1, CommitStep

(* However requests overlap and fail, what a request that was not misled has read is
   still so, and nobody changes the rows that a transaction has changed. *)
THEOREM RequestsKnow == Spec => [](TypeOK /\ KanbanInv)
<1>1. Init => TypeOK /\ KanbanInv
  <2> SUFFICES ASSUME Init PROVE TypeOK /\ KanbanInv
    OBVIOUS
  <2>1. TypeOK
    BY KanbanConstants DEF Init, TypeOK, Contents, Jobs
  <2>2. \A h \in Handlers : job[h] = Idle
    BY DEF Init
  <2>3. \A h \in Handlers : Held(h) = {} /\ FreshJob(h)
    BY <2>2 DEF Held, FreshJob, Idle
  <2>4. \A h \in Handlers : HeldJob(h)
    BY <2>2, <2>3 DEF HeldJob, Idle
  <2> QED
    BY <2>1, <2>3, <2>4 DEF KanbanInv
<1>2. TypeOK /\ KanbanInv /\ [Next]_vars => (TypeOK /\ KanbanInv)'
  BY StepKinds, CommitsKeep
<1> QED
  BY <1>1, <1>2, PTL DEF Spec

(* The model of the tasks table and of the handlers is well typed. *)
THEOREM TypeCorrect == Spec => []TypeOK
BY RequestsKnow, PTL

-----------------------------------------------------------------------------
(* No two tasks change places *)

(* task_repo.go:313-447.  Whatever requests overlap and fail, and however stale what
   they have read: a move that lifts a task out of the way of a gap finds it again
   when it makes room, so it is not put above one that stayed. *)
THEOREM OrderIsKept == Spec => OrderKept
<1> DEFINE Still(t, u) == \A h \in Handlers : job[h].at \in {"open", "gap"} /\ job'[h] # job[h]
                              => job[h].task \notin {t, u}
<1>1. ASSUME TypeOK, KanbanInv, [Next]_vars, NEW t \in Tasks, NEW u \in Tasks,
             Exists(t), stage[u] = stage[t], position[t] < position[u], Still(t, u)
      PROVE  position'[t] <= position'[u]
  <2>a. /\ position \in [Tasks -> Nat] /\ position[t] \in Nat /\ position[u] \in Nat
        /\ job \in [Handlers -> Jobs] /\ stage[t] \in Stages /\ stage[t] # "new" /\ stage[u] # "new"
    BY <1>1, KanbanConstants DEF TypeOK, Exists
  <2>b. UNCHANGED position => position'[t] <= position'[u]
    BY <1>1, <2>a
  <2>1. ASSUME NEW h \in Handlers, InsertTask(h)
        PROVE  position'[t] <= position'[u]
    <3>1. stage[job[h].task] = "new"
      BY <1>1, <2>1 DEF InsertTask, KanbanInv, HeldJob
    <3>2. job[h].task # t /\ job[h].task # u
      BY <2>a, <3>1
    <3>3. position' = [position EXCEPT ![job[h].task] = job[h].pos]
      BY <2>1 DEF InsertTask
    <3> QED
      BY <1>1, <2>a, <3>2, <3>3
  <2>2. ASSUME NEW h \in Handlers, PlaceTask(h), Exists(job[h].task)
        PROVE  position'[t] <= position'[u]
    <3> DEFINE j == job[h]
               x == j.task
               S == Seen(h)
    <3>1. /\ x \in Tasks /\ j.pos \in Nat /\ j.closed \subseteq Tasks /\ j.found \subseteq Tasks
          /\ j.at = "open" /\ S \in [Tasks -> Nat]
          /\ \A v \in Tasks \ {x} : position'[v] = IF v \in Room(h) THEN S[v] + 1 ELSE S[v]
      BY <1>1, <2>2, PlaceFacts
    <3>2. x # t /\ x # u
      <4>1. job'[h] = Idle /\ job'[h] # job[h]
        BY <2>a, <2>2, <3>1 DEF PlaceTask, Commit, Go, Idle
      <4> QED
        BY <1>1, <3>1, <4>1
    <3>3. /\ position'[t] = IF t \in Room(h) THEN S[t] + 1 ELSE S[t]
          /\ position'[u] = IF u \in Room(h) THEN S[u] + 1 ELSE S[u]
      BY <3>1, <3>2
    <3>4. /\ S[t] = IF t \in j.closed THEN position[t] - 1 ELSE position[t]
          /\ S[u] = IF u \in j.closed THEN position[u] - 1 ELSE position[u]
          /\ S[t] \in Nat /\ S[u] \in Nat
      BY <3>1 DEF Seen, Raised
    <3>5. ASSUME t \in Room(h), t \notin j.closed, u \in j.closed
          PROVE  u \in Room(h)
      <4>1. t \in Column(j.to) /\ S[t] >= j.pos
        BY <3>5 DEF Room, From
      <4>2. stage[u] = j.to /\ u \in Column(j.to) \ {x}
        BY <1>1, <3>2, <4>1 DEF Column
      <4>3. position[u] - 1 >= j.pos
        BY <1>1, <2>a, <3>1, <3>4, <3>5, <4>1
      <4>4. u \in j.found
        BY <1>1, <3>1, <3>5, <4>2, <4>3 DEF KanbanInv, HeldJob
      <4>5. S[u] >= j.pos
        BY <3>4, <3>5, <4>3
      <4> QED
        BY <4>2, <4>4, <4>5 DEF Room, From
    <3> HIDE DEF S, j, Still
    <3> QED
      BY <1>1, <2>a, <3>3, <3>4, <3>5
  <2>3. ASSUME NEW h \in Handlers, CloseDeleted(h)
        PROVE  position'[t] <= position'[u]
    <3>1. /\ position'[t] = position[t] \/ position'[t] = position[t] - 1
          /\ position'[u] = position[u] \/ position'[u] = position[u] - 1
      BY <1>1, <2>3, DeletedFacts
    <3> QED
      BY <1>1, <2>a, <3>1
  <2> QED
    BY <1>1, <2>b, <2>1, <2>2, <2>3, StepKinds DEF Commits
<1>2. TypeOK /\ KanbanInv /\ [Next]_vars =>
          [\A t, u \in Tasks :
              /\ Exists(t) /\ stage[u] = stage[t] /\ position[t] < position[u]
              /\ \A h \in Handlers : job[h].at \in {"open", "gap"} /\ job'[h] # job[h]
                    => job[h].task \notin {t, u}
              => position'[t] <= position'[u]]_vars
  BY <1>1
<1> QED
  BY <1>2, RequestsKnow, PTL DEF Spec, OrderKept

-----------------------------------------------------------------------------
(* Contiguous columns *)

(* A move that was not misled takes its task out of one column and makes it room. *)
LEMMA PlaceFresh ==
    ASSUME TypeOK, KanbanInv, NEW h \in Handlers, PlaceTask(h), Exists(job[h].task),
           FreshJob(h)
    PROVE  /\ Seen(h) = Without(job[h].task)
           /\ position' = [Opened(Without(job[h].task), Column(job[h].to) \ {job[h].task},
                                  job[h].pos) EXCEPT ![job[h].task] = job[h].pos]
<1> DEFINE j == job[h]
           x == j.task
<1>1. j.at = "open"
  BY DEF PlaceTask
<1>2. /\ j.closed = Below(position, stage[x], x, position[x])
      /\ j.found = From(Seen(h), j.to, x, j.pos)
  BY <1>1 DEF FreshJob
<1>3. Seen(h) = Without(x)
  BY <1>2, RaisedIsClosed DEF Seen, Without
<1>4. Room(h) = From(Seen(h), j.to, x, j.pos)
  BY <1>2 DEF Room
<1>5. Lowered(Seen(h), Room(h)) = Opened(Seen(h), Column(j.to) \ {x}, j.pos)
  BY <1>4, LoweredIsOpened
<1>6. position' = [Lowered(Seen(h), Room(h)) EXCEPT ![x] = j.pos]
  BY PlaceFacts
<1> QED
  BY <1>3, <1>5, <1>6

(* A deletion that was not misled closes the gap of its task. *)
LEMMA DeletedFresh ==
    ASSUME TypeOK, KanbanInv, NEW h \in Handlers, CloseDeleted(h), FreshJob(h)
    PROVE  position' = Without(job[h].task)
<1> DEFINE x == job[h].task
           B == Below(position, stage[x], x, position[x])
<1>1. job[h].at = "gap"
  BY DEF CloseDeleted
<1>2. job[h].found = B
  BY <1>1 DEF FreshJob
<1>3. position' = Raised(position, job[h].found \cap B)
  BY DEF CloseDeleted
<1>4. position' = Raised(position, B)
  BY <1>2, <1>3
<1> QED
  BY <1>4, RaisedIsClosed DEF Without

(* Moving x to place p of column s: a contiguous column of the board stays so. *)
LEMMA MoveKeepsColumn ==
    ASSUME TypeOK, NEW x \in Tasks, Exists(x), NEW s \in Stages, NEW p \in Nat,
           position' = [Opened(Without(x), Column(s) \ {x}, p) EXCEPT ![x] = p],
           stage' = [stage EXCEPT ![x] = s],
           NEW r \in Stages, Contiguous(Column(r), position),
           r = s => Fits(Without(x), x, s, p)
    PROVE  Contiguous(Column(r)', position')
<1> DEFINE left == Without(x)
           q == [Opened(left, Column(s) \ {x}, p) EXCEPT ![x] = p]
           Rest == Column(r) \ {x}
<1>1. /\ position \in [Tasks -> Nat] /\ position[x] \in Nat /\ stage[x] \in Stages
      /\ Column(r) \in SUBSET Tasks /\ Rest \in SUBSET Tasks
      /\ Column(stage[x]) \ {x} \in SUBSET Tasks
  BY DEF TypeOK, Exists, Column
<1>2. left \in [Tasks -> Nat]
  BY <1>1, ClosedType DEF Without
<1>3. Contiguous(Rest, left)
  <2>1. CASE r = stage[x]
    <3>1. x \in Column(r)
      BY <2>1 DEF Column
    <3> QED
      BY <1>1, <2>1, <3>1, ClosedContiguous DEF Without
  <2>2. CASE r # stage[x]
    <3>1. Rest = Column(r)
      BY <2>2 DEF Column
    <3>2. \A u \in Column(r) : left[u] = position[u]
      BY <1>1, <2>2 DEF Without, Closed, Column
    <3> QED
      BY <1>1, <3>1, <3>2, SamePositions
  <2> QED
    BY <2>1, <2>2
<1>5. CASE r = s
  <2>1. p = 0 \/ \E w \in Rest : left[w] = p - 1
    BY <1>5 DEF Fits
  <2>2. x \in Tasks \ Rest
    OBVIOUS
  <2>3. Column(r)' = Rest \cup {x}
    BY <1>5 DEF Column, TypeOK
  <2>4. position' = [Opened(left, Rest, p) EXCEPT ![x] = p]
    BY <1>5
  <2> HIDE DEF left, Rest
  <2>5. Contiguous(Rest \cup {x}, [Opened(left, Rest, p) EXCEPT ![x] = p])
    BY <1>1, <1>2, <1>3, <2>1, <2>2, OpenedContiguous
  <2> QED
    BY <2>3, <2>4, <2>5
<1>6. CASE r # s
  <2>1. Column(r)' = Rest
    BY <1>6 DEF Column, TypeOK
  <2>2. \A u \in Rest : position'[u] = left[u]
    BY <1>1, <1>2, <1>6 DEF Opened, Column
  <2> HIDE DEF left, Rest
  <2> QED
    BY <1>1, <1>3, <2>1, <2>2, SamePositions
<1> QED
  BY <1>5, <1>6

(* A task inserted at the next position of a column. *)
LEMMA InsertKeepsColumn ==
    ASSUME TypeOK, NEW x \in Tasks, stage[x] = "new", NEW s \in Stages, NEW p \in Nat,
           IsNextPosition(p, s),
           position' = [position EXCEPT ![x] = p], stage' = [stage EXCEPT ![x] = s],
           NEW r \in Stages, Contiguous(Column(r), position)
    PROVE  Contiguous(Column(r)', position')
<1>1. /\ position \in [Tasks -> Nat]
      /\ Column(r) \in SUBSET Tasks /\ x \notin Column(r)
  BY KanbanConstants DEF TypeOK, Column
<1>3. CASE r = s
  <2> DEFINE q == [Opened(position, Column(s), p) EXCEPT ![x] = p]
  <2>1. /\ Column(r)' = Column(s) \cup {x}
        /\ Column(s) \cup {x} \in SUBSET Tasks
    BY <1>1, <1>3 DEF Column, TypeOK
  <2>2. p = 0 \/ \E w \in Column(s) : position[w] = p - 1
    BY DEF IsNextPosition
  <2>3. Contiguous(Column(s) \cup {x}, q)
    BY <1>1, <1>3, <2>2, OpenedContiguous
  <2>4. \A u \in Column(s) \cup {x} : position'[u] = q[u]
    BY <1>1, <1>3 DEF Opened, IsNextPosition
  <2> HIDE DEF q
  <2> QED
    BY <2>1, <2>3, <2>4, SamePositions
<1>4. CASE r # s
  <2>1. Column(r)' = Column(r) /\ \A u \in Column(r) : position'[u] = position[u]
    BY <1>1, <1>4 DEF Column, TypeOK
  <2> QED
    BY <1>1, <2>1, SamePositions
<1> QED
  BY <1>3, <1>4

(* A task deleted from its column. *)
LEMMA DeleteKeepsColumn ==
    ASSUME TypeOK, NEW x \in Tasks, Exists(x),
           position' = Without(x), stage' = [stage EXCEPT ![x] = "deleted"],
           NEW r \in Stages, Contiguous(Column(r), position)
    PROVE  Contiguous(Column(r)', position')
<1>1. /\ position \in [Tasks -> Nat] /\ stage[x] \in Stages /\ x \in Column(stage[x])
      /\ Column(r) \in SUBSET Tasks
      /\ position' = Closed(position, Column(stage[x]) \ {x}, position[x])
  BY DEF TypeOK, Exists, Column, Without
<1>2. Column(r)' = Column(r) \ {x}
  BY <1>1, KanbanConstants DEF Column, TypeOK
<1>3. CASE r = stage[x]
  BY <1>1, <1>2, <1>3, ClosedContiguous
<1>4. CASE r # stage[x]
  <2>1. x \notin Column(r) /\ \A u \in Column(r) : position'[u] = position[u]
    BY <1>1, <1>4 DEF Closed, Column
  <2>2. Column(r)' = Column(r)
    BY <1>2, <2>1
  <2> QED
    BY <1>1, <2>1, <2>2, SamePositions
<1> QED
  BY <1>3, <1>4

(* A column nobody was misled about stays contiguous. *)
LEMMA CommitKeepsColumns ==
    ASSUME TypeOK, KanbanInv, ColumnsContiguous, NEW h \in Handlers, Commits(h)
    PROVE  ColumnsContiguous'
<1> DEFINE j == job[h]
           t == j.task
<1>0. /\ Writes(h) /\ marred \subseteq marred' /\ position \in [Tasks -> Nat]
      /\ \A r : Column(r) \in SUBSET Tasks
  BY CommitsKeep DEF TypeOK, Column
<1> SUFFICES ASSUME NEW r \in Stages \ marred'
             PROVE  Contiguous(Column(r)', position')
  BY DEF ColumnsContiguous
<1>1. Contiguous(Column(r), position)
  BY <1>0 DEF ColumnsContiguous
<1>2. CASE r \notin About(h)
  <2>1. {u \in Tasks : stage'[u] = r} = Column(r) /\ \A u \in Column(r) : position'[u] = position[u]
    BY <1>0, <1>2 DEF Writes, SameColumn
  <2>2. Column(r)' = Column(r)
    BY <2>1 DEF Column
  <2> QED
    BY <1>0, <1>1, <2>1, <2>2, SamePositions
<1>3. CASE r \in About(h)
  <2>1. CASE InsertTask(h)
    <3>1. h \notin misled
      BY <1>3, <2>1 DEF InsertTask, Commit
    <3>2. FreshJob(h) /\ HeldJob(h)
      BY <3>1 DEF KanbanInv
    <3>3. /\ t \in Tasks /\ j.to \in Stages /\ j.pos \in Nat /\ stage[t] = "new"
          /\ IsNextPosition(j.pos, j.to)
      BY <2>1, <3>2, JobKinds DEF InsertTask, TypeOK, InsertJobs, FreshJob, HeldJob
    <3>4. position' = [position EXCEPT ![t] = j.pos] /\ stage' = [stage EXCEPT ![t] = j.to]
      BY <2>1 DEF InsertTask
    <3> HIDE DEF j, t
    <3> QED
      BY <1>1, <3>3, <3>4, InsertKeepsColumn
  <2>2. CASE PlaceTask(h) /\ Exists(t)
    <3>1. /\ t \in Tasks /\ j.to \in Stages /\ j.pos \in Nat
          /\ stage' = [stage EXCEPT ![t] = j.to]
          /\ Commit(h, IF Fits(Seen(h), t, j.to, j.pos) THEN {} ELSE {j.to})
      BY <2>2, PlaceFacts
    <3>2. h \notin misled /\ (r = j.to => Fits(Seen(h), t, j.to, j.pos))
      BY <1>3, <3>1 DEF Commit
    <3>3. FreshJob(h)
      BY <3>2 DEF KanbanInv
    <3>4. /\ Seen(h) = Without(t)
          /\ position' = [Opened(Without(t), Column(j.to) \ {t}, j.pos) EXCEPT ![t] = j.pos]
      BY <2>2, <3>3, PlaceFresh
    <3>5. r = j.to => Fits(Without(t), t, j.to, j.pos)
      BY <3>2, <3>4
    <3> HIDE DEF j, t
    <3> QED
      BY <1>1, <2>2, <3>1, <3>4, <3>5, MoveKeepsColumn
  <2>3. CASE CloseDeleted(h)
    <3>1. /\ t \in Tasks /\ Exists(t) /\ stage' = [stage EXCEPT ![t] = "deleted"]
          /\ Commit(h, {})
      BY <2>3, DeletedFacts
    <3>2. h \notin misled
      BY <1>3, <3>1 DEF Commit
    <3>3. FreshJob(h)
      BY <3>2 DEF KanbanInv
    <3>4. position' = Without(t)
      BY <2>3, <3>3, DeletedFresh
    <3> HIDE DEF j, t
    <3> QED
      BY <1>1, <3>1, <3>4, DeleteKeepsColumn
  <2> QED
    BY <2>1, <2>2, <2>3 DEF Commits
<1> QED
  BY <1>2, <1>3

(* task_repo.go:232-234.  However requests overlap and fail: as long as no request that
   was misled has changed a column, and no client has dropped a task below its end,
   no two of its tasks share a position and no place above a task is free. *)
THEOREM ColumnsStayContiguous == Spec => []ColumnsContiguous
<1>1. Init => ColumnsContiguous
  <2> SUFFICES ASSUME Init PROVE ColumnsContiguous
    OBVIOUS
  <2>1. \A s \in Stages : Column(s) = {}
    BY KanbanConstants DEF Init, Column
  <2> QED
    BY <2>1 DEF ColumnsContiguous, Contiguous, NoTies, NoGaps
<1>2. TypeOK /\ KanbanInv /\ ColumnsContiguous /\ [Next]_vars => ColumnsContiguous'
  <2> SUFFICES ASSUME TypeOK, KanbanInv, ColumnsContiguous, [Next]_vars
               PROVE  ColumnsContiguous'
    OBVIOUS
  <2>1. CASE UNCHANGED <<stage, position, marred>>
    BY <2>1 DEF ColumnsContiguous, Contiguous, NoTies, NoGaps, Column
  <2> QED
    BY <2>1, StepKinds, CommitKeepsColumns
<1> QED
  BY <1>1, <1>2, RequestsKnow, PTL DEF Spec

(* task_service.go:287.  A change of stage by a request that was not misled ends below
   all other tasks of the new column, wherever clients have dropped those. *)
THEOREM StageChangeIsAppend == Spec => StageChangeAppends
<1>1. ASSUME TypeOK, KanbanInv, [Next]_vars,
             NEW h \in Handlers \ misled, job[h].at = "open", job'[h] # job[h],
             job[h].bottom, stage'[job[h].task] # stage[job[h].task],
             NEW u \in Tasks \ {job[h].task}, stage'[u] = job[h].to
      PROVE  position'[u] < position'[job[h].task]
  <2> DEFINE j == job[h]
             t == j.task
  <2>1. PICK g \in Handlers : Commits(g)
    <3>1. ~UNCHANGED <<stage, position, marred>>
      BY <1>1
    <3> QED
      BY <1>1, <3>1, StepKinds
  <2>2. g = h
    <3>1. job' = [job EXCEPT ![g] = Idle]
      BY <1>1, <2>1, CommitsKeep DEF Writes
    <3> QED
      BY <1>1, <3>1 DEF TypeOK
  <2>3. PlaceTask(h) /\ Exists(t)
    BY <1>1, <2>1, <2>2 DEF Commits, InsertTask, CloseDeleted
  <2>4. /\ t \in Tasks /\ j.pos \in Nat /\ j.to \in Stages
        /\ stage' = [stage EXCEPT ![t] = j.to] /\ position'[t] = j.pos
        /\ position'[u] = IF u \in Room(h) THEN Seen(h)[u] + 1 ELSE Seen(h)[u]
    BY <1>1, <2>3, PlaceFacts
  <2>5. /\ j.to # stage[t] /\ IsNextPosition(j.pos, j.to)
        /\ j.closed = Below(position, stage[t], t, position[t])
    BY <1>1 DEF KanbanInv, FreshJob
  <2>6. u \in Column(j.to) /\ u \notin j.closed
    BY <1>1, <2>4, <2>5 DEF TypeOK, Column, Below
  <2>7. Seen(h)[u] = position[u] /\ position[u] < j.pos /\ position[u] \in Nat
    BY <1>1, <2>5, <2>6 DEF Seen, Raised, IsNextPosition, TypeOK
  <2>8. u \notin Room(h)
    BY <2>4, <2>7 DEF Room, From
  <2> QED
    BY <2>4, <2>7, <2>8
<1>2. TypeOK /\ KanbanInv /\ [Next]_vars =>
          [\A h \in Handlers \ misled :
              /\ job[h].at = "open" /\ job'[h] # job[h]
              /\ job[h].bottom /\ stage'[job[h].task] # stage[job[h].task]
              => \A u \in Tasks \ {job[h].task} :
                    stage'[u] = job[h].to => position'[u] < position'[job[h].task]]_vars
  BY <1>1
<1> QED
  BY <1>2, RequestsKnow, PTL DEF Spec, StageChangeAppends

-----------------------------------------------------------------------------
(* The board as its users see it. *)

(* q lists n of the things T; n is the length of a column; q lists the column. *)
IsList(q, n, T) == q \in [1..n -> T]
IsLength(n, S, pos) ==
    /\ \A t \in S : pos[t] < n
    /\ n = 0 \/ \E t \in S : pos[t] = n - 1
Shortened(w, q, n, i) == \A j \in 1..(n - 1) : w[j] = IF j < i THEN q[j] ELSE q[j + 1]
Extended(w, q, n, i, t) ==
    \A j \in 1..(n + 1) : w[j] = IF j < i THEN q[j] ELSE IF j = i THEN t ELSE q[j - 1]
Lists(q, n, S, pos) == IsList(q, n, S) /\ \A i \in 1..n : pos[q[i]] = i - 1

(* Listed lists a contiguous column. *)
LEMMA ListedIs ==
    ASSUME NEW S \in SUBSET Tasks, NEW pos \in [Tasks -> Nat], Contiguous(S, pos),
           NEW n \in Nat, IsLength(n, S, pos)
    PROVE  Lists(Listed(S, pos), n, S, pos)
<1> DEFINE m == CHOOSE m \in {0} \cup {pos[t] + 1 : t \in S} : \A t \in S : pos[t] < m
<1>1. n \in {0} \cup {pos[t] + 1 : t \in S} /\ \A t \in S : pos[t] < n
  BY DEF IsLength
<1>2. m \in {0} \cup {pos[t] + 1 : t \in S} /\ \A t \in S : pos[t] < m
  BY <1>1
<1>3. m = n
  <2> HIDE DEF m
  <2> QED  BY <1>2 DEF IsLength
<1>4. \A i \in 1..n : \E t \in S : pos[t] = i - 1
  BY DEF IsLength, Contiguous, NoGaps
<1>5. Listed(S, pos) = [i \in 1..n |-> CHOOSE t \in S : pos[t] = i - 1]
  BY <1>3 DEF Listed
<1> QED
  BY <1>4, <1>5 DEF Lists, IsList

(* It is the only list of it. *)
LEMMA ListedOnly ==
    ASSUME NEW S \in SUBSET Tasks, NEW pos \in [Tasks -> Nat], Contiguous(S, pos),
           NEW n \in Nat, IsLength(n, S, pos), NEW q, Lists(q, n, S, pos)
    PROVE  Listed(S, pos) = q
<1> DEFINE l == Listed(S, pos)
<1>1. Lists(l, n, S, pos)
  BY ListedIs
<1> HIDE DEF l
<1>2. /\ l \in [1..n -> S] /\ \A i \in 1..n : pos[l[i]] = i - 1
      /\ q \in [1..n -> S] /\ \A i \in 1..n : pos[q[i]] = i - 1
  BY <1>1 DEF Lists, IsList
<1>3. ASSUME NEW i \in 1..n PROVE l[i] = q[i]
  BY <1>2 DEF Contiguous, NoTies
<1>4. l = q
  BY <1>2, <1>3
<1> QED
  BY <1>4 DEF l

(* A list of n tasks, as a function and as a sequence. *)
LEMMA ListIsSeq ==
    ASSUME NEW T, NEW n \in Nat, NEW q, IsList(q, n, T)
    PROVE  q \in Seq(T) /\ Len(q) = n
BY DEF IsList

(* What is left of a list without its i-th element. *)
LEMMA RemoveAtIs ==
    ASSUME NEW T, NEW n \in Nat, NEW q, IsList(q, n, T), NEW i \in 1..n
    PROVE  /\ IsList(Board!RemoveAt(q, i), n - 1, T)
           /\ Shortened(Board!RemoveAt(q, i), q, n, i)
<1> DEFINE a == SubSeq(q, 1, i - 1)
           b == SubSeq(q, i + 1, n)
<1>0. i \in Nat /\ \A j \in 1..n : q[j] \in T
  BY DEF IsList
<1>1. a \in Seq(T) /\ Len(a) = i - 1 /\ \A j \in 1..(i - 1) : a[j] = q[j]
  <2>1. \A j \in 1..(i - 1) : q[j] \in T
    BY <1>0
  <2>2. /\ a \in Seq(T)
        /\ Len(a) = IF 1 <= i - 1 THEN (i - 1) - 1 + 1 ELSE 0
        /\ \A j \in 1..((i - 1) - 1 + 1) : a[j] = q[1 + j - 1]
    BY <1>0, <2>1, SubSeqProperties
  <2> QED
    BY <1>0, <2>2
<1>2. b \in Seq(T) /\ Len(b) = n - i /\ \A j \in 1..(n - i) : b[j] = q[j + i]
  <2>1. \A j \in (i + 1)..n : q[j] \in T
    BY <1>0
  <2>2. /\ b \in Seq(T)
        /\ Len(b) = IF i + 1 <= n THEN n - (i + 1) + 1 ELSE 0
        /\ \A j \in 1..(n - (i + 1) + 1) : b[j] = q[(i + 1) + j - 1]
    BY <1>0, <2>1, SubSeqProperties
  <2> QED
    BY <1>0, <2>2
<1>3. Board!RemoveAt(q, i) = a \o b
  BY ListIsSeq DEF Board!RemoveAt
<1> HIDE DEF a, b
<1>4. /\ a \o b \in Seq(T) /\ Len(a \o b) = Len(a) + Len(b)
      /\ \A j \in 1..(Len(a) + Len(b)) :
            (a \o b)[j] = IF j <= Len(a) THEN a[j] ELSE b[j - Len(a)]
  BY <1>1, <1>2, ConcatProperties
<1>5. Len(a \o b) = n - 1 /\ a \o b \in [1..(n - 1) -> T]
  <2>1. Len(a \o b) = n - 1
    BY <1>0, <1>1, <1>2, <1>4
  <2>2. a \o b \in [1..Len(a \o b) -> T]
    BY <1>4, LenProperties
  <2> QED
    BY <2>1, <2>2
<1>6. ASSUME NEW j \in 1..(n - 1)
      PROVE  (a \o b)[j] = IF j < i THEN q[j] ELSE q[j + 1]
  <2>1. (a \o b)[j] = IF j < i THEN a[j] ELSE b[j - (i - 1)]
    BY <1>0, <1>1, <1>2, <1>4
  <2>2. CASE j < i
    BY <1>0, <1>1, <2>1, <2>2
  <2>3. CASE j >= i
    <3>1. j - (i - 1) \in 1..(n - i)
      BY <1>0, <2>3
    <3>2. b[j - (i - 1)] = q[(j - (i - 1)) + i]
      BY <1>2, <3>1
    <3> QED
      BY <1>0, <2>1, <2>3, <3>2
  <2>4. j < i \/ j >= i
    BY <1>0
  <2> QED
    BY <2>2, <2>3, <2>4
<1> QED
  BY <1>3, <1>5, <1>6 DEF IsList, Shortened

(* A list with t inserted as its i-th element. *)
LEMMA InsertAtIs ==
    ASSUME NEW T, NEW n \in Nat, NEW q, IsList(q, n, T),
           NEW i \in 1..(n + 1), NEW t \in T
    PROVE  /\ IsList(Board!InsertAt(q, i, t), n + 1, T)
           /\ Extended(Board!InsertAt(q, i, t), q, n, i, t)
<1> DEFINE a == SubSeq(q, 1, i - 1)
           b == SubSeq(q, i, n)
           c == a \o <<t>>
<1>0. i \in Nat /\ \A j \in 1..n : q[j] \in T
  BY DEF IsList
<1>1. a \in Seq(T) /\ Len(a) = i - 1 /\ \A j \in 1..(i - 1) : a[j] = q[j]
  <2>1. \A j \in 1..(i - 1) : q[j] \in T
    BY <1>0
  <2>2. /\ a \in Seq(T)
        /\ Len(a) = IF 1 <= i - 1 THEN (i - 1) - 1 + 1 ELSE 0
        /\ \A j \in 1..((i - 1) - 1 + 1) : a[j] = q[1 + j - 1]
    BY <1>0, <2>1, SubSeqProperties
  <2> QED
    BY <1>0, <2>2
<1>2. b \in Seq(T) /\ Len(b) = n - i + 1 /\ \A j \in 1..(n - i + 1) : b[j] = q[j + i - 1]
  <2>1. \A j \in i..n : q[j] \in T
    BY <1>0
  <2>2. /\ b \in Seq(T)
        /\ Len(b) = IF i <= n THEN n - i + 1 ELSE 0
        /\ \A j \in 1..(n - i + 1) : b[j] = q[i + j - 1]
    BY <1>0, <2>1, SubSeqProperties
  <2> QED
    BY <1>0, <2>2
<1>3. Board!InsertAt(q, i, t) = c \o b
  BY ListIsSeq DEF Board!InsertAt
<1>4. /\ c \in Seq(T) /\ Len(c) = i /\ c[i] = t
      /\ \A j \in 1..(i - 1) : c[j] = q[j]
  <2>1. c = Append(a, t)
    BY <1>1, AppendIsConcat
  <2> HIDE DEF a, c
  <2> QED
    BY <1>0, <1>1, <2>1, AppendProperties
<1> HIDE DEF a, b, c
<1>5. /\ c \o b \in Seq(T) /\ Len(c \o b) = Len(c) + Len(b)
      /\ \A j \in 1..(Len(c) + Len(b)) :
            (c \o b)[j] = IF j <= Len(c) THEN c[j] ELSE b[j - Len(c)]
  BY <1>2, <1>4, ConcatProperties
<1>6. c \o b \in [1..(n + 1) -> T]
  <2>1. Len(c \o b) = n + 1
    BY <1>0, <1>2, <1>4, <1>5
  <2>2. c \o b \in [1..Len(c \o b) -> T]
    BY <1>5, LenProperties
  <2> QED
    BY <2>1, <2>2
<1>7. ASSUME NEW j \in 1..(n + 1)
      PROVE  (c \o b)[j] = IF j < i THEN q[j] ELSE IF j = i THEN t ELSE q[j - 1]
  <2>1. (c \o b)[j] = IF j <= i THEN c[j] ELSE b[j - i]
    <3>1. j \in 1..(Len(c) + Len(b)) /\ Len(c) = i
      BY <1>0, <1>2, <1>4
    <3> QED
      BY <1>5, <3>1
  <2>2. CASE j <= i
    BY <1>0, <1>4, <2>1, <2>2
  <2>3. CASE j > i
    <3>1. j - i \in 1..(n - i + 1)
      BY <1>0, <2>3
    <3>2. b[j - i] = q[(j - i) + i - 1]
      BY <1>2, <3>1
    <3> QED
      BY <1>0, <2>1, <2>3, <3>2
  <2>4. j <= i \/ j > i
    BY <1>0
  <2> QED
    BY <2>2, <2>3, <2>4
<1> QED
  BY <1>3, <1>6, <1>7 DEF IsList, Extended

(* Inserting at the end is appending. *)
LEMMA InsertAtEnd ==
    ASSUME NEW T, NEW n \in Nat, NEW q, IsList(q, n, T), NEW t \in T
    PROVE  Board!InsertAt(q, n + 1, t) = Append(q, t)
<1> DEFINE i == n + 1
           w == Board!InsertAt(q, i, t)
           v == Append(q, t)
<1>1. i \in 1..(n + 1) /\ i = n + 1
  OBVIOUS
<1>2. v \in [1..i -> T] /\ v[i] = t /\ \A j \in 1..n : v[j] = q[j]
  <2>1. q \in Seq(T) /\ Len(q) = n
    BY ListIsSeq
  <2>2. /\ v \in Seq(T) /\ Len(v) = n + 1
        /\ v[n + 1] = t /\ \A j \in 1..n : v[j] = q[j]
    BY <2>1, AppendProperties
  <2> HIDE DEF v
  <2> QED
    BY <2>2, LenProperties
<1> HIDE DEF i
<1>3. /\ IsList(w, n + 1, T)
      /\ \A j \in 1..(n + 1) :
            w[j] = IF j < i THEN q[j] ELSE IF j = i THEN t ELSE q[j - 1]
  <2>1. IsList(w, n + 1, T)
    BY <1>1, InsertAtIs
  <2>2. Extended(w, q, n, i, t)
    BY <1>1, InsertAtIs
  <2> QED
    BY <2>1, <2>2 DEF Extended
<1> HIDE DEF w, v
<1>4. \A j \in 1..i : w[j] = v[j]
  BY <1>1, <1>2, <1>3
<1>5. w = v
  BY <1>1, <1>2, <1>3, <1>4 DEF IsList
<1> QED
  BY <1>5 DEF i, w, v

(* S is a contiguous column of n tasks.  Its positions become r when t leaves it,
   when t enters it at p, and when nothing happens to it. *)
IsColumn(S, pos, n) ==
    /\ S \in SUBSET Tasks /\ pos \in [Tasks -> Nat] /\ n \in Nat
    /\ Contiguous(S, pos) /\ IsLength(n, S, pos)
Leaves(S, pos, t, r) ==
    /\ t \in S /\ r \in [Tasks -> Nat]
    /\ \A u \in S \ {t} : r[u] = Closed(pos, S \ {t}, pos[t])[u]
Enters(S, pos, n, t, p, r) ==
    /\ t \in Tasks \ S /\ p \in 0..n /\ r \in [Tasks -> Nat] /\ r[t] = p
    /\ \A u \in S : r[u] = Opened(pos, S, p)[u]
Stays(S, pos, r) == r \in [Tasks -> Nat] /\ \A u \in S : r[u] = pos[u]

(* A list whose task leaves: the gap is closed. *)
LEMMA ListedRemoves ==
    ASSUME NEW S, NEW pos, NEW n, IsColumn(S, pos, n), NEW t, NEW r, Leaves(S, pos, t, r)
    PROVE  /\ pos[t] + 1 \in 1..n /\ Listed(S, pos)[pos[t] + 1] = t
           /\ Listed(S \ {t}, r) = Board!RemoveAt(Listed(S, pos), pos[t] + 1)
           /\ IsColumn(S \ {t}, r, n - 1)
<1> USE DEF IsColumn, Leaves
<1> DEFINE q == Listed(S, pos)
           i == pos[t] + 1
           w == Board!RemoveAt(q, i)
<1>1. Lists(q, n, S, pos)
  BY ListedIs
<1> HIDE DEF q
<1>a. IsList(q, n, S) /\ q \in [1..n -> S] /\ \A j \in 1..n : pos[q[j]] = j - 1
  BY <1>1 DEF Lists, IsList
<1>2. i \in 1..n
  BY DEF IsLength
<1>3. q[i] = t
  BY <1>a, <1>2 DEF Contiguous, NoTies
<1> HIDE DEF i
<1>5. /\ IsList(w, n - 1, S)
      /\ \A j \in 1..(n - 1) : w[j] = IF j < i THEN q[j] ELSE q[j + 1]
  <2>1. IsList(w, n - 1, S)
    BY <1>a, <1>2, RemoveAtIs
  <2>2. Shortened(w, q, n, i)
    BY <1>a, <1>2, RemoveAtIs
  <2> QED
    BY <2>1, <2>2 DEF Shortened
<1> HIDE DEF w
<1>6. ASSUME NEW j \in 1..(n - 1)
      PROVE  w[j] \in S \ {t} /\ r[w[j]] = j - 1
  <2>0. j \in Nat /\ i \in Nat /\ i = pos[t] + 1 /\ pos[t] \in Nat
    BY <1>2 DEF i
  <2>1. CASE j < i
    <3>1. w[j] = q[j] /\ q[j] \in S /\ pos[q[j]] = j - 1
      BY <1>a, <1>5, <2>1
    <3>2. q[j] # t /\ ~(pos[q[j]] > pos[t])
      BY <2>0, <2>1, <3>1
    <3> QED
      BY <2>0, <3>1, <3>2 DEF Closed
  <2>2. CASE j >= i
    <3>0. j + 1 \in 1..n /\ ~(j < i) /\ (j + 1) - 1 = j
      BY <2>0, <2>2
    <3>1. w[j] = q[j + 1] /\ q[j + 1] \in S /\ pos[q[j + 1]] = j
      BY <1>a, <1>5, <3>0
    <3>2. q[j + 1] # t /\ pos[q[j + 1]] > pos[t]
      BY <2>0, <2>2, <3>1
    <3> QED
      BY <2>0, <3>1, <3>2 DEF Closed
  <2>3. j < i \/ j >= i
    BY <2>0
  <2> QED
    BY <2>1, <2>2, <2>3
<1>7. Lists(w, n - 1, S \ {t}, r)
  BY <1>5, <1>6 DEF Lists, IsList
<1>8. Contiguous(S \ {t}, r)
  <2>1. Contiguous(S \ {t}, Closed(pos, S \ {t}, pos[t])) /\ S \ {t} \in SUBSET Tasks
    BY ClosedContiguous
  <2> QED
    BY <2>1, SamePositions
<1>9. n - 1 \in Nat /\ IsLength(n - 1, S \ {t}, r)
  <2>1. n - 1 \in Nat
    BY <1>2
  <2>2. ASSUME NEW u \in S \ {t} PROVE r[u] < n - 1
    <3>1. pos[u] # pos[t] /\ pos[u] < n /\ pos[t] < n /\ pos[u] \in Nat /\ pos[t] \in Nat
      BY DEF IsLength, Contiguous, NoTies
    <3>2. r[u] = IF pos[u] > pos[t] THEN pos[u] - 1 ELSE pos[u]
      BY DEF Closed
    <3> QED
      BY <2>1, <3>1, <3>2
  <2>3. n - 1 = 0 \/ \E u \in S \ {t} : r[u] = (n - 1) - 1
    BY <1>6, <2>1
  <2> QED
    BY <2>1, <2>2, <2>3 DEF IsLength
<1>10. Listed(S \ {t}, r) = w
  <2>1. S \ {t} \in SUBSET Tasks
    OBVIOUS
  <2> QED
    BY <2>1, <1>7, <1>8, <1>9, ListedOnly
<1> QED
  BY <1>2, <1>3, <1>8, <1>9, <1>10 DEF q, i, w

(* A list that makes room and takes a task in. *)
LEMMA ListedInserts ==
    ASSUME NEW S, NEW pos, NEW n, IsColumn(S, pos, n),
           NEW t, NEW p, NEW r, Enters(S, pos, n, t, p, r)
    PROVE  /\ Listed(S \cup {t}, r) = Board!InsertAt(Listed(S, pos), p + 1, t)
           /\ IsColumn(S \cup {t}, r, n + 1)
<1> USE DEF IsColumn, Enters
<1> DEFINE q == Listed(S, pos)
           w == Board!InsertAt(q, p + 1, t)
<1>1. Lists(q, n, S, pos)
  BY ListedIs
<1> HIDE DEF q
<1>a. IsList(q, n, S) /\ q \in [1..n -> S] /\ \A j \in 1..n : pos[q[j]] = j - 1
  BY <1>1 DEF Lists, IsList
<1>3. /\ IsList(w, n + 1, Tasks)
      /\ \A j \in 1..(n + 1) :
            w[j] = IF j < p + 1 THEN q[j] ELSE IF j = p + 1 THEN t ELSE q[j - 1]
  <2> DEFINE i == p + 1
  <2>1. i \in 1..(n + 1) /\ t \in Tasks /\ IsList(q, n, Tasks)
    BY <1>a DEF IsList
  <2>2. w = Board!InsertAt(q, i, t)
    OBVIOUS
  <2> HIDE DEF i, w
  <2>3. /\ IsList(w, n + 1, Tasks)
        /\ \A j \in 1..(n + 1) :
              w[j] = IF j < i THEN q[j] ELSE IF j = i THEN t ELSE q[j - 1]
    <3>1. IsList(w, n + 1, Tasks)
      BY <2>1, <2>2, InsertAtIs
    <3>2. Extended(w, q, n, i, t)
      BY <2>1, <2>2, InsertAtIs
    <3> QED
      BY <3>1, <3>2 DEF Extended
  <2> QED
    BY <2>3 DEF i
<1> HIDE DEF w
<1>4. ASSUME NEW j \in 1..(n + 1)
      PROVE  w[j] \in S \cup {t} /\ r[w[j]] = j - 1
  <2>0. j \in Nat /\ p \in Nat
    OBVIOUS
  <2>1. CASE j < p + 1
    <3>1. w[j] = q[j] /\ q[j] \in S /\ pos[q[j]] = j - 1
      BY <1>a, <1>3, <2>1
    <3>2. ~(pos[q[j]] >= p)
      BY <2>0, <2>1, <3>1
    <3> QED
      BY <2>0, <3>1, <3>2 DEF Opened
  <2>2. CASE j = p + 1
    <3>1. w[j] = t
      BY <1>3, <2>0, <2>2
    <3> QED
      BY <2>0, <2>2, <3>1
  <2>3. CASE j > p + 1
    <3>0. j - 1 \in 1..n /\ ~(j < p + 1) /\ j # p + 1 /\ (j - 1) - 1 = j - 2
      BY <2>0, <2>3
    <3>1. w[j] = q[j - 1] /\ q[j - 1] \in S /\ pos[q[j - 1]] = j - 2
      BY <1>a, <1>3, <3>0
    <3>2. pos[q[j - 1]] >= p
      BY <2>0, <2>3, <3>1
    <3>3. r[q[j - 1]] = pos[q[j - 1]] + 1
      BY <3>1, <3>2 DEF Opened
    <3> QED
      BY <2>0, <3>1, <3>3
  <2>4. j < p + 1 \/ j = p + 1 \/ j > p + 1
    BY <2>0
  <2> QED
    BY <2>1, <2>2, <2>3, <2>4
<1>5. Lists(w, n + 1, S \cup {t}, r)
  BY <1>3, <1>4 DEF Lists, IsList
<1>6. Contiguous(S \cup {t}, r)
  <2>1. p = 0 \/ \E u \in S : pos[u] = p - 1
    <3>1. CASE p # 0
      <4>1. p \in 1..n
        BY <3>1
      <4> QED
        BY <1>a, <4>1
    <3> QED
      BY <3>1
  <2> DEFINE o == [Opened(pos, S, p) EXCEPT ![t] = p]
             T == S \cup {t}
  <2>2. Contiguous(T, o)
    BY <2>1, OpenedContiguous
  <2>3. \A u \in T : r[u] = o[u]
    BY DEF Opened
  <2>4. T \in SUBSET Tasks
    OBVIOUS
  <2> HIDE DEF o, T
  <2>5. Contiguous(T, r)
    BY <2>2, <2>3, <2>4, SamePositions
  <2> QED
    BY <2>5 DEF T
<1>7. IsLength(n + 1, S \cup {t}, r)
  <2>1. ASSUME NEW u \in S \cup {t} PROVE r[u] < n + 1
    <3>1. CASE u = t
      BY <3>1
    <3>2. CASE u # t
      <4>1. u \in S /\ pos[u] \in Nat /\ pos[u] < n
        BY <3>2 DEF IsLength
      <4>2. r[u] = IF pos[u] >= p THEN pos[u] + 1 ELSE pos[u]
        BY <4>1 DEF Opened
      <4> QED
        BY <4>1, <4>2
    <3> QED
      BY <3>1, <3>2
  <2>2. w[n + 1] \in S \cup {t} /\ r[w[n + 1]] = (n + 1) - 1
    BY <1>4
  <2> QED
    BY <2>1, <2>2 DEF IsLength
<1>8. Listed(S \cup {t}, r) = w
  <2>1. S \cup {t} \in SUBSET Tasks
    OBVIOUS
  <2> QED
    BY <2>1, <1>5, <1>6, <1>7, ListedOnly
<1> QED
  BY <1>6, <1>7, <1>8 DEF q, w

(* A list nothing is done to. *)
LEMMA ListedStays ==
    ASSUME NEW S, NEW pos, NEW n, IsColumn(S, pos, n), NEW r, Stays(S, pos, r)
    PROVE  Listed(S, r) = Listed(S, pos) /\ IsColumn(S, r, n)
<1> USE DEF IsColumn, Stays
<1>1. IsLength(n, S, r) /\ Contiguous(S, r)
  BY SamePositions DEF IsLength
<1>2. Lists(Listed(S, pos), n, S, pos)
  BY ListedIs
<1>3. Lists(Listed(S, pos), n, S, r)
  BY <1>2 DEF Lists, IsList
<1> QED
  BY <1>1, <1>3, ListedOnly

-----------------------------------------------------------------------------
(* The columns are contiguous and finite. *)
ColumnsListed == \A s \in Stages : \E n : IsColumn(Column(s), position, n)

(* What Columns sees of the tasks table. *)
Shown == [s \in Stages |-> Listed(Column(s), position)]
Given == {t \in Tasks : stage[t] # "new"}

(* Its length is that of the column. *)
LEMMA ShownLength ==
    ASSUME NEW s \in Stages, NEW n, IsColumn(Column(s), position, n)
    PROVE  IsList(Shown[s], n, Tasks) /\ Len(Shown[s]) = n
<1> USE DEF IsColumn
<1>1. Lists(Shown[s], n, Column(s), position)
  BY ListedIs DEF Shown
<1>2. IsList(Shown[s], n, Tasks) /\ n \in Nat
  BY <1>1 DEF Lists, IsList
<1> QED
  BY <1>2, ListIsSeq

(* A column nothing happens to is shown as before. *)
LEMMA ShownStays ==
    ASSUME NEW s \in Stages, ColumnsListed, position' \in [Tasks -> Nat],
           Column(s)' = Column(s), \A u \in Column(s) : position'[u] = position[u]
    PROVE  Shown'[s] = Shown[s] /\ \E n : IsColumn(Column(s)', position', n)
<1>1. PICK n : IsColumn(Column(s), position, n)
  BY DEF ColumnsListed
<1>2. Stays(Column(s), position, position')
  BY DEF Stays
<1>3. Listed(Column(s), position') = Listed(Column(s), position)
  BY <1>1, <1>2, ListedStays
<1>4. IsColumn(Column(s), position', n)
  BY <1>1, <1>2, ListedStays
<1> QED
  BY <1>3, <1>4 DEF Shown

(* A task inserted at the next position is added at the bottom. *)
LEMMA InsertAdds ==
    ASSUME TypeOK, ColumnsListed,
           NEW x \in Tasks, stage[x] = "new", NEW s \in Stages, NEW p \in Nat,
           IsNextPosition(p, s),
           position' = [position EXCEPT ![x] = p],
           stage' = [stage EXCEPT ![x] = s]
    PROVE  Board!Add(x, s) /\ ColumnsListed'
<1>1. /\ position' \in [Tasks -> Nat]
      /\ position'[x] = p /\ \A u \in Tasks \ {x} : position'[u] = position[u]
      /\ \A r \in Stages : Column(r) \in SUBSET Tasks /\ x \notin Column(r)
  BY KanbanConstants DEF TypeOK, Column
<1>2. ASSUME NEW r \in Stages, r # s
      PROVE  Shown'[r] = Shown[r] /\ \E n : IsColumn(Column(r)', position', n)
  <2>1. Column(r)' = Column(r) /\ \A u \in Column(r) : position'[u] = position[u]
    BY <1>1, <1>2 DEF Column, TypeOK
  <2> QED
    BY <1>1, <2>1, ShownStays
<1>3. Shown'[s] = Append(Shown[s], x) /\ \E n : IsColumn(Column(s)', position', n)
  <2> DEFINE S == Column(s)
  <2>1. Column(s)' = S \cup {x} /\ x \notin S
    BY <1>1 DEF Column, TypeOK
  <2>2. IsColumn(S, position, p)
    <3>1. PICK n : IsColumn(S, position, n)
      BY DEF ColumnsListed
    <3>2. IsLength(p, S, position)
      BY DEF IsLength, IsNextPosition
    <3> QED
      BY <3>1, <3>2 DEF IsColumn
  <2>3. Enters(S, position, p, x, p, position')
    <3>1. \A u \in S : position'[u] = Opened(position, S, p)[u]
      BY <1>1 DEF Opened, IsNextPosition
    <3> QED
      BY <1>1, <2>1, <3>1 DEF Enters
  <2>4. Shown[s] = Listed(S, position) /\ Shown'[s] = Listed(Column(s)', position')
    BY DEF Shown
  <2> HIDE DEF S
  <2>5. /\ Listed(S \cup {x}, position') = Board!InsertAt(Listed(S, position), p + 1, x)
        /\ IsColumn(S \cup {x}, position', p + 1)
    BY <2>2, <2>3, ListedInserts
  <2>6. IsList(Shown[s], p, Tasks)
    BY <2>2, ShownLength DEF S
  <2>7. Board!InsertAt(Shown[s], p + 1, x) = Append(Shown[s], x)
    <3> DEFINE q == Shown[s]
    <3>1. IsList(q, p, Tasks)
      BY <2>6
    <3> HIDE DEF q
    <3>2. Board!InsertAt(q, p + 1, x) = Append(q, x)
      BY <3>1, InsertAtEnd
    <3> QED
      BY <3>2 DEF q
  <2>8. Shown'[s] = Append(Shown[s], x)
    BY <2>1, <2>4, <2>5, <2>7
  <2>9. IsColumn(Column(s)', position', p + 1)
    BY <2>1, <2>5
  <2> QED
    BY <2>8, <2>9
<1>4. ColumnsListed'
  BY <1>2, <1>3 DEF ColumnsListed
<1>5. Shown' = [Shown EXCEPT ![s] = Append(@, x)]
  BY <1>2, <1>3 DEF Shown
<1>6. x \notin Given /\ Given' = Given \cup {x}
  BY KanbanConstants DEF Given, TypeOK
<1> QED
  BY <1>4, <1>5, <1>6 DEF Board!Add, Shown, Given

(* A column that x leaves, whatever happens to x then. *)
LEMMA ShownLeft ==
    ASSUME TypeOK, ColumnsListed, NEW x \in Tasks, Exists(x)
    PROVE  /\ Without(x) \in [Tasks -> Nat]
           /\ position[x] + 1 \in 1..Len(Shown[stage[x]])
           /\ Shown[stage[x]][position[x] + 1] = x
           /\ [s \in Stages |-> Listed(Column(s) \ {x}, Without(x))]
                  = [Shown EXCEPT ![stage[x]] = Board!RemoveAt(@, position[x] + 1)]
           /\ \A s \in Stages : \E n : IsColumn(Column(s) \ {x}, Without(x), n)
<1> DEFINE y == stage[x]
           left == Without(x)
<1>1. /\ position \in [Tasks -> Nat] /\ y \in Stages /\ x \in Column(y)
      /\ \A r \in Stages : Column(r) \in SUBSET Tasks
      /\ \A r \in Stages : r # y => x \notin Column(r)
  BY DEF TypeOK, Exists, Column
<1>2. left \in [Tasks -> Nat]
  BY <1>1, ClosedType DEF Without
<1>3. PICK n : IsColumn(Column(y), position, n)
  BY <1>1 DEF ColumnsListed
<1>4. Leaves(Column(y), position, x, left)
  BY <1>1, <1>2 DEF Leaves, Without
<1>5. /\ position[x] + 1 \in 1..n /\ Listed(Column(y), position)[position[x] + 1] = x
      /\ Listed(Column(y) \ {x}, left) = Board!RemoveAt(Listed(Column(y), position), position[x] + 1)
      /\ IsColumn(Column(y) \ {x}, left, n - 1)
  <2> HIDE DEF left, y
  <2> QED
    BY <1>3, <1>4, ListedRemoves
<1>6. ASSUME NEW r \in Stages, r # y
      PROVE  /\ Listed(Column(r) \ {x}, left) = Shown[r]
             /\ \E m : IsColumn(Column(r) \ {x}, left, m)
  <2>1. Column(r) \ {x} = Column(r)
    BY <1>1, <1>6
  <2>2. PICK m : IsColumn(Column(r), position, m)
    BY DEF ColumnsListed
  <2>3. \A u \in Column(r) : left[u] = position[u]
    BY <1>1, <1>6 DEF Without, Closed, Column
  <2> HIDE DEF left
  <2>4. Stays(Column(r), position, left)
    BY <1>2, <2>3 DEF Stays
  <2>5. Listed(Column(r), left) = Listed(Column(r), position) /\ IsColumn(Column(r), left, m)
    BY <2>2, <2>4, ListedStays
  <2> QED
    BY <2>1, <2>5 DEF Shown
<1>7. Len(Shown[y]) = n
  BY <1>1, <1>3, ShownLength
<1>8. \A s \in Stages : \E m : IsColumn(Column(s) \ {x}, left, m)
  BY <1>5, <1>6
<1>9. Shown[y] = Listed(Column(y), position)
  BY <1>1 DEF Shown
<1> HIDE DEF left
<1>10. [s \in Stages |-> Listed(Column(s) \ {x}, left)]
           = [Shown EXCEPT ![y] = Board!RemoveAt(@, position[x] + 1)]
  <2>1. \A s \in Stages : Listed(Column(s) \ {x}, left) =
            IF s = y THEN Board!RemoveAt(Shown[y], position[x] + 1) ELSE Shown[s]
    BY <1>5, <1>6, <1>9
  <2> QED
    BY <1>1, <2>1 DEF Shown
<1> QED
  BY <1>2, <1>5, <1>7, <1>8, <1>9, <1>10 DEF left

(* A task deleted from its column is taken out of it. *)
LEMMA DeleteTakes ==
    ASSUME TypeOK, ColumnsListed, NEW x \in Tasks, Exists(x), position' = Without(x),
           stage' = [stage EXCEPT ![x] = "deleted"]
    PROVE  Board!Take(stage[x], position[x] + 1) /\ ColumnsListed'
<1>2. \A r \in Stages : Column(r)' = Column(r) \ {x}
  BY KanbanConstants DEF TypeOK, Exists, Column
<1>3. ColumnsListed'
  <2>1. ASSUME NEW r \in Stages PROVE \E n : IsColumn(Column(r)', position', n)
    <3>1. PICK n : IsColumn(Column(r) \ {x}, Without(x), n)
      BY ShownLeft
    <3> QED
      BY <1>2, <3>1
  <2> QED
    BY <2>1 DEF ColumnsListed
<1>4. Shown' = [s \in Stages |-> Listed(Column(s) \ {x}, Without(x))]
  BY <1>2 DEF Shown
<1>5. Shown' = [Shown EXCEPT ![stage[x]] = Board!RemoveAt(@, position[x] + 1)]
  BY <1>4, ShownLeft
<1>6. Given' = Given
  BY KanbanConstants DEF Given, TypeOK, Exists
<1> QED
  BY <1>3, <1>5, <1>6 DEF Board!Take, Shown, Given

(* A task that is moved is taken out of its column and put into one. *)
LEMMA MoveTakes ==
    ASSUME TypeOK, ColumnsListed,
           NEW x \in Tasks, Exists(x), NEW s \in Stages, NEW p \in Nat, Fits(Without(x), x, s, p),
           position' = [Opened(Without(x), Column(s) \ {x}, p) EXCEPT ![x] = p],
           stage' = [stage EXCEPT ![x] = s]
    PROVE  Board!Take(stage[x], position[x] + 1) /\ ColumnsListed'
<1> DEFINE left == [r \in Stages |-> Listed(Column(r) \ {x}, Without(x))]
<1>1. /\ Without(x) \in [Tasks -> Nat]
      /\ Shown[stage[x]][position[x] + 1] = x
      /\ left = [Shown EXCEPT ![stage[x]] = Board!RemoveAt(@, position[x] + 1)]
  BY ShownLeft
<1>2. \A r \in Stages : \E n : IsColumn(Column(r) \ {x}, Without(x), n)
  BY ShownLeft
<1>3. /\ Opened(Without(x), Column(s) \ {x}, p) \in [Tasks -> Nat]
      /\ position' \in [Tasks -> Nat] /\ position'[x] = p
      /\ \A u \in Tasks \ {x} : position'[u] = Opened(Without(x), Column(s) \ {x}, p)[u]
  <2>1. Column(s) \ {x} \in SUBSET Tasks
    BY DEF Column
  <2>2. Opened(Without(x), Column(s) \ {x}, p) \in [Tasks -> Nat]
    BY <1>1, <2>1, OpenedType
  <2> QED
    BY <2>2
<1>4. PICK n : IsColumn(Column(s) \ {x}, Without(x), n)
  BY <1>2
<1>5. Enters(Column(s) \ {x}, Without(x), n, x, p, position')
  <2>1. p \in 0..n
    <3>1. n \in Nat /\ \A u \in Column(s) \ {x} : Without(x)[u] < n
      BY <1>4 DEF IsColumn, IsLength
    <3>2. p = 0 \/ \E u \in Column(s) \ {x} : Without(x)[u] = p - 1
      BY DEF Fits
    <3> QED
      BY <3>1, <3>2
  <2>2. \A u \in Column(s) \ {x} : position'[u] = Opened(Without(x), Column(s) \ {x}, p)[u]
    BY <1>3 DEF Column
  <2> QED
    BY <1>3, <2>1, <2>2 DEF Enters
<1>6. /\ Shown'[s] = Board!InsertAt(left[s], p + 1, x)
      /\ IsColumn(Column(s)', position', n + 1)
  <2> DEFINE S == Column(s) \ {x}
  <2>1. Column(s)' = S \cup {x}
    BY DEF Column, TypeOK
  <2>2. left[s] = Listed(S, Without(x)) /\ Shown'[s] = Listed(Column(s)', position')
    BY DEF Shown
  <2> HIDE DEF S
  <2>3. /\ Listed(S \cup {x}, position') = Board!InsertAt(Listed(S, Without(x)), p + 1, x)
        /\ IsColumn(S \cup {x}, position', n + 1)
    BY <1>4, <1>5, ListedInserts DEF S
  <2> HIDE DEF left
  <2> QED
    BY <2>1, <2>2, <2>3
<1>7. ASSUME NEW r \in Stages, r # s
      PROVE  Shown'[r] = left[r] /\ \E m : IsColumn(Column(r)', position', m)
  <2> DEFINE S == Column(r) \ {x}
  <2>1. Column(r)' = S
    BY <1>7 DEF Column, TypeOK
  <2>2. left[r] = Listed(S, Without(x)) /\ Shown'[r] = Listed(Column(r)', position')
    BY DEF Shown
  <2>3. \A u \in S : position'[u] = Without(x)[u]
    BY <1>1, <1>3, <1>7 DEF Opened, Column
  <2>4. PICK m : IsColumn(S, Without(x), m)
    BY <1>2
  <2> HIDE DEF S, left
  <2>5. Stays(S, Without(x), position')
    BY <1>3, <2>3 DEF Stays
  <2>6. Listed(S, position') = Listed(S, Without(x)) /\ IsColumn(S, position', m)
    BY <2>4, <2>5, ListedStays
  <2> QED
    BY <2>1, <2>2, <2>6
<1>8. ColumnsListed'
  BY <1>6, <1>7 DEF ColumnsListed
<1>9. Given' = Given
  BY KanbanConstants DEF Given, TypeOK, Exists
<1>10. p + 1 \in 1..Len(left[s]) + 1
  <2>1. Len(left[s]) = n
    <3>1. Lists(Listed(Column(s) \ {x}, Without(x)), n, Column(s) \ {x}, Without(x)) /\ n \in Nat
      BY <1>4, ListedIs DEF IsColumn
    <3> QED
      BY <3>1, ListIsSeq DEF Lists
  <2> QED
    BY <1>5, <2>1 DEF Enters
<1> HIDE DEF left
<1>11. Shown' = [left EXCEPT ![s] = Board!InsertAt(@, p + 1, x)]
  BY <1>6, <1>7 DEF Shown, left
<1>12. \E r \in Stages : \E k \in 1..Len(left[r]) + 1 :
           Shown' = [left EXCEPT ![r] = Board!InsertAt(@, k, Shown[stage[x]][position[x] + 1])]
  BY <1>1, <1>10, <1>11
<1>13. \E r \in Stages :
           \E k \in 1..Len([Shown EXCEPT ![stage[x]] = Board!RemoveAt(@, position[x] + 1)][r]) + 1 :
               Shown' = [[Shown EXCEPT ![stage[x]] = Board!RemoveAt(@, position[x] + 1)]
                            EXCEPT ![r] = Board!InsertAt(@, k, Shown[stage[x]][position[x] + 1])]
  BY <1>1, <1>12
<1>14. Board!Take(stage[x], position[x] + 1)
  BY <1>9, <1>13 DEF Board!Take, Shown, Given
<1> QED
  BY <1>8, <1>14

(* What changes no column is not seen in the lists. *)
LEMMA NothingShown ==
    ASSUME ColumnsListed, UNCHANGED <<stage, position>>
    PROVE  Shown' = Shown /\ Given' = Given /\ ColumnsListed'
<1>1. \A s \in Stages : Column(s)' = Column(s)
  BY DEF Column
<1> QED
  BY <1>1 DEF Shown, Given, ColumnsListed

(* A commit that mars nothing is an addition, a removal or a move of Columns. *)
LEMMA CommitShows ==
    ASSUME TypeOK, KanbanInv, ColumnsListed, NEW h \in Handlers, Commits(h), marred' = {}
    PROVE  /\ ColumnsListed'
           /\ \/ \E x \in Tasks, s \in Stages : Board!Add(x, s)
              \/ \E s \in Stages : \E i \in 1..Len(Shown[s]) : Board!Take(s, i)
<1> DEFINE j == job[h]
           t == j.task
<1>1. CASE InsertTask(h)
  <2>1. h \notin misled
    BY <1>1 DEF InsertTask, Commit, About
  <2>2. FreshJob(h) /\ HeldJob(h)
    BY <2>1 DEF KanbanInv
  <2>3. /\ t \in Tasks /\ j.to \in Stages /\ j.pos \in Nat /\ stage[t] = "new"
        /\ IsNextPosition(j.pos, j.to)
    BY <1>1, <2>2, JobKinds DEF InsertTask, TypeOK, InsertJobs, FreshJob, HeldJob
  <2>4. position' = [position EXCEPT ![t] = j.pos] /\ stage' = [stage EXCEPT ![t] = j.to]
    BY <1>1 DEF InsertTask
  <2>5. PICK x \in Tasks, s \in Stages, p \in Nat :
            /\ stage[x] = "new" /\ IsNextPosition(p, s)
            /\ position' = [position EXCEPT ![x] = p] /\ stage' = [stage EXCEPT ![x] = s]
    BY <2>3, <2>4
  <2>6. Board!Add(x, s) /\ ColumnsListed'
    BY <2>5, InsertAdds
  <2> QED
    BY <2>6
<1>t. ASSUME NEW x \in Tasks, Exists(x), Board!Take(stage[x], position[x] + 1)
      PROVE  \E s \in Stages : \E i \in 1..Len(Shown[s]) : Board!Take(s, i)
  <2>1. stage[x] \in Stages /\ position[x] + 1 \in 1..Len(Shown[stage[x]])
    BY <1>t, ShownLeft DEF Exists
  <2> QED
    BY <1>t, <2>1
<1>2. CASE PlaceTask(h) /\ Exists(t)
  <2>1. /\ t \in Tasks /\ j.to \in Stages /\ j.pos \in Nat /\ j.at = "open"
        /\ stage' = [stage EXCEPT ![t] = j.to]
        /\ Commit(h, IF Fits(Seen(h), t, j.to, j.pos) THEN {} ELSE {j.to})
    BY <1>2, PlaceFacts
  <2>2. j.to \in About(h)
    BY <2>1 DEF About
  <2>3. h \notin misled /\ Fits(Seen(h), t, j.to, j.pos)
    BY <2>1, <2>2 DEF Commit
  <2>4. FreshJob(h)
    BY <2>3 DEF KanbanInv
  <2>5. /\ Seen(h) = Without(t)
        /\ position' = [Opened(Without(t), Column(j.to) \ {t}, j.pos) EXCEPT ![t] = j.pos]
    BY <1>2, <2>4, PlaceFresh
  <2>6. Fits(Without(t), t, j.to, j.pos)
    BY <2>3, <2>5
  <2> HIDE DEF j, t
  <2>7. Board!Take(stage[t], position[t] + 1) /\ ColumnsListed'
    BY <1>2, <2>1, <2>5, <2>6, MoveTakes
  <2> QED
    BY <1>t, <1>2, <2>1, <2>7
<1>3. CASE CloseDeleted(h)
  <2>1. /\ t \in Tasks /\ Exists(t) /\ stage' = [stage EXCEPT ![t] = "deleted"]
        /\ Commit(h, {}) /\ About(h) = {stage[t]}
    BY <1>3, DeletedFacts
  <2>2. h \notin misled
    BY <2>1 DEF Commit
  <2>3. FreshJob(h)
    BY <2>2 DEF KanbanInv
  <2>4. position' = Without(t)
    BY <1>3, <2>3, DeletedFresh
  <2> HIDE DEF j, t
  <2>5. Board!Take(stage[t], position[t] + 1) /\ ColumnsListed'
    BY <2>1, <2>4, DeleteTakes
  <2> QED
    BY <1>t, <2>1, <2>5
<1> QED
  BY <1>1, <1>2, <1>3 DEF Commits

(* task_repo.go:119.  However requests overlap and fail, as long as no column is marred
   the board behaves as its users see it: every step maps to an addition, a removal
   or a move of Columns, or to none. *)
THEOREM KanbanImplementsColumns == Spec => ImplementsColumns
<1> DEFINE Kept == marred = {} => ColumnsListed
<1>1. Init => Board!Init /\ Kept
  <2> SUFFICES ASSUME Init PROVE Board!Init /\ ColumnsListed
    OBVIOUS
  <2>1. \A s \in Stages : Column(s) = {}
    BY KanbanConstants DEF Init, Column
  <2>2. IsColumn({}, position, 0)
    BY DEF Init, IsColumn, IsLength, Contiguous, NoTies, NoGaps
  <2>3. Listed({}, position) = << >>
    <3>1. Lists(Listed({}, position), 0, {}, position)
      BY <2>2, ListedIs DEF IsColumn
    <3>2. Listed({}, position) \in Seq({}) /\ Len(Listed({}, position)) = 0
      BY <3>1, ListIsSeq DEF Lists
    <3> QED
      BY <3>2, EmptySeq
  <2>4. ColumnsListed
    BY <2>1, <2>2 DEF ColumnsListed
  <2>5. Shown = [s \in Stages |-> << >>] /\ Given = {} /\ marred = {}
    BY <2>1, <2>3 DEF Shown, Given, Init
  <2> QED
    BY <2>4, <2>5 DEF Board!Init, Shown, Given
<1>2. TypeOK /\ KanbanInv /\ Kept /\ [Next]_vars => [Board!Next]_(Board!vars) /\ Kept'
  <2> SUFFICES ASSUME TypeOK, KanbanInv, Kept, [Next]_vars
               PROVE  Board!Next /\ Kept'
    OBVIOUS
  <2>1. CASE marred' # {}
    BY <2>1 DEF Board!Next
  <2>2. CASE marred' = {}
    <3>1. marred = {} /\ ColumnsListed
      <4>1. marred \subseteq marred'
        BY StepKinds, CommitsKeep
      <4> QED
        BY <2>2, <4>1
    <3>2. CASE UNCHANGED <<stage, position, marred>>
      <4>1. Shown' = Shown /\ Given' = Given /\ ColumnsListed'
        BY <3>1, <3>2, NothingShown
      <4> QED
        BY <2>2, <3>1, <4>1 DEF Board!Next, Board!Change, Shown, Given
    <3>3. ASSUME NEW h \in Handlers, Commits(h)
          PROVE  Board!Next /\ Kept'
      <4>1. /\ ColumnsListed'
            /\ \/ \E x \in Tasks, s \in Stages : Board!Add(x, s)
               \/ \E s \in Stages : \E i \in 1..Len(Shown[s]) : Board!Take(s, i)
        BY <2>2, <3>1, <3>3, CommitShows
      <4>2. Board!Change
        BY <4>1 DEF Board!Change, Shown
      <4> QED
        BY <2>2, <3>1, <4>1, <4>2 DEF Board!Next
    <3> QED
      BY <3>2, <3>3, StepKinds
  <2> QED
    BY <2>1, <2>2
<1> QED
  BY <1>1, <1>2, RequestsKnow, PTL DEF Spec, ImplementsColumns, Board!Spec

-----------------------------------------------------------------------------
(* The health of a board *)

(* What is reported leaves the tasks alone. *)
LEMMA ReportsTypes == RSpec => [](TypeOK /\ today \in Nat)
<1>1. RInit => Init /\ today \in Nat
  BY DEF RInit
<1>2. [RNext]_rvars => [Next]_vars
  BY DEF RNext, rvars, Edit, NextDay
<1>3. today \in Nat /\ [RNext]_rvars => (today \in Nat)'
  BY DEF RNext, rvars, Edit, NextDay
<1>4. RSpec => Spec
  BY <1>1, <1>2, PTL DEF RSpec, Spec
<1> QED
  BY <1>1, <1>3, <1>4, TypeCorrect, PTL DEF RSpec

(* board_repo.go:149-154, GetBoardHealth.  On a board of any number of tasks, whatever
   their dates, the health gets no better from one day to the next. *)
THEOREM TimeWorsens ==
    ASSUME IsFiniteSet(Tasks)
    PROVE  RSpec => TimeOnlyWorsens
<1>1. TypeOK /\ today \in Nat /\ [RNext]_rvars =>
          [today' # today => Rank[Health'] >= Rank[Health]]_rvars
  <2> SUFFICES ASSUME TypeOK, today \in Nat, [RNext]_rvars, today' # today
               PROVE  Rank[Health'] >= Rank[Health]
    OBVIOUS
  <2>1. today' = today + 1 /\ stage' = stage /\ content' = content
    BY DEF RNext, rvars, Edit, NextDay, vars, row
  <2>2. ASSUME NEW t \in Tasks
        PROVE  Due(t) \in Nat /\ Due(t)' = Due(t)
    <3>1. Due(t) \in Nat
      BY ReportsConstants DEF TypeOK, Contents, Due
    <3> QED
      BY <2>1, <3>1 DEF Due
  <2>3. ASSUME NEW t \in Overdue
        PROVE  t \in Overdue'
    <3>1. t \in Tasks /\ t \in Stored /\ Due(t) # 0 /\ Due(t) < today /\ ~Done(t)
      BY DEF Overdue, Past, Stored
    <3>2. Due(t)' < today' /\ Due(t)' # 0
      BY <2>1, <2>2, <3>1
    <3>3. stage[t]' = stage[t] /\ Exists(t)'
      BY <2>1, <3>1 DEF Stored, Exists
    <3> QED
      BY <3>1, <3>2, <3>3 DEF Overdue, Past, Stored, Done
  <2>4. ASSUME NEW t \in AtRisk
        PROVE  t \in Overdue' \cup AtRisk'
    <3>1. /\ t \in Tasks /\ t \in Stored /\ ~Done(t)
          /\ Due(t) # 0 /\ Due(t) \in today..(today + RiskDays)
      BY DEF AtRisk, DueWithin, Stored
    <3>2. Exists(t)' /\ ~Done(t)' /\ Due(t)' = Due(t) /\ Due(t) \in Nat /\ RiskDays \in Nat
      BY <2>1, <2>2, <3>1, ReportsConstants DEF Stored, Exists, Done
    <3>3. CASE Due(t) < today'
      BY <3>1, <3>2, <3>3 DEF Overdue, Stored, Past
    <3>4. CASE ~(Due(t) < today')
      <4>1. Due(t)' \in today'..(today' + RiskDays)
        BY <2>1, <3>1, <3>2, <3>4
      <4> QED
        BY <3>1, <3>2, <4>1 DEF AtRisk, Stored, DueWithin
    <3> QED
      BY <3>3, <3>4
  <2>5. Overdue \subseteq Overdue' /\ Overdue' \subseteq Tasks
    <3>1. Overdue' \subseteq Tasks
      BY DEF Overdue, Stored
    <3> QED
      BY <2>3, <3>1
  <2>6. Overdue \cup AtRisk # {} => Overdue' \cup AtRisk' # {}
    BY <2>3, <2>4
  <2>7. IsFiniteSet(Overdue')
    BY <2>5, FS_Subset
  <2>8. IsFiniteSet(Overdue) /\ Cardinality(Overdue) <= Cardinality(Overdue')
    BY <2>5, <2>7, FS_Subset
  <2>9. Cardinality(Overdue) \in Nat /\ Cardinality(Overdue') \in Nat /\ Critical \in Nat
    BY <2>7, <2>8, FS_CardinalityType, ReportsConstants
  <2>10. /\ Rank["healthy"] = 0 /\ Rank["warning"] = 1 /\ Rank["critical"] = 2
    BY DEF Rank
  <2>11. CASE Cardinality(Overdue) > Critical
    <3>1. Cardinality(Overdue') > Critical
      BY <2>8, <2>9, <2>11
    <3>2. Health = "critical" /\ Health' = "critical"
      BY <2>11, <3>1 DEF Health
    <3> QED
      BY <2>10, <3>2
  <2>12. CASE ~(Cardinality(Overdue) > Critical) /\ Overdue \cup AtRisk # {}
    <3>1. Health = "warning" /\ Health' \in {"warning", "critical"}
      BY <2>6, <2>12 DEF Health
    <3> QED
      BY <2>10, <3>1
  <2>13. CASE ~(Cardinality(Overdue) > Critical) /\ Overdue \cup AtRisk = {}
    <3>1. Health = "healthy" /\ Health' \in {"healthy", "warning", "critical"}
      BY <2>13 DEF Health
    <3> QED
      BY <2>10, <3>1
  <2> QED
    BY <2>11, <2>12, <2>13
<1> QED
  BY <1>1, ReportsTypes, PTL DEF RSpec, TimeOnlyWorsens

=============================================================================
