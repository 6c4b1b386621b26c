-------------------------- MODULE BoardFlowsProofs --------------------------
(***************************************************************************)
(* The counts of a flow match its diagram and a copy is whole, unless      *)
(* requests overlapped, for any number of flows, diagrams and requests.    *)
(***************************************************************************)
EXTENDS BoardFlows, TLAPS

(* CountsMatch in terms of the tables. *)
RowsMatch ==
    \A f \in live : settled[f] =>
        /\ diagram[f] # NoDoc
        /\ count[f] = Size[diagram[f]]
        /\ shown[f] \in {NoDoc, diagram[f]}

BInv == TypeOK /\ RowsMatch /\ NothingLeft /\ BoardFlowsInv

(* BInv but for Unseen. *)
JobsInv == Writers /\ Copiers /\ NewIds
RowsInv == TypeOK /\ RowsMatch /\ NothingLeft /\ JobsInv

Jobs == Saves \cup Copies \cup {Idle}

-----------------------------------------------------------------------------
(* The kinds of job, told apart by where they are. *)
LEMMA SaveFacts ==
    ASSUME NEW r \in Saves
    PROVE  /\ r.at \in {"upsert", "counts", "publish"} /\ r.flow \in FlowIds
           /\ r.doc \in Docs /\ r.alone \in BOOLEAN /\ r # Idle
  BY DEF Saves, Idle

LEMMA CopyFacts ==
    ASSUME NEW r \in Copies
    PROVE  /\ r.at \in {"row", "diagram"} /\ r.flow \in FlowIds
           /\ r.new \in FlowIds /\ r.count \in Nat /\ r.alone \in BOOLEAN /\ r # Idle
  BY DEF Copies, Idle

LEMMA JobKinds ==
    ASSUME NEW r \in Jobs
    PROVE  /\ r.at \in {"upsert", "counts", "publish"} => r \in Saves
           /\ r.at \in {"row", "diagram"} => r \in Copies
           /\ r # Idle => r.at # "idle" /\ r.flow \in FlowIds
           /\ r = Idle => r.at = "idle"
  <1>1. Idle.at = "idle"  BY DEF Idle
  <1> QED  BY <1>1, SaveFacts, CopyFacts DEF Jobs

(* To lose its flag changes nothing else of a job. *)
LEMMA NotAloneSave ==
    ASSUME NEW r \in Saves
    PROVE  LET q == [r EXCEPT !.alone = FALSE]
           IN q \in Saves /\ q.at = r.at /\ q.flow = r.flow /\ q.doc = r.doc /\ ~q.alone
  BY DEF Saves

LEMMA NotAloneCopy ==
    ASSUME NEW r \in Copies
    PROVE  LET q == [r EXCEPT !.alone = FALSE]
           IN /\ q \in Copies /\ q.at = r.at /\ q.flow = r.flow
              /\ q.new = r.new /\ q.count = r.count /\ ~q.alone
  BY DEF Copies

(* k is j, but for its flag when it overlaps. *)
Like(k, j) ==
    /\ k \in Jobs /\ k.at = j.at
    /\ (k = Idle) <=> (j = Idle)
    /\ j # Idle => k.flow = j.flow /\ (k.alone => j.alone)
    /\ j \in Saves => k \in Saves /\ k.doc = j.doc
    /\ j \in Copies => k \in Copies /\ k.new = j.new /\ k.count = j.count

LEMMA OverlapFacts ==
    ASSUME TypeOK, NEW bad, bad \subseteq {h \in Handlers : job[h] # Idle},
           NEW h \in Handlers
    PROVE  /\ Like(Overlap(bad)[h], job[h])
           /\ h \notin bad => Overlap(bad)[h] = job[h]
           /\ h \in bad => ~Overlap(bad)[h].alone
  <1>1. job[h] \in Jobs  BY DEF TypeOK, Jobs
  <1>2. Overlap(bad)[h] = IF h \in bad THEN [job[h] EXCEPT !.alone = FALSE] ELSE job[h]
    BY DEF Overlap
  <1>3. CASE h \notin bad  BY <1>1, <1>2, <1>3 DEF Like
  <1>4. CASE h \in bad /\ job[h] \in Saves
    <2>1. job[h] # Idle /\ job[h] \notin Copies  BY <1>4, SaveFacts, CopyFacts
    <2> DEFINE q == [job[h] EXCEPT !.alone = FALSE]
    <2>2. /\ q \in Saves /\ q.at = job[h].at /\ q.flow = job[h].flow
          /\ q.doc = job[h].doc /\ ~q.alone
      BY <1>4, NotAloneSave
    <2>3. Overlap(bad)[h] = q  BY <1>2, <1>4
    <2> HIDE DEF q
    <2>4. q # Idle  BY <2>2, SaveFacts
    <2> QED  BY <1>4, <2>1, <2>2, <2>3, <2>4 DEF Like, Jobs
  <1>5. CASE h \in bad /\ job[h] \in Copies
    <2>1. job[h] # Idle /\ job[h] \notin Saves  BY <1>5, SaveFacts, CopyFacts
    <2> DEFINE q == [job[h] EXCEPT !.alone = FALSE]
    <2>2. /\ q \in Copies /\ q.at = job[h].at /\ q.flow = job[h].flow
          /\ q.new = job[h].new /\ q.count = job[h].count /\ ~q.alone
      BY <1>5, NotAloneCopy
    <2>3. Overlap(bad)[h] = q  BY <1>2, <1>5
    <2> HIDE DEF q
    <2>4. q # Idle  BY <2>2, CopyFacts
    <2> QED  BY <1>5, <2>1, <2>2, <2>3, <2>4 DEF Like, Jobs
  <1> QED  BY <1>1, <1>3, <1>4, <1>5 DEF Jobs

LEMMA LikeItself == ASSUME NEW r \in Jobs PROVE Like(r, r)
  BY DEF Like

-----------------------------------------------------------------------------
(* There is no flow and nobody at work. *)
LEMMA InitBInv == ASSUME Init PROVE BInv
  <1>1. TypeOK  BY DEF Init, TypeOK
  <1>2. RowsMatch /\ NothingLeft  BY DEF Init, RowsMatch, NothingLeft
  <1>3. BoardFlowsInv
    BY DEF Init, BoardFlowsInv, Writers, Copiers, NewIds, Unseen, Idle, Writing, Copying
  <1> QED  BY <1>1, <1>2, <1>3 DEF BInv

(* JobsInv holds on when some jobs end, some learn that they overlap,
   and the rows of those that do not are left alone. *)
LEMMA JobsKept ==
    ASSUME BInv, NEW gone \in SUBSET Handlers, used \subseteq used',
           \A h \in gone : job'[h] = Idle,
           \A h \in Handlers \ gone : Like(job'[h], job[h]),
           \A h \in Handlers \ gone : job[h] # Idle =>
               /\ job[h].flow \in live' => job[h].flow \in live
               /\ job[h] \in Copies => job[h].new \notin live'
               /\ Writing(h, job[h].flow) /\ job[h].flow \in live' =>
                     /\ ~settled'[job[h].flow]
                     /\ job'[h].alone => /\ diagram'[job[h].flow] = diagram[job[h].flow]
                                         /\ count'[job[h].flow] = count[job[h].flow]
               /\ Copying(h, job[h].flow) /\ job'[h].alone =>
                     job[h].flow \in live' /\ count'[job[h].flow] = count[job[h].flow]
    PROVE  JobsInv'
  <1>1. \A h \in Handlers : job[h] \in Jobs  BY DEF BInv, TypeOK, Jobs
  <1>2. \A h \in Handlers : job'[h].at # "idle" =>
            /\ h \notin gone /\ job[h] # Idle /\ job[h].at = job'[h].at
            /\ job'[h].flow = job[h].flow /\ (job'[h].alone => job[h].alone)
            /\ job[h] \in Saves => job'[h].doc = job[h].doc
            /\ job[h] \in Copies => job'[h].new = job[h].new /\ job'[h].count = job[h].count
    BY <1>1, JobKinds DEF Like, Idle
  <1>3. \A h \in Handlers : job'[h] # Idle => job'[h].at # "idle"
    BY JobKinds DEF Like
  <1>4. Writers'
    <2> SUFFICES ASSUME NEW h \in Handlers, job'[h].at \in {"counts", "publish"},
                        job'[h].flow \in live'
                 PROVE  /\ ~settled'[job'[h].flow]
                        /\ job'[h].alone =>
                              /\ diagram'[job'[h].flow] = job'[h].doc
                              /\ job'[h].at = "publish" =>
                                    count'[job'[h].flow] = Size[job'[h].doc]
                              /\ \A g \in Handlers \ {h} :
                                    ~(/\ job'[g].at \in {"counts", "publish"}
                                      /\ job'[g].flow = job'[h].flow)
      BY DEF Writers, Writing
    <2>1. /\ h \notin gone /\ job[h] # Idle /\ job[h].at = job'[h].at
          /\ job'[h].flow = job[h].flow /\ (job'[h].alone => job[h].alone)
          /\ job[h] \in Saves /\ job'[h].doc = job[h].doc
      BY <1>1, <1>2, JobKinds
    <2>2. /\ job[h].flow \in live /\ ~settled'[job[h].flow]
          /\ job'[h].alone => /\ diagram'[job[h].flow] = diagram[job[h].flow]
                              /\ count'[job[h].flow] = count[job[h].flow]
      BY <2>1 DEF Writing
    <2>3. job[h].alone =>
              /\ diagram[job[h].flow] = job[h].doc
              /\ job[h].at = "publish" => count[job[h].flow] = Size[job[h].doc]
              /\ \A g \in Handlers \ {h} :
                    ~(job[g].at \in {"counts", "publish"} /\ job[g].flow = job[h].flow)
      BY <2>1, <2>2 DEF BInv, BoardFlowsInv, Writers, Writing
    <2>4. \A g \in Handlers : job'[g].at \in {"counts", "publish"} =>
              job[g].at = job'[g].at /\ job'[g].flow = job[g].flow
      BY <1>2
    <2> QED  BY <2>1, <2>2, <2>3, <2>4
  <1>5. Copiers'
    <2> SUFFICES ASSUME NEW h \in Handlers, job'[h].at = "diagram", job'[h].alone
                 PROVE  job'[h].flow \in live' /\ job'[h].count = count'[job'[h].flow]
      BY DEF Copiers, Copying
    <2>1. /\ h \notin gone /\ job[h] # Idle /\ job[h].at = "diagram"
          /\ job'[h].flow = job[h].flow /\ job[h].alone
          /\ job'[h].count = job[h].count
      BY <1>1, <1>2, JobKinds
    <2> QED  BY <2>1 DEF Copying, BInv, BoardFlowsInv, Copiers
  <1>6. NewIds'
    <2>1. \A h \in Handlers : job'[h].at \in {"row", "diagram"} => job[h] \in Copies
      BY <1>1, <1>2, JobKinds
    <2> QED  BY <1>2, <1>3, <2>1 DEF BInv, BoardFlowsInv, NewIds
  <1> QED  BY <1>4, <1>5, <1>6 DEF JobsInv

LEMMA JobsStay ==
    ASSUME BInv, used \subseteq used',
           \A h \in Handlers : Like(job'[h], job[h]),
           \A h \in Handlers : job[h] # Idle =>
               /\ job[h].flow \in live' => job[h].flow \in live
               /\ job[h] \in Copies => job[h].new \notin live'
               /\ Writing(h, job[h].flow) /\ job[h].flow \in live' =>
                     /\ ~settled'[job[h].flow]
                     /\ job'[h].alone => /\ diagram'[job[h].flow] = diagram[job[h].flow]
                                         /\ count'[job[h].flow] = count[job[h].flow]
               /\ Copying(h, job[h].flow) /\ job'[h].alone =>
                     job[h].flow \in live' /\ count'[job[h].flow] = count[job[h].flow]
    PROVE  JobsInv'
  <1> DEFINE gone == {}
  <1>1. gone \in SUBSET Handlers /\ Handlers \ gone = Handlers /\ \A h \in gone : FALSE
    OBVIOUS
  <1> HIDE DEF gone
  <1> QED  BY <1>1, JobsKept

(* One job ends and the others are as they were. *)
LEMMA FinishFacts ==
    ASSUME TypeOK, NEW h \in Handlers, Finish(h)
    PROVE  /\ job' \in [Handlers -> Jobs]
           /\ job'[h] = Idle
           /\ \A g \in Handlers \ {h} : job'[g] = job[g] /\ Like(job'[g], job[g])
  <1>1. job \in [Handlers -> Jobs]  BY DEF TypeOK, Jobs
  <1>2. job' = [job EXCEPT ![h] = Idle] /\ Idle \in Jobs  BY DEF Finish, Jobs
  <1>3. \A g \in Handlers \ {h} : job'[g] = job[g]  BY <1>1, <1>2
  <1>4. \A g \in Handlers : Like(job[g], job[g])  BY <1>1, LikeItself
  <1> QED  BY <1>1, <1>2, <1>3, <1>4

LEMMA OverlapTypes ==
    ASSUME TypeOK, NEW bad, bad \subseteq {h \in Handlers : job[h] # Idle}
    PROVE  Overlap(bad) \in [Handlers -> Jobs]
  <1>1. \A h \in Handlers : Overlap(bad)[h] \in Jobs  BY OverlapFacts DEF Like
  <1> QED  BY <1>1 DEF Overlap

(* Only jobs at work write or copy. *)
LEMMA BusyFacts ==
    ASSUME TypeOK, NEW h \in Handlers, NEW f
    PROVE  /\ Writing(h, f) => job[h] # Idle /\ job[h] \in Saves /\ job[h] \notin Copies
           /\ Copying(h, f) => job[h] # Idle /\ job[h] \in Copies /\ job[h] \notin Saves
  <1>1. job[h] \in Jobs  BY DEF TypeOK, Jobs
  <1> QED  BY <1>1, JobKinds, SaveFacts, CopyFacts DEF Writing, Copying

LEMMA SameJobs ==
    ASSUME TypeOK
    PROVE  /\ job \in [Handlers -> Jobs]
           /\ \A h \in Handlers : Like(job[h], job[h])
  BY LikeItself DEF TypeOK, Jobs

-----------------------------------------------------------------------------
(* The rows change by one statement; no job moves. *)
LEMMA CreateFlowBInv ==
    ASSUME BInv, NEW f \in FlowIds, CreateFlow(f) PROVE RowsInv'
  <1>1. /\ f \notin used /\ f \notin live /\ used' = used \cup {f} /\ live' = live \cup {f}
        /\ count' = [count EXCEPT ![f] = 0] /\ diagram' = [diagram EXCEPT ![f] = Blank]
        /\ votes' = votes /\ shown' = shown /\ job' = job /\ settled' = settled
    BY DEF CreateFlow, BInv, TypeOK
  <1>2. TypeOK'  BY <1>1, BoardFlowsConstants DEF BInv, TypeOK
  <1>3. RowsMatch'
    <2>1. shown[f] = NoDoc  BY <1>1 DEF BInv, BoardFlowsInv, Unseen
    <2> QED  BY <1>1, <2>1, BoardFlowsConstants DEF BInv, TypeOK, RowsMatch
  <1>4. NothingLeft'  BY <1>1 DEF BInv, TypeOK, NothingLeft
  <1>5. JobsInv'
    <2>1. \A h \in Handlers : job[h] # Idle => job[h].flow # f /\ job[h].flow \in FlowIds
      BY <1>1 DEF BInv, BoardFlowsInv, NewIds, TypeOK
    <2>2. \A h \in Handlers : job[h] \in Copies => job[h].new \notin live'
      BY <1>1, CopyFacts DEF BInv, BoardFlowsInv, NewIds
    <2>3. \A h \in Handlers : job[h] # Idle =>
              /\ Writing(h, job[h].flow) /\ job[h].flow \in live => ~settled[job[h].flow]
              /\ Copying(h, job[h].flow) /\ job[h].alone => job[h].flow \in live
      BY DEF BInv, BoardFlowsInv, Writers, Copiers
    <2>4. \A h \in Handlers : job[h] # Idle =>
              diagram'[job[h].flow] = diagram[job[h].flow] /\ count'[job[h].flow] = count[job[h].flow]
      BY <1>1, <2>1 DEF BInv, TypeOK
    <2> QED
      BY <1>1, <2>1, <2>2, <2>3, <2>4, SameJobs, JobsStay DEF BInv
  <1> QED  BY <1>2, <1>3, <1>4, <1>5 DEF RowsInv

LEMMA DeleteFlowBInv ==
    ASSUME BInv, NEW f \in FlowIds, DeleteFlow(f) PROVE RowsInv'
  <1> DEFINE bad == {h \in Handlers : Copying(h, f)}
  <1>1. /\ f \in live /\ live' = live \ {f} /\ used' = used
        /\ count' = [count EXCEPT ![f] = 0] /\ diagram' = [diagram EXCEPT ![f] = NoDoc]
        /\ votes' = {v \in votes : v[1] # f} /\ shown' = shown
        /\ job' = Overlap(bad) /\ settled' = settled
    BY DEF DeleteFlow
  <1>2. bad \subseteq {h \in Handlers : job[h] # Idle}  BY BusyFacts DEF BInv
  <1>3. \A h \in Handlers : Like(job'[h], job[h]) /\ (h \in bad => ~job'[h].alone)
    BY <1>1, <1>2, OverlapFacts DEF BInv
  <1>b. \A h \in Handlers : Copying(h, f) => h \in bad  OBVIOUS
  <1> HIDE DEF bad
  <1>4. TypeOK'
    <2>1. job' \in [Handlers -> Jobs]  BY <1>1, <1>2, OverlapTypes DEF BInv
    <2> QED  BY <1>1, <2>1 DEF BInv, TypeOK, Jobs
  <1>5. RowsMatch'  BY <1>1 DEF BInv, TypeOK, RowsMatch
  <1>6. NothingLeft'  BY <1>1 DEF BInv, TypeOK, NothingLeft
  <1>7. ASSUME NEW h \in Handlers, job[h] # Idle
        PROVE  /\ job[h].flow \in live' => job[h].flow \in live
               /\ job[h] \in Copies => job[h].new \notin live'
               /\ Writing(h, job[h].flow) /\ job[h].flow \in live' =>
                     /\ ~settled'[job[h].flow]
                     /\ job'[h].alone => /\ diagram'[job[h].flow] = diagram[job[h].flow]
                                         /\ count'[job[h].flow] = count[job[h].flow]
               /\ Copying(h, job[h].flow) /\ job'[h].alone =>
                     job[h].flow \in live' /\ count'[job[h].flow] = count[job[h].flow]
    <2>l. live' = live \ {f} /\ settled' = settled  BY <1>1
    <2>1. job[h] \in Copies => job[h].new \notin live'
      BY <2>l, <1>7, CopyFacts DEF BInv, BoardFlowsInv, NewIds
    <2>2. job[h].flow \in FlowIds
      <3>1. job[h] \in Jobs  BY DEF BInv, TypeOK, Jobs
      <3> QED  BY ONLY <3>1, <1>7, JobKinds
    <2>3. CASE job[h].flow = f
      <3>1. job[h].flow \notin live'  BY <2>l, <2>3
      <3>2. Copying(h, job[h].flow) => ~job'[h].alone  BY <1>3, <1>b, <2>3
      <3> QED  BY ONLY <2>1, <3>1, <3>2
    <2>4. CASE job[h].flow # f
      <3>1. /\ diagram'[job[h].flow] = diagram[job[h].flow]
            /\ count'[job[h].flow] = count[job[h].flow]
        BY <1>1, <2>2, <2>4 DEF BInv, TypeOK
      <3>2. Copying(h, job[h].flow) /\ job[h].alone => job[h].flow \in live
        BY DEF BInv, BoardFlowsInv, Copiers
      <3>3. Writing(h, job[h].flow) /\ job[h].flow \in live => ~settled[job[h].flow]
        BY DEF BInv, BoardFlowsInv, Writers
      <3>4. job'[h].alone => job[h].alone  BY <1>3, <1>7 DEF Like
      <3> QED  BY ONLY <2>l, <2>1, <2>4, <3>1, <3>2, <3>3, <3>4
    <2> QED  BY <2>3, <2>4
  <1>8. JobsInv'
    <2>1. used \subseteq used'  BY <1>1
    <2>2. \A h \in Handlers : Like(job'[h], job[h])  BY <1>3
    <2> QED  BY ONLY BInv, <1>7, <2>1, <2>2, JobsStay
  <1> QED  BY <1>4, <1>5, <1>6, <1>8 DEF RowsInv

LEMMA VoteBInv ==
    ASSUME BInv, votes' \subseteq FlowIds \X Users, \A v \in votes' : v[1] \in live,
           UNCHANGED <<live, used, count, diagram, shown, job, settled>>
    PROVE  RowsInv'
  <1>1. TypeOK'  BY DEF BInv, TypeOK
  <1>2. NothingLeft'  BY DEF BInv, NothingLeft
  <1>3. RowsMatch'  BY DEF BInv, RowsMatch
  <1>4. JobsInv'
    BY DEF BInv, BoardFlowsInv, JobsInv, Writers, Copiers, NewIds, Writing, Copying
  <1> QED  BY <1>1, <1>2, <1>3, <1>4 DEF RowsInv

-----------------------------------------------------------------------------
(* A request that ends and has touched no row. *)
LEMMA EndBInv ==
    ASSUME BInv, NEW h \in Handlers, Finish(h),
           UNCHANGED <<live, used, count, diagram, votes, shown, settled>>
    PROVE  RowsInv'
  <1>1. /\ job' \in [Handlers -> Jobs] /\ job'[h] = Idle
        /\ \A g \in Handlers \ {h} : job'[g] = job[g] /\ Like(job'[g], job[g])
    BY FinishFacts DEF BInv
  <1>2. TypeOK'  BY <1>1 DEF BInv, TypeOK, Jobs
  <1>3. NothingLeft'  BY DEF BInv, NothingLeft
  <1>4. RowsMatch'  BY DEF BInv, RowsMatch
  <1>5. JobsInv'
    <2>1. \A g \in Handlers \ {h} : job[g] # Idle =>
              /\ job[g] \in Copies => job[g].new \notin live'
              /\ Writing(g, job[g].flow) /\ job[g].flow \in live => ~settled[job[g].flow]
              /\ Copying(g, job[g].flow) /\ job[g].alone => job[g].flow \in live
      BY CopyFacts DEF BInv, BoardFlowsInv, Writers, Copiers, NewIds
    <2>2. {h} \in SUBSET Handlers  OBVIOUS
    <2> HIDE DEF Writing, Copying, Like
    <2> QED  BY <1>1, <2>1, <2>2, JobsKept
  <1> QED  BY <1>2, <1>3, <1>4, <1>5 DEF RowsInv

(* The copy is whole, its id was nobody's, and its source goes on as it was. *)
LEMMA CopyDiagramBInv ==
    ASSUME BInv, NEW h \in Handlers, CopyDiagram(h) PROVE RowsInv'
  <1> DEFINE f == job[h].flow
             g == job[h].new
  <1>1. /\ job[h].at = "diagram" /\ live' = live \cup {g}
        /\ count' = [count EXCEPT ![g] = job[h].count]
        /\ diagram' = [diagram EXCEPT ![g] = diagram[f]]
        /\ settled' = [settled EXCEPT ![g] = job[h].alone /\ settled[f]]
        /\ used' = used /\ votes' = votes /\ shown' = shown
    BY DEF CopyDiagram
  <1>2. /\ job' \in [Handlers -> Jobs] /\ job'[h] = Idle
        /\ \A k \in Handlers \ {h} : job'[k] = job[k] /\ Like(job'[k], job[k])
    BY FinishFacts DEF BInv, CopyDiagram
  <1>3. /\ job[h] \in Copies /\ job[h] # Idle /\ f \in FlowIds /\ g \in FlowIds
        /\ job[h].count \in Nat /\ job[h].alone \in BOOLEAN
    BY <1>1, BusyFacts, CopyFacts DEF Copying, BInv
  <1>4. /\ g \in used /\ g \notin live /\ f # g
        /\ \A k \in Handlers \ {h} : job[k] # Idle =>
              job[k].flow # g /\ (job[k].at \in {"row", "diagram"} => job[k].new # g)
    BY <1>1, <1>3 DEF BInv, BoardFlowsInv, NewIds
  <1>5. job[h].alone => f \in live /\ job[h].count = count[f]
    BY <1>1 DEF BInv, BoardFlowsInv, Copiers, Copying
  <1>6. diagram[g] = NoDoc /\ shown[g] = NoDoc
    BY <1>1, <1>3, <1>4 DEF BInv, BoardFlowsInv, NothingLeft, Unseen
  <1> HIDE DEF f, g
  <1>7. TypeOK'
    <2>1. live' \subseteq used'  BY <1>1, <1>4 DEF BInv, TypeOK
    <2>2. count' \in [FlowIds -> Nat] /\ settled' \in [FlowIds -> BOOLEAN]
      BY <1>1, <1>3 DEF BInv, TypeOK
    <2>3. diagram' \in [FlowIds -> Docs \cup {NoDoc}]  BY <1>1, <1>3 DEF BInv, TypeOK
    <2> QED  BY <1>1, <1>2, <2>1, <2>2, <2>3 DEF BInv, TypeOK, Jobs
  <1>8. RowsMatch'
    <2> SUFFICES ASSUME NEW e \in live', settled'[e]
                 PROVE  /\ diagram'[e] # NoDoc /\ count'[e] = Size[diagram'[e]]
                        /\ shown'[e] \in {NoDoc, diagram'[e]}
      BY DEF RowsMatch
    <2>1. CASE e = g
      <3>1. job[h].alone /\ settled[f]  BY <1>1, <1>3, <2>1 DEF BInv, TypeOK
      <3>2. diagram[f] # NoDoc /\ count[f] = Size[diagram[f]]
        BY <1>5, <3>1 DEF BInv, RowsMatch
      <3>3. diagram'[e] = diagram[f] /\ count'[e] = count[f] /\ shown'[e] = NoDoc
        BY <1>1, <1>3, <1>5, <1>6, <2>1, <3>1 DEF BInv, TypeOK
      <3> QED  BY ONLY <3>2, <3>3
    <2>2. CASE e # g
      <3>1. e \in live /\ e \in FlowIds  BY <1>1, <2>2 DEF BInv, TypeOK
      <3>2. /\ diagram'[e] = diagram[e] /\ count'[e] = count[e]
            /\ settled'[e] = settled[e] /\ shown'[e] = shown[e]
        BY <1>1, <2>2, <3>1 DEF BInv, TypeOK
      <3> QED  BY <3>1, <3>2 DEF BInv, RowsMatch
    <2> QED  BY <2>1, <2>2
  <1>9. NothingLeft'
    BY <1>1, <1>3 DEF BInv, TypeOK, NothingLeft
  <1>10. ASSUME NEW k \in Handlers \ {h}, job[k] # Idle
         PROVE  /\ job[k].flow \in live' => job[k].flow \in live
                /\ job[k] \in Copies => job[k].new \notin live'
                /\ Writing(k, job[k].flow) /\ job[k].flow \in live' =>
                      /\ ~settled'[job[k].flow]
                      /\ job'[k].alone => /\ diagram'[job[k].flow] = diagram[job[k].flow]
                                          /\ count'[job[k].flow] = count[job[k].flow]
                /\ Copying(k, job[k].flow) /\ job'[k].alone =>
                      job[k].flow \in live' /\ count'[job[k].flow] = count[job[k].flow]
    <2>1. job[k].flow # g /\ (job[k].at \in {"row", "diagram"} => job[k].new # g)
      BY <1>4, <1>10
    <2>2. job[k].flow \in FlowIds
      <3>1. job[k] \in Jobs  BY DEF BInv, TypeOK, Jobs
      <3> QED  BY ONLY <3>1, <1>10, JobKinds
    <2>3. job[k].flow \in live' <=> job[k].flow \in live  BY <1>1, <2>1
    <2>4. job[k] \in Copies => job[k].new \notin live'
      <3>1. job[k] \in Copies => job[k].at \in {"row", "diagram"}  BY CopyFacts
      <3>2. job[k].at \in {"row", "diagram"} => job[k].new \notin live
        BY <1>10 DEF BInv, BoardFlowsInv, NewIds
      <3> QED  BY <1>1, <2>1, <3>1, <3>2
    <2>5. /\ diagram'[job[k].flow] = diagram[job[k].flow]
          /\ count'[job[k].flow] = count[job[k].flow]
          /\ settled'[job[k].flow] = settled[job[k].flow]
      BY <1>1, <2>1, <2>2 DEF BInv, TypeOK
    <2>6. Writing(k, job[k].flow) /\ job[k].flow \in live => ~settled[job[k].flow]
      BY DEF BInv, BoardFlowsInv, Writers
    <2>7. Copying(k, job[k].flow) /\ job[k].alone => job[k].flow \in live
      BY DEF BInv, BoardFlowsInv, Copiers
    <2>8. job'[k] = job[k]  BY <1>2
    <2> QED  BY ONLY <2>3, <2>4, <2>5, <2>6, <2>7, <2>8
  <1>11. JobsInv'
    <2>1. {h} \in SUBSET Handlers /\ \A k \in {h} : job'[k] = Idle  BY <1>2
    <2>2. used \subseteq used'  BY <1>1
    <2>3. \A k \in Handlers \ {h} : Like(job'[k], job[k])  BY <1>2
    <2> QED  BY ONLY BInv, <1>10, <2>1, <2>2, <2>3, JobsKept
  <1> QED  BY <1>7, <1>8, <1>9, <1>11 DEF RowsInv

(* What a save that overlaps no other sends is what is stored, while there is
   such a flow. *)
LEMMA PublishBInv ==
    ASSUME BInv, NEW h \in Handlers, Publish(h) PROVE RowsInv'
  <1> DEFINE f == job[h].flow
  <1>1. /\ job[h].at = "publish" /\ Finish(h)
        /\ live' = live /\ used' = used /\ count' = count /\ diagram' = diagram
        /\ votes' = votes
        /\ shown' = [shown EXCEPT ![f] = job[h].doc]
        /\ settled' = [settled EXCEPT ![f] = job[h].alone]
    BY DEF Publish
  <1>2. /\ job' \in [Handlers -> Jobs] /\ job'[h] = Idle
        /\ \A k \in Handlers \ {h} : job'[k] = job[k] /\ Like(job'[k], job[k])
    BY <1>1, FinishFacts DEF BInv
  <1>3. /\ job[h] \in Saves /\ job[h].doc \in Docs /\ f \in FlowIds
        /\ job[h].alone \in BOOLEAN /\ Writing(h, f)
    BY <1>1, BusyFacts, SaveFacts DEF Writing, BInv
  <1>4. job[h].alone /\ f \in live =>
            /\ diagram[f] = job[h].doc /\ count[f] = Size[job[h].doc]
            /\ \A k \in Handlers \ {h} : ~Writing(k, f)
    BY <1>1, <1>3 DEF BInv, BoardFlowsInv, Writers
  <1>5. /\ settled'[f] = job[h].alone /\ shown'[f] = job[h].doc
        /\ settled' \in [FlowIds -> BOOLEAN] /\ shown' \in [FlowIds -> Docs \cup {NoDoc}]
        /\ \A e \in FlowIds \ {f} : settled'[e] = settled[e] /\ shown'[e] = shown[e]
    BY <1>1, <1>3 DEF BInv, TypeOK
  <1> HIDE DEF f
  <1>6. TypeOK'  BY <1>1, <1>2, <1>5 DEF BInv, TypeOK, Jobs
  <1>7. RowsMatch'
    <2> SUFFICES ASSUME NEW e \in live, settled'[e]
                 PROVE  /\ diagram[e] # NoDoc /\ count[e] = Size[diagram[e]]
                        /\ shown'[e] \in {NoDoc, diagram[e]}
      BY <1>1 DEF RowsMatch
    <2>1. CASE e = f
      <3>1. job[h].alone /\ e \in live  BY <1>5, <2>1
      <3> QED  BY ONLY <1>3, <1>4, <1>5, <2>1, <3>1, BoardFlowsConstants
    <2>2. CASE e # f
      <3>1. settled'[e] = settled[e] /\ shown'[e] = shown[e]
        BY <1>5, <2>2 DEF BInv, TypeOK
      <3> QED  BY <3>1 DEF BInv, RowsMatch
    <2> QED  BY <2>1, <2>2
  <1>8. NothingLeft'  BY <1>1 DEF BInv, NothingLeft
  <1>9. ASSUME NEW k \in Handlers \ {h}, job[k] # Idle
        PROVE  /\ job[k] \in Copies => job[k].new \notin live
               /\ Writing(k, job[k].flow) /\ job[k].flow \in live => ~settled'[job[k].flow]
               /\ Copying(k, job[k].flow) /\ job[k].alone => job[k].flow \in live
    <2>1. job[k] \in Copies => job[k].new \notin live
      BY <1>9, CopyFacts DEF BInv, BoardFlowsInv, NewIds
    <2>2. Copying(k, job[k].flow) /\ job[k].alone => job[k].flow \in live
      BY DEF BInv, BoardFlowsInv, Copiers
    <2>3. ASSUME Writing(k, job[k].flow), job[k].flow \in live
          PROVE  ~settled'[job[k].flow]
      <3>1. ~settled[job[k].flow]  BY <2>3 DEF BInv, BoardFlowsInv, Writers
      <3>2. CASE job[k].flow # f
        BY <1>5, <2>3, <3>1, <3>2 DEF BInv, TypeOK
      <3>3. CASE job[k].flow = f
        <4>1. ~job[h].alone  BY <1>4, <2>3, <3>3
        <4> QED  BY ONLY <4>1, <1>5, <3>3
      <3> QED  BY <3>2, <3>3
    <2> QED  BY ONLY <2>1, <2>2, <2>3
  <1>10. JobsInv'
    <2>1. {h} \in SUBSET Handlers /\ \A k \in {h} : job'[k] = Idle  BY <1>2
    <2>2. used \subseteq used' /\ live' = live /\ count' = count /\ diagram' = diagram
      BY <1>1
    <2>3. \A k \in Handlers \ {h} : job'[k] = job[k] /\ Like(job'[k], job[k])  BY <1>2
    <2> QED  BY ONLY BInv, <1>9, <2>1, <2>2, <2>3, JobsKept
  <1> QED  BY <1>6, <1>7, <1>8, <1>10 DEF RowsInv

-----------------------------------------------------------------------------
(* JobsInv when a request moves on to r, whatever of the others it
   overlaps: r satisfies its part and disturbs no other that is alone. *)
LEMMA JobMoves ==
    ASSUME BInv, NEW h \in Handlers, NEW r \in Saves \cup Copies, job'[h] = r,
           \A g \in Handlers \ {h} : Like(job'[g], job[g]),
           live' = live, used \subseteq used', r.flow \in used',
           r.at \in {"counts", "publish"} /\ r.flow \in live =>
               /\ ~settled'[r.flow]
               /\ r.alone =>
                     /\ diagram'[r.flow] = r.doc
                     /\ r.at = "publish" => count'[r.flow] = Size[r.doc]
                     /\ \A g \in Handlers \ {h} : ~Writing(g, r.flow),
           r.at = "diagram" /\ r.alone => r.flow \in live /\ r.count = count'[r.flow],
           r \in Copies => r.new \in used' \ live /\ r.flow # r.new,
           \A g \in Handlers \ {h} : job[g] # Idle =>
               /\ Writing(g, job[g].flow) /\ job[g].flow \in live =>
                     /\ ~settled'[job[g].flow]
                     /\ job'[g].alone =>
                           /\ diagram'[job[g].flow] = diagram[job[g].flow]
                           /\ count'[job[g].flow] = count[job[g].flow]
                           /\ r.at \in {"counts", "publish"} => r.flow # job[g].flow
               /\ Copying(g, job[g].flow) /\ job'[g].alone =>
                     count'[job[g].flow] = count[job[g].flow]
               /\ r \in Copies => /\ job[g].flow # r.new
                                  /\ job[g] \in Copies => job[g].new # r.new
               /\ job[g] \in Copies => r.flow # job[g].new
    PROVE  JobsInv'
  <1>1. \A g \in Handlers : job[g] \in Jobs  BY DEF BInv, TypeOK, Jobs
  <1>2. \A g \in Handlers \ {h} : job'[g].at # "idle" =>
            /\ job[g] # Idle /\ job[g].at = job'[g].at
            /\ job'[g].flow = job[g].flow /\ (job'[g].alone => job[g].alone)
            /\ job[g] \in Saves => job'[g].doc = job[g].doc
            /\ job[g] \in Copies => job'[g].new = job[g].new /\ job'[g].count = job[g].count
            /\ job[g].at \in {"upsert", "counts", "publish"} => job[g] \in Saves
            /\ job[g].at \in {"row", "diagram"} => job[g] \in Copies
    BY <1>1, JobKinds DEF Like, Idle
  <1>3. \A g \in Handlers \ {h} : job'[g] # Idle => job'[g].at # "idle"
    BY JobKinds DEF Like
  <1>4. /\ r \in Copies <=> r.at \in {"row", "diagram"}
        /\ r.at # "idle" /\ r # Idle
    BY SaveFacts, CopyFacts
  <1>5. Writers'
    <2> SUFFICES ASSUME NEW g \in Handlers, job'[g].at \in {"counts", "publish"},
                        job'[g].flow \in live
                 PROVE  /\ ~settled'[job'[g].flow]
                        /\ job'[g].alone =>
                              /\ diagram'[job'[g].flow] = job'[g].doc
                              /\ job'[g].at = "publish" =>
                                    count'[job'[g].flow] = Size[job'[g].doc]
                              /\ \A k \in Handlers \ {g} :
                                    ~(/\ job'[k].at \in {"counts", "publish"}
                                      /\ job'[k].flow = job'[g].flow)
      BY DEF Writers, Writing
    <2>1. CASE g = h
      <3>1. \A k \in Handlers \ {h} :
               job'[k].at \in {"counts", "publish"} /\ job'[k].flow = r.flow => Writing(k, r.flow)
        BY <1>2 DEF Writing
      <3> QED  BY <2>1, <3>1
    <2>2. CASE g # h
      <3>1. /\ job[g] # Idle /\ job[g].at = job'[g].at /\ job[g] \in Saves
            /\ job'[g].flow = job[g].flow /\ (job'[g].alone => job[g].alone)
            /\ job'[g].doc = job[g].doc
        BY <1>2, <2>2
      <3>2. Writing(g, job[g].flow) /\ job[g].flow \in live  BY <3>1 DEF Writing
      <3>3. job[g].alone =>
                /\ diagram[job[g].flow] = job[g].doc
                /\ job[g].at = "publish" => count[job[g].flow] = Size[job[g].doc]
                /\ \A k \in Handlers \ {g} :
                      ~(job[k].at \in {"counts", "publish"} /\ job[k].flow = job[g].flow)
        BY <3>1, <3>2 DEF BInv, BoardFlowsInv, Writers, Writing
      <3>4. \A k \in Handlers \ {h} : job'[k].at \in {"counts", "publish"} =>
                job[k].at = job'[k].at /\ job'[k].flow = job[k].flow
        BY <1>2
      <3>5. /\ ~settled'[job[g].flow]
            /\ job'[g].alone =>
                  /\ diagram'[job[g].flow] = diagram[job[g].flow]
                  /\ count'[job[g].flow] = count[job[g].flow]
                  /\ r.at \in {"counts", "publish"} => r.flow # job[g].flow
        BY <2>2, <3>1, <3>2
      <3> QED  BY <2>2, <3>1, <3>3, <3>4, <3>5
    <2> QED  BY <2>1, <2>2
  <1>6. Copiers'
    <2> SUFFICES ASSUME NEW g \in Handlers, job'[g].at = "diagram", job'[g].alone
                 PROVE  job'[g].flow \in live /\ job'[g].count = count'[job'[g].flow]
      BY DEF Copiers, Copying
    <2>1. CASE g = h  BY <2>1
    <2>2. CASE g # h
      <3>1. /\ job[g] # Idle /\ job[g].at = "diagram" /\ job'[g].flow = job[g].flow
            /\ job[g].alone /\ job'[g].count = job[g].count
        BY <1>2, <2>2
      <3>2. Copying(g, job[g].flow)  BY <3>1 DEF Copying
      <3>3. job[g].flow \in live /\ job[g].count = count[job[g].flow]
        BY <3>1, <3>2 DEF BInv, BoardFlowsInv, Copiers
      <3>4. count'[job[g].flow] = count[job[g].flow]  BY <2>2, <3>1, <3>2
      <3> QED  BY <3>1, <3>3, <3>4
    <2> QED  BY <2>1, <2>2
  <1>7. NewIds'
    <2> SUFFICES ASSUME NEW g \in Handlers, job'[g].at # "idle"
                 PROVE  /\ job'[g].flow \in used'
                        /\ job'[g].at \in {"row", "diagram"} =>
                              /\ job'[g].new \in used' \ live
                              /\ \A k \in Handlers : job'[k].at # "idle" =>
                                    /\ job'[k].flow # job'[g].new
                                    /\ job'[k].at \in {"row", "diagram"} /\ k # g =>
                                          job'[k].new # job'[g].new
      BY <1>3, <1>4 DEF NewIds, Idle
    <2>1. \A k \in Handlers \ {h} : job[k] # Idle =>
              /\ job[k].flow \in used
              /\ job[k].at \in {"row", "diagram"} =>
                    /\ job[k].new \in used \ live
                    /\ \A m \in Handlers \ {h} : job[m] # Idle =>
                          /\ job[m].flow # job[k].new
                          /\ job[m].at \in {"row", "diagram"} /\ m # k => job[m].new # job[k].new
      BY DEF BInv, BoardFlowsInv, NewIds
    <2>2. CASE g = h
      BY <2>2, <1>2, <1>4
    <2>3. CASE g # h
      BY <2>1, <2>3, <1>2, <1>4
    <2> QED  BY <2>2, <2>3
  <1> QED  BY <1>5, <1>6, <1>7 DEF JobsInv

(* What the others know when nothing of the rows changes. *)
LEMMA OthersFacts ==
    ASSUME BInv, NEW g \in Handlers, job[g] # Idle
    PROVE  /\ job[g] \in Jobs /\ job[g].flow \in FlowIds /\ job[g].flow \in used
           /\ job[g] \in Copies => /\ job[g].new \in used \ live
                                   /\ job[g].at \in {"row", "diagram"}
           /\ Writing(g, job[g].flow) /\ job[g].flow \in live => ~settled[job[g].flow]
           /\ Copying(g, job[g].flow) /\ job[g].alone => job[g].flow \in live
  <1>1. job[g] \in Jobs  BY DEF BInv, TypeOK, Jobs
  <1>2. job[g].flow \in FlowIds  BY <1>1, JobKinds
  <1>3. job[g] \in Copies => job[g].at \in {"row", "diagram"}  BY CopyFacts
  <1> QED  BY <1>1, <1>2, <1>3 DEF BInv, BoardFlowsInv, Writers, Copiers, NewIds

(* A request starts, or copies a row, and no table changes. *)
LEMMA StartBInv ==
    ASSUME BInv, NEW h \in Handlers, NEW r \in Saves \cup Copies,
           job' = [job EXCEPT ![h] = r], used \subseteq used', used' \subseteq FlowIds,
           UNCHANGED <<live, count, diagram, votes, shown, settled>>,
           r.at \in {"upsert", "row", "diagram"}, r.flow \in used',
           r.at = "diagram" => r.flow \in live /\ r.count = count[r.flow],
           r \in Copies => r.new \in used' \ live /\ r.flow # r.new,
           \A g \in Handlers \ {h} : job[g] # Idle =>
               /\ r \in Copies => /\ job[g].flow # r.new
                                  /\ job[g] \in Copies => job[g].new # r.new
               /\ job[g] \in Copies => r.flow # job[g].new
    PROVE  RowsInv'
  <1>1. job \in [Handlers -> Jobs] /\ r \in Jobs  BY DEF BInv, TypeOK, Jobs
  <1>2. /\ job' \in [Handlers -> Jobs] /\ job'[h] = r
        /\ \A g \in Handlers \ {h} : job'[g] = job[g] /\ Like(job'[g], job[g])
    BY <1>1, LikeItself
  <1>3. TypeOK'  BY <1>2 DEF BInv, TypeOK, Jobs
  <1>4. RowsMatch'  BY DEF BInv, RowsMatch
  <1>5. NothingLeft'  BY DEF BInv, NothingLeft
  <1>6. JobsInv'
    <2>1. \A g \in Handlers \ {h} : job[g] # Idle =>
              (Writing(g, job[g].flow) /\ job[g].flow \in live => ~settled[job[g].flow])
      BY OthersFacts
    <2> QED  BY <1>2, <2>1, JobMoves
  <1> QED  BY <1>3, <1>4, <1>5, <1>6 DEF RowsInv

LEMMA DuplicateFlowBInv ==
    ASSUME BInv, NEW h \in Handlers, NEW f \in FlowIds, NEW g \in FlowIds, DuplicateFlow(h, f, g)
    PROVE  RowsInv'
  <1> DEFINE r == [at |-> "row", flow |-> f, new |-> g, count |-> 0, alone |-> TRUE]
  <1>1. /\ f \in live /\ f \in used /\ g \notin used /\ g \notin live
        /\ used' = used \cup {g} /\ job' = [job EXCEPT ![h] = r]
        /\ UNCHANGED <<live, count, diagram, votes, shown, settled>>
    BY DEF DuplicateFlow, BInv, TypeOK
  <1>2. r \in Copies /\ r.at = "row" /\ r.flow = f /\ r.new = g  BY DEF Copies
  <1> HIDE DEF r
  <1>3. \A k \in Handlers : job[k] # Idle =>
            /\ job[k].flow # g
            /\ job[k] \in Copies => job[k].new # g /\ f # job[k].new
    BY <1>1, OthersFacts
  <1>4. used \subseteq used' /\ used' \subseteq FlowIds /\ f \in used' /\ g \in used' \ live /\ f # g
    BY <1>1 DEF BInv, TypeOK
  <1> QED  BY <1>1, <1>2, <1>3, <1>4, StartBInv

LEMMA SaveDiagramBInv ==
    ASSUME BInv, NEW h \in Handlers, NEW f \in FlowIds, NEW d \in Docs, SaveDiagram(h, f, d)
    PROVE  RowsInv'
  <1> DEFINE r == [at |-> "upsert", flow |-> f, doc |-> d, alone |-> TRUE]
  <1>1. /\ f \in live /\ f \in used /\ used' = used /\ job' = [job EXCEPT ![h] = r]
        /\ UNCHANGED <<live, count, diagram, votes, shown, settled>>
    BY DEF SaveDiagram, BInv, TypeOK
  <1>2. r \in Saves /\ r \notin Copies /\ r.at = "upsert" /\ r.flow = f
    BY DEF Saves, Copies
  <1> HIDE DEF r
  <1>3. \A k \in Handlers : job[k] # Idle => (job[k] \in Copies => f # job[k].new)
    BY <1>1, OthersFacts
  <1>4. used \subseteq used' /\ used' \subseteq FlowIds  BY <1>1 DEF BInv, TypeOK
  <1> QED  BY <1>1, <1>2, <1>3, <1>4, StartBInv

LEMMA CopyRowBInv ==
    ASSUME BInv, NEW h \in Handlers, CopyRow(h) PROVE RowsInv'
  <1>1. CASE job[h].flow \notin live
    BY <1>1, EndBInv DEF CopyRow
  <1>2. CASE job[h].flow \in live
    <2> DEFINE n == count[job[h].flow]
               r == [job[h] EXCEPT !.at = "diagram", !.count = n]
    <2>1. /\ job[h].at = "row" /\ used' = used /\ job' = [job EXCEPT ![h] = r]
          /\ UNCHANGED <<live, count, diagram, votes, shown, settled>>
      BY <1>2 DEF CopyRow
    <2>2. job[h] \in Copies /\ job[h] # Idle /\ job[h].flow \in FlowIds /\ job[h].flow \in used
      <3>1. job[h] \in Jobs  BY DEF BInv, TypeOK, Jobs
      <3>2. job[h] \in Copies  BY ONLY <2>1, <3>1, JobKinds
      <3> QED  BY <3>2, CopyFacts, OthersFacts
    <2>3. n \in Nat  BY <2>2 DEF BInv, TypeOK
    <2> HIDE DEF n
    <2>4. /\ r \in Copies /\ r.at = "diagram" /\ r.flow = job[h].flow /\ r.new = job[h].new
          /\ r.count = n
      BY <2>2, <2>3 DEF Copies
    <2> HIDE DEF r
    <2>5. /\ job[h].new \in used \ live /\ job[h].flow # job[h].new
          /\ \A g \in Handlers \ {h} : job[g] # Idle =>
                /\ job[g].flow # job[h].new
                /\ job[g] \in Copies => job[g].new # job[h].new /\ job[h].flow # job[g].new
      <3>1. \A g \in Handlers : job[g] \in Copies => job[g].at \in {"row", "diagram"}
        BY CopyFacts
      <3> QED  BY <2>1, <2>2, <3>1 DEF BInv, BoardFlowsInv, NewIds
    <2>6. used \subseteq used' /\ used' \subseteq FlowIds  BY <2>1 DEF BInv, TypeOK
    <2>7. r.flow \in live /\ r.flow \in used' /\ r.count = count[r.flow]
      BY <1>2, <2>1, <2>2, <2>4 DEF n
    <2>8. r.new \in used' \ live /\ r.flow # r.new  BY <2>1, <2>4, <2>5
    <2>9. \A g \in Handlers \ {h} : job[g] # Idle =>
              /\ job[g].flow # r.new
              /\ job[g] \in Copies => job[g].new # r.new /\ r.flow # job[g].new
      BY <2>4, <2>5
    <2>10. r \in Saves \cup Copies /\ r.at \in {"upsert", "row", "diagram"}  BY <2>4
    <2>11. job' = [job EXCEPT ![h] = r] /\ UNCHANGED <<live, count, diagram, votes, shown, settled>>
      BY <2>1
    <2>12. \A g \in Handlers \ {h} : job[g] # Idle =>
               /\ r \in Copies => /\ job[g].flow # r.new
                                  /\ job[g] \in Copies => job[g].new # r.new
               /\ job[g] \in Copies => r.flow # job[g].new
      BY <2>9
    <2>13. r \in Copies => r.new \in used' \ live /\ r.flow # r.new  BY <2>8
    <2>14. r.at = "diagram" => r.flow \in live /\ r.count = count[r.flow]  BY <2>7
    <2>15. r.flow \in used'  BY <2>7
    <2> QED  BY ONLY BInv, h \in Handlers, <2>6, <2>10, <2>11, <2>12, <2>13, <2>14, <2>15, StartBInv
  <1> QED  BY <1>1, <1>2

(* A save writes its diagram: it, the saves and the copies it meets overlap,
   and the flow is not settled until one of them is through. *)
LEMMA UpsertDiagramBInv ==
    ASSUME BInv, NEW h \in Handlers, UpsertDiagram(h) PROVE RowsInv'
  <1>1. CASE job[h].flow \notin live
    BY <1>1, EndBInv DEF UpsertDiagram
  <1>2. CASE job[h].flow \in live
    <2> DEFINE f == job[h].flow
               others == {g \in Handlers : Writing(g, f)}
               bad == others \cup {g \in Handlers : Copying(g, f)}
               free == (others = {})
               r == [job[h] EXCEPT !.at = "counts", !.alone = free]
    <2>1. /\ job[h].at = "upsert" /\ job' = [Overlap(bad) EXCEPT ![h] = r]
          /\ diagram' = [diagram EXCEPT ![f] = job[h].doc]
          /\ settled' = [settled EXCEPT ![f] = FALSE]
          /\ UNCHANGED <<live, used, count, votes, shown>>
      BY <1>2 DEF UpsertDiagram
    <2>2. job[h] \in Saves /\ job[h] # Idle /\ f \in FlowIds /\ f \in used
      <3>1. job[h] \in Jobs  BY DEF BInv, TypeOK, Jobs
      <3>2. job[h] \in Saves  BY ONLY <2>1, <3>1, JobKinds
      <3> QED  BY <3>2, SaveFacts, OthersFacts
    <2>3. free \in BOOLEAN /\ (free => \A g \in Handlers : ~Writing(g, f))  OBVIOUS
    <2>4. bad \subseteq {g \in Handlers : job[g] # Idle}  BY BusyFacts DEF BInv
    <2>5. \A g \in Handlers : Writing(g, f) \/ Copying(g, f) => g \in bad  OBVIOUS
    <2> HIDE DEF free, bad
    <2>6. /\ r \in Saves /\ r.at = "counts" /\ r.flow = f /\ r.doc = job[h].doc
          /\ r.alone = free
      BY <2>2, <2>3 DEF Saves
    <2> HIDE DEF r, f
    <2>7. \A g \in Handlers : Like(Overlap(bad)[g], job[g]) /\ (g \in bad => ~Overlap(bad)[g].alone)
      BY <2>4, OverlapFacts DEF BInv
    <2>8. Overlap(bad) \in [Handlers -> Jobs] /\ r \in Jobs
      BY <2>4, <2>6, OverlapTypes DEF BInv, Jobs
    <2>9. /\ job' \in [Handlers -> Jobs] /\ job'[h] = r
          /\ \A g \in Handlers \ {h} : Like(job'[g], job[g]) /\ (g \in bad => ~job'[g].alone)
      BY ONLY <2>1, <2>7, <2>8
    <2>10. /\ diagram' \in [FlowIds -> Docs \cup {NoDoc}] /\ diagram'[f] = job[h].doc
           /\ settled' \in [FlowIds -> BOOLEAN] /\ ~settled'[f]
           /\ \A e \in FlowIds \ {f} : diagram'[e] = diagram[e] /\ settled'[e] = settled[e]
      BY <2>1, <2>2, SaveFacts DEF BInv, TypeOK
    <2>11. TypeOK'  BY <2>1, <2>9, <2>10 DEF BInv, TypeOK, Jobs
    <2>12. RowsMatch'  BY <2>1, <2>10 DEF BInv, TypeOK, RowsMatch
    <2>13. NothingLeft'  BY <1>2, <2>1, <2>10 DEF BInv, NothingLeft, f
    <2>14. ASSUME NEW g \in Handlers \ {h}, job[g] # Idle
           PROVE  /\ Writing(g, job[g].flow) /\ job[g].flow \in live =>
                        /\ ~settled'[job[g].flow]
                        /\ job'[g].alone =>
                              /\ diagram'[job[g].flow] = diagram[job[g].flow]
                              /\ r.flow # job[g].flow
                  /\ job[g] \in Copies => r.flow # job[g].new
      <3>1. /\ job[g].flow \in FlowIds
            /\ job[g] \in Copies => job[g].new \notin live
            /\ Writing(g, job[g].flow) /\ job[g].flow \in live => ~settled[job[g].flow]
        BY <2>14, OthersFacts
      <3>2. job[g] \in Copies => r.flow # job[g].new  BY <1>2, <2>6, <3>1 DEF f
      <3>3. CASE job[g].flow = f
        <4>1. Writing(g, job[g].flow) => ~job'[g].alone  BY <2>5, <2>9, <3>3
        <4> QED  BY ONLY <2>10, <3>2, <3>3, <4>1
      <3>4. CASE job[g].flow # f
        BY ONLY <2>6, <2>10, <3>1, <3>2, <3>4
      <3> QED  BY <3>3, <3>4
    <2>15. JobsInv'
      <3>1. r.alone => \A g \in Handlers \ {h} : ~Writing(g, r.flow)  BY <2>3, <2>6
      <3>2. diagram'[r.flow] = r.doc /\ ~settled'[r.flow] /\ r.flow \in used'
        BY <2>1, <2>2, <2>6, <2>10 DEF f
      <3>3. r \in Saves \cup Copies /\ r \notin Copies /\ r.at = "counts"
        BY <2>6, SaveFacts, CopyFacts
      <3>4. live' = live /\ used \subseteq used' /\ count' = count  BY <2>1
      <3>5. \A g \in Handlers \ {h} : Like(job'[g], job[g])  BY <2>9
      <3> QED  BY ONLY BInv, <2>9, <2>14, <3>1, <3>2, <3>3, <3>4, <3>5, JobMoves
    <2> QED  BY <2>11, <2>12, <2>13, <2>15 DEF RowsInv
  <1> QED  BY <1>1, <1>2

(* It stores the counts of its own diagram; a copy under way overlaps. *)
LEMMA UpdateCountsBInv ==
    ASSUME BInv, NEW h \in Handlers, UpdateCounts(h) PROVE RowsInv'
  <1>1. CASE job[h].flow \notin live
    BY <1>1, EndBInv DEF UpdateCounts
  <1>2. CASE job[h].flow \in live
    <2> DEFINE f == job[h].flow
               bad == {g \in Handlers : Copying(g, f)}
               r == [job[h] EXCEPT !.at = "publish"]
    <2>1. /\ job[h].at = "counts" /\ job' = [Overlap(bad) EXCEPT ![h] = r]
          /\ count' = [count EXCEPT ![f] = Size[job[h].doc]]
          /\ UNCHANGED <<live, used, diagram, votes, shown, settled>>
      BY <1>2 DEF UpdateCounts
    <2>2. job[h] \in Saves /\ job[h] # Idle /\ f \in FlowIds /\ f \in used /\ job[h].doc \in Docs
      <3>1. job[h] \in Jobs  BY DEF BInv, TypeOK, Jobs
      <3>2. job[h] \in Saves  BY ONLY <2>1, <3>1, JobKinds
      <3> QED  BY <3>2, SaveFacts, OthersFacts
    <2>3. Writing(h, f)  BY <2>1 DEF Writing
    <2>4. bad \subseteq {g \in Handlers : job[g] # Idle}  BY BusyFacts DEF BInv
    <2>5. \A g \in Handlers : Copying(g, f) => g \in bad  OBVIOUS
    <2> HIDE DEF bad
    <2>6. /\ r \in Saves /\ r.at = "publish" /\ r.flow = f /\ r.doc = job[h].doc
          /\ r.alone = job[h].alone
      BY <2>2 DEF Saves
    <2>7. /\ ~settled[f]
          /\ job[h].alone => /\ diagram[f] = job[h].doc
                             /\ \A g \in Handlers \ {h} : ~Writing(g, f)
      BY <1>2, <2>3 DEF BInv, BoardFlowsInv, Writers
    <2> HIDE DEF r, f
    <2>8. \A g \in Handlers : Like(Overlap(bad)[g], job[g]) /\ (g \in bad => ~Overlap(bad)[g].alone)
      BY <2>4, OverlapFacts DEF BInv
    <2>9. Overlap(bad) \in [Handlers -> Jobs] /\ r \in Jobs
      BY <2>4, <2>6, OverlapTypes DEF BInv, Jobs
    <2>10. /\ job' \in [Handlers -> Jobs] /\ job'[h] = r
           /\ \A g \in Handlers \ {h} : Like(job'[g], job[g]) /\ (g \in bad => ~job'[g].alone)
      BY ONLY <2>1, <2>8, <2>9
    <2>11. /\ Size[job[h].doc] \in Nat
           /\ count' \in [FlowIds -> Nat] /\ count'[f] = Size[job[h].doc]
           /\ \A e \in FlowIds \ {f} : count'[e] = count[e]
      BY <2>1, <2>2, BoardFlowsConstants DEF BInv, TypeOK
    <2>12. TypeOK'  BY <2>1, <2>10, <2>11 DEF BInv, TypeOK, Jobs
    <2>13. RowsMatch'  BY <2>1, <2>7, <2>11 DEF BInv, TypeOK, RowsMatch
    <2>14. NothingLeft'  BY <1>2, <2>1, <2>11 DEF BInv, NothingLeft, f
    <2>15. ASSUME NEW g \in Handlers \ {h}, job[g] # Idle
           PROVE  /\ Writing(g, job[g].flow) /\ job[g].flow \in live =>
                        /\ ~settled[job[g].flow]
                        /\ job'[g].alone =>
                              /\ count'[job[g].flow] = count[job[g].flow]
                              /\ r.flow # job[g].flow
                  /\ Copying(g, job[g].flow) /\ job'[g].alone =>
                        count'[job[g].flow] = count[job[g].flow]
                  /\ job[g] \in Copies => r.flow # job[g].new
      <3>1. /\ job[g].flow \in FlowIds
            /\ job[g] \in Copies => job[g].new \notin live
            /\ Writing(g, job[g].flow) /\ job[g].flow \in live => ~settled[job[g].flow]
        BY <2>15, OthersFacts
      <3>2. job[g] \in Copies => r.flow # job[g].new  BY <1>2, <2>6, <3>1 DEF f
      <3>3. CASE job[g].flow = f
        <4>1. Copying(g, job[g].flow) => ~job'[g].alone  BY <2>5, <2>10, <3>3
        <4>2. Writing(g, job[g].flow) /\ job[g].flow \in live => ~job[g].alone
          BY <2>3, <3>3 DEF BInv, BoardFlowsInv, Writers
        <4>3. job'[g].alone => job[g].alone  BY <2>10, <2>15 DEF Like
        <4> QED  BY ONLY <3>1, <3>2, <4>1, <4>2, <4>3
      <3>4. CASE job[g].flow # f
        BY ONLY <2>6, <2>11, <3>1, <3>2, <3>4
      <3> QED  BY <3>3, <3>4
    <2>16. JobsInv'
      <3>1. r.alone => /\ diagram'[r.flow] = r.doc
                       /\ \A g \in Handlers \ {h} : ~Writing(g, r.flow)
        BY <2>1, <2>6, <2>7
      <3>2. count'[r.flow] = Size[r.doc] /\ ~settled'[r.flow] /\ r.flow \in used'
        BY <2>1, <2>2, <2>6, <2>7, <2>11 DEF f
      <3>3. r \in Saves \cup Copies /\ r \notin Copies /\ r.at = "publish"
        BY <2>6, SaveFacts, CopyFacts
      <3>4. live' = live /\ used \subseteq used' /\ diagram' = diagram /\ settled' = settled
        BY <2>1
      <3>5. \A g \in Handlers \ {h} : Like(job'[g], job[g])  BY <2>10
      <3> QED  BY ONLY BInv, <2>10, <2>15, <3>1, <3>2, <3>3, <3>4, <3>5, JobMoves
    <2> QED  BY <2>12, <2>13, <2>14, <2>16 DEF RowsInv
  <1> QED  BY <1>1, <1>2

-----------------------------------------------------------------------------
(* The rows and the jobs agree after every step. *)
LEMMA NextRowsInv == ASSUME BInv, [Next]_vars PROVE RowsInv'
  <1>1. ASSUME NEW f \in FlowIds, CreateFlow(f) PROVE RowsInv'  BY <1>1, CreateFlowBInv
  <1>2. ASSUME NEW f \in FlowIds, DeleteFlow(f) PROVE RowsInv'  BY <1>2, DeleteFlowBInv
  <1>3. ASSUME NEW f \in FlowIds, NEW u \in Users, CastVote(f, u) PROVE RowsInv'
    <2>1. votes' \subseteq FlowIds \X Users /\ \A v \in votes' : v[1] \in live
      BY <1>3 DEF CastVote, BInv, TypeOK, NothingLeft
    <2> QED  BY <1>3, <2>1, VoteBInv DEF CastVote
  <1>4. ASSUME NEW f \in FlowIds, NEW u \in Users, RemoveVote(f, u) PROVE RowsInv'
    <2>1. votes' \subseteq FlowIds \X Users /\ \A v \in votes' : v[1] \in live
      BY <1>4 DEF RemoveVote, BInv, TypeOK, NothingLeft
    <2> QED  BY <1>4, <2>1, VoteBInv DEF RemoveVote
  <1>5. ASSUME NEW h \in Handlers, NEW f \in FlowIds, NEW g \in FlowIds, DuplicateFlow(h, f, g)
        PROVE  RowsInv'
    BY <1>5, DuplicateFlowBInv
  <1>6. ASSUME NEW h \in Handlers, NEW f \in FlowIds, NEW d \in Docs, SaveDiagram(h, f, d)
        PROVE  RowsInv'
    BY <1>6, SaveDiagramBInv
  <1>7. ASSUME NEW h \in Handlers, CopyRow(h) PROVE RowsInv'  BY <1>7, CopyRowBInv
  <1>8. ASSUME NEW h \in Handlers, CopyDiagram(h) PROVE RowsInv'  BY <1>8, CopyDiagramBInv
  <1>9. ASSUME NEW h \in Handlers, UpsertDiagram(h) PROVE RowsInv'  BY <1>9, UpsertDiagramBInv
  <1>10. ASSUME NEW h \in Handlers, UpdateCounts(h) PROVE RowsInv'  BY <1>10, UpdateCountsBInv
  <1>11. ASSUME NEW h \in Handlers, Publish(h) PROVE RowsInv'  BY <1>11, PublishBInv
  <1>12. ASSUME NEW h \in Handlers, Fail(h) PROVE RowsInv'  BY <1>12, EndBInv DEF Fail
  <1>13. CASE UNCHANGED vars
    BY <1>13 DEF vars, BInv, RowsInv, TypeOK, RowsMatch, NothingLeft, BoardFlowsInv,
                 JobsInv, Writers, Copiers, NewIds, Writing, Copying
  <1> QED
    BY <1>1, <1>2, <1>3, <1>4, <1>5, <1>6, <1>7, <1>8, <1>9, <1>10, <1>11, <1>12, <1>13
       DEF Next

(* An id under which something was shown stays in use, and no copy takes it. *)
LEMMA UnseenKept ==
    ASSUME BInv, used \subseteq used', shown' = shown,
           \A h \in Handlers : job'[h].at \in {"row", "diagram"} =>
               \/ job'[h].new \notin used
               \/ job[h].at \in {"row", "diagram"} /\ job'[h].new = job[h].new
    PROVE  Unseen'
  BY DEF BInv, BoardFlowsInv, Unseen

LEMMA LikeNew ==
    ASSUME NEW j \in Jobs, NEW k, Like(k, j), k.at \in {"row", "diagram"}
    PROVE  j.at \in {"row", "diagram"} /\ k.new = j.new
  <1>1. j.at = k.at  BY DEF Like
  <1>2. j \in Copies  BY <1>1, JobKinds
  <1> QED  BY <1>1, <1>2 DEF Like

(* One request moves on to r, and the others at most learn that they overlap. *)
LEMMA UnseenMoves ==
    ASSUME BInv, NEW h \in Handlers, used \subseteq used', shown' = shown,
           \A g \in Handlers \ {h} : Like(job'[g], job[g]),
           job'[h].at \in {"row", "diagram"} =>
               \/ job'[h].new \notin used
               \/ job[h].at \in {"row", "diagram"} /\ job'[h].new = job[h].new
    PROVE  Unseen'
  <1>1. \A g \in Handlers : job[g] \in Jobs  BY DEF BInv, TypeOK, Jobs
  <1>2. \A g \in Handlers \ {h} : job'[g].at \in {"row", "diagram"} =>
            job[g].at \in {"row", "diagram"} /\ job'[g].new = job[g].new
    BY <1>1, LikeNew
  <1> QED  BY <1>2, UnseenKept

LEMMA UnseenNext == ASSUME BInv, [Next]_vars PROVE Unseen'
  <1>1. ASSUME NEW f \in FlowIds,
               CreateFlow(f) \/ \E u \in Users : CastVote(f, u) \/ RemoveVote(f, u)
        PROVE  Unseen'
    <2>1. used \subseteq used' /\ shown' = shown /\ job' = job
      BY <1>1 DEF CreateFlow, CastVote, RemoveVote
    <2> QED  BY <2>1, UnseenKept
  <1>2. ASSUME NEW f \in FlowIds, DeleteFlow(f) PROVE Unseen'
    <2> DEFINE bad == {h \in Handlers : Copying(h, f)}
    <2>1. used' = used /\ shown' = shown /\ job' = Overlap(bad)  BY <1>2 DEF DeleteFlow
    <2>2. bad \subseteq {h \in Handlers : job[h] # Idle}  BY BusyFacts DEF BInv
    <2> HIDE DEF bad
    <2>3. \A h \in Handlers : Like(job'[h], job[h])  BY <2>1, <2>2, OverlapFacts DEF BInv
    <2>4. \A h \in Handlers : job[h] \in Jobs  BY DEF BInv, TypeOK, Jobs
    <2>5. \A h \in Handlers : job'[h].at \in {"row", "diagram"} =>
              job[h].at \in {"row", "diagram"} /\ job'[h].new = job[h].new
      BY <2>3, <2>4, LikeNew
    <2> QED  BY <2>1, <2>5, UnseenKept
  <1>3. ASSUME NEW h \in Handlers, NEW f \in FlowIds, NEW g \in FlowIds, DuplicateFlow(h, f, g)
        PROVE  Unseen'
    <2>1. job \in [Handlers -> Jobs] /\ \A k \in Handlers : Like(job[k], job[k])
      BY SameJobs DEF BInv
    <2>2. /\ used \subseteq used' /\ shown' = shown /\ g \notin used
          /\ job'[h].new = g /\ \A k \in Handlers \ {h} : job'[k] = job[k]
      BY <1>3, <2>1 DEF DuplicateFlow
    <2>3. \A k \in Handlers \ {h} : Like(job'[k], job[k])  BY <2>1, <2>2
    <2> QED  BY <2>2, <2>3, UnseenMoves
  <1>4. ASSUME NEW h \in Handlers, NEW f \in FlowIds, NEW d \in Docs, SaveDiagram(h, f, d)
        PROVE  Unseen'
    <2>1. job \in [Handlers -> Jobs] /\ \A k \in Handlers : Like(job[k], job[k])
      BY SameJobs DEF BInv
    <2>2. /\ used' = used /\ shown' = shown
          /\ job'[h].at = "upsert" /\ \A k \in Handlers \ {h} : job'[k] = job[k]
      BY <1>4, <2>1 DEF SaveDiagram
    <2>3. \A k \in Handlers \ {h} : Like(job'[k], job[k])  BY <2>1, <2>2
    <2> QED  BY <2>2, <2>3, UnseenMoves
  <1>5. ASSUME NEW h \in Handlers, Finish(h), used' = used, shown' = shown PROVE Unseen'
    <2>1. job'[h] = Idle /\ \A g \in Handlers \ {h} : Like(job'[g], job[g])
      BY <1>5, FinishFacts DEF BInv
    <2>2. job'[h].at = "idle"  BY <2>1 DEF Idle
    <2> QED  BY <1>5, <2>1, <2>2, UnseenMoves
  <1>6. ASSUME NEW h \in Handlers, CopyDiagram(h) \/ Fail(h) PROVE Unseen'
    BY <1>5, <1>6 DEF CopyDiagram, Fail
  <1>7. ASSUME NEW h \in Handlers, CopyRow(h) PROVE Unseen'
    <2>1. CASE job[h].flow \notin live  BY <1>5, <1>7, <2>1 DEF CopyRow
    <2>2. CASE job[h].flow \in live
      <3>1. job \in [Handlers -> Jobs] /\ \A k \in Handlers : Like(job[k], job[k])
        BY SameJobs DEF BInv
      <3>2. job[h] \in Copies /\ job[h].at = "row"  BY <1>7, <3>1, JobKinds DEF CopyRow
      <3>3. /\ used' = used /\ shown' = shown
            /\ job'[h] = [job[h] EXCEPT !.at = "diagram", !.count = count[job[h].flow]]
            /\ \A k \in Handlers \ {h} : job'[k] = job[k]
        BY <1>7, <2>2, <3>1 DEF CopyRow
      <3>4. job'[h].new = job[h].new  BY <3>2, <3>3 DEF Copies
      <3>5. \A k \in Handlers \ {h} : Like(job'[k], job[k])  BY <3>1, <3>3
      <3> QED  BY <3>2, <3>3, <3>4, <3>5, UnseenMoves
    <2> QED  BY <2>1, <2>2
  <1>8. ASSUME NEW h \in Handlers, NEW bad, bad \subseteq {g \in Handlers : job[g] # Idle},
               NEW r \in Saves, job' = [Overlap(bad) EXCEPT ![h] = r],
               used' = used, shown' = shown
        PROVE  Unseen'
    <2>1. Overlap(bad) \in [Handlers -> Jobs] /\ \A g \in Handlers : Like(Overlap(bad)[g], job[g])
      BY <1>8, OverlapTypes, OverlapFacts DEF BInv
    <2>2. job'[h] = r /\ \A g \in Handlers \ {h} : Like(job'[g], job[g])  BY ONLY <1>8, <2>1
    <2>3. job'[h].at \notin {"row", "diagram"}  BY <2>2, SaveFacts
    <2> QED  BY <1>8, <2>2, <2>3, UnseenMoves
  <1>9. ASSUME NEW h \in Handlers, UpsertDiagram(h) PROVE Unseen'
    <2>1. CASE job[h].flow \notin live  BY <1>5, <1>9, <2>1 DEF UpsertDiagram
    <2>2. CASE job[h].flow \in live
      <3> DEFINE f == job[h].flow
                 others == {g \in Handlers : Writing(g, f)}
                 bad == others \cup {g \in Handlers : Copying(g, f)}
                 free == (others = {})
                 r == [job[h] EXCEPT !.at = "counts", !.alone = free]
      <3>1. /\ job[h].at = "upsert" /\ job' = [Overlap(bad) EXCEPT ![h] = r]
            /\ used' = used /\ shown' = shown
        BY <1>9, <2>2 DEF UpsertDiagram
      <3>2. job[h] \in Jobs  BY DEF BInv, TypeOK, Jobs
      <3>3. job[h] \in Saves  BY ONLY <3>1, <3>2, JobKinds
      <3>4. bad \subseteq {g \in Handlers : job[g] # Idle}  BY BusyFacts DEF BInv
      <3>5. free \in BOOLEAN  OBVIOUS
      <3> HIDE DEF free, bad
      <3>6. r \in Saves  BY <3>3, <3>5 DEF Saves
      <3> HIDE DEF r
      <3> QED  BY <3>1, <3>4, <3>6, <1>8
    <2> QED  BY <2>1, <2>2
  <1>10. ASSUME NEW h \in Handlers, UpdateCounts(h) PROVE Unseen'
    <2>1. CASE job[h].flow \notin live  BY <1>5, <1>10, <2>1 DEF UpdateCounts
    <2>2. CASE job[h].flow \in live
      <3> DEFINE bad == {g \in Handlers : Copying(g, job[h].flow)}
                 r == [job[h] EXCEPT !.at = "publish"]
      <3>1. /\ job[h].at = "counts" /\ job' = [Overlap(bad) EXCEPT ![h] = r]
            /\ used' = used /\ shown' = shown
        BY <1>10, <2>2 DEF UpdateCounts
      <3>2. job[h] \in Jobs  BY DEF BInv, TypeOK, Jobs
      <3>3. job[h] \in Saves  BY ONLY <3>1, <3>2, JobKinds
      <3>4. bad \subseteq {g \in Handlers : job[g] # Idle}  BY BusyFacts DEF BInv
      <3> HIDE DEF bad
      <3>5. r \in Saves  BY <3>3 DEF Saves
      <3> HIDE DEF r
      <3> QED  BY <3>1, <3>4, <3>5, <1>8
    <2> QED  BY <2>1, <2>2
  <1>11. ASSUME NEW h \in Handlers, Publish(h) PROVE Unseen'
    <2>1. job[h].at = "publish" /\ job[h] \in Jobs  BY <1>11 DEF Publish, BInv, TypeOK, Jobs
    <2>2. job[h] # Idle /\ job[h].flow \in FlowIds
      BY ONLY <2>1, JobKinds, SaveFacts
    <2>3. /\ job[h].flow \in used
          /\ \A g \in Handlers : job[g].at \in {"row", "diagram"} => job[g].new # job[h].flow
      <3>1. \A g \in Handlers : job[g].at \in {"row", "diagram"} => job[g] # Idle  BY DEF Idle
      <3> QED  BY <2>2, <3>1 DEF BInv, BoardFlowsInv, NewIds
    <2>4. job'[h] = Idle /\ \A g \in Handlers \ {h} : job'[g] = job[g]
      BY <1>11, FinishFacts DEF Publish, BInv
    <2>5. job'[h].at = "idle"  BY <2>4 DEF Idle
    <2>6. used' = used /\ \A f \in FlowIds : shown'[f] # NoDoc => shown[f] # NoDoc \/ f = job[h].flow
      BY <1>11, <2>2 DEF Publish, BInv, TypeOK
    <2> QED  BY <2>3, <2>4, <2>5, <2>6 DEF Unseen, BInv, BoardFlowsInv
  <1>12. CASE UNCHANGED vars
    BY <1>12 DEF vars, Unseen, BInv, BoardFlowsInv
  <1> QED
    BY <1>1, <1>2, <1>3, <1>4, <1>6, <1>7, <1>9, <1>10, <1>11, <1>12 DEF Next

(* BInv is inductive. *)
LEMMA NextBInv == ASSUME BInv, [Next]_vars PROVE BInv'
  <1>1. RowsInv' /\ Unseen'  BY NextRowsInv, UnseenNext
  <1> QED  BY <1>1 DEF BInv, RowsInv, JobsInv, BoardFlowsInv

LEMMA SpecBInv == Spec => []BInv
  <1>1. Init => BInv  BY InitBInv
  <1>2. BInv /\ [Next]_vars => BInv'  BY NextBInv
  <1> QED  BY <1>1, <1>2, PTL DEF Spec

(* The variables keep their types, whatever overlaps or fails. *)
THEOREM SpecTypeOK == Spec => []TypeOK
  <1>1. BInv => TypeOK  BY DEF BInv
  <1> QED  BY <1>1, SpecBInv, PTL

(* board_flow_service.go SaveDiagram, DuplicateFlow: what the list says of a
   settled flow is so. *)
THEOREM SpecCountsMatch == Spec => []CountsMatch
  <1>1. BInv => CountsMatch  BY DEF BInv, RowsMatch, CountsMatch, ListFlows, GetDiagram
  <1> QED  BY <1>1, SpecBInv, PTL

(* board_flow_repo.go Delete: the tables hold nothing of a deleted flow, whatever
   request had found it before; the foreign keys, which CastVote and UpsertDiagram
   model, are what it rests on. *)
THEOREM SpecNothingLeft == Spec => []NothingLeft
  <1>1. BInv => NothingLeft  BY DEF BInv
  <1> QED  BY <1>1, SpecBInv, PTL

(* Why: saves and copies that are alone find the rows as they left them. *)
THEOREM SpecBoardFlowsInv == Spec => []BoardFlowsInv
  <1>1. BInv => BoardFlowsInv  BY DEF BInv
  <1> QED  BY <1>1, SpecBInv, PTL

-----------------------------------------------------------------------------
(* Only three actions change what flows there are. *)
LEMMA LiveFacts ==
    ASSUME BInv, [Next]_vars, live' # live
    PROVE  \/ \E f \in FlowIds : f \notin used /\ live' = live \cup {f} /\ job' = job
           \/ \E f \in FlowIds : live' \subseteq live /\ DeleteFlow(f)
           \/ \E h \in Handlers : CopyDiagram(h)
  <1>1. CASE \E f \in FlowIds : CreateFlow(f)  BY <1>1 DEF CreateFlow
  <1>2. CASE \E f \in FlowIds : DeleteFlow(f)  BY <1>2 DEF DeleteFlow
  <1>3. CASE \E f \in FlowIds :
                 \/ \E u \in Users : CastVote(f, u) \/ RemoveVote(f, u)
                 \/ \E h \in Handlers :
                       \/ \E g \in FlowIds : DuplicateFlow(h, f, g)
                       \/ \E d \in Docs : SaveDiagram(h, f, d)
    BY <1>3 DEF CastVote, RemoveVote, DuplicateFlow, SaveDiagram
  <1>4. CASE \E h \in Handlers :
                 CopyRow(h) \/ UpsertDiagram(h) \/ UpdateCounts(h) \/ Publish(h) \/ Fail(h)
    BY <1>4 DEF CopyRow, UpsertDiagram, UpdateCounts, Publish, Fail
  <1>5. CASE UNCHANGED vars  BY <1>5 DEF vars
  <1> QED  BY <1>1, <1>2, <1>3, <1>4, <1>5 DEF Next

(* board_flow_service.go DuplicateFlow: an undisturbed copy has both rows of
   its source. *)
THEOREM SpecCopyIsWhole == Spec => CopyIsWhole
  <1>1. ASSUME BInv, [Next]_vars, NEW h \in Handlers,
               Copying(h, job[h].flow), job[h].alone, job'[h] = Idle, live' # live
        PROVE  /\ live' = live \cup {job[h].new}
               /\ count'[job[h].new] = count[job[h].flow]
               /\ diagram'[job[h].new] = diagram[job[h].flow]
    <2>1. job[h] # Idle /\ job[h] \in Copies  BY <1>1, BusyFacts DEF BInv
    <2>2. job' # job  BY <1>1, <2>1
    <2>3. ASSUME NEW f \in FlowIds, DeleteFlow(f) PROVE FALSE
      <3>1. {k \in Handlers : Copying(k, f)} \subseteq {k \in Handlers : job[k] # Idle}
        BY <1>1, BusyFacts DEF BInv
      <3>2. Like(Overlap({k \in Handlers : Copying(k, f)})[h], job[h])
        BY <1>1, <3>1, OverlapFacts DEF BInv
      <3> QED  BY <1>1, <2>1, <2>3, <3>2 DEF DeleteFlow, Like
    <2>4. ASSUME NEW k \in Handlers, CopyDiagram(k), k # h PROVE FALSE
      <3>1. job'[h] = job[h]  BY <1>1, <2>4, FinishFacts DEF CopyDiagram, BInv
      <3> QED  BY <1>1, <2>1, <3>1
    <2>5. CopyDiagram(h)  BY <1>1, <2>2, <2>3, <2>4, LiveFacts
    <2>6. job[h].flow \in live /\ job[h].count = count[job[h].flow]
      BY <1>1 DEF BInv, BoardFlowsInv, Copiers
    <2>7. job[h].new \in FlowIds  BY <2>1, CopyFacts
    <2> QED  BY <1>1, <2>5, <2>6, <2>7 DEF CopyDiagram, BInv, TypeOK
  <1>2. BInv /\ [Next]_vars =>
            [\A h \in Handlers : Copying(h, job[h].flow) /\ job[h].alone /\ job'[h] = Idle =>
                \/ UNCHANGED live
                \/ /\ live' = live \cup {job[h].new}
                   /\ count'[job[h].new] = count[job[h].flow]
                   /\ diagram'[job[h].new] = diagram[job[h].flow]]_vars
    BY <1>1
  <1> QED  BY <1>2, SpecBInv, PTL DEF Spec, CopyIsWhole
=============================================================================
