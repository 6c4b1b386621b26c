-------------------------- MODULE AttendanceProofs --------------------------
(***************************************************************************)
(* What Attendance.tla says of open sessions and of answers, for any       *)
(* number of members, requests, days and check-ins.                        *)
(***************************************************************************)
EXTENDS Attendance, TLAPS, WellFoundedInduction

AInv == TypeOK /\ OneSession /\ ClosedFirst /\ AnsweredTruly /\ AttendanceInv

Row == [user: Users, day: Days, open: BOOLEAN]
Jobs == Checks \cup Answers \cup Summaries \cup {Idle}
AtWork == {"look", "insert", "update", "reread"}

-----------------------------------------------------------------------------
(* The kinds of job, told apart by where they are. *)
LEMMA CheckFacts ==
    ASSUME NEW r \in Checks
    PROVE  r.at \in {"look", "insert", "update"} /\ r.user \in Users /\ r.alone \in BOOLEAN
  BY DEF Checks

LEMMA AnswerFacts ==
    ASSUME NEW r \in Answers
    PROVE  /\ r.at = "reread" /\ r.user \in Users /\ r.alone \in BOOLEAN
           /\ r.in \in BOOLEAN /\ r.day \in Days
  BY DEF Answers

LEMMA SummaryFacts ==
    ASSUME NEW r \in Summaries
    PROVE  /\ r.at = "leave" /\ r.day \in Days
           /\ r.open \in SUBSET Users /\ r.left \in SUBSET Users
  BY DEF Summaries

LEMMA JobKinds ==
    ASSUME NEW r \in Jobs
    PROVE  /\ r.at \in {"look", "insert", "update"} => r \in Checks
           /\ r.at = "reread" => r \in Answers
           /\ r.at = "leave" => r \in Summaries
           /\ r.at \in AtWork => r.user \in Users /\ r.alone \in BOOLEAN
           /\ r.at \in AtWork \cup {"leave", "idle"}
           /\ r = Idle => r.at = "idle"
  <1>1. Idle.at = "idle"  BY DEF Idle
  <1> QED  BY <1>1, CheckFacts, AnswerFacts, SummaryFacts DEF Jobs, AtWork

LEMMA JobType == ASSUME TypeOK, NEW h \in Handlers PROVE job[h] \in Jobs
  BY DEF TypeOK, Jobs

(* To lose its flag changes nothing else of a job. *)
LEMMA NotAlone ==
    ASSUME NEW r \in Jobs, r.at \in AtWork, NEW q, q = [r EXCEPT !.alone = FALSE]
    PROVE  /\ q \in Jobs /\ q.at = r.at /\ q.user = r.user /\ q.alone = FALSE
           /\ r.at = "reread" => q.day = r.day /\ q.in = r.in
  <1>1. CASE r \in Checks
    <2>1. q \in Checks /\ q.at = r.at /\ q.user = r.user /\ q.alone = FALSE
      BY <1>1 DEF Checks
    <2> QED  BY <2>1, <1>1, CheckFacts DEF Jobs
  <1>2. CASE r \in Answers
    <2>1. /\ q \in Answers /\ q.at = r.at /\ q.user = r.user /\ q.alone = FALSE
          /\ q.day = r.day /\ q.in = r.in
      BY <1>2 DEF Answers
    <2> QED  BY <2>1 DEF Jobs
  <1> QED  BY <1>1, <1>2, JobKinds DEF AtWork

-----------------------------------------------------------------------------
LEMMA RowType ==
    ASSUME TypeOK, NEW i \in DOMAIN logs
    PROVE  /\ logs[i] \in Row /\ logs[i].user \in Users /\ logs[i].day \in Days
           /\ logs[i].open \in BOOLEAN
  <1>1. logs \in Seq(Row)  BY DEF TypeOK, Row
  <1>2. logs[i] \in Row  BY <1>1
  <1> QED  BY <1>2 DEF Row

LEMMA DaysAreNat == today \in Days => today \in Nat
  BY DEF Days

(* A set of places in the log that is not empty has a last one. *)
LEMMA LastOne ==
    ASSUME NEW n \in Nat, NEW S, S \subseteq 1..n, S # {}
    PROVE  \E i \in S : \A j \in S : j <= i
  <1> DEFINE T == {n - i : i \in S}
  <1>1. T \subseteq Nat /\ T # {}
    <2>1. ASSUME NEW i \in S PROVE n - i \in Nat  OBVIOUS
    <2> QED  BY <2>1
  <1>2. PICK x \in T : \A y \in T : <<y, x>> \notin OpToRel(<, Nat)
    <2> HIDE DEF T
    <2> QED  BY <1>1, WFMin, NatLessThanWellFounded
  <1>3. PICK i \in S : x = n - i  OBVIOUS
  <1>4. ASSUME NEW j \in S PROVE j <= i
    <2>1. n - j \in T  OBVIOUS
    <2>2. ~(n - j < n - i)  BY <1>1, <1>2, <1>3, <2>1 DEF OpToRel
    <2> QED  BY <2>2
  <1> QED  BY <1>4

(* Where closed rows stand before open ones, an open row of a day makes the
   latest one open. *)
LEMMA LatestIsOpen ==
    ASSUME NEW l \in Seq(Row), NEW i \in DOMAIN l, l[i].open,
           \A m, n \in DOMAIN l :
               m < n /\ l[m].user = l[n].user /\ l[m].day = l[n].day /\ l[m].open
               => l[n].open
    PROVE  \E k \in DOMAIN l :
               /\ l[k].user = l[i].user /\ l[k].day = l[i].day /\ l[k].open
               /\ \A j \in DOMAIN l :
                     l[j].user = l[i].user /\ l[j].day = l[i].day => j <= k
  <1> DEFINE S == {j \in DOMAIN l : l[j].user = l[i].user /\ l[j].day = l[i].day}
  <1>1. S \subseteq 1..Len(l) /\ Len(l) \in Nat /\ i \in S  OBVIOUS
  <1>2. PICK k \in S : \A j \in S : j <= k
    <2> HIDE DEF S
    <2> QED  BY <1>1, LastOne
  <1>3. i <= k /\ i \in Nat /\ k \in Nat  BY <1>1, <1>2
  <1>4. CASE i = k  BY <1>2, <1>4
  <1>5. CASE i < k
    <2>1. l[k].open  BY <1>2, <1>5
    <2> QED  BY <2>1, <1>2
  <1> QED  BY <1>3, <1>4, <1>5

(* So whoever has an open session of a day is checked in, also after a step. *)
LEMMA OpenIsCheckedIn ==
    ASSUME TypeOK, ClosedFirst, NEW u, NEW d, NEW i \in DOMAIN logs,
           logs[i].user = u, logs[i].day = d, logs[i].open
    PROVE  CheckedIn(u, d)
  <1>1. logs \in Seq(Row)  BY DEF TypeOK, Row
  <1>2. PICK k \in DOMAIN logs :
            /\ logs[k].user = u /\ logs[k].day = d /\ logs[k].open
            /\ \A j \in DOMAIN logs : logs[j].user = u /\ logs[j].day = d => j <= k
    BY <1>1, LatestIsOpen DEF ClosedFirst
  <1> QED  BY <1>2 DEF CheckedIn, Latest, Mine

LEMMA OpenIsCheckedInNext ==
    ASSUME TypeOK', ClosedFirst', NEW u, NEW d, NEW i \in DOMAIN logs',
           logs'[i].user = u, logs'[i].day = d, logs'[i].open
    PROVE  CheckedIn(u, d)'
  <1>1. logs' \in Seq(Row)  BY DEF TypeOK, Row
  <1>2. PICK k \in DOMAIN logs' :
            /\ logs'[k].user = u /\ logs'[k].day = d /\ logs'[k].open
            /\ \A j \in DOMAIN logs' : logs'[j].user = u /\ logs'[j].day = d => j <= k
    BY <1>1, LatestIsOpen DEF ClosedFirst
  <1> QED  BY <1>2 DEF CheckedIn, Latest, Mine

LEMMA CheckedInIsOpen ==
    ASSUME NEW u, NEW d, CheckedIn(u, d)
    PROVE  \E i \in DOMAIN logs : logs[i].user = u /\ logs[i].day = d /\ logs[i].open
  BY DEF CheckedIn, Latest, Mine

(* The first row of a day is open only when all are. *)
LEMMA SeenIsCheckedIn ==
    ASSUME TypeOK, ClosedFirst, NEW u, NEW d, SeenOpen(u, d)
    PROVE  CheckedIn(u, d)
  BY OpenIsCheckedIn DEF SeenOpen, Mine

-----------------------------------------------------------------------------
(* k is j, but for a flag that is lost or a member that has left. *)
Like(k, j) ==
    /\ k \in Jobs /\ k.at = j.at
    /\ j.at \in AtWork => k.user = j.user /\ (k.alone => j.alone)
    /\ j.at = "reread" => k.day = j.day /\ k.in = j.in
    /\ j.at = "leave" => k.day = j.day /\ k.open = j.open /\ j.left \subseteq k.left

LEMMA LikeItself == ASSUME NEW r \in Jobs PROVE Like(r, r)
  BY DEF Like

(* What the step of one handler leaves of the others. *)
LEMMA GoFacts ==
    ASSUME TypeOK, NEW h \in Handlers, NEW j \in Jobs, Go(h, j)
    PROVE  /\ job' \in [Handlers -> Jobs] /\ job'[h] = j
           /\ \A g \in Handlers \ {h} : job'[g] = job[g] /\ Like(job'[g], job[g])
  <1>1. job \in [Handlers -> Jobs]  BY DEF TypeOK, Jobs
  <1> QED  BY <1>1, LikeItself DEF Go

LEMMA IdleIsJob == Idle \in Jobs /\ Idle.at = "idle"
  BY DEF Jobs, Idle

(* AnsweredTruly and Summarised for one handler and one member. *)
Answered(h) ==
    job[h].at = "reread" /\ job[h].alone =>
        \/ Mine(job[h].user, today) = {} /\ job[h].day < today
        \/ job[h].day = today /\ (CheckedIn(job[h].user, today) <=> job[h].in)
StillIn(h, u) ==
    job[h].at = "leave" /\ u \in job[h].open \ job[h].left => CheckedIn(u, job[h].day)

LEMMA SummarisedIsNext ==
    ASSUME TypeOK', \A h \in Handlers, u \in Users : StillIn(h, u)'
    PROVE  Summarised'
  <1>1. ASSUME NEW h \in Handlers, job'[h].at = "leave"
        PROVE  job'[h].open \subseteq Users
    <2>1. job'[h] \in Jobs  BY DEF TypeOK, Jobs
    <2> QED  BY <1>1, <2>1, JobKinds, SummaryFacts
  <1> QED  BY <1>1 DEF Summarised, StillIn

(* Steps that leave the table and the day alone: a job goes on, ends, or
   starts from what the table holds. *)
LEMMA QuietStep ==
    ASSUME AInv, TypeOK', UNCHANGED <<logs, today, clashed>>,
           \A g \in Handlers :
               \/ Like(job'[g], job[g])
               \/ job'[g].at \in {"idle", "look", "update"}
               \/ /\ job'[g].at = "insert" /\ ~CheckedIn(job'[g].user, today)
               \/ /\ job'[g].at = "leave" /\ job'[g].day = today
                  /\ \A u \in job'[g].open : CheckedIn(u, today)
    PROVE  /\ OneSession' /\ ClosedFirst' /\ AnsweredTruly'
           /\ AboutToInsert' /\ Summarised' /\ InOrder'
  <1> USE DEF AInv, AttendanceInv
  <1>1. OneSession' /\ ClosedFirst'  BY DEF OneSession, ClosedFirst
  <1>2. AnsweredTruly'
    <2> SUFFICES ASSUME NEW h \in Handlers
                 PROVE  Answered(h)'
      BY DEF AnsweredTruly, Answered
    <2>1. CASE job'[h].at = "reread" /\ job'[h].alone
      <3>1. /\ job[h].at = "reread" /\ job[h].alone /\ job[h].user = job'[h].user
            /\ job[h].day = job'[h].day /\ job[h].in = job'[h].in
        BY <2>1 DEF Like, AtWork
      <3>2. Answered(h)  BY DEF AnsweredTruly, Answered
      <3> QED  BY <3>1, <3>2 DEF Answered, Mine, CheckedIn, Latest
    <2> QED  BY <2>1 DEF Answered
  <1>3. AboutToInsert'
    <2> SUFFICES ASSUME NEW h \in Handlers, job'[h].at = "insert", job'[h].alone,
                        NEW i \in DOMAIN logs,
                        logs[i].user = job'[h].user, logs[i].day = today
                 PROVE  ~logs[i].open
      BY DEF AboutToInsert
    <2>1. CASE Like(job'[h], job[h])
      <3>1. job[h].at = "insert" /\ job[h].alone /\ job[h].user = job'[h].user
        BY <2>1 DEF Like, AtWork
      <3> QED  BY <3>1 DEF AboutToInsert
    <2>2. CASE ~CheckedIn(job'[h].user, today)  BY <2>2, OpenIsCheckedIn
    <2> QED  BY <2>1, <2>2
  <1>4. Summarised'
    <2> SUFFICES ASSUME NEW h \in Handlers, NEW u \in Users
                 PROVE  StillIn(h, u)'
      <3>1. \A h \in Handlers, u \in Users : StillIn(h, u)'  OBVIOUS
      <3> QED  BY <3>1, SummarisedIsNext
    <2>1. CASE Like(job'[h], job[h]) /\ job'[h].at = "leave"
      <3>1. /\ job[h].at = "leave" /\ job[h].day = job'[h].day
            /\ job'[h].open = job[h].open /\ job[h].left \subseteq job'[h].left
        BY <2>1 DEF Like
      <3>2. StillIn(h, u)  BY <3>1, JobType, JobKinds, SummaryFacts DEF Summarised, StillIn
      <3> QED  BY <3>1, <3>2 DEF StillIn, CheckedIn, Latest, Mine
    <2>2. CASE job'[h].day = today /\ \A v \in job'[h].open : CheckedIn(v, today)
      BY <2>2 DEF StillIn, CheckedIn, Latest, Mine
    <2> QED  BY <2>1, <2>2 DEF StillIn
  <1>5. InOrder'
    <2>1. ASSUME NEW h \in Handlers, job'[h].at \in {"reread", "leave"}
          PROVE  job'[h].day <= today
      <3>1. today \in Nat  BY DaysAreNat DEF TypeOK
      <3>2. CASE Like(job'[h], job[h])  BY <2>1, <3>2 DEF Like, InOrder
      <3> QED  BY <2>1, <3>1, <3>2
    <2> QED  BY <2>1 DEF InOrder
  <1> QED  BY <1>1, <1>2, <1>3, <1>4, <1>5
(* A step of h that leaves the other jobs alone and does not start one. *)
LEMMA AloneKept ==
    ASSUME AloneIsAlone,
           \A g \in Handlers : job'[g].at \in AtWork =>
               /\ job[g].at \in AtWork /\ job[g].user = job'[g].user
               /\ job'[g].alone => job[g].alone
    PROVE  AloneIsAlone'
  BY DEF AloneIsAlone, Works, AtWork

(* A check-in or check-out begins. *)
LEMMA StartStep ==
    ASSUME AInv, NEW h \in Handlers, NEW u \in Users,
           NEW at \in {"look", "update"}, Start(h, u, at)
    PROVE  AInv'
  <1> DEFINE others == {g \in Handlers : Works(g, u)}
  <1>1. /\ \A g \in Handlers : job[g] \in Jobs
        /\ AloneIsAlone /\ TypeOK
    BY JobType DEF AInv, AttendanceInv
  <1>2. h \notin others  BY DEF Start, Works, Idle
  <1>3. /\ job'[h] = [at |-> at, user |-> u, alone |-> others = {}]
        /\ \A g \in Handlers \ {h} :
              job'[g] = IF g \in others THEN [job[g] EXCEPT !.alone = FALSE] ELSE job[g]
        /\ job' = [g \in Handlers |-> job'[g]]
    BY <1>2 DEF Start
  <1>4. /\ job'[h] \in Jobs /\ job'[h].at = at /\ job'[h].user = u
        /\ job'[h].alone <=> others = {}
    <2> DEFINE a == others = {}
    <2>1. a \in BOOLEAN /\ (a <=> others = {})  OBVIOUS
    <2>2. job'[h] = [at |-> at, user |-> u, alone |-> a]  BY <1>3
    <2> HIDE DEF a, others
    <2>3. job'[h] \in Checks  BY <2>1, <2>2 DEF Checks
    <2>4. job'[h].at = at /\ job'[h].user = u /\ job'[h].alone = a  BY <2>2
    <2> QED  BY <2>1, <2>3, <2>4 DEF Jobs
  <1> HIDE DEF others
  <1>5. ASSUME NEW g \in Handlers \ {h}
        PROVE  Like(job'[g], job[g]) /\ (g \in others => ~job'[g].alone)
    <2>1. CASE g \in others
      <3>1. job[g].at \in AtWork  BY <2>1 DEF others, Works, AtWork
      <3>2. /\ job'[g] \in Jobs /\ job'[g].at = job[g].at
            /\ job'[g].user = job[g].user /\ job'[g].alone = FALSE
            /\ job[g].at = "reread" => job'[g].day = job[g].day /\ job'[g].in = job[g].in
        BY <1>1, <1>3, <2>1, <3>1, NotAlone
      <3> QED  BY <3>1, <3>2 DEF Like, AtWork
    <2>2. CASE g \notin others
      <3>1. job'[g] = job[g]  BY <1>3, <2>2
      <3> QED  BY <1>1, <2>2, <3>1, LikeItself
    <2> QED  BY <2>1, <2>2
  <1>6. TypeOK'
    <2>1. \A g \in Handlers : job'[g] \in Jobs  BY <1>4, <1>5 DEF Like
    <2>2. job' \in [Handlers -> Jobs]  BY <1>3, <2>1
    <2> QED  BY <1>1, <2>2 DEF TypeOK, Start, Jobs
  <1>7. AloneIsAlone'
    <2> SUFFICES ASSUME NEW f \in Handlers, NEW g \in Handlers, f # g,
                        job'[f].at \in AtWork, job'[f].alone,
                        job'[g].at \in AtWork, job'[g].user = job'[f].user
                 PROVE  FALSE
      BY DEF AloneIsAlone, Works, AtWork
    <2>1. CASE f = h
      <3>1. g \in others  BY <1>4, <1>5, <2>1 DEF others, Works, Like, AtWork
      <3> QED  BY <1>4, <2>1, <3>1
    <2>2. CASE g = h
      <3>1. f \in others  BY <1>4, <1>5, <2>2 DEF others, Works, Like, AtWork
      <3> QED  BY <1>5, <2>2, <3>1
    <2>3. CASE f # h /\ g # h
      <3>1. /\ job[f].at \in AtWork /\ job[f].alone /\ job[g].at \in AtWork
            /\ job[g].user = job[f].user
        BY <1>5, <2>3 DEF Like
      <3> QED  BY <1>1, <3>1 DEF AloneIsAlone, Works, AtWork
    <2> QED  BY <2>1, <2>2, <2>3
  <1>8. \A g \in Handlers : Like(job'[g], job[g]) \/ job'[g].at \in {"idle", "look", "update"}
    BY <1>4, <1>5
  <1>9. UNCHANGED <<logs, today, clashed>>  BY DEF Start
  <1> QED  BY <1>6, <1>7, <1>8, <1>9, QuietStep DEF AInv, AttendanceInv

(* The steps of a request that write no row. *)
LEMMA ReadStep ==
    ASSUME AInv, NEW h \in Handlers,
           \/ GetTodayLog(h) \/ AnswerTodayLog(h) \/ GetTeamToday(h)
           \/ GetApprovedForDate(h) \/ Fail(h)
    PROVE  AInv'
  <1>1. TypeOK /\ ClosedFirst /\ AloneIsAlone /\ job[h] \in Jobs
    BY JobType DEF AInv, AttendanceInv
  <1>2. UNCHANGED <<logs, today, clashed>>
    BY DEF GetTodayLog, AnswerTodayLog, GetTeamToday, GetApprovedForDate, Fail
  <1>3. board' \in [Users -> Statuses]
    BY <1>1 DEF TypeOK, GetTodayLog, AnswerTodayLog, GetTeamToday, GetApprovedForDate, Fail,
             Statuses
  <1>4. PICK j \in Jobs :
            /\ Go(h, j)
            /\ \/ j.at = "idle"
               \/ /\ j.at = "insert" /\ ~CheckedIn(j.user, today) /\ job[h].at = "look"
                  /\ j.user = job[h].user /\ j.alone = job[h].alone
               \/ /\ j.at = "leave" /\ j.day = today
                  /\ \A u \in j.open : CheckedIn(u, today)
    <2>1. CASE Finish(h)  BY <2>1, IdleIsJob DEF Finish
    <2>2. CASE GetTodayLog(h) /\ ~CheckedIn(job[h].user, today)
      <3>1. job[h] \in Checks  BY <1>1, <2>2, JobKinds DEF GetTodayLog
      <3> DEFINE j == [job[h] EXCEPT !.at = "insert"]
      <3>2. /\ j \in Checks /\ j.at = "insert" /\ j.user = job[h].user
            /\ j.alone = job[h].alone
        BY <3>1 DEF Checks
      <3>3. Go(h, j) /\ job[h].at = "look"  BY <2>2 DEF GetTodayLog
      <3> HIDE DEF j
      <3>4. j \in Jobs /\ ~CheckedIn(j.user, today)  BY <2>2, <3>2 DEF Jobs
      <3> QED  BY <3>2, <3>3, <3>4
    <2>3. CASE GetTeamToday(h)
      <3> DEFINE open == {u \in Users : SeenOpen(u, today)}
                 j == [at |-> "leave", day |-> today, left |-> {}, open |-> open]
      <3>1. Go(h, j)  BY <2>3 DEF GetTeamToday
      <3>2. \A u \in open : CheckedIn(u, today)  BY <1>1, SeenIsCheckedIn
      <3>3. open \in SUBSET Users  OBVIOUS
      <3> HIDE DEF open
      <3>4. j \in Summaries /\ j.at = "leave" /\ j.day = today /\ j.open = open
        BY <1>1, <3>3 DEF Summaries, TypeOK
      <3> HIDE DEF j
      <3>5. j \in Jobs  BY <3>4 DEF Jobs
      <3> QED  BY <3>1, <3>2, <3>4, <3>5
    <2> QED
      BY <2>1, <2>2, <2>3 DEF GetTodayLog, AnswerTodayLog, GetApprovedForDate, Fail
  <1>5. /\ job' \in [Handlers -> Jobs] /\ job'[h] = j
        /\ \A g \in Handlers \ {h} : job'[g] = job[g] /\ Like(job'[g], job[g])
    BY <1>1, <1>4, GoFacts
  <1>6. TypeOK'  BY <1>1, <1>2, <1>3, <1>5 DEF TypeOK, Jobs
  <1>7. AloneIsAlone'
    <2>1. \A g \in Handlers : job'[g].at \in AtWork =>
              /\ job[g].at \in AtWork /\ job[g].user = job'[g].user
              /\ job'[g].alone => job[g].alone
      BY <1>4, <1>5 DEF AtWork
    <2> QED  BY <1>1, <2>1, AloneKept
  <1>8. \A g \in Handlers :
            \/ Like(job'[g], job[g])
            \/ job'[g].at \in {"idle", "look", "update"}
            \/ /\ job'[g].at = "insert" /\ ~CheckedIn(job'[g].user, today)
            \/ /\ job'[g].at = "leave" /\ job'[g].day = today
               /\ \A u \in job'[g].open : CheckedIn(u, today)
    BY <1>4, <1>5
  <1> QED  BY <1>2, <1>6, <1>7, <1>8, QuietStep DEF AInv, AttendanceInv
LEMMA AppendFacts ==
    ASSUME TypeOK, NEW r \in Row, logs' = Append(logs, r)
    PROVE  /\ logs' \in Seq(Row) /\ Len(logs) + 1 \in DOMAIN logs'
           /\ logs'[Len(logs) + 1] = r
           /\ DOMAIN logs' = DOMAIN logs \cup {Len(logs) + 1}
           /\ \A i \in DOMAIN logs : logs'[i] = logs[i] /\ i \in Nat /\ i < Len(logs) + 1
           /\ Len(logs) + 1 \in Nat
  <1>1. logs \in Seq(Row)  BY DEF TypeOK, Row
  <1> QED  BY <1>1

(* A check-in inserts its row. *)
LEMMA InsertStep ==
    ASSUME AInv, NEW h \in Handlers, InsertLog(h)
    PROVE  AInv'
  <1> DEFINE u == job[h].user
             r == [user |-> u, day |-> today, open |-> TRUE]
             n == Len(logs) + 1
             j == [at |-> "reread", user |-> u, in |-> TRUE,
                   alone |-> job[h].alone, day |-> today]
  <1>1. /\ TypeOK /\ ClosedFirst /\ OneSession /\ AnsweredTruly /\ AboutToInsert
        /\ AloneIsAlone /\ Summarised /\ InOrder
        /\ job[h] \in Jobs /\ today \in Nat /\ today \in Days
    BY JobType, DaysAreNat DEF AInv, AttendanceInv, TypeOK
  <1>2. job[h].at = "insert" /\ u \in Users /\ job[h].alone \in BOOLEAN
    BY <1>1, JobKinds DEF InsertLog, AtWork
  <1>3. r \in Row /\ r.user = u /\ r.day = today /\ r.open
    BY <1>1, <1>2 DEF Row
  <1>4. logs' = Append(logs, r) /\ Go(h, j) /\ UNCHANGED <<today, board>>
        /\ clashed' = IF job[h].alone THEN clashed ELSE clashed \cup {<<u, today>>}
    BY DEF InsertLog
  <1>5. /\ j \in Jobs /\ j.at = "reread" /\ j.user = u /\ j.in = TRUE
        /\ j.alone = job[h].alone /\ j.day = today
    <2>1. j \in Answers  BY <1>1, <1>2 DEF Answers
    <2> QED  BY <2>1 DEF Jobs
  <1> HIDE DEF r, j
  <1>6. /\ logs' \in Seq(Row) /\ n \in DOMAIN logs' /\ logs'[n] = r
        /\ DOMAIN logs' = DOMAIN logs \cup {n} /\ n \in Nat
        /\ \A i \in DOMAIN logs : logs'[i] = logs[i] /\ i \in Nat /\ i < n
    BY <1>1, <1>3, <1>4, AppendFacts
  <1> HIDE DEF n
  <1>7. /\ job' \in [Handlers -> Jobs] /\ job'[h] = j
        /\ \A g \in Handlers \ {h} : job'[g] = job[g] /\ Like(job'[g], job[g])
    BY <1>1, <1>4, <1>5, GoFacts
  <1> HIDE DEF u
  <1>8. TypeOK'
    BY <1>1, <1>2, <1>4, <1>6, <1>7 DEF TypeOK, Jobs, Row
  <1>9. AloneIsAlone'
    <2>1. \A g \in Handlers : job'[g].at \in AtWork =>
              /\ job[g].at \in AtWork /\ job[g].user = job'[g].user
              /\ job'[g].alone => job[g].alone
      BY <1>2, <1>5, <1>7 DEF AtWork, u
    <2> QED  BY <1>1, <2>1, AloneKept
  <1>10. \A g \in Handlers \ {h} : job[g].at \in AtWork /\ job[g].alone => job[g].user # u
    BY <1>1, <1>2 DEF AloneIsAlone, AtWork, Works, u
  <1>11. ClosedFirst'
    <2> SUFFICES ASSUME NEW a \in DOMAIN logs', NEW b \in DOMAIN logs', a < b,
                        logs'[a].user = logs'[b].user, logs'[a].day = logs'[b].day,
                        logs'[a].open
                 PROVE  logs'[b].open
      BY DEF ClosedFirst
    <2>1. CASE b = n  BY <2>1, <1>3, <1>6
    <2>2. CASE b \in DOMAIN logs /\ a \in DOMAIN logs
      BY <2>2, <1>1, <1>6 DEF ClosedFirst
    <2>3. CASE b \in DOMAIN logs /\ a = n  BY <2>3, <1>6
    <2> QED  BY <2>1, <2>2, <2>3, <1>6
  <1>12. OneSession'
    <2> SUFFICES ASSUME NEW a \in DOMAIN logs', NEW b \in DOMAIN logs', a # b,
                        logs'[a].user = logs'[b].user, logs'[a].day = logs'[b].day,
                        logs'[a].open, logs'[b].open
                 PROVE  <<logs'[a].user, logs'[a].day>> \in clashed'
      BY DEF OneSession
    <2>1. CASE a \in DOMAIN logs /\ b \in DOMAIN logs
      BY <2>1, <1>1, <1>4, <1>6 DEF OneSession
    <2>2. ASSUME NEW i \in DOMAIN logs, logs[i].user = u, logs[i].day = today, logs[i].open
          PROVE  <<u, today>> \in clashed'
      <3>1. ~job[h].alone  BY <1>1, <1>2, <2>2 DEF AboutToInsert, u
      <3> QED  BY <1>4, <3>1
    <2>3. CASE a = n \/ b = n
      <3>1. PICK i \in DOMAIN logs : i \in {a, b}  BY <1>6, <2>3
      <3>2. logs[i].user = u /\ logs[i].day = today /\ logs[i].open
        BY <1>3, <1>6, <2>3, <3>1
      <3>3. logs'[a].user = u /\ logs'[a].day = today  BY <1>3, <1>6, <2>3
      <3> QED  BY <2>2, <3>2, <3>3
    <2> QED  BY <2>1, <2>3, <1>6
  <1>13. ASSUME NEW v, NEW d, CheckedIn(v, d)  PROVE CheckedIn(v, d)'
    <2>1. PICK i \in DOMAIN logs : logs[i].user = v /\ logs[i].day = d /\ logs[i].open
      BY <1>13, CheckedInIsOpen
    <2>2. /\ i \in DOMAIN logs' /\ logs'[i].user = v /\ logs'[i].day = d
          /\ logs'[i].open
      BY <1>6, <2>1
    <2> QED  BY <1>8, <1>11, <2>2, OpenIsCheckedInNext
  <1>14. AnsweredTruly'
    <2> SUFFICES ASSUME NEW g \in Handlers PROVE Answered(g)'
      BY DEF AnsweredTruly, Answered
    <2>1. CASE g = h
      <3>1. /\ n \in DOMAIN logs' /\ logs'[n].user = u /\ logs'[n].day = today'
            /\ logs'[n].open /\ \A i \in DOMAIN logs' : i <= n
        BY <1>3, <1>4, <1>6
      <3>2. job'[h].user = u /\ job'[h].day = today' /\ job'[h].in
        BY <1>4, <1>5, <1>7
      <3> QED  BY <2>1, <3>1, <3>2 DEF Answered, CheckedIn, Mine, Latest
    <2>2. CASE g # h /\ job[g].at = "reread" /\ job[g].alone
      <3>1. job'[g] = job[g] /\ job[g].user # u  BY <1>7, <1>10, <2>2 DEF AtWork
      <3>2. /\ Mine(job[g].user, today)' = Mine(job[g].user, today)
            /\ CheckedIn(job[g].user, today)' <=> CheckedIn(job[g].user, today)
        BY <1>3, <1>4, <1>6, <3>1 DEF Mine, CheckedIn, Latest
      <3>3. Answered(g)  BY <1>1 DEF AnsweredTruly, Answered
      <3> QED  BY <1>4, <3>1, <3>2, <3>3 DEF Answered
    <2> QED  BY <1>7, <2>1, <2>2 DEF Answered
  <1>15. AboutToInsert'
    <2> SUFFICES ASSUME NEW g \in Handlers, job'[g].at = "insert", job'[g].alone,
                        NEW i \in DOMAIN logs',
                        logs'[i].user = job'[g].user, logs'[i].day = today'
                 PROVE  ~logs'[i].open
      BY DEF AboutToInsert
    <2>1. g # h /\ job'[g] = job[g]  BY <1>5, <1>7
    <2>2. job[g].user # u  BY <1>10, <2>1 DEF AtWork
    <2>3. i \in DOMAIN logs /\ logs'[i] = logs[i]  BY <1>3, <1>6, <2>1, <2>2
    <2> QED  BY <1>1, <1>4, <2>1, <2>3 DEF AboutToInsert
  <1>16. Summarised'
    <2> SUFFICES ASSUME NEW g \in Handlers, NEW v \in Users  PROVE StillIn(g, v)'
      <3>1. \A g \in Handlers, v \in Users : StillIn(g, v)'  OBVIOUS
      <3> QED  BY <1>8, <3>1, SummarisedIsNext
    <2>1. CASE g = h  BY <1>5, <1>7, <2>1 DEF StillIn
    <2>2. CASE g # h /\ job[g].at = "leave" /\ v \in job[g].open \ job[g].left
      <3>1. CheckedIn(v, job[g].day)'
        <4> DEFINE d == job[g].day
        <4>1. CheckedIn(v, d)  BY <1>1, <2>2 DEF Summarised
        <4> QED  BY <1>13, <4>1, <1>7, <2>2 DEF CheckedIn, Mine, Latest
      <3> QED  BY <1>7, <2>2, <3>1 DEF StillIn
    <2> QED  BY <1>7, <2>1, <2>2 DEF StillIn
  <1>17. InOrder'
    <2>1. \A i \in DOMAIN logs' : logs'[i].day <= today'
      BY <1>1, <1>3, <1>4, <1>6 DEF InOrder
    <2>2. ASSUME NEW a \in DOMAIN logs', NEW b \in DOMAIN logs', a < b
          PROVE  logs'[a].day <= logs'[b].day
      <3>1. CASE b = n  BY <3>1, <2>1, <1>3, <1>4, <1>6
      <3>2. CASE b # n  BY <3>2, <2>2, <1>1, <1>6 DEF InOrder
      <3> QED  BY <3>1, <3>2
    <2>3. \A g \in Handlers : job'[g].at \in {"reread", "leave"} => job'[g].day <= today'
      BY <1>1, <1>4, <1>5, <1>7 DEF InOrder
    <2> QED  BY <2>1, <2>2, <2>3 DEF InOrder
  <1> QED
    BY <1>8, <1>9, <1>11, <1>12, <1>14, <1>15, <1>16, <1>17 DEF AInv, AttendanceInv
(* A check-out closes what is open today, or finds nothing. *)
LEMMA CloseStep ==
    ASSUME AInv, NEW h \in Handlers, CloseLogs(h)
    PROVE  AInv'
  <1> DEFINE u == job[h].user
             closing == {i \in Mine(u, today) : logs[i].open}
             j == [at |-> "reread", user |-> u, in |-> FALSE,
                   alone |-> job[h].alone, day |-> today]
  <1>1. /\ TypeOK /\ ClosedFirst /\ OneSession /\ AnsweredTruly /\ AboutToInsert
        /\ AloneIsAlone /\ Summarised /\ InOrder
        /\ job[h] \in Jobs /\ today \in Nat /\ today \in Days
    BY JobType, DaysAreNat DEF AInv, AttendanceInv, TypeOK
  <1>2. job[h].at = "update" /\ u \in Users /\ job[h].alone \in BOOLEAN
    BY <1>1, JobKinds DEF CloseLogs, AtWork
  <1>3. UNCHANGED <<today, board, clashed>>  BY DEF CloseLogs
  <1>4. /\ j \in Jobs /\ j.at = "reread" /\ j.user = u /\ j.in = FALSE
        /\ j.alone = job[h].alone /\ j.day = today
    <2>1. j \in Answers  BY <1>1, <1>2 DEF Answers
    <2> QED  BY <2>1 DEF Jobs
  <1> HIDE DEF j
  <1>5. CASE closing = {}
    <2>1. Finish(h) /\ UNCHANGED <<logs, today, clashed>>
      BY <1>5 DEF CloseLogs
    <2>2. /\ job' \in [Handlers -> Jobs] /\ job'[h] = Idle
          /\ \A g \in Handlers \ {h} : job'[g] = job[g] /\ Like(job'[g], job[g])
      BY <1>1, <2>1, IdleIsJob, GoFacts DEF Finish
    <2>3. TypeOK'  BY <1>1, <1>3, <2>1, <2>2 DEF TypeOK, Jobs
    <2>4. AloneIsAlone'
      <3>1. \A g \in Handlers : job'[g].at \in AtWork =>
                /\ job[g].at \in AtWork /\ job[g].user = job'[g].user
                /\ job'[g].alone => job[g].alone
        BY <2>2, IdleIsJob DEF AtWork
      <3> QED  BY <1>1, <3>1, AloneKept
    <2>5. \A g \in Handlers : Like(job'[g], job[g]) \/ job'[g].at \in {"idle", "look", "update"}
      BY <2>2, IdleIsJob
    <2> QED  BY <2>1, <2>3, <2>4, <2>5, QuietStep DEF AInv, AttendanceInv
  <1>6. CASE closing # {}
    <2>1. /\ logs' = [i \in DOMAIN logs |->
                        IF i \in closing THEN [logs[i] EXCEPT !.open = FALSE] ELSE logs[i]]
          /\ job' = [g \in Handlers |->
                        IF g = h THEN j
                        ELSE IF job[g].at = "leave" THEN [job[g] EXCEPT !.left = @ \cup {u}]
                        ELSE job[g]]
      BY <1>6 DEF CloseLogs, j
    <2>2. closing \subseteq DOMAIN logs /\ \A i \in closing :
              logs[i].user = u /\ logs[i].day = today /\ logs[i].open
      BY DEF Mine
    <2>3. \A i \in DOMAIN logs \ closing :
              logs[i].user = u /\ logs[i].day = today => ~logs[i].open
      BY DEF Mine
    <2> HIDE DEF closing
    <2>4. /\ DOMAIN logs' = DOMAIN logs
          /\ \A i \in DOMAIN logs :
                /\ logs'[i] \in Row /\ logs'[i].user = logs[i].user
                /\ logs'[i].day = logs[i].day
                /\ logs'[i].open <=> (logs[i].open /\ i \notin closing)
                /\ i \notin closing => logs'[i] = logs[i]
      <3>1. \A i \in DOMAIN logs : logs[i] \in Row  BY <1>1, RowType
      <3>2. ASSUME NEW i \in closing
            PROVE  /\ logs'[i] \in Row /\ logs'[i].user = logs[i].user
                   /\ logs'[i].day = logs[i].day /\ logs'[i].open = FALSE
        BY <2>1, <2>2, <3>1, <3>2 DEF Row
      <3> QED  BY <2>1, <2>2, <3>1, <3>2
    <2>5. logs' \in Seq(Row)
      <3>1. Len(logs) \in Nat /\ DOMAIN logs = 1..Len(logs)  BY <1>1 DEF TypeOK
      <3>2. logs' \in [1..Len(logs) -> Row]  BY <2>1, <2>4, <3>1
      <3> QED  BY <3>1, <3>2
    <2>6. /\ job'[h] = j
          /\ \A g \in Handlers \ {h} :
                /\ Like(job'[g], job[g])
                /\ job[g].at = "leave" => job'[g].left = job[g].left \cup {u}
                /\ job[g].at # "leave" => job'[g] = job[g]
      <3>1. ASSUME NEW g \in Handlers \ {h}, job[g].at = "leave"
            PROVE  Like(job'[g], job[g]) /\ job'[g].left = job[g].left \cup {u}
        <4>1. job[g] \in Summaries /\ u \in Users
          BY <1>1, <1>2, <3>1, JobType, JobKinds
        <4>2. job'[g] = [job[g] EXCEPT !.left = @ \cup {u}]  BY <2>1, <3>1
        <4>3. /\ job'[g] \in Summaries /\ job'[g].at = "leave" /\ job'[g].day = job[g].day
              /\ job'[g].open = job[g].open /\ job'[g].left = job[g].left \cup {u}
          BY <4>1, <4>2 DEF Summaries
        <4> QED  BY <3>1, <4>3 DEF Like, AtWork, Jobs
      <3>2. ASSUME NEW g \in Handlers \ {h}, job[g].at # "leave"
            PROVE  job'[g] = job[g] /\ Like(job'[g], job[g])
        <4>1. job'[g] = job[g] /\ job[g] \in Jobs  BY <1>1, <2>1, <3>2, JobType
        <4> QED  BY <4>1, LikeItself
      <3> QED  BY <2>1, <3>1, <3>2
    <2>7. TypeOK'
      <3>1. \A g \in Handlers : job'[g] \in Jobs  BY <1>4, <2>6 DEF Like
      <3>2. job' \in [Handlers -> Jobs]  BY <2>1, <3>1
      <3> QED  BY <1>1, <1>3, <2>5, <3>2 DEF TypeOK, Jobs, Row
    <2> HIDE DEF u
    <2>8. AloneIsAlone'
      <3>1. \A g \in Handlers : job'[g].at \in AtWork =>
                /\ job[g].at \in AtWork /\ job[g].user = job'[g].user
                /\ job'[g].alone => job[g].alone
        BY <1>2, <1>4, <2>6 DEF AtWork, u, Like
      <3> QED  BY <1>1, <3>1, AloneKept
    <2>9. \A g \in Handlers \ {h} : job[g].at \in AtWork /\ job[g].alone => job[g].user # u
      BY <1>1, <1>2 DEF AloneIsAlone, AtWork, Works, u
    <2>10. ClosedFirst'
      <3> SUFFICES ASSUME NEW a \in DOMAIN logs', NEW b \in DOMAIN logs', a < b,
                          logs'[a].user = logs'[b].user, logs'[a].day = logs'[b].day,
                          logs'[a].open
                   PROVE  logs'[b].open
        BY DEF ClosedFirst
      <3>1. a \notin closing /\ logs[a].open /\ logs[b].open
        BY <1>1, <2>4 DEF ClosedFirst
      <3>2. b \notin closing  BY <2>2, <2>3, <2>4, <3>1
      <3> QED  BY <2>4, <3>1, <3>2
    <2>11. OneSession'  BY <1>1, <1>3, <2>4 DEF OneSession
    <2>13. AnsweredTruly'
      <3> SUFFICES ASSUME NEW g \in Handlers PROVE Answered(g)'
        BY DEF AnsweredTruly, Answered
      <3>1. CASE g = h
        <4>1. job'[h].user = u /\ job'[h].day = today' /\ ~job'[h].in
          BY <1>3, <1>4, <2>6
        <4>2. \A i \in DOMAIN logs' :
                  logs'[i].user = u /\ logs'[i].day = today' => ~logs'[i].open
          BY <1>3, <2>2, <2>3, <2>4
        <4>3. ~CheckedIn(job[h].user, today)'
          BY <4>1, <4>2 DEF CheckedIn, Mine, Latest
        <4>4. job'[h].in = FALSE  BY <1>4, <2>6
        <4> QED  BY <3>1, <4>1, <4>3, <4>4 DEF Answered
      <3>2. CASE g # h /\ job[g].at = "reread" /\ job[g].alone
        <4>1. job'[g] = job[g] /\ job[g].user # u  BY <2>6, <2>9, <3>2 DEF AtWork
        <4>2. /\ Mine(job[g].user, today)' = Mine(job[g].user, today)
              /\ CheckedIn(job[g].user, today)' <=> CheckedIn(job[g].user, today)
          BY <1>3, <2>4, <2>2, <4>1 DEF Mine, CheckedIn, Latest
        <4>3. Answered(g)  BY <1>1 DEF AnsweredTruly, Answered
        <4> QED  BY <1>3, <4>1, <4>2, <4>3 DEF Answered
      <3>3. CASE g # h /\ ~(job'[g].at = "reread" /\ job'[g].alone)
        BY <3>3 DEF Answered
      <3> QED  BY <2>6, <3>1, <3>2, <3>3 DEF Like, AtWork
    <2>14. AboutToInsert'
      <3> SUFFICES ASSUME NEW g \in Handlers, job'[g].at = "insert", job'[g].alone,
                          NEW i \in DOMAIN logs',
                          logs'[i].user = job'[g].user, logs'[i].day = today'
                   PROVE  ~logs'[i].open
        BY DEF AboutToInsert
      <3>1. g # h /\ job[g].at = "insert" /\ job'[g] = job[g]
        BY <1>4, <2>6 DEF Like
      <3> QED  BY <1>1, <1>3, <2>4, <3>1 DEF AboutToInsert
    <2>15. Summarised'
      <3> SUFFICES ASSUME NEW g \in Handlers, NEW v \in Users  PROVE StillIn(g, v)'
        <4>1. \A g \in Handlers, v \in Users : StillIn(g, v)'  OBVIOUS
        <4> QED  BY <2>7, <4>1, SummarisedIsNext
      <3>1. CASE job'[g].at = "leave" /\ v \in job'[g].open \ job'[g].left
        <4>1. g # h  BY <1>4, <2>6, <3>1
        <4>2. /\ job[g].at = "leave" /\ v \in job[g].open \ job[g].left /\ v # u
              /\ job'[g].day = job[g].day
          BY <2>6, <3>1, <4>1 DEF Like
        <4>3. CheckedIn(v, job[g].day)  BY <1>1, <4>2 DEF Summarised
        <4>4. \A i \in DOMAIN logs : logs[i].user = v => logs'[i] = logs[i]
          BY <2>2, <2>4, <4>2
        <4>5. CheckedIn(v, job[g].day)'
          BY <2>4, <4>2, <4>3, <4>4 DEF CheckedIn, Mine, Latest
        <4> QED  BY <4>5 DEF StillIn
      <3> QED  BY <3>1 DEF StillIn
    <2>16. InOrder'
      <3>1. \A g \in Handlers : job'[g].at \in {"reread", "leave"} => job'[g].day <= today'
        BY <1>1, <1>3, <1>4, <2>6 DEF InOrder, Like
      <3> QED  BY <1>1, <1>3, <2>4, <3>1 DEF InOrder
    <2> QED
      BY <2>7, <2>8, <2>10, <2>11, <2>13, <2>14, <2>15, <2>16 DEF AInv, AttendanceInv
  <1> QED  BY <1>5, <1>6
(* The day changes: nothing of the new one is in the table. *)
LEMMA MidnightStep ==
    ASSUME AInv, Midnight
    PROVE  AInv'
  <1>1. /\ TypeOK /\ ClosedFirst /\ OneSession /\ AloneIsAlone /\ Summarised /\ InOrder
        /\ today \in Nat /\ today' = today + 1 /\ UNCHANGED <<logs, board, job, clashed>>
    BY DaysAreNat DEF AInv, AttendanceInv, TypeOK, Midnight
  <1>2. \A i \in DOMAIN logs : logs[i].day \in Nat /\ logs[i].day < today'
    <2>1. \A i \in DOMAIN logs : logs[i].day \in Nat  BY <1>1, RowType DEF Days
    <2> QED  BY <1>1, <2>1 DEF InOrder
  <1>3. TypeOK'
    <2>1. today' \in Days  BY AttendanceConstants, <1>1 DEF Midnight, Days
    <2> QED  BY <1>1, <2>1 DEF TypeOK
  <1>4. \A g \in Handlers : job[g].at \in {"reread", "leave"} =>
            job[g].day \in Nat /\ job[g].day < today'
    <2>1. ASSUME NEW g \in Handlers, job[g].at \in {"reread", "leave"}
          PROVE  job[g].day \in Nat /\ job[g].day <= today
      BY <1>1, <2>1, JobType, JobKinds, AnswerFacts, SummaryFacts DEF InOrder, Days
    <2> QED  BY <1>1, <2>1
  <1>5. OneSession' /\ ClosedFirst' /\ AloneIsAlone'
    BY <1>1 DEF OneSession, ClosedFirst, AloneIsAlone, Works
  <1>6. AnsweredTruly'
    <2>1. \A v \in Users : Mine(v, today)' = {}  BY <1>1, <1>2 DEF Mine
    <2>2. \A g \in Handlers : job[g].at = "reread" => job[g].user \in Users
      BY <1>1, JobType, JobKinds DEF AtWork
    <2> SUFFICES ASSUME NEW g \in Handlers PROVE Answered(g)'
      BY DEF AnsweredTruly, Answered
    <2> QED  BY <1>1, <1>4, <2>1, <2>2 DEF Answered, Mine
  <1>7. AboutToInsert'  BY <1>1, <1>2 DEF AboutToInsert
  <1>8. Summarised'  BY <1>1 DEF Summarised, CheckedIn, Latest, Mine
  <1>9. InOrder'  BY <1>1, <1>2, <1>4 DEF InOrder
  <1> QED  BY <1>3, <1>5, <1>6, <1>7, <1>8, <1>9 DEF AInv, AttendanceInv

LEMMA StutterStep == ASSUME AInv, UNCHANGED vars PROVE AInv'
  <1> USE DEF AInv, AttendanceInv, vars
  <1>1. TypeOK'  BY DEF TypeOK
  <1>2. OneSession' /\ ClosedFirst' /\ AloneIsAlone' /\ AboutToInsert' /\ InOrder'
    BY DEF OneSession, ClosedFirst, AloneIsAlone, Works, AboutToInsert, InOrder
  <1>3. AnsweredTruly' /\ Summarised'
    BY DEF AnsweredTruly, Summarised, CheckedIn, Latest, Mine
  <1> QED  BY <1>1, <1>2, <1>3

(* The table is empty and nobody is at work. *)
LEMMA InitAInv == ASSUME Init PROVE AInv
  <1>1. TypeOK
    BY AttendanceConstants DEF Init, TypeOK, Days, Statuses
  <1>2. logs = <<>> /\ \A h \in Handlers : job[h].at = "idle"
    BY DEF Init, Idle
  <1>3. OneSession /\ ClosedFirst  BY <1>2 DEF OneSession, ClosedFirst
  <1>4. AnsweredTruly /\ AttendanceInv
    BY <1>2 DEF AnsweredTruly, AttendanceInv, AboutToInsert, AloneIsAlone, Summarised, InOrder
  <1> QED  BY <1>1, <1>3, <1>4 DEF AInv

LEMMA StepAInv == ASSUME AInv, [Next]_vars PROVE AInv'
  <1>1. CASE Midnight  BY <1>1, MidnightStep
  <1>2. ASSUME NEW h \in Handlers, NEW u \in Users, CheckIn(h, u) \/ CheckOut(h, u)
        PROVE  AInv'
    <2>1. PICK at \in {"look", "update"} : Start(h, u, at)
      BY <1>2 DEF CheckIn, CheckOut
    <2> QED  BY <2>1, StartStep
  <1>3. ASSUME NEW h \in Handlers, InsertLog(h)  PROVE AInv'  BY <1>3, InsertStep
  <1>4. ASSUME NEW h \in Handlers, CloseLogs(h)  PROVE AInv'  BY <1>4, CloseStep
  <1>5. ASSUME NEW h \in Handlers,
               \/ GetTodayLog(h) \/ AnswerTodayLog(h) \/ GetTeamToday(h)
               \/ GetApprovedForDate(h) \/ Fail(h)
        PROVE  AInv'
    BY <1>5, ReadStep
  <1>6. CASE UNCHANGED vars  BY <1>6, StutterStep
  <1> QED  BY <1>1, <1>2, <1>3, <1>4, <1>5, <1>6 DEF Next

LEMMA SpecAInv == Spec => []AInv
  <1>1. Init => AInv  BY InitAInv
  <1>2. AInv /\ [Next]_vars => AInv'  BY StepAInv
  <1> QED  BY <1>1, <1>2, PTL DEF Spec

-----------------------------------------------------------------------------
(* Every variable has its type, and what makes the properties inductive holds:
   a check-in that nothing of the member overlaps finds nothing open when it
   inserts (attendance_service.go:24). *)
THEOREM SpecTypeOK == Spec => []TypeOK
  <1>1. AInv => TypeOK  BY DEF AInv
  <1> QED  BY <1>1, SpecAInv, PTL

THEOREM SpecAttendanceInv == Spec => []AttendanceInv
  <1>1. AInv => AttendanceInv  BY DEF AInv
  <1> QED  BY <1>1, SpecAInv, PTL

(* One open session per member and day, unless a check-in overlapped another
   request of the member (attendance_service.go:28). *)
THEOREM SpecOneSession == Spec => []OneSession
  <1>1. AInv => OneSession  BY DEF AInv
  <1> QED  BY <1>1, SpecAInv, PTL

(* Whatever overlaps, no closed session stands behind an open one of its day
   (attendance_repo.go:35). *)
THEOREM SpecClosedFirst == Spec => []ClosedFirst
  <1>1. AInv => ClosedFirst  BY DEF AInv
  <1> QED  BY <1>1, SpecAInv, PTL

(* A member whose requests do not overlap is answered with the state they have
   brought about (attendance_service.go:36, 43). *)
THEOREM SpecAnsweredTruly == Spec => []AnsweredTruly
  <1>1. AInv => AnsweredTruly  BY DEF AInv
  <1> QED  BY <1>1, SpecAInv, PTL

(* A summary shows as checked in only who was when the day's logs were read
   and has not checked out since (attendance_service.go:68). *)
THEOREM SpecSummaryIsTrue == Spec => SummaryIsTrue
  <1> DEFINE Shown ==
        board' # board => \E h \in Handlers :
          /\ job[h].at = "leave"
          /\ \A u \in Users :
                /\ board'[u] = "checked_in" =>
                      CheckedIn(u, job[h].day) \/ u \in job[h].left
                /\ board'[u] = "absent" => <<u, today>> \notin OnLeave
  <1>1. AInv /\ [Next]_vars => [Shown]_vars
    <2> SUFFICES ASSUME AInv, Next, board' # board  PROVE Shown
      BY DEF vars
    <2>1. PICK h \in Handlers : GetApprovedForDate(h)
      BY DEF Next, Midnight, CheckIn, CheckOut, Start, GetTodayLog, InsertLog, CloseLogs,
             AnswerTodayLog, GetTeamToday, Fail
    <2>2. job[h].at = "leave" /\ Summarised
      BY <2>1 DEF GetApprovedForDate, AInv, AttendanceInv
    <2>3. ASSUME NEW u \in Users
          PROVE  /\ board'[u] = "checked_in" => u \in job[h].open
                 /\ board'[u] = "absent" => <<u, today>> \notin OnLeave
      BY <2>1 DEF GetApprovedForDate
    <2> QED  BY <2>2, <2>3 DEF Summarised
  <1> QED  BY <1>1, SpecAInv, PTL DEF Spec, SummaryIsTrue

(* What was open at midnight stays so: no request writes a row of a day that
   has passed (attendance_repo.go:41). *)
THEOREM SpecPastIsSettled == Spec => PastIsSettled
  <1> DEFINE Settled == \A i \in DOMAIN logs : logs[i].day < today => logs'[i] = logs[i]
  <1>1. AInv /\ [Next]_vars => [Settled]_vars
    <2> SUFFICES ASSUME AInv, Next, NEW i \in DOMAIN logs, logs[i].day < today
                 PROVE  logs'[i] = logs[i]
      OBVIOUS
    <2>1. TypeOK /\ today \in Nat /\ logs[i].day # today
      BY DaysAreNat, RowType DEF AInv, TypeOK, Days
    <2>2. ASSUME NEW h \in Handlers, InsertLog(h) PROVE logs'[i] = logs[i]
      <3>1. logs \in Seq(Row)  BY <2>1 DEF TypeOK, Row
      <3>2. PICK r : logs' = Append(logs, r)  BY <2>2 DEF InsertLog
      <3> QED  BY <3>1, <3>2
    <2>3. ASSUME NEW h \in Handlers, CloseLogs(h) PROVE logs'[i] = logs[i]
      BY <2>1, <2>3 DEF CloseLogs, Mine
    <2>4. ASSUME UNCHANGED logs PROVE logs'[i] = logs[i]  BY <2>4
    <2> QED
      BY <2>2, <2>3, <2>4 DEF Next, Midnight, CheckIn, CheckOut, Start, GetTodayLog,
         AnswerTodayLog, GetTeamToday, GetApprovedForDate, Fail
  <1> QED  BY <1>1, SpecAInv, PTL DEF Spec, PastIsSettled
=============================================================================
