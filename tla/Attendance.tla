----------------------------- MODULE Attendance -----------------------------
(***************************************************************************)
(* Attendance in one organization: attendance_service.go over the table    *)
(* attendance_logs, one row per check-in, and the approved leave that the  *)
(* team's summary reads (decided in Leave.tla, a constant here).           *)
(*                                                                         *)
(* A step is one SQL statement; midnight may fall between any two, for     *)
(* every statement asks for CURRENT_DATE itself.  The database and the     *)
(* server share a time zone, and check_in_at orders the rows as they are   *)
(* inserted.  Notes, names and the organization's membership are left out. *)
(***************************************************************************)
EXTENDS Naturals, Sequences

CONSTANTS Users,
          OnLeave,  \* <<user, day>>: an approved leave request covers the day
          Handlers, \* HTTP requests in progress at once
          MaxDays,  \* bound: days
          MaxLogs   \* bound: check-ins

ASSUME AttendanceConstants == MaxDays \in Nat \ {0} /\ MaxLogs \in Nat

VARIABLES
    today,  \* CURRENT_DATE
    logs,   \* attendance_logs, ascending by check_in_at
    board,  \* the summary last shown to an administrator
    job,    \* per handler: its next statement and what it has read
    clashed \* history: <<user, day>> with a check-in that overlapped another request

vars == <<today, logs, board, job, clashed>>

Days == 1..MaxDays
Statuses == {"checked_in", "on_leave", "absent"}

Idle == [at |-> "idle"]
Checks == [at: {"look", "insert", "update"}, user: Users, alone: BOOLEAN]
Answers == [at: {"reread"}, user: Users, in: BOOLEAN, alone: BOOLEAN, day: Days]
(* open: who was checked in on that day; left: who has checked out since. *)
Summaries == [at: {"leave"}, day: Days, open: SUBSET Users, left: SUBSET Users]

TypeOK ==
    /\ today \in Days
    /\ logs \in Seq([user: Users, day: Days, open: BOOLEAN])
    /\ board \in [Users -> Statuses]
    /\ job \in [Handlers -> Checks \cup Answers \cup Summaries \cup {Idle}]
    /\ clashed \subseteq Users \X Days

Init ==
    /\ today = 1
    /\ logs = <<>>
    /\ board = [u \in Users |-> "absent"]
    /\ job = [h \in Handlers |-> Idle]
    /\ clashed = {}

Go(h, j) == job' = [job EXCEPT ![h] = j]
Finish(h) == Go(h, Idle)

(* h checks u in or out. *)
Works(h, u) == job[h].at \in {"look", "insert", "update", "reread"} /\ job[h].user = u

(* The rows of u on day d, and the latest of them. *)
Mine(u, d) == {i \in DOMAIN logs : logs[i].user = u /\ logs[i].day = d}
Latest(i, u, d) == i \in Mine(u, d) /\ \A j \in Mine(u, d) : j <= i
First(i, u, d) == i \in Mine(u, d) /\ \A j \in Mine(u, d) : i <= j

(* GetTeamToday returns the latest row first, and GetTeamStatus puts them into
   a map one after the other: the member's first row of the day stays. *)
SeenOpen(u, d) == \E i \in Mine(u, d) : First(i, u, d) /\ logs[i].open

(* GetTodayLog finds a row without check_out_at. *)
CheckedIn(u, d) == \E i \in Mine(u, d) : Latest(i, u, d) /\ logs[i].open

-----------------------------------------------------------------------------
(* Requests of one user that overlap spoil each other's `alone'. *)
Start(h, u, at) ==
    /\ job[h] = Idle
    /\ LET others == {g \in Handlers : Works(g, u)}
       IN job' = [g \in Handlers |->
                    IF g = h THEN [at |-> at, user |-> u, alone |-> others = {}]
                    ELSE IF g \in others THEN [job[g] EXCEPT !.alone = FALSE]
                    ELSE job[g]]
    /\ UNCHANGED <<today, logs, board, clashed>>

CheckIn(h, u) == Start(h, u, "look")
CheckOut(h, u) == Start(h, u, "update")

(* Mutant: a check-in is refused only after a check-out. *)
GetTodayLogMutant(h) ==
    /\ job[h].at = "look"
    /\ IF \E i \in Mine(job[h].user, today) : ~logs[i].open
       THEN Finish(h)
       ELSE Go(h, [job[h] EXCEPT !.at = "insert"])
    /\ UNCHANGED <<today, logs, board, clashed>>

(* "already checked in today", or on to the insertion. *)
GetTodayLog(h) ==
    /\ job[h].at = "look"
    /\ IF CheckedIn(job[h].user, today)
       THEN Finish(h)
       ELSE Go(h, [job[h] EXCEPT !.at = "insert"])
    /\ UNCHANGED <<today, logs, board, clashed>>

InsertLog(h) ==
    /\ job[h].at = "insert"
    /\ Len(logs) < MaxLogs
    /\ LET u == job[h].user
       IN /\ logs' = Append(logs, [user |-> u, day |-> today, open |-> TRUE])
          /\ clashed' = IF job[h].alone THEN clashed ELSE clashed \cup {<<u, today>>}
          /\ Go(h, [at |-> "reread", user |-> u, in |-> TRUE,
                    alone |-> job[h].alone, day |-> today])
    /\ UNCHANGED <<today, board>>

(* UPDATE ... WHERE check_out_at IS NULL AND check_in_at::date = CURRENT_DATE:
   every open row of the user today, or "no open check-in found for today". *)
CloseLogs(h) ==
    /\ job[h].at = "update"
    /\ LET u == job[h].user
           closing == {i \in Mine(u, today) : logs[i].open}
       IN IF closing # {}
          THEN /\ logs' = [i \in DOMAIN logs |->
                             IF i \in closing THEN [logs[i] EXCEPT !.open = FALSE]
                             ELSE logs[i]]
               /\ job' = [g \in Handlers |->
                            IF g = h THEN [at |-> "reread", user |-> u, in |-> FALSE,
                                           alone |-> job[h].alone, day |-> today]
                            ELSE IF job[g].at = "leave"
                            THEN [job[g] EXCEPT !.left = @ \cup {u}]
                            ELSE job[g]]
          ELSE /\ Finish(h)
               /\ UNCHANGED logs
    /\ UNCHANGED <<today, board, clashed>>

(* The caller is answered with the latest row of what is now today: with none,
   "data": null, when the day has changed since the row was written. *)
AnswerTodayLog(h) ==
    /\ job[h].at = "reread"
    /\ Finish(h)
    /\ UNCHANGED <<today, logs, board, clashed>>

-----------------------------------------------------------------------------
(* Mutant: the latest log of the day decides, but also of a day before. *)
GetTeamTodayMutant(h) ==
    /\ job[h] = Idle
    /\ Go(h, [at |-> "leave", day |-> today, left |-> {},
              open |-> {u \in Users : \E d \in Days : CheckedIn(u, d)}])
    /\ UNCHANGED <<today, logs, board, clashed>>

(* GetTeamStatus and GetMemberAvailability: the day's logs... *)
GetTeamToday(h) ==
    /\ job[h] = Idle
    /\ Go(h, [at |-> "leave", day |-> today, left |-> {},
              open |-> {u \in Users : SeenOpen(u, today)}])
    /\ UNCHANGED <<today, logs, board, clashed>>

(* ...then who is on leave now, and the answer. *)
GetApprovedForDate(h) ==
    /\ job[h].at = "leave"
    /\ board' = [u \in Users |-> IF u \in job[h].open THEN "checked_in"
                                 ELSE IF <<u, today>> \in OnLeave THEN "on_leave"
                                 ELSE "absent"]
    /\ Finish(h)
    /\ UNCHANGED <<today, logs, clashed>>

Midnight ==
    /\ today < MaxDays
    /\ today' = today + 1
    /\ UNCHANGED <<logs, board, job, clashed>>

(* A database error, a cancelled request or a crash, before a statement. *)
Fail(h) ==
    /\ job[h] # Idle
    /\ Finish(h)
    /\ UNCHANGED <<today, logs, board, clashed>>

Next ==
    \/ Midnight
    \/ \E h \in Handlers :
          \/ \E u \in Users : CheckIn(h, u) \/ CheckOut(h, u)
          \/ GetTodayLog(h) \/ InsertLog(h) \/ CloseLogs(h) \/ AnswerTodayLog(h)
          \/ GetTeamToday(h) \/ GetApprovedForDate(h) \/ Fail(h)

Spec == Init /\ [][Next]_vars

-----------------------------------------------------------------------------
(* attendance_service.go:28 "already checked in today": a member has one open
   session on a day, unless a check-in overlapped another request of the same
   member; the look and the insertion are two statements. *)
OneSession ==
    \A i, j \in DOMAIN logs :
        /\ i # j /\ logs[i].user = logs[j].user /\ logs[i].day = logs[j].day
        /\ logs[i].open /\ logs[j].open
        => <<logs[i].user, logs[i].day>> \in clashed

(* attendance_repo.go:35: a check-out closes every open session of the day, so
   that none is left behind an open one, whatever overlapped: closed sessions
   come before open ones... *)
ClosedFirst ==
    \A i, j \in DOMAIN logs :
        /\ i < j /\ logs[i].user = logs[j].user /\ logs[i].day = logs[j].day
        /\ logs[i].open
        => logs[j].open

(* ...which is why the team's summary, that takes the first session of the day
   where GetMyStatus takes the latest, shows nobody as checked in who was not
   when the logs were read or has not stayed so, and nobody as absent who is on
   leave (attendance_service.go:72). *)
SummaryIsTrue ==
    [][board' # board => \E h \in Handlers :
          /\ job[h].at = "leave"
          /\ \A u \in Users :
                /\ board'[u] = "checked_in" =>
                      CheckedIn(u, job[h].day) \/ u \in job[h].left
                /\ board'[u] = "absent" => <<u, today>> \notin OnLeave]_vars

(* The answer to a check-in is the session it has opened, and the answer to a
   check-out a closed one, unless requests of the member overlapped; after
   midnight it is empty (attendance_service.go:36, 43). *)
AnsweredTruly ==
    \A h \in Handlers : job[h].at = "reread" /\ job[h].alone =>
        \/ Mine(job[h].user, today) = {} /\ job[h].day < today
        \/ job[h].day = today /\ (CheckedIn(job[h].user, today) <=> job[h].in)

(* attendance_repo.go:41: what was not checked out by midnight stays open: no
   request writes a row of a day that has passed. *)
PastIsSettled ==
    [][\A i \in DOMAIN logs : logs[i].day < today => logs'[i] = logs[i]]_vars

(* Why one session: a check-in that no other request of the member overlaps
   still finds nothing open when it inserts; and the rows are in the order of
   their days, none of tomorrow. *)
AboutToInsert ==
    \A h \in Handlers : job[h].at = "insert" /\ job[h].alone =>
        \A i \in DOMAIN logs :
            logs[i].user = job[h].user /\ logs[i].day = today => ~logs[i].open
AloneIsAlone ==
    \A g, h \in Handlers :
        /\ job[g].at \in {"look", "insert", "update", "reread"}
        /\ job[g].alone /\ g # h
        => ~Works(h, job[g].user)
Summarised ==
    \A h \in Handlers : job[h].at = "leave" =>
        \A u \in job[h].open \ job[h].left : CheckedIn(u, job[h].day)
InOrder ==
    /\ \A i, j \in DOMAIN logs : i < j => logs[i].day <= logs[j].day
    /\ \A i \in DOMAIN logs : logs[i].day <= today
    /\ \A h \in Handlers : job[h].at \in {"reread", "leave"} => job[h].day <= today
AttendanceInv == AboutToInsert /\ AloneIsAlone /\ Summarised /\ InOrder
=============================================================================
