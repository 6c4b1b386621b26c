------------------------------- MODULE Leave -------------------------------
(***************************************************************************)
(* Leave management of one organization: leave_service.go over the tables  *)
(* leave_types, leave_balances and leave_requests.                         *)
(*                                                                         *)
(* An HTTP request is a handler that runs one SQL statement per step: no   *)
(* service method opens a transaction, so other handlers run in between,   *)
(* and a database error, a cancelled request or a crash may end a handler  *)
(* with only its first statements done.                                    *)
(***************************************************************************)
EXTENDS Naturals, Sequences, FiniteSets, FiniteSetsExt

CONSTANTS Handlers,    \* HTTP requests that may be in progress at once
          Users, Types,
          Members,     \* the users with a row in organization_members
          Years,       \* calendar years, numbers
          SeedOrder,   \* the leave types SeedDefaults inserts, in order
          SeedDays,    \* default_days of a seeded type
          DayChoices,  \* the day counts an administrator may enter
          Requests,    \* ids of leave requests
          AccountOf,   \* user, leave type and (start) year of a request
          DaysOf,      \* its number of days
          NoUser,
          MaxFails     \* bound: handlers that end early

Accounts == Users \X Types \X Years

ASSUME LeaveConstants ==
    /\ Members \subseteq Users
    /\ Years \subseteq Nat /\ Years # {}
    /\ SeedOrder \in Seq(Types) /\ SeedOrder # <<>>
    /\ SeedDays \in Nat \ {0}
    /\ DayChoices \subseteq Nat \ {0}
    /\ AccountOf \in [Requests -> Accounts]
    /\ DaysOf \in [Requests -> Nat \ {0}]
    /\ NoUser \notin Users
    /\ MaxFails \in Nat

VARIABLES
    year,        \* the current year
    types,       \* rows of leave_types, all active
    defaultDays, \* leave_types.default_days
    rows,        \* the primary keys in leave_balances
    allocated,   \* leave_balances.allocated
    used,        \* leave_balances.used
    status,      \* leave_requests.status; "none": no such row
    job,         \* per handler: the statement it runs next and what it has read
    adjusted,    \* history: the allocation an administrator last set, 0 if none
    contested,   \* history: requests that two reviews were deciding at once
    fails        \* bound

tables == <<types, defaultDays, rows, allocated, used, status>>
vars == <<year, tables, job, adjusted, contested, fails>>

-----------------------------------------------------------------------------
Idle == [at |-> "idle"]

(* GetLeaveTypes, alone (user is NoUser) or inside GetMyBalances. *)
TypeJobs ==
    [at: {"list", "seed"}, user: Users \cup {NoUser}, year: Years, next: 1..Len(SeedOrder)]
    \cup [at: {"init"}, user: Users, year: Years, next: 1..Len(SeedOrder)]
RequestJobs == [at: {"create", "approve", "increment", "deny"}, request: Requests]
Jobs == {Idle} \cup TypeJobs \cup RequestJobs

Decided == {"approved", "denied"}

TypeOK ==
    /\ year \in Years
    /\ types \subseteq Types
    /\ defaultDays \in [Types -> DayChoices \cup {SeedDays}]
    /\ rows \subseteq Accounts
    /\ allocated \in [Accounts -> DayChoices \cup {0, SeedDays}]
    /\ used \in [Accounts -> Nat]
    /\ status \in [Requests -> {"none", "pending"} \cup Decided]
    /\ job \in [Handlers -> Jobs]
    /\ adjusted \in [Accounts -> DayChoices \cup {0}]
    /\ contested \subseteq Requests
    /\ fails \in 0..MaxFails

Init ==
    /\ year \in Years /\ \A y \in Years : year <= y
    /\ types = {}
    /\ defaultDays = [t \in Types |-> SeedDays]
    /\ rows = {}
    /\ allocated = [a \in Accounts |-> 0]
    /\ used = [a \in Accounts |-> 0]
    /\ status = [r \in Requests |-> "none"]
    /\ job = [h \in Handlers |-> Idle]
    /\ adjusted = [a \in Accounts |-> 0]
    /\ contested = {}
    /\ fails = 0

-----------------------------------------------------------------------------
(* Leave types and balances *)

Go(h, j) == job' = [job EXCEPT ![h] = j]
Advance(h, step) == Go(h, [job[h] EXCEPT !.at = step])

BalancesOf(u, y) == {a \in rows : a[1] = u /\ a[3] = y}

(* GetLeaveTypes, and GetMyBalances when the user has no balance this year. *)
OpenTypes(h, u) ==
    /\ job[h] = Idle
    /\ u = NoUser \/ BalancesOf(u, year) = {}
    /\ Go(h, [at |-> "list", user |-> u, year |-> year, next |-> 1])
    /\ UNCHANGED <<year, tables, adjusted, contested, fails>>

(* What follows GetLeaveTypes: the balances, or the answer. *)
TypesReady(h) ==
    IF job[h].user = NoUser THEN Go(h, Idle) ELSE Advance(h, "init")

(* typeRepo.List: seed only an organization without any type. *)
ListTypes(h) ==
    /\ job[h].at = "list"
    /\ IF types = {} THEN Advance(h, "seed") ELSE TypesReady(h)
    /\ UNCHANGED <<year, tables, adjusted, contested, fails>>

(* One INSERT ... ON CONFLICT DO NOTHING of SeedDefaults. *)
SeedOne(h) ==
    /\ job[h].at = "seed"
    /\ types' = types \cup {SeedOrder[job[h].next]}
    /\ IF job[h].next = Len(SeedOrder) THEN TypesReady(h)
       ELSE Go(h, [job[h] EXCEPT !.next = @ + 1])
    /\ UNCHANGED <<year, defaultDays, rows, allocated, used, status, adjusted, contested, fails>>

(* Mutant: ON CONFLICT ... DO UPDATE SET allocated = default_days. *)
InitForUserMutant(h) ==
    /\ job[h].at = "init"
    /\ LET mine == {job[h].user} \X types \X {job[h].year} IN
       /\ rows' = rows \cup mine
       /\ allocated' = [a \in Accounts |->
                          IF a \in mine THEN defaultDays[a[2]] ELSE allocated[a]]
    /\ Go(h, Idle)
    /\ UNCHANGED <<year, types, defaultDays, used, status, adjusted, contested, fails>>

(* InitForUser: a row for every type that has none yet. *)
InitForUser(h) ==
    /\ job[h].at = "init"
    /\ LET fresh == ({job[h].user} \X types \X {job[h].year}) \ rows IN
       /\ rows' = rows \cup fresh
       /\ allocated' = [a \in Accounts |->
                          IF a \in fresh THEN defaultDays[a[2]] ELSE allocated[a]]
    /\ Go(h, Idle)
    /\ UNCHANGED <<year, types, defaultDays, used, status, adjusted, contested, fails>>

(* CreateLeaveType; a second type of the same name violates UNIQUE. *)
CreateLeaveType(t, days) ==
    /\ t \notin types
    /\ types' = types \cup {t}
    /\ defaultDays' = [defaultDays EXCEPT ![t] = days]
    /\ UNCHANGED <<year, rows, allocated, used, status, job, adjusted, contested, fails>>

(* UpdateLeaveType: balances that exist keep their allocation. *)
UpdateLeaveType(t, days) ==
    /\ t \in types
    /\ defaultDays' = [defaultDays EXCEPT ![t] = days]
    /\ UNCHANGED <<year, types, rows, allocated, used, status, job, adjusted, contested, fails>>

(* AdjustBalance: an upsert for the current year, of a row selected from the
   user's memberships: for a user without any it does nothing.  The request's
   binding refuses an allocation of 0. *)
AdjustBalance(u, t, days) ==
    LET a == <<u, t, year>> IN
    /\ t \in types
    /\ u \in Members
    /\ rows' = rows \cup {a}
    /\ allocated' = [allocated EXCEPT ![a] = days]
    /\ adjusted' = [adjusted EXCEPT ![a] = days]
    /\ UNCHANGED <<year, types, defaultDays, used, status, job, contested, fails>>

-----------------------------------------------------------------------------
(* Requests *)

(* Mutant: a user without a balance has nothing to check. *)
RequestLeaveMutant(h, r) ==
    /\ job[h] = Idle
    /\ status[r] = "none"
    /\ AccountOf[r] \in rows =>
          allocated[AccountOf[r]] >= used[AccountOf[r]] + DaysOf[r]
    /\ Go(h, [at |-> "create", request |-> r])
    /\ UNCHANGED <<year, tables, adjusted, contested, fails>>

(* RequestLeave reads the balance of the start date's year and refuses when
   the remaining days do not suffice... *)
RequestLeave(h, r) ==
    /\ job[h] = Idle
    /\ status[r] = "none"
    /\ AccountOf[r] \in rows
    /\ allocated[AccountOf[r]] >= used[AccountOf[r]] + DaysOf[r]
    /\ \A g \in Handlers : job[g] # [at |-> "create", request |-> r]
    /\ Go(h, [at |-> "create", request |-> r])
    /\ UNCHANGED <<year, tables, adjusted, contested, fails>>

(* ...then inserts the request. *)
CreateRequest(h) ==
    /\ job[h].at = "create"
    /\ status' = [status EXCEPT ![job[h].request] = "pending"]
    /\ Go(h, Idle)
    /\ UNCHANGED <<year, types, defaultDays, rows, allocated, used, adjusted, contested, fails>>

(* Handler h is deciding request r: it has read it and will overwrite its status. *)
Deciding(h, r) == job[h].at \in {"approve", "deny"} /\ job[h].request = r

(* Mutant: a review is refused only to a request that was denied. *)
ReviewMutant(h, r, decision) ==
    /\ job[h] = Idle
    /\ status[r] \in {"pending", "approved"}
    /\ Go(h, [at |-> decision, request |-> r])
    /\ contested' = IF \E g \in Handlers : Deciding(g, r) THEN contested \cup {r}
                    ELSE contested
    /\ UNCHANGED <<year, tables, adjusted, fails>>

(* ApproveLeave and DenyLeave read the request and refuse one already decided. *)
Review(h, r, decision) ==
    /\ job[h] = Idle
    /\ status[r] = "pending"
    /\ Go(h, [at |-> decision, request |-> r])
    /\ contested' = IF \E g \in Handlers : Deciding(g, r) THEN contested \cup {r}
                    ELSE contested
    /\ UNCHANGED <<year, tables, adjusted, fails>>

(* Mutant: the balance is updated before the status. *)
ApproveMutant(h) ==
    /\ job[h].at = "approve"
    /\ LET a == AccountOf[job[h].request] IN
       used' = [used EXCEPT ![a] = @ + DaysOf[job[h].request]]
    /\ Advance(h, "increment")
    /\ UNCHANGED <<year, types, defaultDays, rows, allocated, status, adjusted, contested, fails>>

(* UpdateStatus, whose WHERE clause does not look at the status again. *)
Approve(h) ==
    /\ job[h].at = "approve"
    /\ status' = [status EXCEPT ![job[h].request] = "approved"]
    /\ Advance(h, "increment")
    /\ UNCHANGED <<year, types, defaultDays, rows, allocated, used, adjusted, contested, fails>>

Deny(h) ==
    /\ job[h].at = "deny"
    /\ status' = [status EXCEPT ![job[h].request] = "denied"]
    /\ Go(h, Idle)
    /\ UNCHANGED <<year, types, defaultDays, rows, allocated, used, adjusted, contested, fails>>

(* Mutant: the statement's error is ignored and it has no effect. *)
IncrementMutant(h) ==
    /\ job[h].at = "increment"
    /\ Go(h, Idle)
    /\ UNCHANGED <<year, tables, adjusted, contested, fails>>

(* ApproveLeave's second statement: used = used + days, or "not found". *)
Increment(h) ==
    /\ job[h].at = "increment"
    /\ LET a == AccountOf[job[h].request] IN
       used' = IF a \in rows THEN [used EXCEPT ![a] = @ + DaysOf[job[h].request]]
               ELSE used
    /\ Go(h, Idle)
    /\ UNCHANGED <<year, types, defaultDays, rows, allocated, status, adjusted, contested, fails>>

-----------------------------------------------------------------------------
(* A statement fails, the request is cancelled or the server crashes: the
   handler ends before its next statement. *)
Fail(h) ==
    /\ job[h] # Idle
    /\ fails < MaxFails
    /\ fails' = fails + 1
    /\ Go(h, Idle)
    /\ UNCHANGED <<year, tables, adjusted, contested>>

NewYear ==
    /\ year + 1 \in Years
    /\ year' = year + 1
    /\ UNCHANGED <<tables, job, adjusted, contested, fails>>

HandlerStep(h) ==
    \/ \E u \in Users \cup {NoUser} : OpenTypes(h, u)
    \/ ListTypes(h) \/ SeedOne(h) \/ InitForUser(h)
    \/ \E r \in Requests : RequestLeave(h, r) \/ Review(h, r, "approve")
                           \/ Review(h, r, "deny")
    \/ CreateRequest(h) \/ Approve(h) \/ Deny(h) \/ Increment(h)
    \/ Fail(h)

AdminStep ==
    \E t \in Types, days \in DayChoices :
        \/ CreateLeaveType(t, days)
        \/ UpdateLeaveType(t, days)
        \/ \E u \in Users : AdjustBalance(u, t, days)

Next == (\E h \in Handlers : HandlerStep(h)) \/ AdminStep \/ NewYear

Spec == Init /\ [][Next]_vars

-----------------------------------------------------------------------------
(* Properties *)

(* leave_service.go:93-99, leave_balance_repo.go:72-74.  A request that can be
   approved has a balance row, so the increment after its approval never
   answers "leave balance not found" with the approval already stored. *)
RequestsHaveBalance ==
    /\ \A r \in Requests : status[r] # "none" => AccountOf[r] \in rows
    /\ \A h \in Handlers : job[h].at \in {"create", "approve", "increment", "deny"}
          => AccountOf[job[h].request] \in rows

(* leave_balance_repo.go:46-59, 95-111.  Days an administrator allocated stay
   until the next adjustment: no late initialization of the user's balances,
   begun before the adjustment, puts the default back. *)
AdjustmentsStand ==
    \A a \in Accounts : adjusted[a] # 0 => a \in rows /\ allocated[a] = adjusted[a]

(* leave_service.go:135-141.  However reviews overlap or fail, days are charged
   to a balance only after a decision on one of its requests is stored. *)
ChargeNeedsDecision ==
    /\ \A a \in Accounts : used[a] # 0 =>
          \E r \in Requests : AccountOf[r] = a /\ status[r] \in Decided
    /\ \A h \in Handlers : job[h].at = "increment" =>
          status[job[h].request] \in Decided

(* Why they hold.  The id of a request about to be inserted is new and no other
   handler has it; a request under review is on file (leave_service.go:101-112,
   127-133). *)
FreshIds ==
    /\ \A h \in Handlers : job[h].at = "create" =>
          /\ status[job[h].request] = "none"
          /\ \A g \in Handlers : job[g] = job[h] => g = h
    /\ \A h \in Handlers : job[h].at \in {"approve", "deny", "increment"} =>
          status[job[h].request] # "none"

LeaveInv == RequestsHaveBalance /\ ChargeNeedsDecision /\ FreshIds

(* Days of the approved requests of an account, and those of its approvals
   that are stored but not yet charged. *)
Approved(a) == {r \in Requests : AccountOf[r] = a /\ status[r] = "approved"}
Uncharged(a) ==
    {h \in Handlers : job[h].at = "increment" /\ AccountOf[job[h].request] = a}
ApprovedDays(a) == MapThenSumSet(LAMBDA r : DaysOf[r], Approved(a))
ChargedDays(a) == used[a] + MapThenSumSet(LAMBDA h : DaysOf[job[h].request], Uncharged(a))

(* leave_service.go:131-141.  A review that no other overlapped decides on what is
   still so: the request is pending, and no other handler is deciding it. *)
ReviewsDecideAlone ==
    \A h \in Handlers, r \in Requests :
        Deciding(h, r) /\ r \notin contested =>
            status[r] = "pending" /\ \A g \in Handlers : Deciding(g, r) => g = h

(* leave_balance_repo.go:61: "Increment adds days to the used count (on leave
   approval)".  While no request of an account was contested, none of its approved
   requests is charged twice, whatever reviews of its requests are in progress
   together, and each is charged unless a handler ended between its statements.
   Two overlapping approvals of one request both charge it. *)
ChargesMatch ==
    \A a \in Accounts : (\A r \in contested : AccountOf[r] # a) =>
        /\ ChargedDays(a) <= ApprovedDays(a)
        /\ fails = 0 => ChargedDays(a) = ApprovedDays(a)

(* migrations/003_attendance_leave.sql:45: "Create -> pending -> approved/denied
   workflow".  A decision is final, however many reviewers there are, unless two
   reviews of that request overlapped: the later one then has the last word. *)
DecisionIsFinal ==
    [][\A r \in Requests :
          status[r] \in Decided /\ r \notin contested => status'[r] = status[r]]_vars

=============================================================================
