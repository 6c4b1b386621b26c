---------------------------- MODULE LeaveProofs ----------------------------
(***************************************************************************)
(* Proofs about Leave, for any number of handlers, users, leave types,     *)
(* years and requests, reviews that overlap included.                      *)
(***************************************************************************)
EXTENDS Leave, FiniteSetTheorems, WellFoundedInduction, TLAPS

(* A handler at a statement holds the data that statement needs. *)
LEMMA JobTyped ==
    ASSUME TypeOK, NEW h \in Handlers
    PROVE  /\ job[h] \in Jobs
           /\ job[h].at \in {"list", "seed", "init"} => job[h] \in TypeJobs
           /\ job[h].at \in {"create", "approve", "increment", "deny"}
                => job[h] \in RequestJobs
  BY DEF TypeOK, Jobs, Idle, TypeJobs, RequestJobs

(* The jobs the actions assign are jobs. *)
LEMMA JobAssigned ==
    ASSUME TypeOK, NEW h \in Handlers, NEW j \in Jobs, Go(h, j)
    PROVE  job' \in [Handlers -> Jobs]
  BY DEF TypeOK, Go

(* A TypeJobs record with another step keeps its other fields. *)
LEMMA StepChanged ==
    ASSUME NEW j \in TypeJobs, NEW s
    PROVE  [j EXCEPT !.at = s]
             = [at |-> s, user |-> j.user, year |-> j.year, next |-> j.next]
  BY DEF TypeJobs

(* The result of TypesReady is a job. *)
LEMMA ReadyTyped ==
    ASSUME TypeOK, NEW h \in Handlers, job[h] \in TypeJobs, TypesReady(h)
    PROVE  /\ job' \in [Handlers -> Jobs]
           /\ \/ job'[h] = Idle
              \/ job'[h] \in TypeJobs
           /\ \A g \in Handlers \ {h} : job'[g] = job[g]
  <1>1. CASE job[h].user = NoUser
    BY <1>1 DEF TypeOK, TypesReady, Go, Jobs
  <1>2. CASE job[h].user # NoUser
    <2>1. [job[h] EXCEPT !.at = "init"] \in TypeJobs
      <3>1. job[h].user \in Users /\ job[h].year \in Years /\ job[h].next \in 1..Len(SeedOrder)
        BY <1>2 DEF TypeJobs
      <3>2. [job[h] EXCEPT !.at = "init"]
              = [at |-> "init", user |-> job[h].user, year |-> job[h].year, next |-> job[h].next]
        BY StepChanged
      <3> QED
        BY <3>1, <3>2 DEF TypeJobs
    <2>2. job' = [job EXCEPT ![h] = [job[h] EXCEPT !.at = "init"]]
      BY <1>2 DEF TypesReady, Advance, Go
    <2> QED
      BY <2>1, <2>2 DEF TypeOK, Jobs
  <1> QED
    BY <1>1, <1>2

(* Every reachable state is well typed: leave_service.go keeps ids, years and
   counts in the ranges of their columns. *)
THEOREM TypeCorrect == Spec => []TypeOK
  <1>1. Init => TypeOK
    BY LeaveConstants DEF Init, TypeOK, Jobs, Accounts
  <1>2. TypeOK /\ [Next]_vars => TypeOK'
    <2> SUFFICES ASSUME TypeOK, [Next]_vars PROVE TypeOK'
      OBVIOUS
    <2> USE LeaveConstants
    <2>1. ASSUME NEW h \in Handlers, NEW u \in Users \cup {NoUser}, OpenTypes(h, u)
          PROVE  TypeOK'
      <3>1. [at |-> "list", user |-> u, year |-> year, next |-> 1] \in Jobs
        BY DEF TypeOK, Jobs, TypeJobs
      <3> QED
        BY <2>1, <3>1, JobAssigned DEF OpenTypes, TypeOK, tables
    <2>2. ASSUME NEW h \in Handlers, ListTypes(h) PROVE TypeOK'
      <3>1. job[h] \in TypeJobs
        BY <2>2, JobTyped DEF ListTypes
      <3>2. job' \in [Handlers -> Jobs]
        <4>1. CASE types = {}
          <5>1. [job[h] EXCEPT !.at = "seed"] \in Jobs
            <6>1. job[h].user \in Users \cup {NoUser} /\ job[h].year \in Years
                  /\ job[h].next \in 1..Len(SeedOrder)
              BY <3>1 DEF TypeJobs
            <6>2. [job[h] EXCEPT !.at = "seed"]
                    = [at |-> "seed", user |-> job[h].user, year |-> job[h].year, next |-> job[h].next]
              BY <3>1, StepChanged
            <6> QED
              BY <6>1, <6>2 DEF TypeJobs, Jobs
          <5> QED
            BY <2>2, <4>1, <5>1, JobAssigned DEF ListTypes, Advance
        <4>2. CASE types # {}
          BY <2>2, <3>1, <4>2, ReadyTyped DEF ListTypes
        <4> QED
          BY <4>1, <4>2
      <3> QED
        BY <2>2, <3>2 DEF ListTypes, TypeOK, tables
    <2>3. ASSUME NEW h \in Handlers, SeedOne(h) PROVE TypeOK'
      <3>1. job[h] \in TypeJobs
        BY <2>3, JobTyped DEF SeedOne
      <3>2. SeedOrder[job[h].next] \in Types
        BY <3>1 DEF TypeJobs
      <3>3. job' \in [Handlers -> Jobs]
        <4>1. CASE job[h].next = Len(SeedOrder)
          BY <2>3, <3>1, <4>1, ReadyTyped DEF SeedOne
        <4>2. CASE job[h].next # Len(SeedOrder)
          <5>1. [job[h] EXCEPT !.next = @ + 1] \in Jobs
            <6>1. job[h].at \in {"list", "seed"} /\ job[h].user \in Users \cup {NoUser}
                  /\ job[h].year \in Years /\ job[h].next \in 1..Len(SeedOrder)
              BY <2>3, <3>1 DEF TypeJobs, SeedOne
            <6>2. job[h].next + 1 \in 1..Len(SeedOrder)
              BY <4>2, <6>1
            <6>3. [job[h] EXCEPT !.next = @ + 1]
                    = [at |-> job[h].at, user |-> job[h].user, year |-> job[h].year,
                       next |-> job[h].next + 1]
              BY <3>1 DEF TypeJobs
            <6>4. [at |-> job[h].at, user |-> job[h].user, year |-> job[h].year,
                   next |-> job[h].next + 1] \in TypeJobs
              BY <6>1, <6>2 DEF TypeJobs
            <6> QED
              BY <6>3, <6>4 DEF Jobs
          <5> QED
            BY <2>3, <4>2, <5>1, JobAssigned DEF SeedOne
        <4> QED
          BY <4>1, <4>2
      <3> QED
        BY <2>3, <3>2, <3>3 DEF SeedOne, TypeOK
    <2>4. ASSUME NEW h \in Handlers, InitForUser(h) PROVE TypeOK'
      <3> DEFINE fresh == ({job[h].user} \X types \X {job[h].year}) \ rows
      <3>1. job[h] \in TypeJobs /\ job[h].user \in Users /\ job[h].year \in Years
        BY <2>4, JobTyped DEF InitForUser, TypeJobs
      <3>2. fresh \subseteq Accounts
        BY <3>1 DEF TypeOK, Accounts
      <3>3. allocated' \in [Accounts -> DayChoices \cup {0, SeedDays}]
        <4>1. \A a \in Accounts : a[2] \in Types
          BY DEF Accounts
        <4> QED
          BY <2>4, <4>1 DEF InitForUser, TypeOK
      <3>4. job' \in [Handlers -> Jobs]
        BY <2>4, JobAssigned DEF InitForUser, Jobs
      <3> QED
        BY <2>4, <3>2, <3>3, <3>4 DEF InitForUser, TypeOK
    <2>5. ASSUME NEW h \in Handlers, NEW r \in Requests, RequestLeave(h, r)
          PROVE  TypeOK'
      <3>1. [at |-> "create", request |-> r] \in Jobs
        BY DEF Jobs, RequestJobs
      <3> QED
        BY <2>5, <3>1, JobAssigned DEF RequestLeave, TypeOK, tables
    <2>6. ASSUME NEW h \in Handlers, NEW r \in Requests, NEW d \in {"approve", "deny"},
                 Review(h, r, d)
          PROVE  TypeOK'
      <3>1. [at |-> d, request |-> r] \in Jobs
        BY DEF Jobs, RequestJobs
      <3> QED
        BY <2>6, <3>1, JobAssigned DEF Review, TypeOK, tables
    <2>7. ASSUME NEW h \in Handlers, CreateRequest(h) PROVE TypeOK'
      <3>1. job' \in [Handlers -> Jobs]
        BY <2>7, JobAssigned DEF CreateRequest, Jobs
      <3> QED
        BY <2>7, <3>1 DEF CreateRequest, TypeOK
    <2>8. ASSUME NEW h \in Handlers, Approve(h) PROVE TypeOK'
      <3>1. [job[h] EXCEPT !.at = "increment"] \in Jobs
        BY <2>8, JobTyped DEF Approve, RequestJobs, Jobs
      <3>2. job' \in [Handlers -> Jobs]
        BY <2>8, <3>1, JobAssigned DEF Approve, Advance
      <3> QED
        BY <2>8, <3>2 DEF Approve, TypeOK, Decided
    <2>9. ASSUME NEW h \in Handlers, Deny(h) PROVE TypeOK'
      <3>1. job' \in [Handlers -> Jobs]
        BY <2>9, JobAssigned DEF Deny, Jobs
      <3> QED
        BY <2>9, <3>1 DEF Deny, TypeOK, Decided
    <2>10. ASSUME NEW h \in Handlers, Increment(h) PROVE TypeOK'
      <3>1. job[h].request \in Requests
        BY <2>10, JobTyped DEF Increment, RequestJobs
      <3>2. used' \in [Accounts -> Nat]
        BY <2>10, <3>1 DEF Increment, TypeOK
      <3>3. job' \in [Handlers -> Jobs]
        BY <2>10, JobAssigned DEF Increment, Jobs
      <3> QED
        BY <2>10, <3>2, <3>3 DEF Increment, TypeOK
    <2>11. ASSUME NEW h \in Handlers, Fail(h) PROVE TypeOK'
      <3>1. job' \in [Handlers -> Jobs]
        BY <2>11, JobAssigned DEF Fail, Jobs
      <3>2. fails' \in 0..MaxFails
        BY <2>11 DEF Fail, TypeOK
      <3> QED
        BY <2>11, <3>1, <3>2 DEF Fail, TypeOK, tables
    <2>12. ASSUME NEW t \in Types, NEW days \in DayChoices,
                  CreateLeaveType(t, days) \/ UpdateLeaveType(t, days)
           PROVE  TypeOK'
      BY <2>12 DEF CreateLeaveType, UpdateLeaveType, TypeOK
    <2>13. ASSUME NEW t \in Types, NEW days \in DayChoices, NEW u \in Users,
                  AdjustBalance(u, t, days)
           PROVE  TypeOK'
      <3>1. <<u, t, year>> \in Accounts
        BY DEF TypeOK, Accounts
      <3> QED
        BY <2>13, <3>1 DEF AdjustBalance, TypeOK
    <2>14. CASE NewYear
      BY <2>14 DEF NewYear, TypeOK, tables
    <2>15. CASE UNCHANGED vars
      BY <2>15 DEF vars, TypeOK, tables
    <2> QED
      BY <2>1, <2>2, <2>3, <2>4, <2>5, <2>6, <2>7, <2>8, <2>9, <2>10, <2>11, <2>12,
         <2>13, <2>14, <2>15 DEF Next, HandlerStep, AdminStep
  <1> QED
    BY <1>1, <1>2, PTL DEF Spec

(* Go changes one handler's job. *)
LEMMA GoChanges ==
    ASSUME TypeOK, NEW h \in Handlers, NEW j, Go(h, j)
    PROVE  job'[h] = j /\ \A g \in Handlers \ {h} : job'[g] = job[g]
  BY DEF TypeOK, Go

(* A step that leaves its handler with no request at hand preserves LeaveInv,
   unless it changes a request or a charge. *)
LEMMA QuietStep ==
    ASSUME LeaveInv, NEW h \in Handlers, rows \subseteq rows',
           UNCHANGED <<status, used>>,
           \A g \in Handlers \ {h} : job'[g] = job[g],
           job'[h].at \notin {"create", "approve", "increment", "deny"}
    PROVE  LeaveInv'
  <1>1. RequestsHaveBalance'
    BY DEF LeaveInv, RequestsHaveBalance
  <1>2. ChargeNeedsDecision'
    BY DEF LeaveInv, ChargeNeedsDecision
  <1>3. FreshIds'
    BY DEF LeaveInv, FreshIds
  <1> QED
    BY <1>1, <1>2, <1>3 DEF LeaveInv

(* The steps of GetLeaveTypes and GetMyBalances, and failures, are quiet. *)
LEMMA TypeStepsQuiet ==
    ASSUME TypeOK, LeaveInv, NEW h \in Handlers,
           \/ \E u \in Users \cup {NoUser} : OpenTypes(h, u)
           \/ ListTypes(h) \/ SeedOne(h) \/ InitForUser(h) \/ Fail(h)
    PROVE  LeaveInv'
  <1>1. ASSUME NEW u \in Users \cup {NoUser}, OpenTypes(h, u) PROVE LeaveInv'
    BY <1>1, GoChanges, QuietStep DEF OpenTypes, tables
  <1>2. CASE ListTypes(h)
    <2>1. job[h] \in TypeJobs
      BY <1>2, JobTyped DEF ListTypes
    <2>2. CASE types = {}
      <3>1. [job[h] EXCEPT !.at = "seed"].at = "seed"
        BY <2>1, StepChanged
      <3> QED
        BY <1>2, <2>2, <3>1, GoChanges, QuietStep DEF ListTypes, Advance, tables
    <2>3. CASE types # {}
      BY <1>2, <2>1, <2>3, ReadyTyped, QuietStep DEF ListTypes, tables, Idle, TypeJobs
    <2> QED
      BY <2>2, <2>3
  <1>3. CASE SeedOne(h)
    <2>1. job[h] \in TypeJobs
      BY <1>3, JobTyped DEF SeedOne
    <2>2. CASE job[h].next = Len(SeedOrder)
      BY <1>3, <2>1, <2>2, ReadyTyped, QuietStep DEF SeedOne, Idle, TypeJobs
    <2>3. CASE job[h].next # Len(SeedOrder)
      <3>1. [job[h] EXCEPT !.next = @ + 1].at = "seed"
        BY <1>3, <2>1 DEF SeedOne, TypeJobs
      <3> QED
        BY <1>3, <2>3, <3>1, GoChanges, QuietStep DEF SeedOne
    <2> QED
      BY <2>2, <2>3
  <1>4. CASE InitForUser(h)
    BY <1>4, GoChanges, QuietStep DEF InitForUser, Idle
  <1>5. CASE Fail(h)
    BY <1>5, GoChanges, QuietStep DEF Fail, Idle, tables
  <1> QED
    BY <1>1, <1>2, <1>3, <1>4, <1>5

(* LeaveInv is inductive with the type invariant: rows of leave_balances are
   never deleted, and a request once decided stays approved or denied. *)
THEOREM LeaveInductive == Spec => []LeaveInv
  <1>1. Init => LeaveInv
    BY DEF Init, LeaveInv, RequestsHaveBalance, ChargeNeedsDecision, FreshIds, Idle
  <1>2. TypeOK /\ LeaveInv /\ [Next]_vars => LeaveInv'
    <2> SUFFICES ASSUME TypeOK, LeaveInv, [Next]_vars PROVE LeaveInv'
      OBVIOUS
    <2>1. ASSUME NEW h \in Handlers, NEW r \in Requests, NEW step,
                 step \in {"create", "approve", "deny"},
                 Go(h, [at |-> step, request |-> r]), UNCHANGED tables,
                 AccountOf[r] \in rows,
                 step = "create" =>
                    /\ status[r] = "none"
                    /\ \A g \in Handlers : job[g] # [at |-> "create", request |-> r],
                 step # "create" => status[r] = "pending"
          PROVE  LeaveInv'
      <3>1. job'[h] = [at |-> step, request |-> r] /\ \A g \in Handlers \ {h} : job'[g] = job[g]
        BY <2>1, GoChanges
      <3>2. RequestsHaveBalance'
        BY <2>1, <3>1 DEF LeaveInv, RequestsHaveBalance, tables
      <3>3. ChargeNeedsDecision'
        BY <2>1, <3>1 DEF LeaveInv, ChargeNeedsDecision, tables
      <3>4. FreshIds'
        BY <2>1, <3>1 DEF LeaveInv, FreshIds, tables
      <3> QED
        BY <3>2, <3>3, <3>4 DEF LeaveInv
    <2>2. ASSUME NEW h \in Handlers, NEW r \in Requests, RequestLeave(h, r)
          PROVE  LeaveInv'
      BY <2>1, <2>2 DEF RequestLeave, tables
    <2>3. ASSUME NEW h \in Handlers, NEW r \in Requests, NEW d \in {"approve", "deny"},
                 Review(h, r, d)
          PROVE  LeaveInv'
      BY <2>1, <2>3 DEF Review, LeaveInv, RequestsHaveBalance
    <2>4. ASSUME NEW h \in Handlers, CreateRequest(h) PROVE LeaveInv'
      <3> DEFINE r == job[h].request
      <3>1. r \in Requests /\ job[h] = [at |-> "create", request |-> r]
        BY <2>4, JobTyped DEF CreateRequest, RequestJobs
      <3>2. job'[h] = Idle /\ \A g \in Handlers \ {h} : job'[g] = job[g]
        BY <2>4, GoChanges DEF CreateRequest
      <3>3. \A q \in Requests : status'[q] = IF q = r THEN "pending" ELSE status[q]
        BY <2>4, <3>1 DEF CreateRequest, TypeOK
      <3>4. status[r] = "none" /\ AccountOf[r] \in rows
        BY <2>4 DEF CreateRequest, LeaveInv, FreshIds, RequestsHaveBalance
      <3>5. \A g \in Handlers : job[g].at \in {"create", "approve", "deny", "increment"}
               => job[g] \in RequestJobs /\ job[g].request \in Requests
        BY JobTyped DEF RequestJobs
      <3>6. RequestsHaveBalance'
        BY <2>4, <3>2, <3>3, <3>4 DEF CreateRequest, LeaveInv, RequestsHaveBalance, Idle
      <3>7. ChargeNeedsDecision'
        BY <2>4, <3>2, <3>3, <3>4, <3>5
           DEF CreateRequest, LeaveInv, ChargeNeedsDecision, Idle, Decided
      <3>8. FreshIds'
        <4>1. \A g \in Handlers \ {h} : job[g].at = "create" => job[g].request # r
          BY <2>4, <3>1, <3>5 DEF CreateRequest, LeaveInv, FreshIds, RequestJobs
        <4> QED
          BY <3>2, <3>3, <3>5, <4>1 DEF LeaveInv, FreshIds, Idle
      <3> QED
        BY <3>6, <3>7, <3>8 DEF LeaveInv
    <2>5. ASSUME NEW h \in Handlers, NEW d \in Decided,
                 job[h].at \in {"approve", "deny"},
                 status' = [status EXCEPT ![job[h].request] = d],
                 UNCHANGED <<rows, used>>,
                 \A g \in Handlers \ {h} : job'[g] = job[g],
                 \/ job'[h] = Idle
                 \/ job'[h] = [at |-> "increment", request |-> job[h].request]
          PROVE  LeaveInv'
      <3> DEFINE r == job[h].request
      <3>1. r \in Requests
        BY <2>5, JobTyped DEF RequestJobs
      <3>2. \A q \in Requests : status'[q] = IF q = r THEN d ELSE status[q]
        BY <2>5, <3>1 DEF TypeOK
      <3>3. status[r] # "none" /\ AccountOf[r] \in rows
        BY <2>5 DEF LeaveInv, FreshIds, RequestsHaveBalance
      <3>4. \A g \in Handlers : job[g].at \in {"create", "approve", "deny", "increment"}
               => job[g].request \in Requests
        BY JobTyped DEF RequestJobs
      <3>5. RequestsHaveBalance'
        BY <2>5, <3>2, <3>3 DEF LeaveInv, RequestsHaveBalance, Idle
      <3>6. ChargeNeedsDecision'
        BY <2>5, <3>1, <3>2, <3>3, <3>4 DEF LeaveInv, ChargeNeedsDecision, Idle
      <3>7. FreshIds'
        BY <2>5, <3>1, <3>2, <3>3, <3>4 DEF LeaveInv, FreshIds, Idle, Decided
      <3> QED
        BY <3>5, <3>6, <3>7 DEF LeaveInv
    <2>6. ASSUME NEW h \in Handlers, Approve(h) PROVE LeaveInv'
      <3>1. [job[h] EXCEPT !.at = "increment"] = [at |-> "increment", request |-> job[h].request]
        BY <2>6, JobTyped DEF Approve, RequestJobs
      <3>2. job'[h] = [at |-> "increment", request |-> job[h].request]
            /\ \A g \in Handlers \ {h} : job'[g] = job[g]
        BY <2>6, <3>1, GoChanges DEF Approve, Advance
      <3>3. /\ status' = [status EXCEPT ![job[h].request] = "approved"]
            /\ job[h].at \in {"approve", "deny"}
            /\ UNCHANGED <<rows, used>>
        BY <2>6 DEF Approve
      <3> QED
        BY <2>5, <3>2, <3>3 DEF Decided
    <2>7. ASSUME NEW h \in Handlers, Deny(h) PROVE LeaveInv'
      BY <2>5, <2>7, GoChanges DEF Deny, Decided
    <2>8. ASSUME NEW h \in Handlers, Increment(h) PROVE LeaveInv'
      <3>1. job[h].request \in Requests /\ status[job[h].request] \in Decided
        BY <2>8, JobTyped DEF Increment, RequestJobs, LeaveInv, ChargeNeedsDecision
      <3>2. \A a \in Accounts : used'[a] # used[a] => a = AccountOf[job[h].request]
        BY <2>8 DEF Increment, TypeOK
      <3>3. job'[h] = Idle /\ \A g \in Handlers \ {h} : job'[g] = job[g]
        BY <2>8, GoChanges DEF Increment
      <3>4. RequestsHaveBalance'
        BY <2>8, <3>3 DEF Increment, LeaveInv, RequestsHaveBalance, Idle
      <3>5. ChargeNeedsDecision'
        BY <2>8, <3>1, <3>2, <3>3 DEF Increment, LeaveInv, ChargeNeedsDecision, Idle
      <3>6. FreshIds'
        BY <2>8, <3>3 DEF Increment, LeaveInv, FreshIds, Idle
      <3> QED
        BY <3>4, <3>5, <3>6 DEF LeaveInv
    <2>9. CASE AdminStep \/ NewYear \/ UNCHANGED vars
      <3>1. rows \subseteq rows' /\ UNCHANGED <<status, used, job>>
        BY <2>9 DEF AdminStep, CreateLeaveType, UpdateLeaveType, AdjustBalance, NewYear,
                    vars, tables
      <3> QED
        BY <3>1 DEF LeaveInv, RequestsHaveBalance, ChargeNeedsDecision, FreshIds
    <2> QED
      BY <2>2, <2>3, <2>4, <2>6, <2>7, <2>8, <2>9, TypeStepsQuiet DEF Next, HandlerStep
  <1> QED
    BY <1>1, <1>2, TypeCorrect, PTL DEF Spec

(* A request on file, or about to be inserted or reviewed, has its balance row
   (leave_service.go:93-99), so an approval's increment finds it. *)
THEOREM IncrementFindsItsRow == Spec => []RequestsHaveBalance
  BY LeaveInductive, PTL DEF LeaveInv

(* leave_service.go:135-141: days are charged only to an account with a decided
   request, and a handler that is about to charge has stored its decision. *)
THEOREM NoChargeBeforeDecision == Spec => []ChargeNeedsDecision
  BY LeaveInductive, PTL DEF LeaveInv

(* leave_balance_repo.go:46-59, 95-111: an adjusted allocation stays until the
   next adjustment.  A row adjusted exists, and InitForUser only fills rows that
   do not. *)
THEOREM AdjustmentsAreKept == Spec => []AdjustmentsStand
  <1>1. Init => AdjustmentsStand
    BY DEF Init, AdjustmentsStand
  <1>2. TypeOK /\ AdjustmentsStand /\ [Next]_vars => AdjustmentsStand'
    <2> SUFFICES ASSUME TypeOK, AdjustmentsStand, [Next]_vars PROVE AdjustmentsStand'
      OBVIOUS
    <2>1. CASE UNCHANGED <<rows, allocated, adjusted>>
      BY <2>1 DEF AdjustmentsStand
    <2>2. ASSUME NEW h \in Handlers, InitForUser(h) PROVE AdjustmentsStand'
      BY <2>2 DEF InitForUser, AdjustmentsStand, TypeOK
    <2>3. ASSUME NEW t \in Types, NEW days \in DayChoices, NEW u \in Users,
                 AdjustBalance(u, t, days)
          PROVE  AdjustmentsStand'
      BY <2>3 DEF AdjustBalance, AdjustmentsStand, TypeOK
    <2>4. ASSUME NEW h \in Handlers, HandlerStep(h), ~InitForUser(h)
          PROVE  UNCHANGED <<rows, allocated, adjusted>>
      BY <2>4 DEF HandlerStep, OpenTypes, ListTypes, SeedOne, RequestLeave, Review,
                  CreateRequest, Approve, Deny, Increment, Fail, tables
    <2> QED
      BY <2>1, <2>2, <2>3, <2>4
         DEF Next, AdminStep, CreateLeaveType, UpdateLeaveType, NewYear, vars, tables
  <1> QED
    BY <1>1, <1>2, TypeCorrect, PTL DEF Spec

-----------------------------------------------------------------------------
(* The steps that are no part of a review. *)
LEMMA NoReviewStep ==
    ASSUME TypeOK, NEW h \in Handlers,
           \/ \E u \in Users \cup {NoUser} : OpenTypes(h, u)
           \/ ListTypes(h) \/ SeedOne(h) \/ InitForUser(h) \/ Increment(h) \/ Fail(h)
           \/ \E r \in Requests : RequestLeave(h, r)
    PROVE  /\ status' = status
           /\ job'[h].at \notin {"approve", "deny", "increment"}
           /\ \A g \in Handlers \ {h} : job'[g] = job[g]
  <1>1. ASSUME NEW j, Go(h, j), j.at \notin {"approve", "deny", "increment"}
        PROVE  /\ job'[h].at \notin {"approve", "deny", "increment"}
               /\ \A g \in Handlers \ {h} : job'[g] = job[g]
    BY <1>1, GoChanges
  <1>2. ASSUME job[h] \in TypeJobs, TypesReady(h)
        PROVE  /\ job'[h].at \notin {"approve", "deny", "increment"}
               /\ \A g \in Handlers \ {h} : job'[g] = job[g]
    BY <1>2, ReadyTyped DEF Idle, TypeJobs
  <1>3. CASE ListTypes(h)
    <2>1. job[h] \in TypeJobs  BY <1>3, JobTyped DEF ListTypes
    <2>2. [job[h] EXCEPT !.at = "seed"].at = "seed"  BY <2>1, StepChanged
    <2> QED  BY <1>1, <1>2, <1>3, <2>1, <2>2 DEF ListTypes, Advance, tables
  <1>4. CASE SeedOne(h)
    <2>1. job[h] \in TypeJobs /\ job[h].at = "seed"  BY <1>4, JobTyped DEF SeedOne
    <2>2. [job[h] EXCEPT !.next = @ + 1].at = "seed"  BY <2>1 DEF TypeJobs
    <2> QED  BY <1>1, <1>2, <1>4, <2>1, <2>2 DEF SeedOne
  <1>5. CASE InitForUser(h) \/ Increment(h) \/ Fail(h)
    BY <1>1, <1>5 DEF InitForUser, Increment, Fail, Idle, tables
  <1>6. ASSUME NEW u \in Users \cup {NoUser}, OpenTypes(h, u)
        PROVE  /\ status' = status
               /\ job'[h].at \notin {"approve", "deny", "increment"}
               /\ \A g \in Handlers \ {h} : job'[g] = job[g]
    BY <1>1, <1>6 DEF OpenTypes, tables
  <1>7. ASSUME NEW r \in Requests, RequestLeave(h, r)
        PROVE  /\ status' = status
               /\ job'[h].at \notin {"approve", "deny", "increment"}
               /\ \A g \in Handlers \ {h} : job'[g] = job[g]
    BY <1>1, <1>7 DEF RequestLeave, tables
  <1> QED
    BY <1>3, <1>4, <1>5, <1>6, <1>7

(* A handler that is not deciding a request after its step leaves the others to
   decide alone, if it leaves the requests under review alone. *)
LEMMA AloneStays ==
    ASSUME ReviewsDecideAlone, NEW h \in Handlers,
           \A r \in Requests : ~ Deciding(h, r)',
           \A g \in Handlers \ {h} : job'[g] = job[g],
           contested' = contested,
           \A g \in Handlers \ {h}, r \in Requests :
              Deciding(g, r) /\ r \notin contested => status'[r] = status[r]
    PROVE  ReviewsDecideAlone'
  <1>1. \A g \in Handlers, r \in Requests : Deciding(g, r)' => g # h /\ Deciding(g, r)
    BY DEF Deciding
  <1> QED
    BY <1>1 DEF ReviewsDecideAlone

(* What a step does to the requests: a decision changes only if the request was
   contested. *)
LEMMA ReviewStep ==
    ASSUME TypeOK, LeaveInv, ReviewsDecideAlone, [Next]_vars
    PROVE  /\ ReviewsDecideAlone'
           /\ \A r \in Requests :
                 status[r] \in Decided /\ r \notin contested => status'[r] = status[r]
  <1>1. ASSUME NEW h \in Handlers,
               \/ \E u \in Users \cup {NoUser} : OpenTypes(h, u)
               \/ ListTypes(h) \/ SeedOne(h) \/ InitForUser(h) \/ Increment(h) \/ Fail(h)
               \/ \E r \in Requests : RequestLeave(h, r)
        PROVE  ReviewsDecideAlone' /\ status' = status
    <2>1. /\ status' = status /\ job'[h].at \notin {"approve", "deny", "increment"}
          /\ \A g \in Handlers \ {h} : job'[g] = job[g]
      BY <1>1, NoReviewStep
    <2>2. contested' = contested
      BY <1>1 DEF OpenTypes, ListTypes, SeedOne, InitForUser, Increment, Fail, RequestLeave
    <2>3. \A r \in Requests : ~ Deciding(h, r)'
      BY <2>1 DEF Deciding
    <2> QED
      BY <2>1, <2>2, <2>3, AloneStays
  <1>2. ASSUME NEW h \in Handlers, NEW r \in Requests, NEW d \in {"approve", "deny"},
               Review(h, r, d)
        PROVE  ReviewsDecideAlone' /\ status' = status
    <2>1. /\ job'[h] = [at |-> d, request |-> r] /\ \A g \in Handlers \ {h} : job'[g] = job[g]
          /\ status[r] = "pending" /\ status' = status /\ contested \subseteq contested'
          /\ r \notin contested' => \A g \in Handlers : ~ Deciding(g, r)
      BY <1>2, GoChanges DEF Review, tables
    <2>2. \A g \in Handlers, q \in Requests : Deciding(g, q)' =>
             \/ g = h /\ q = r
             \/ g # h /\ Deciding(g, q)
      BY <2>1 DEF Deciding
    <2> QED
      BY <2>1, <2>2 DEF ReviewsDecideAlone
  <1>3. ASSUME NEW h \in Handlers, CreateRequest(h)
        PROVE  /\ ReviewsDecideAlone'
               /\ \A r \in Requests : status[r] \in Decided => status'[r] = status[r]
    <2>1. /\ job[h].request \in Requests /\ status[job[h].request] = "none"
          /\ status' = [status EXCEPT ![job[h].request] = "pending"]
          /\ contested' = contested
      BY <1>3, JobTyped DEF CreateRequest, RequestJobs, LeaveInv, FreshIds
    <2>2. job'[h] = Idle /\ \A g \in Handlers \ {h} : job'[g] = job[g]
      BY <1>3, GoChanges DEF CreateRequest
    <2>3. \A r \in Requests : status'[r] = IF r = job[h].request THEN "pending" ELSE status[r]
      BY <2>1 DEF TypeOK
    <2>4. \A g \in Handlers, r \in Requests : Deciding(g, r) => r # job[h].request
      BY <2>1 DEF Deciding, LeaveInv, FreshIds
    <2>5. \A r \in Requests : ~ Deciding(h, r)'
      BY <2>2 DEF Deciding, Idle
    <2>6. ReviewsDecideAlone'
      BY <2>1, <2>2, <2>3, <2>4, <2>5, AloneStays
    <2> QED
      BY <2>1, <2>3, <2>6 DEF Decided
  <1>4. ASSUME NEW h \in Handlers, Approve(h) \/ Deny(h)
        PROVE  /\ ReviewsDecideAlone'
               /\ \A r \in Requests :
                     status[r] \in Decided /\ r \notin contested => status'[r] = status[r]
    <2> DEFINE q == job[h].request
    <2>1. q \in Requests /\ job[h] \in RequestJobs /\ Deciding(h, q) /\ contested' = contested
      BY <1>4, JobTyped DEF Approve, Deny, RequestJobs, Deciding
    <2>2. \E d : status' = [status EXCEPT ![q] = d]
      BY <1>4 DEF Approve, Deny
    <2>3. \A r \in Requests \ {q} : status'[r] = status[r]
      BY <2>1, <2>2 DEF TypeOK
    <2>4. /\ job'[h].at \notin {"approve", "deny"}
          /\ \A g \in Handlers \ {h} : job'[g] = job[g]
      <3>1. CASE Approve(h)
        <4>1. Go(h, [job[h] EXCEPT !.at = "increment"])
          BY <3>1 DEF Approve, Advance
        <4>2. [job[h] EXCEPT !.at = "increment"].at = "increment"
          BY <2>1 DEF RequestJobs
        <4> QED
          BY <4>1, <4>2, GoChanges
      <3>2. CASE Deny(h)
        BY <3>2, GoChanges DEF Deny, Idle
      <3> QED
        BY <1>4, <3>1, <3>2
    <2>5. q \notin contested => /\ status[q] = "pending"
                                /\ \A g \in Handlers \ {h} : ~ Deciding(g, q)
      BY <2>1 DEF ReviewsDecideAlone
    <2> HIDE DEF q
    <2>6. \A r \in Requests : ~ Deciding(h, r)'
      BY <2>4 DEF Deciding
    <2>7. ReviewsDecideAlone'
      BY <2>1, <2>3, <2>4, <2>5, <2>6, AloneStays
    <2> QED
      BY <2>3, <2>5, <2>7 DEF Decided
  <1>5. CASE AdminStep \/ NewYear \/ UNCHANGED vars
    <2>1. UNCHANGED <<status, job, contested>>
      BY <1>5 DEF AdminStep, CreateLeaveType, UpdateLeaveType, AdjustBalance, NewYear,
                  vars, tables
    <2> QED
      BY <2>1 DEF ReviewsDecideAlone, Deciding
  <1> QED
    BY <1>1, <1>2, <1>3, <1>4, <1>5 DEF Next, HandlerStep

(* leave_service.go:131-133.  A review that no other overlapped decides a request
   that is still pending, and that no other handler is deciding. *)
THEOREM ReviewsAreAlone == Spec => []ReviewsDecideAlone
  <1>1. Init => ReviewsDecideAlone
    BY DEF Init, ReviewsDecideAlone, Deciding, Idle
  <1>2. TypeOK /\ LeaveInv /\ ReviewsDecideAlone /\ [Next]_vars => ReviewsDecideAlone'
    BY ReviewStep
  <1> QED
    BY <1>1, <1>2, TypeCorrect, LeaveInductive, PTL DEF Spec

(* migrations/003_attendance_leave.sql:45.  However many reviewers there are, no step
   changes the decision on a request whose reviews did not overlap. *)
THEOREM DecisionsAreFinal == Spec => DecisionIsFinal
  <1>1. TypeOK /\ LeaveInv /\ ReviewsDecideAlone /\ [Next]_vars =>
            [\A r \in Requests :
                status[r] \in Decided /\ r \notin contested => status'[r] = status[r]]_vars
    BY ReviewStep
  <1> QED
    BY <1>1, TypeCorrect, LeaveInductive, ReviewsAreAlone, PTL DEF Spec, DecisionIsFinal

-----------------------------------------------------------------------------
(* Sums over finite sets.  SumOf is the fold ApprovedDays is defined by, for the
   values of a function. *)
SumOf(F, S) == MapThenSumSet(LAMBDA x : F[x], S)
Pick(S) == CHOOSE x \in S : TRUE
Sums(g, F, S) ==
    g = [s \in SUBSET S |-> IF s = {} THEN 0 ELSE F[Pick(s)] + g[s \ {Pick(s)}]]

(* A nonempty set of numbers has a least one. *)
LEMMA LeastNumber ==
    ASSUME NEW B \in SUBSET Nat, B # {}
    PROVE  \E m \in B : \A k \in B : m <= k
  <1>1. IsWellFoundedOn({ss \in Nat \X Nat : ss[1] < ss[2]}, Nat)
    BY NatLessThanWellFounded DEF OpToRel
  <1>2. PICK m \in B : \A k \in B : ~ (<<k, m>> \in {ss \in Nat \X Nat : ss[1] < ss[2]})
    BY <1>1, WFMin
  <1>3. \A k \in B : k \in Nat /\ m \in Nat /\ ~ (k < m)
    <2> SUFFICES ASSUME NEW k \in B PROVE k \in Nat /\ m \in Nat /\ ~ (k < m)
      OBVIOUS
    <2>1. k \in Nat /\ m \in Nat
      OBVIOUS
    <2>2. k < m => <<k, m>> \in {ss \in Nat \X Nat : ss[1] < ss[2]}
      BY <2>1
    <2> QED
      BY <1>2, <2>1, <2>2
  <1> QED
    BY <1>3

(* The subsets of a finite set, and what is left of one without its pick. *)
LEMMA PickFromFinite ==
    ASSUME NEW S, IsFiniteSet(S), NEW s \in SUBSET S
    PROVE  /\ IsFiniteSet(s) /\ Cardinality(s) \in Nat
           /\ Cardinality(s) <= Cardinality(S) /\ Cardinality(S) \in Nat
           /\ Cardinality(s) = 0 <=> s = {}
           /\ s # {} => Pick(s) \in s
           /\ \A x \in s : Cardinality(s \ {x}) = Cardinality(s) - 1
  <1>1. IsFiniteSet(s) /\ Cardinality(s) <= Cardinality(S)
    BY FS_Subset
  <1>2. Cardinality(s) \in Nat /\ Cardinality(S) \in Nat
    BY <1>1, FS_CardinalityType
  <1>3. Cardinality(s) = 0 <=> s = {}
    BY <1>1, FS_EmptySet
  <1>4. \A x \in s : Cardinality(s \ {x}) = Cardinality(s) - 1
    BY <1>1, FS_RemoveElement
  <1>5. s # {} => Pick(s) \in s
    BY DEF Pick
  <1> QED
    BY <1>1, <1>2, <1>3, <1>4, <1>5

(* The recursion that defines a sum has a solution on a finite set. *)
LEMMA SumExists ==
    ASSUME NEW S, IsFiniteSet(S), NEW F, \A x \in S : F[x] \in Nat
    PROVE  \E g \in [SUBSET S -> Nat] : Sums(g, F, S)
  <1> DEFINE Small(n) == {s \in SUBSET S : Cardinality(s) <= n}
             Solves(g, n) ==
                 /\ g \in [Small(n) -> Nat]
                 /\ \A s \in Small(n) :
                       g[s] = IF s = {} THEN 0 ELSE F[Pick(s)] + g[s \ {Pick(s)}]
             Bad == {n \in Nat : ~ \E g : Solves(g, n)}
  <1>1. \A s \in SUBSET S :
           /\ Cardinality(s) \in Nat
           /\ Cardinality(s) = 0 <=> s = {}
           /\ s # {} => Pick(s) \in s /\ Cardinality(s \ {Pick(s)}) = Cardinality(s) - 1
    BY PickFromFinite
  <1>2. \E g : Solves(g, 0)
    <2> DEFINE g == [s \in Small(0) |-> 0]
    <2>1. ASSUME NEW s \in Small(0) PROVE s = {}
      <3>1. s \in SUBSET S /\ Cardinality(s) <= 0
        OBVIOUS
      <3>2. Cardinality(s) \in Nat /\ (Cardinality(s) = 0 <=> s = {})
        BY <1>1, <3>1
      <3> QED
        BY <3>1, <3>2
    <2>2. Solves(g, 0)
      BY <2>1
    <2> QED
      BY <2>2
  <1>3. ASSUME NEW n \in Nat, NEW g, Solves(g, n)
        PROVE  \E h : Solves(h, n + 1)
    <2> DEFINE h == [s \in Small(n + 1) |->
                       IF s \in Small(n) THEN g[s] ELSE F[Pick(s)] + g[s \ {Pick(s)}]]
    <2>1. ASSUME NEW s \in Small(n) PROVE s \in Small(n + 1)
      <3>1. s \in SUBSET S /\ Cardinality(s) <= n
        OBVIOUS
      <3>2. Cardinality(s) \in Nat
        BY <1>1, <3>1
      <3>3. Cardinality(s) <= n + 1
        BY <3>1, <3>2
      <3> QED
        BY <3>1, <3>3
    <2>2. ASSUME NEW s \in Small(n + 1), s # {}
          PROVE  s \ {Pick(s)} \in Small(n) /\ F[Pick(s)] \in Nat
      <3>1. s \in SUBSET S /\ Cardinality(s) <= n + 1
        OBVIOUS
      <3>2. /\ Cardinality(s) \in Nat /\ Pick(s) \in s
            /\ Cardinality(s \ {Pick(s)}) = Cardinality(s) - 1
        BY <1>1, <2>2, <3>1
      <3>3. Cardinality(s \ {Pick(s)}) <= n
        BY <3>1, <3>2
      <3> QED
        BY <3>1, <3>2, <3>3
    <2>3. ASSUME NEW s \in Small(n + 1), s = {} PROVE s \in Small(n)
      <3>1. Cardinality(s) = 0
        BY <1>1, <2>3
      <3>2. Cardinality(s) <= n
        BY <3>1
      <3> QED
        BY <2>3, <3>2
    <2>4. \A s \in Small(n) : g[s] \in Nat
      BY <1>3
    <2>5. h \in [Small(n + 1) -> Nat]
      BY <2>2, <2>3, <2>4
    <2>6. ASSUME NEW s \in Small(n + 1)
          PROVE  h[s] = IF s = {} THEN 0 ELSE F[Pick(s)] + h[s \ {Pick(s)}]
      <3>1. s # {} => h[s \ {Pick(s)}] = g[s \ {Pick(s)}]
        BY <2>1, <2>2
      <3>2. CASE s \in Small(n)
        BY <1>3, <3>1, <3>2
      <3>3. CASE s \notin Small(n)
        BY <2>3, <3>1, <3>3
      <3> QED
        BY <3>2, <3>3
    <2>7. Solves(h, n + 1)
      BY <2>5, <2>6
    <2> QED
      BY <2>7
  <1> HIDE DEF Solves
  <1>4. Bad = {}
    <2> SUFFICES ASSUME Bad # {} PROVE FALSE
      OBVIOUS
    <2>1. PICK m \in Bad : \A k \in Bad : m <= k
      BY LeastNumber
    <2>2. m # 0 /\ m \in Nat
      BY <1>2
    <2>3. m - 1 \in Nat /\ m - 1 \notin Bad
      BY <2>1, <2>2
    <2>4. \E h : Solves(h, (m - 1) + 1)
      BY <1>3, <2>3
    <2> QED
      BY <2>2, <2>4
  <1>5. Cardinality(S) \in Nat /\ Small(Cardinality(S)) = SUBSET S
    BY PickFromFinite
  <1>6. PICK g : Solves(g, Cardinality(S))
    BY <1>4, <1>5
  <1>7. /\ g \in [SUBSET S -> Nat]
        /\ \A s \in SUBSET S :
              g[s] = IF s = {} THEN 0 ELSE F[Pick(s)] + g[s \ {Pick(s)}]
    BY <1>5, <1>6 DEF Solves
  <1>8. Sums(g, F, S)
    BY <1>7 DEF Sums
  <1> QED
    BY <1>7, <1>8

(* It has one only. *)
LEMMA SumUnique ==
    ASSUME NEW S, IsFiniteSet(S), NEW F, NEW g, NEW h, Sums(g, F, S), Sums(h, F, S)
    PROVE  g = h
  <1> DEFINE Bad == {n \in Nat : \E s \in SUBSET S : Cardinality(s) = n /\ g[s] # h[s]}
  <1>1. \A s \in SUBSET S :
           /\ Cardinality(s) \in Nat
           /\ s # {} => s \ {Pick(s)} \in SUBSET S
                        /\ Cardinality(s \ {Pick(s)}) = Cardinality(s) - 1
    BY PickFromFinite
  <1>2. \A s \in SUBSET S :
           /\ g[s] = IF s = {} THEN 0 ELSE F[Pick(s)] + g[s \ {Pick(s)}]
           /\ h[s] = IF s = {} THEN 0 ELSE F[Pick(s)] + h[s \ {Pick(s)}]
    BY DEF Sums
  <1>3. Bad = {}
    <2> SUFFICES ASSUME Bad # {} PROVE FALSE
      OBVIOUS
    <2>1. PICK m \in Bad : \A k \in Bad : m <= k
      BY LeastNumber
    <2>2. PICK s \in SUBSET S : Cardinality(s) = m /\ g[s] # h[s]
      OBVIOUS
    <2>3. s # {} /\ g[s \ {Pick(s)}] # h[s \ {Pick(s)}]
      BY <1>2, <2>2
    <2>4. m - 1 \in Bad
      BY <1>1, <2>2, <2>3
    <2> QED
      BY <2>1, <2>4
  <1>4. \A s \in SUBSET S : g[s] = h[s]
    BY <1>1, <1>3
  <1> QED
    BY <1>4 DEF Sums

(* The sum over S is what the recursion says of S. *)
LEMMA SumSolved ==
    ASSUME NEW S, NEW F, \E g : Sums(g, F, S)
    PROVE  \E g : Sums(g, F, S) /\ SumOf(F, S) = g[S]
  <1>1. Sums(CHOOSE g : Sums(g, F, S), F, S)
    OBVIOUS
  <1>2. SumOf(F, S) = (CHOOSE g : Sums(g, F, S))[S]
    BY DEF SumOf, MapThenSumSet, MapThenFoldSet, Sums, Pick
  <1> QED
    BY <1>1, <1>2

(* A sum of numbers is a number; that of the empty set is 0. *)
LEMMA SumType ==
    ASSUME NEW S, IsFiniteSet(S), NEW F, \A x \in S : F[x] \in Nat
    PROVE  /\ SumOf(F, S) \in Nat
           /\ S = {} => SumOf(F, S) = 0
  <1>1. PICK g \in [SUBSET S -> Nat] : Sums(g, F, S)
    BY SumExists
  <1>2. PICK h : Sums(h, F, S) /\ SumOf(F, S) = h[S]
    BY <1>1, SumSolved
  <1>3. g = h
    BY <1>1, <1>2, SumUnique
  <1>4. S \in SUBSET S
    OBVIOUS
  <1>5. S = {} => g[S] = 0
    BY <1>1, <1>4 DEF Sums
  <1> QED
    BY <1>1, <1>2, <1>3, <1>4, <1>5

(* The fold takes the elements one by one. *)
LEMMA SumRecursion ==
    ASSUME NEW S, IsFiniteSet(S), S # {}, NEW F, \A x \in S : F[x] \in Nat
    PROVE  SumOf(F, S) = F[Pick(S)] + SumOf(F, S \ {Pick(S)})
  <1> DEFINE T == S \ {Pick(S)}
  <1>1. PICK g : Sums(g, F, S) /\ SumOf(F, S) = g[S]
    BY SumExists, SumSolved
  <1>2. IsFiniteSet(T) /\ T \in SUBSET S
    BY FS_Subset
  <1>3. PICK h : Sums(h, F, T) /\ SumOf(F, T) = h[T]
    BY <1>2, SumExists, SumSolved
  <1> DEFINE r == [s \in SUBSET T |-> g[s]]
  <1>4. Sums(r, F, T)
    <2>1. \A s \in SUBSET T : s \in SUBSET S /\ s \ {Pick(s)} \in SUBSET T
      OBVIOUS
    <2>2. \A s \in SUBSET T : r[s] = IF s = {} THEN 0 ELSE F[Pick(s)] + r[s \ {Pick(s)}]
      BY <1>1, <2>1 DEF Sums
    <2> QED
      BY <2>2 DEF Sums
  <1>5. r = h
    BY <1>2, <1>3, <1>4, SumUnique
  <1>6. h[T] = g[T]
    BY <1>5
  <1>7. g[S] = F[Pick(S)] + g[T]
    BY <1>1 DEF Sums
  <1> QED
    BY <1>1, <1>3, <1>6, <1>7

(* In whatever order. *)
LEMMA SumRemove ==
    ASSUME NEW S, IsFiniteSet(S), NEW F, \A x \in S : F[x] \in Nat, NEW x \in S
    PROVE  SumOf(F, S) = F[x] + SumOf(F, S \ {x})
  <1> DEFINE Wrong(T, y) == SumOf(F, T) # F[y] + SumOf(F, T \ {y})
             Bad == {n \in Nat : \E T \in SUBSET S : \E y \in T :
                                    Cardinality(T) = n /\ Wrong(T, y)}
  <1>1. \A T \in SUBSET S :
           /\ IsFiniteSet(T) /\ Cardinality(T) \in Nat
           /\ T # {} => Pick(T) \in T
           /\ \A y \in T : Cardinality(T \ {y}) = Cardinality(T) - 1
    BY PickFromFinite
  <1>2. \A T \in SUBSET S : SumOf(F, T) \in Nat
    BY <1>1, SumType
  <1>3. \A T \in SUBSET S : T # {} => SumOf(F, T) = F[Pick(T)] + SumOf(F, T \ {Pick(T)})
    BY <1>1, SumRecursion
  <1>4. Bad = {}
    <2> SUFFICES ASSUME Bad # {} PROVE FALSE
      OBVIOUS
    <2>1. PICK m \in Bad : \A k \in Bad : m <= k
      BY LeastNumber
    <2> PICK T \in SUBSET S : \E y \in T : Cardinality(T) = m /\ Wrong(T, y)
      OBVIOUS
    <2>2. PICK y \in T : Cardinality(T) = m /\ Wrong(T, y)
      OBVIOUS
    <2> DEFINE p == Pick(T)
               U == T \ {p, y}
    <2>3. p \in T /\ p # y
      BY <1>1, <1>3, <2>2
    <2>4. /\ T \ {p} \in SUBSET S /\ T \ {y} \in SUBSET S /\ U \in SUBSET S
          /\ y \in T \ {p} /\ p \in T \ {y}
          /\ (T \ {p}) \ {y} = U /\ (T \ {y}) \ {p} = U
      BY <2>3
    <2>5. m - 1 \in Nat /\ m - 1 \notin Bad
          /\ Cardinality(T \ {p}) = m - 1 /\ Cardinality(T \ {y}) = m - 1
      <3>1. Cardinality(T \ {p}) = m - 1 /\ Cardinality(T \ {y}) = m - 1
        BY <1>1, <2>2, <2>3
      <3>2. m \in Nat /\ Cardinality(T \ {p}) \in Nat
        BY <1>1, <2>1, <2>4
      <3>3. m - 1 \in Nat /\ ~ (m <= m - 1)
        BY <3>1, <3>2
      <3> QED
        BY <2>1, <3>1, <3>3
    <2>6. SumOf(F, T \ {p}) = F[y] + SumOf(F, U)
      <3>1. ~ Wrong(T \ {p}, y)
        BY <2>4, <2>5
      <3> QED
        BY <2>4, <3>1
    <2>7. SumOf(F, T \ {y}) = F[p] + SumOf(F, U)
      <3>1. ~ Wrong(T \ {y}, p)
        BY <2>4, <2>5
      <3> QED
        BY <2>4, <3>1
    <2>8. SumOf(F, T) = F[p] + SumOf(F, T \ {p})
      BY <1>3, <2>3
    <2>9. F[p] \in Nat /\ F[y] \in Nat /\ SumOf(F, U) \in Nat
      BY <1>2, <2>3, <2>4
    <2>10. SumOf(F, T) = F[y] + SumOf(F, T \ {y})
      BY <2>6, <2>7, <2>8, <2>9
    <2> QED
      BY <2>2, <2>10
  <1>5. S \in SUBSET S /\ Cardinality(S) \in Nat
    BY <1>1
  <1> QED
    BY <1>4, <1>5

(* A new element adds its number. *)
LEMMA SumAdd ==
    ASSUME NEW S, IsFiniteSet(S), NEW x, x \notin S, NEW F, \A y \in S \cup {x} : F[y] \in Nat
    PROVE  SumOf(F, S \cup {x}) = F[x] + SumOf(F, S)
  <1>1. IsFiniteSet(S \cup {x}) /\ (S \cup {x}) \ {x} = S
    BY FS_AddElement
  <1> QED
    BY <1>1, SumRemove

(* Only the numbers of the elements summed up matter. *)
LEMMA SumCongruent ==
    ASSUME NEW S, IsFiniteSet(S), NEW F, NEW G, \A x \in S : F[x] \in Nat /\ G[x] = F[x]
    PROVE  SumOf(G, S) = SumOf(F, S)
  <1>1. PICK g : Sums(g, F, S) /\ SumOf(F, S) = g[S]
    BY SumExists, SumSolved
  <1>2. PICK h : Sums(h, G, S) /\ SumOf(G, S) = h[S]
    BY SumExists, SumSolved
  <1>3. \A s \in SUBSET S : s # {} => Pick(s) \in s /\ G[Pick(s)] = F[Pick(s)]
    BY DEF Pick
  <1>4. \A s \in SUBSET S : (IF s = {} THEN 0 ELSE G[Pick(s)] + h[s \ {Pick(s)}])
                             = IF s = {} THEN 0 ELSE F[Pick(s)] + h[s \ {Pick(s)}]
    BY <1>3
  <1>5. Sums(h, F, S)
    BY <1>2, <1>4 DEF Sums
  <1> QED
    BY <1>1, <1>2, <1>5, SumUnique

(* The days handlers owe, when J are the jobs, is such a sum. *)
Owed(J, U) == MapThenSumSet(LAMBDA h : DaysOf[J[h].request], U)

LEMMA OwedIsSum ==
    ASSUME NEW J, NEW U \in SUBSET Handlers, IsFiniteSet(U),
           \A h \in U : DaysOf[J[h].request] \in Nat
    PROVE  Owed(J, U) = SumOf([h \in Handlers |-> DaysOf[J[h].request]], U)
  <1> DEFINE F == [h \in Handlers |-> DaysOf[J[h].request]]
             Solves(g) == g = [s \in SUBSET U |-> IF s = {} THEN 0
                                  ELSE DaysOf[J[Pick(s)].request] + g[s \ {Pick(s)}]]
  <1>1. \A s \in SUBSET U : s # {} => Pick(s) \in s /\ F[Pick(s)] = DaysOf[J[Pick(s)].request]
    BY DEF Pick
  <1>2. ASSUME NEW g PROVE Solves(g) <=> Sums(g, F, U)
    <2>1. \A s \in SUBSET U :
             (IF s = {} THEN 0 ELSE DaysOf[J[Pick(s)].request] + g[s \ {Pick(s)}])
               = IF s = {} THEN 0 ELSE F[Pick(s)] + g[s \ {Pick(s)}]
      BY <1>1
    <2>2. [s \in SUBSET U |-> IF s = {} THEN 0
                              ELSE DaysOf[J[Pick(s)].request] + g[s \ {Pick(s)}]]
            = [s \in SUBSET U |-> IF s = {} THEN 0 ELSE F[Pick(s)] + g[s \ {Pick(s)}]]
      BY <2>1
    <2> QED
      BY <2>2 DEF Sums
  <1>3. Owed(J, U) = (CHOOSE g : Solves(g))[U]
    BY DEF Owed, MapThenSumSet, MapThenFoldSet, Pick
  <1> HIDE DEF Solves
  <1>4. \A h \in U : F[h] \in Nat
    OBVIOUS
  <1> HIDE DEF F
  <1>5. \E g : Sums(g, F, U)
    BY <1>4, SumExists
  <1>6. Sums(CHOOSE g : Solves(g), F, U)
    BY <1>2, <1>5
  <1>7. PICK g : Sums(g, F, U) /\ SumOf(F, U) = g[U]
    BY <1>5, SumSolved
  <1>8. g = CHOOSE f : Solves(f)
    BY <1>6, <1>7, SumUnique
  <1> QED
    BY <1>3, <1>7, <1>8 DEF F

-----------------------------------------------------------------------------
(* The charges.  Owers are the handlers that still have to add the days of an
   approved request to the account a, J being the jobs. *)
Owers(J, a) == {h \in Handlers : J[h].at = "increment" /\ AccountOf[J[h].request] = a}

(* Finitely many handlers are about to charge, each the days of a request. *)
Payable(J) ==
    /\ IsFiniteSet({h \in Handlers : J[h].at = "increment"})
    /\ \A h \in Handlers : J[h].at = "increment" => J[h].request \in Requests

(* What the invariant adds to ChargesMatch: what a review has read is still true,
   and there are finitely many requests and handlers to sum up. *)
ChargesInv ==
    /\ ReviewsDecideAlone
    /\ IsFiniteSet({h \in Handlers : job[h].at = "increment"})
    /\ IsFiniteSet({r \in Requests : status[r] = "approved"})
    /\ ChargesMatch

(* The sums ChargesMatch compares, in this state and, as it is so in every state,
   in the next one. *)
LEMMA SumsRead ==
    \A a \in Accounts :
        /\ ChargedDays(a) = used[a] + Owed(job, Owers(job, a))
        /\ ApprovedDays(a) = SumOf(DaysOf, Approved(a))
  BY DEF ChargedDays, Uncharged, Owed, Owers, ApprovedDays, SumOf

LEMMA SumsReadNext ==
    (\A a \in Accounts :
        /\ ChargedDays(a) = used[a] + Owed(job, Owers(job, a))
        /\ ApprovedDays(a) = SumOf(DaysOf, Approved(a)))'
  BY SumsRead, PTL

(* What is owed is the sum of the owers' days, and nothing without owers. *)
LEMMA OwedRead ==
    ASSUME NEW J, Payable(J), NEW a
    PROVE  /\ IsFiniteSet(Owers(J, a)) /\ Owers(J, a) \in SUBSET Handlers
           /\ \A h \in Owers(J, a) : DaysOf[J[h].request] \in Nat
           /\ Owed(J, Owers(J, a))
                = SumOf([h \in Handlers |-> DaysOf[J[h].request]], Owers(J, a))
           /\ Owed(J, Owers(J, a)) \in Nat
           /\ Owers(J, a) = {} => Owed(J, Owers(J, a)) = 0
  <1> DEFINE F == [h \in Handlers |-> DaysOf[J[h].request]]
  <1>1. IsFiniteSet(Owers(J, a)) /\ Owers(J, a) \in SUBSET Handlers
    BY FS_Subset DEF Owers, Payable
  <1>2. \A h \in Owers(J, a) : DaysOf[J[h].request] \in Nat
    BY LeaveConstants DEF Owers, Payable
  <1>3. Owed(J, Owers(J, a)) = SumOf(F, Owers(J, a))
    BY <1>1, <1>2, OwedIsSum
  <1>4. \A h \in Owers(J, a) : F[h] \in Nat
    BY <1>1, <1>2
  <1> HIDE DEF F
  <1>5. SumOf(F, Owers(J, a)) \in Nat /\ (Owers(J, a) = {} => SumOf(F, Owers(J, a)) = 0)
    BY <1>1, <1>4, SumType
  <1> QED
    BY <1>1, <1>2, <1>3, <1>5 DEF F

(* The same owers with the same requests owe the same. *)
LEMMA OwedSame ==
    ASSUME NEW J, NEW K, Payable(J), Payable(K), NEW a, Owers(K, a) = Owers(J, a),
           \A h \in Owers(J, a) : K[h].request = J[h].request
    PROVE  Owed(K, Owers(K, a)) = Owed(J, Owers(J, a))
  <1> DEFINE F == [h \in Handlers |-> DaysOf[J[h].request]]
             G == [h \in Handlers |-> DaysOf[K[h].request]]
             U == Owers(J, a)
  <1>1. Owed(J, U) = SumOf(F, U) /\ Owed(K, U) = SumOf(G, U)
    BY OwedRead
  <1>2. IsFiniteSet(U) /\ \A h \in U : F[h] \in Nat /\ G[h] = F[h]
    BY OwedRead
  <1> HIDE DEF F, G, U
  <1>3. SumOf(G, U) = SumOf(F, U)
    BY <1>2, SumCongruent
  <1> QED
    BY <1>1, <1>3 DEF U

(* One more ower owes the days of its request on top. *)
LEMMA OwedMore ==
    ASSUME NEW J, NEW K, Payable(J), Payable(K), NEW a, NEW h \in Handlers,
           h \notin Owers(J, a), Owers(K, a) = Owers(J, a) \cup {h},
           \A g \in Owers(J, a) : K[g].request = J[g].request
    PROVE  /\ Owed(K, Owers(K, a)) = DaysOf[K[h].request] + Owed(J, Owers(J, a))
           /\ DaysOf[K[h].request] \in Nat
  <1> DEFINE F == [g \in Handlers |-> DaysOf[J[g].request]]
             G == [g \in Handlers |-> DaysOf[K[g].request]]
             U == Owers(J, a)
  <1>1. Owed(J, U) = SumOf(F, U) /\ Owed(K, U \cup {h}) = SumOf(G, U \cup {h})
    BY OwedRead
  <1>2. IsFiniteSet(U) /\ \A g \in U : F[g] \in Nat /\ G[g] = F[g]
    BY OwedRead
  <1>3. \A g \in U \cup {h} : G[g] \in Nat
    BY OwedRead
  <1>4. G[h] = DaysOf[K[h].request] /\ h \notin U
    OBVIOUS
  <1> HIDE DEF F, G, U
  <1>5. SumOf(G, U) = SumOf(F, U)
    BY <1>2, SumCongruent
  <1>6. SumOf(G, U \cup {h}) = G[h] + SumOf(G, U)
    BY <1>2, <1>3, <1>4, SumAdd
  <1> QED
    BY <1>1, <1>3, <1>4, <1>5, <1>6 DEF U

(* No request of the account was contested. *)
Peaceful(a, C) == \A r \in C : AccountOf[r] # a

(* The quantities ChargesMatch compares. *)
LEMMA ChargesTyped ==
    ASSUME TypeOK, ChargesInv, NEW a \in Accounts
    PROVE  /\ Payable(job)
           /\ used[a] \in Nat /\ Owed(job, Owers(job, a)) \in Nat
           /\ IsFiniteSet(Approved(a)) /\ SumOf(DaysOf, Approved(a)) \in Nat
           /\ Peaceful(a, contested) =>
                /\ used[a] + Owed(job, Owers(job, a)) <= SumOf(DaysOf, Approved(a))
                /\ fails = 0 => used[a] + Owed(job, Owers(job, a))
                                  = SumOf(DaysOf, Approved(a))
  <1>1. Payable(job)
    BY JobTyped DEF ChargesInv, RequestJobs, Payable
  <1>2. used[a] \in Nat /\ Owed(job, Owers(job, a)) \in Nat
    BY <1>1, OwedRead DEF TypeOK
  <1>3. IsFiniteSet(Approved(a))
    BY FS_Subset DEF ChargesInv, Approved
  <1>4. \A r \in Approved(a) : DaysOf[r] \in Nat
    BY LeaveConstants DEF Approved
  <1>5. SumOf(DaysOf, Approved(a)) \in Nat
    BY <1>3, <1>4, SumType
  <1>6. ChargedDays(a) = used[a] + Owed(job, Owers(job, a))
        /\ ApprovedDays(a) = SumOf(DaysOf, Approved(a))
    BY SumsRead
  <1> QED
    BY <1>1, <1>2, <1>3, <1>5, <1>6 DEF ChargesInv, ChargesMatch, Peaceful

(* A comparison of the sums of each peaceful account after a step gives the
   invariant. *)
LEMMA ChargesMatchNext ==
    ASSUME ReviewsDecideAlone',
           IsFiniteSet({h \in Handlers : job'[h].at = "increment"}),
           IsFiniteSet({r \in Requests : status'[r] = "approved"}),
           \A a \in Accounts : Peaceful(a, contested') =>
              /\ used'[a] + Owed(job', Owers(job', a)) <= SumOf(DaysOf, Approved(a)')
              /\ fails' = 0 => used'[a] + Owed(job', Owers(job', a))
                                 = SumOf(DaysOf, Approved(a)')
    PROVE  ChargesInv'
  <1>1. ASSUME NEW a \in Accounts
        PROVE  /\ ChargedDays(a)' = used'[a] + Owed(job', Owers(job', a))
               /\ ApprovedDays(a)' = SumOf(DaysOf, Approved(a)')
    BY SumsReadNext
  <1>2. ChargesMatch'
    BY <1>1 DEF ChargesMatch, Peaceful
  <1> QED
    BY <1>2 DEF ChargesInv

(* Most steps neither approve a request nor charge one. *)
LEMMA ChargesSame ==
    ASSUME TypeOK, ChargesInv, ReviewsDecideAlone', contested \subseteq contested',
           used' = used, fails' = 0 => fails = 0,
           \A r \in Requests : status'[r] = "approved" <=> status[r] = "approved",
           \A h \in Handlers :
              job'[h].at = "increment" \/ job[h].at = "increment" => job'[h] = job[h]
    PROVE  ChargesInv'
  <1>1. {r \in Requests : status'[r] = "approved"} = {r \in Requests : status[r] = "approved"}
        /\ {h \in Handlers : job'[h].at = "increment"} = {h \in Handlers : job[h].at = "increment"}
    OBVIOUS
  <1>2. /\ IsFiniteSet({r \in Requests : status'[r] = "approved"})
        /\ IsFiniteSet({h \in Handlers : job'[h].at = "increment"})
    BY <1>1 DEF ChargesInv
  <1>3. Payable(job) /\ Payable(job')
    BY <1>2, JobTyped DEF Payable, RequestJobs, ChargesInv
  <1>4. ASSUME NEW a \in Accounts
        PROVE  /\ Owed(job', Owers(job', a)) = Owed(job, Owers(job, a))
               /\ Approved(a)' = Approved(a)
               /\ Peaceful(a, contested') => Peaceful(a, contested)
    <2>1. Owers(job', a) = Owers(job, a) /\ \A h \in Owers(job, a) : job'[h] = job[h]
      BY DEF Owers
    <2>2. Owed(job', Owers(job', a)) = Owed(job, Owers(job, a))
      BY <1>3, <2>1, OwedSame
    <2> QED
      BY <2>2 DEF Approved, Peaceful
  <1>5. ASSUME NEW a \in Accounts, Peaceful(a, contested')
        PROVE  /\ used'[a] + Owed(job', Owers(job', a)) <= SumOf(DaysOf, Approved(a)')
               /\ fails' = 0 => used'[a] + Owed(job', Owers(job', a))
                                  = SumOf(DaysOf, Approved(a)')
    BY <1>4, <1>5, ChargesTyped
  <1> QED
    BY <1>2, <1>5, ChargesMatchNext

(* An approval is stored: its reviewer owes its days. *)
LEMMA ChargesApprove ==
    ASSUME TypeOK, ChargesInv, ReviewsDecideAlone', NEW h \in Handlers, Approve(h)
    PROVE  ChargesInv'
  <1> DEFINE r == job[h].request
             A == {q \in Requests : status[q] = "approved"}
             O == {g \in Handlers : job[g].at = "increment"}
  <1>1. job[h] \in RequestJobs /\ r \in Requests /\ Deciding(h, r) /\ h \notin O
    BY JobTyped DEF Approve, RequestJobs, Deciding
  <1>2. /\ job'[h].at = "increment" /\ job'[h].request = r
        /\ \A g \in Handlers \ {h} : job'[g] = job[g]
    <2>1. Go(h, [job[h] EXCEPT !.at = "increment"])
      BY DEF Approve, Advance
    <2>2. [job[h] EXCEPT !.at = "increment"] = [at |-> "increment", request |-> r]
      BY <1>1 DEF RequestJobs
    <2> QED
      BY <2>1, <2>2, GoChanges
  <1>3. /\ \A q \in Requests : status'[q] = IF q = r THEN "approved" ELSE status[q]
        /\ used' = used /\ fails' = fails /\ contested' = contested
    BY <1>1 DEF Approve, TypeOK
  <1>4. /\ IsFiniteSet({q \in Requests : status'[q] = "approved"})
        /\ IsFiniteSet({g \in Handlers : job'[g].at = "increment"})
    <2>1. {q \in Requests : status'[q] = "approved"} = A \cup {r}
      BY <1>1, <1>3
    <2>2. {g \in Handlers : job'[g].at = "increment"} = O \cup {h}
      BY <1>2
    <2>3. IsFiniteSet(A) /\ IsFiniteSet(O)
      BY DEF ChargesInv
    <2> HIDE DEF A, O
    <2>4. IsFiniteSet(A \cup {r}) /\ IsFiniteSet(O \cup {h})
      BY <2>3, FS_AddElement
    <2> QED
      BY <2>1, <2>2, <2>4
  <1>5. Payable(job) /\ Payable(job')
    BY <1>1, <1>2, <1>4, JobTyped DEF Payable, RequestJobs, ChargesInv
  <1>6. ASSUME NEW a \in Accounts, Peaceful(a, contested')
        PROVE  /\ used'[a] + Owed(job', Owers(job', a)) <= SumOf(DaysOf, Approved(a)')
               /\ fails' = 0 => used'[a] + Owed(job', Owers(job', a))
                                  = SumOf(DaysOf, Approved(a)')
    <2>1. /\ used[a] \in Nat /\ Owed(job, Owers(job, a)) \in Nat
          /\ IsFiniteSet(Approved(a)) /\ SumOf(DaysOf, Approved(a)) \in Nat
          /\ used[a] + Owed(job, Owers(job, a)) <= SumOf(DaysOf, Approved(a))
          /\ fails = 0 => used[a] + Owed(job, Owers(job, a)) = SumOf(DaysOf, Approved(a))
      BY <1>3, <1>6, ChargesTyped
    <2>2. CASE AccountOf[r] = a
      <3>1. status[r] = "pending"
        BY <1>1, <1>3, <1>6, <2>2 DEF Peaceful, ChargesInv, ReviewsDecideAlone
      <3>2. Approved(a)' = Approved(a) \cup {r} /\ r \notin Approved(a)
        BY <1>1, <1>3, <2>2, <3>1 DEF Approved
      <3>3. \A q \in Approved(a) \cup {r} : DaysOf[q] \in Nat
        BY <1>1, LeaveConstants DEF Approved
      <3>4. SumOf(DaysOf, Approved(a) \cup {r}) = DaysOf[r] + SumOf(DaysOf, Approved(a))
        BY <2>1, <3>2, <3>3, SumAdd
      <3>5. /\ h \notin Owers(job, a) /\ Owers(job', a) = Owers(job, a) \cup {h}
            /\ \A g \in Owers(job, a) : job'[g].request = job[g].request
        BY <1>1, <1>2, <2>2 DEF Owers
      <3>6. Owed(job', Owers(job', a)) = DaysOf[r] + Owed(job, Owers(job, a))
        <4>1. PICK J : J = job
          OBVIOUS
        <4>2. PICK K : K = job'
          OBVIOUS
        <4>3. /\ Payable(J) /\ Payable(K)
              /\ h \notin Owers(J, a) /\ Owers(K, a) = Owers(J, a) \cup {h}
              /\ \A g \in Owers(J, a) : K[g].request = J[g].request
          BY <1>5, <3>5, <4>1, <4>2
        <4>4. Owed(K, Owers(K, a)) = DaysOf[K[h].request] + Owed(J, Owers(J, a))
          BY <4>3, OwedMore
        <4> QED
          BY <1>2, <4>1, <4>2, <4>4
      <3>7. DaysOf[r] \in Nat
        BY <3>3
      <3> HIDE DEF r
      <3> QED
        BY <1>3, <2>1, <3>2, <3>4, <3>6, <3>7
    <2>3. CASE AccountOf[r] # a
      <3>1. Owers(job', a) = Owers(job, a) /\ \A g \in Owers(job, a) : job'[g] = job[g]
        BY <1>1, <1>2, <2>3 DEF Owers
      <3>2. Owed(job', Owers(job', a)) = Owed(job, Owers(job, a))
        BY <1>5, <3>1, OwedSame
      <3>3. Approved(a)' = Approved(a)
        BY <1>3, <2>3 DEF Approved
      <3> QED
        BY <1>3, <2>1, <3>2, <3>3
    <2> QED
      BY <2>2, <2>3
  <1> QED
    BY <1>4, <1>6, ChargesMatchNext

(* A denial changes no sum of a peaceful account: the request was pending. *)
LEMMA ChargesDeny ==
    ASSUME TypeOK, ChargesInv, ReviewsDecideAlone', NEW h \in Handlers, Deny(h)
    PROVE  ChargesInv'
  <1> DEFINE r == job[h].request
  <1>1. /\ r \in Requests /\ Deciding(h, r) /\ job[h].at # "increment"
    BY JobTyped DEF Deny, RequestJobs, Deciding
  <1>2. job'[h] = Idle /\ \A g \in Handlers \ {h} : job'[g] = job[g]
    BY GoChanges DEF Deny
  <1>3. /\ \A q \in Requests : status'[q] = IF q = r THEN "denied" ELSE status[q]
        /\ used' = used /\ fails' = fails /\ contested' = contested
    BY <1>1 DEF Deny, TypeOK
  <1>4. /\ IsFiniteSet({q \in Requests : status'[q] = "approved"})
        /\ IsFiniteSet({g \in Handlers : job'[g].at = "increment"})
    <2>1. /\ {q \in Requests : status'[q] = "approved"}
               \subseteq {q \in Requests : status[q] = "approved"}
          /\ {g \in Handlers : job'[g].at = "increment"}
               \subseteq {g \in Handlers : job[g].at = "increment"}
      BY <1>2, <1>3 DEF Idle
    <2> QED
      BY <2>1, FS_Subset DEF ChargesInv
  <1>5. Payable(job) /\ Payable(job')
    BY <1>2, <1>4, JobTyped DEF Payable, RequestJobs, ChargesInv, Idle
  <1>6. ASSUME NEW a \in Accounts, Peaceful(a, contested')
        PROVE  /\ used'[a] + Owed(job', Owers(job', a)) <= SumOf(DaysOf, Approved(a)')
               /\ fails' = 0 => used'[a] + Owed(job', Owers(job', a))
                                  = SumOf(DaysOf, Approved(a)')
    <2>1. Owers(job', a) = Owers(job, a) /\ \A g \in Owers(job, a) : job'[g] = job[g]
      BY <1>1, <1>2 DEF Owers, Idle
    <2>2. Owed(job', Owers(job', a)) = Owed(job, Owers(job, a))
      BY <1>5, <2>1, OwedSame
    <2>3. AccountOf[r] = a => status[r] = "pending"
      BY <1>1, <1>3, <1>6 DEF Peaceful, ChargesInv, ReviewsDecideAlone
    <2>4. Approved(a)' = Approved(a)
      BY <1>3, <2>3 DEF Approved
    <2> QED
      BY <1>3, <1>6, <2>2, <2>4, ChargesTyped
  <1> QED
    BY <1>4, <1>6, ChargesMatchNext

(* The debt is added to the account, or dropped by a failure. *)
LEMMA ChargesSettled ==
    ASSUME TypeOK, LeaveInv, ChargesInv, ReviewsDecideAlone',
           NEW h \in Handlers, job[h].at = "increment", Increment(h) \/ Fail(h)
    PROVE  ChargesInv'
  <1> DEFINE r == job[h].request
             b == AccountOf[r]
  <1>1. /\ job[h] \in RequestJobs /\ r \in Requests /\ b \in Accounts /\ b \in rows
        /\ DaysOf[r] \in Nat
    BY JobTyped, LeaveConstants DEF RequestJobs, LeaveInv, RequestsHaveBalance
  <1>2. job'[h] = Idle /\ \A g \in Handlers \ {h} : job'[g] = job[g]
    BY GoChanges DEF Increment, Fail
  <1>3. status' = status /\ contested' = contested
    BY DEF Increment, Fail, tables
  <1>4. /\ IsFiniteSet({q \in Requests : status'[q] = "approved"})
        /\ IsFiniteSet({g \in Handlers : job'[g].at = "increment"})
    <2>1. {g \in Handlers : job'[g].at = "increment"}
            \subseteq {g \in Handlers : job[g].at = "increment"}
      BY <1>2 DEF Idle
    <2> QED
      BY <1>3, <2>1, FS_Subset DEF ChargesInv
  <1>5. Payable(job) /\ Payable(job')
    BY <1>2, <1>4, JobTyped DEF Payable, RequestJobs, ChargesInv, Idle
  <1>6. ASSUME NEW a \in Accounts
        PROVE  /\ Owed(job', Owers(job', a)) \in Nat
               /\ Owed(job, Owers(job, a))
                    = (IF a = b THEN DaysOf[r] ELSE 0) + Owed(job', Owers(job', a))
    <2>1. Owed(job', Owers(job', a)) \in Nat
      BY <1>5, OwedRead
    <2>2. CASE a = b
      <3>1. /\ h \notin Owers(job', a) /\ Owers(job, a) = Owers(job', a) \cup {h}
            /\ \A g \in Owers(job', a) : job[g].request = job'[g].request
        BY <1>2, <2>2 DEF Owers, Idle
      <3>2. Owed(job, Owers(job, a)) = DaysOf[r] + Owed(job', Owers(job', a))
        <4>1. PICK J : J = job
          OBVIOUS
        <4>2. PICK K : K = job'
          OBVIOUS
        <4>3. /\ Payable(J) /\ Payable(K)
              /\ h \notin Owers(K, a) /\ Owers(J, a) = Owers(K, a) \cup {h}
              /\ \A g \in Owers(K, a) : J[g].request = K[g].request
          BY <1>5, <3>1, <4>1, <4>2
        <4>4. Owed(J, Owers(J, a)) = DaysOf[J[h].request] + Owed(K, Owers(K, a))
          BY <4>3, OwedMore
        <4> QED
          BY <4>1, <4>2, <4>4
      <3> QED
        BY <2>1, <2>2, <3>2
    <2>3. CASE a # b
      <3>1. Owers(job', a) = Owers(job, a) /\ \A g \in Owers(job, a) : job'[g] = job[g]
        BY <1>2, <2>3 DEF Owers, Idle
      <3>2. Owed(job', Owers(job', a)) = Owed(job, Owers(job, a))
        BY <1>5, <3>1, OwedSame
      <3> QED
        BY <2>1, <2>3, <3>2
    <2> QED
      BY <2>2, <2>3
  <1>7. ASSUME NEW a \in Accounts, Peaceful(a, contested')
        PROVE  /\ used'[a] + Owed(job', Owers(job', a)) <= SumOf(DaysOf, Approved(a)')
               /\ fails' = 0 => used'[a] + Owed(job', Owers(job', a))
                                  = SumOf(DaysOf, Approved(a)')
    <2>1. /\ used[a] \in Nat /\ SumOf(DaysOf, Approved(a)) \in Nat
          /\ used[a] + Owed(job, Owers(job, a)) <= SumOf(DaysOf, Approved(a))
          /\ fails = 0 => used[a] + Owed(job, Owers(job, a)) = SumOf(DaysOf, Approved(a))
      BY <1>3, <1>7, ChargesTyped
    <2>2. Approved(a)' = Approved(a)
      BY <1>3 DEF Approved
    <2>3. CASE Increment(h)
      <3>1. used'[a] = used[a] + IF a = b THEN DaysOf[r] ELSE 0
        <4>1. used' = [used EXCEPT ![b] = @ + DaysOf[r]]
          BY <1>1, <2>3 DEF Increment
        <4> QED
          BY <1>1, <2>1, <4>1 DEF TypeOK
      <3>2. fails' = fails
        BY <2>3 DEF Increment
      <3> QED
        BY <1>1, <1>6, <2>1, <2>2, <3>1, <3>2
    <2>4. CASE Fail(h)
      <3>1. used' = used /\ fails' = fails + 1 /\ fails \in Nat
        BY <2>4 DEF Fail, tables, TypeOK
      <3> QED
        BY <1>1, <1>6, <2>1, <2>2, <3>1
    <2> QED
      BY <2>3, <2>4
  <1> QED
    BY <1>4, <1>7, ChargesMatchNext

(* leave_service.go:135-141, leave_balance_repo.go:61.  For any number of handlers,
   reviews among them: an approval of an account whose reviews did not overlap is
   charged at most once, and exactly once while no handler ends between its
   statements. *)
THEOREM ChargesAlwaysMatch == Spec => []ChargesMatch
  <1>1. Init => ChargesInv
    <2> SUFFICES ASSUME Init PROVE ChargesInv
      OBVIOUS
    <2>1. /\ \A h \in Handlers : job[h] = Idle
          /\ \A a \in Accounts : used[a] = 0
          /\ \A r \in Requests : status[r] = "none"
      BY DEF Init
    <2>2. ReviewsDecideAlone /\ \A h \in Handlers : job[h].at # "increment"
      BY <2>1 DEF ReviewsDecideAlone, Deciding, Idle
    <2>3. /\ {r \in Requests : status[r] = "approved"} = {} /\ IsFiniteSet({})
          /\ {h \in Handlers : job[h].at = "increment"} = {}
      BY <2>1, <2>2, FS_EmptySet
    <2>4. Payable(job)
      BY <2>2, <2>3 DEF Payable
    <2>5. ASSUME NEW a \in Accounts PROVE ChargedDays(a) = 0 /\ ApprovedDays(a) = 0
      <3>1. Owers(job, a) = {} /\ Approved(a) = {}
        BY <2>2, <2>3 DEF Owers, Approved
      <3>2. Owed(job, Owers(job, a)) = 0
        BY <2>4, <3>1, OwedRead
      <3>3. SumOf(DaysOf, Approved(a)) = 0
        BY <2>3, <3>1, SumType
      <3> QED
        BY <2>1, <3>2, <3>3, SumsRead
    <2>6. ChargesMatch
      BY <2>5 DEF ChargesMatch
    <2> QED
      BY <2>2, <2>3, <2>6 DEF ChargesInv
  <1>2. TypeOK /\ LeaveInv /\ ChargesInv /\ [Next]_vars => ChargesInv'
    <2> SUFFICES ASSUME TypeOK, LeaveInv, ChargesInv, [Next]_vars PROVE ChargesInv'
      OBVIOUS
    <2>1. ReviewsDecideAlone'
      BY ReviewStep DEF ChargesInv
    <2>2. ASSUME NEW h \in Handlers, Increment(h) PROVE ChargesInv'
      BY <2>1, <2>2, ChargesSettled DEF Increment
    <2>3. ASSUME NEW h \in Handlers, Fail(h) PROVE ChargesInv'
      <3>1. CASE job[h].at = "increment"
        BY <2>1, <2>3, <3>1, ChargesSettled
      <3>2. CASE job[h].at # "increment"
        <4>1. /\ job'[h] = Idle /\ \A g \in Handlers \ {h} : job'[g] = job[g]
              /\ status' = status /\ used' = used /\ fails' = fails + 1 /\ fails \in Nat
              /\ contested' = contested
          BY <2>3, GoChanges DEF Fail, tables, TypeOK
        <4>2. fails' # 0
          BY <4>1
        <4> QED
          BY <2>1, <3>2, <4>1, <4>2, ChargesSame DEF Idle
      <3> QED
        BY <3>1, <3>2
    <2>4. ASSUME NEW h \in Handlers, Approve(h) PROVE ChargesInv'
      BY <2>1, <2>4, ChargesApprove
    <2>5. ASSUME NEW h \in Handlers, CreateRequest(h) PROVE ChargesInv'
      <3>1. /\ job[h].request \in Requests /\ status[job[h].request] = "none"
            /\ job[h].at # "increment"
        BY <2>5, JobTyped DEF CreateRequest, RequestJobs, LeaveInv, FreshIds
      <3>2. job'[h] = Idle /\ \A g \in Handlers \ {h} : job'[g] = job[g]
        BY <2>5, GoChanges DEF CreateRequest
      <3>3. \A r \in Requests : status'[r] = "approved" <=> status[r] = "approved"
        BY <2>5, <3>1 DEF CreateRequest, TypeOK
      <3>4. used' = used /\ fails' = fails /\ contested' = contested
        BY <2>5 DEF CreateRequest
      <3> QED
        BY <2>1, <3>1, <3>2, <3>3, <3>4, ChargesSame DEF Idle
    <2>6. ASSUME NEW h \in Handlers,
                 \/ \E u \in Users \cup {NoUser} : OpenTypes(h, u)
                 \/ ListTypes(h) \/ SeedOne(h) \/ InitForUser(h)
                 \/ \E r \in Requests : RequestLeave(h, r) \/ Review(h, r, "approve")
                                        \/ Review(h, r, "deny")
          PROVE  ChargesInv'
      <3>1. job[h].at # "increment"
        <4>1. job[h] = Idle \/ job[h].at \in {"list", "seed", "init"}
          BY <2>6 DEF OpenTypes, ListTypes, SeedOne, InitForUser, RequestLeave, Review
        <4> QED
          BY <4>1 DEF Idle
      <3>0. ASSUME NEW r \in Requests, Review(h, r, "approve") \/ Review(h, r, "deny")
            PROVE  job'[h].at # "increment" /\ \A g \in Handlers \ {h} : job'[g] = job[g]
        BY <3>0, GoChanges DEF Review
      <3>2. job'[h].at # "increment" /\ \A g \in Handlers \ {h} : job'[g] = job[g]
        BY <2>6, <3>0, NoReviewStep
      <3>3. status' = status /\ used' = used /\ fails' = fails /\ contested \subseteq contested'
        BY <2>6 DEF OpenTypes, ListTypes, SeedOne, InitForUser, RequestLeave, Review, tables
      <3> QED
        BY <2>1, <3>1, <3>2, <3>3, ChargesSame
    <2>7. CASE AdminStep \/ NewYear \/ UNCHANGED vars
      <3>1. UNCHANGED <<status, job, used, fails, contested>>
        BY <2>7 DEF AdminStep, CreateLeaveType, UpdateLeaveType, AdjustBalance, NewYear,
                    vars, tables
      <3> QED
        BY <2>1, <3>1, ChargesSame
    <2>8. ASSUME NEW h \in Handlers, Deny(h) PROVE ChargesInv'
      BY <2>1, <2>8, ChargesDeny
    <2> QED
      BY <2>2, <2>3, <2>4, <2>5, <2>6, <2>7, <2>8 DEF Next, HandlerStep
  <1>3. ChargesInv => ChargesMatch
    BY DEF ChargesInv
  <1> QED
    BY <1>1, <1>2, <1>3, TypeCorrect, LeaveInductive, PTL DEF Spec
=============================================================================
