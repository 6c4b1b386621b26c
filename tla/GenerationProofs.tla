-------------------------- MODULE GenerationProofs --------------------------
(***************************************************************************)
(* Proofs about Generation: the bound on calls and on the cache, and what  *)
(* a wait and a "busy" answer mean, for any number of requests.            *)
(***************************************************************************)
EXTENDS Generation, FiniteSetTheorems, TLAPS

-----------------------------------------------------------------------------
(* One handler's step *)

Honest(l) ==
    l.answer = "busy" =>
        l.refused /\ l.advice >= MinAdvice /\ l.advice >= l.soonest

JobsTyped == job \in [Handlers -> Active \cup {Idle}] /\ log \in [Handlers -> Logs]

(* A step of one handler that leaves it with a sound request and record keeps
   the invariant (the other handlers are left alone). *)
LEMMA HandlerStep ==
    ASSUME JobsTyped, GenInv, NEW h \in Handlers,
           NEW j \in Active \cup {Idle}, NEW l \in Logs,
           job' = [job EXCEPT ![h] = j], log' = [log EXCEPT ![h] = l],
           JobOK(j, l), Honest(l)
    PROVE  JobsTyped' /\ GenInv'
<1>1. JobsTyped' BY DEF JobsTyped
<1>2. ASSUME NEW g \in Handlers
      PROVE  JobOK(job'[g], log'[g]) /\ Honest(log'[g])
    <2>1. CASE g = h BY <2>1 DEF JobsTyped
    <2>2. CASE g # h
        <3>1. job'[g] = job[g] /\ log'[g] = log[g] BY <2>2 DEF JobsTyped
        <3>2. JobOK(job[g], log[g]) /\ Honest(log[g])
            BY DEF GenInv, BusyIsHonest, Honest
        <3> QED BY <3>1, <3>2
    <2> QED BY <2>1, <2>2
<1>3. BusyIsHonest' BY <1>2 DEF BusyIsHonest, Honest
<1> QED BY <1>1, <1>2, <1>3 DEF GenInv

LEMMA NoLogType == NoLog \in Logs
BY DEF NoLog, Logs, Answers

(* A request that is answered is over; only "busy" promises anything. *)
LEMMA AnswerStep ==
    ASSUME JobsTyped, GenInv, NEW h \in Handlers, NEW l \in Logs,
           NEW what \in Answers, NEW secs \in Nat,
           what = "busy" => l.refused /\ secs >= MinAdvice /\ secs >= l.soonest,
           Answer(h, l, what, secs)
    PROVE  JobsTyped' /\ GenInv'
<1> DEFINE m == [l EXCEPT !.answer = what, !.advice = secs]
<1>1. m \in Logs BY DEF Logs
<1>2. Honest(m) BY DEF Honest, Logs
<1>3. JobOK(Idle, m) BY DEF JobOK, Idle
<1>4. job' = [job EXCEPT ![h] = Idle] /\ log' = [log EXCEPT ![h] = m] BY DEF Answer
<1> QED BY <1>1, <1>2, <1>3, <1>4, HandlerStep

LEMMA BeginStep ==
    ASSUME JobsTyped, GenInv, NEW h \in Handlers, NEW kind \in Kinds,
           NEW k \in Keys \cup {NoKey}, Begin(h, kind, k)
    PROVE  JobsTyped' /\ GenInv'
<1> DEFINE j == [at |-> "call", kind |-> kind, key |-> k, round |-> 1, next |-> 1,
                 limited |-> TRUE, minWait |-> 0, timer |-> 0, gone |-> FALSE]
           l == [NoLog EXCEPT !.calls = 1]
<1>1. j \in Active BY DEF Active
<1>2. l \in Logs BY NoLogType DEF Logs
<1>3. Honest(l) BY DEF Honest, NoLog
<1>4. JobOK(j, l)
    BY GenerationConstants DEF JobOK, NoLog, Chained, Idle
<1>5. job' = [job EXCEPT ![h] = j] /\ log' = [log EXCEPT ![h] = l] BY DEF Begin
<1> QED BY <1>1, <1>2, <1>3, <1>4, <1>5, HandlerStep

(* The next model of the chain, the wait after it, or the answer. *)
LEMMA ChainStep ==
    ASSUME JobsTyped, GenInv, NEW h \in Handlers, At(h, "call", Chained),
           NEW limited \in BOOLEAN, NEW wait \in Nat, NEW l \in Logs,
           l.calls = log[h].calls, l.answer = "none", limited => l.refused,
           IF wait = 0 THEN l.soonest = -1 ELSE l.soonest \in 0..wait,
           NextModel(h, limited, wait, l)
    PROVE  JobsTyped' /\ GenInv'
<1>1. job[h] \in Active /\ job[h].at = "call" /\ job[h].kind \in Chained
    BY DEF JobsTyped, At, Idle
<1>2. /\ job[h].round \in 1..2 /\ job[h].next \in 1..ChainLength
      /\ log[h].calls = (job[h].round - 1) * ChainLength + job[h].next
    BY <1>1 DEF GenInv, JobOK
<1>3. CASE job[h].next < ChainLength
    <2> DEFINE j == [job[h] EXCEPT !.next = @ + 1, !.limited = limited, !.minWait = wait]
               m == [l EXCEPT !.calls = @ + 1]
    <2>0. job[h].next + 1 \in Nat \ {0} BY <1>2, GenerationConstants
    <2>1. j \in Active
        <3> DEFINE n == job[h].next + 1
        <3>1. n \in Nat \ {0} BY <2>0
        <3>2. j = [job[h] EXCEPT !.next = n, !.limited = limited, !.minWait = wait]
            OBVIOUS
        <3> HIDE DEF n, j
        <3> QED BY <1>1, <3>1, <3>2 DEF Active
    <2>2. m \in Logs BY DEF Logs
    <2>3. Honest(m) BY DEF Honest, Logs
    <2>4. JobOK(j, m)
        <3>0. j.next = job[h].next + 1 /\ j.round = job[h].round BY <1>1 DEF Active
        <3>1. j.next \in 1..ChainLength /\ j.round = job[h].round
            <4> HIDE DEF j
            <4> QED BY <1>2, <1>3, <3>0, GenerationConstants
        <3>2. m.calls = (j.round - 1) * ChainLength + j.next
            <4> DEFINE base == (job[h].round - 1) * ChainLength
            <4>1. base \in Int BY <1>2, GenerationConstants
            <4>2. log[h].calls = base + job[h].next BY <1>2
            <4>3. m.calls = log[h].calls + 1 BY DEF Logs
            <4>4. j.next = job[h].next + 1 /\ job[h].next \in Int BY <1>1 DEF Active
            <4>5. m.calls = base + j.next
                <5> HIDE DEF base, m, j
                <5> QED BY <4>1, <4>2, <4>3, <4>4
            <4> QED BY <4>5, <3>1
        <3>3. /\ j.at = "call" /\ j.kind = job[h].kind /\ j.limited = limited
              /\ j.minWait = wait
            BY <1>1 DEF Active
        <3>4. m.answer = "none" /\ m.refused = l.refused /\ m.soonest = l.soonest
            BY DEF Logs
        <3>5. "chat" \notin Chained BY DEF Chained
        <3> HIDE DEF j, m
        <3> QED BY <1>1, <1>2, <3>1, <3>2, <3>3, <3>4, <3>5 DEF JobOK
    <2>5. job' = [job EXCEPT ![h] = j] /\ log' = [log EXCEPT ![h] = m]
        BY <1>3 DEF NextModel
    <2> HIDE DEF j, m
    <2> QED BY <2>1, <2>2, <2>3, <2>4, <2>5, HandlerStep
<1>4. CASE ~(job[h].next < ChainLength)
    <2>1. ChainEnds(h, limited, wait, l) BY <1>4 DEF NextModel
    <2>2. CASE job[h].round = 1 /\ limited /\ wait \in 1..MaxServerWait
        <3> DEFINE j == [job[h] EXCEPT !.at = "wait", !.timer = wait, !.minWait = wait]
        <3>1. j \in Active BY <1>1 DEF Active
        <3>2. Honest(l) BY DEF Honest
        <3>3. /\ j.at = "wait" /\ j.kind = job[h].kind /\ j.round = 1
              /\ j.next = job[h].next /\ j.timer = wait /\ j.minWait = wait
              /\ j.limited = job[h].limited
            BY <1>1, <2>2 DEF Active
        <3>4. wait # 0 BY <2>2
        <3>5. l.refused BY <2>2
        <3>6. "chat" \notin Chained BY DEF Chained
        <3>7. j.next = ChainLength BY <1>2, <1>4, <3>3, GenerationConstants
        <3>8. JobOK(j, l)
            <4> HIDE DEF j
            <4> QED BY <1>1, <1>2, <2>2, <3>3, <3>4, <3>5, <3>6, <3>7 DEF JobOK
        <3>9. job' = [job EXCEPT ![h] = j] /\ log' = [log EXCEPT ![h] = l]
            BY <2>1, <2>2 DEF ChainEnds
        <3> HIDE DEF j
        <3> QED BY <3>1, <3>2, <3>8, <3>9, HandlerStep
    <2>3. CASE ~(job[h].round = 1 /\ limited /\ wait \in 1..MaxServerWait)
        <3> DEFINE what == IF limited THEN "busy" ELSE "failed"
                   secs == IF limited THEN Greater(wait, MinAdvice) ELSE 0
        <3>1. Answer(h, l, what, secs) BY <2>1, <2>3 DEF ChainEnds
        <3>2. what \in Answers /\ secs \in Nat
            BY GenerationConstants DEF Answers, Greater
        <3>3. what = "busy" => l.refused /\ secs >= MinAdvice /\ secs >= l.soonest
            BY GenerationConstants DEF Greater
        <3> HIDE DEF what, secs
        <3> QED BY <3>1, <3>2, <3>3, AnswerStep
    <2> QED BY <2>2, <2>3
<1> QED BY <1>3, <1>4

(* Replies within a chain *)
LEMMA RefusedStep ==
    ASSUME JobsTyped, GenInv, NEW h \in Handlers, NEW hint \in Hints, Refused(h, hint)
    PROVE  JobsTyped' /\ GenInv'
<1> DEFINE a == log[h].soonest
           m == job[h].minWait
           w == IF hint > 0 /\ (m = 0 \/ hint < m) THEN hint ELSE m
           l == [log[h] EXCEPT !.soonest = Sooner(@, hint)]
<1>1. At(h, "call", Chained) BY DEF Refused
<1>2. job[h] \in Active /\ log[h] \in Logs BY <1>1 DEF JobsTyped, At, Idle
<1>3. JobOK(job[h], log[h]) BY DEF GenInv
<1>4. hint \in Nat /\ m \in Nat /\ a \in Nat \cup {-1} /\ job[h].limited \in BOOLEAN
    BY <1>2, GenerationConstants DEF Active, Logs
<1>5. IF m = 0 THEN a = -1 ELSE a \in 0..m BY <1>1, <1>3 DEF JobOK, At
<1>6. job[h].limited => log[h].refused BY <1>1, <1>3 DEF JobOK, At
<1>7. log[h].answer = "none" BY <1>1, <1>3 DEF JobOK, At, Idle
<1>8. /\ w \in Nat /\ Sooner(a, hint) \in Nat \cup {-1}
      /\ IF w = 0 THEN Sooner(a, hint) = -1 ELSE Sooner(a, hint) \in 0..w
    BY <1>4, <1>5 DEF Sooner
<1>9. /\ l \in Logs /\ l.calls = log[h].calls /\ l.answer = "none"
      /\ l.refused = log[h].refused /\ l.soonest = Sooner(a, hint)
    BY <1>2, <1>7, <1>8 DEF Logs
<1>10. NextModel(h, job[h].limited, w, l) BY DEF Refused
<1> HIDE DEF w, l, a, m
<1> QED BY <1>1, <1>4, <1>6, <1>8, <1>9, <1>10, ChainStep

LEMMA UnusableStep ==
    ASSUME JobsTyped, GenInv, NEW h \in Handlers, Unusable(h)
    PROVE  JobsTyped' /\ GenInv'
<1> DEFINE l == [log[h] EXCEPT !.refused = FALSE]
<1>1. At(h, "call", Chained) BY DEF Unusable
<1>2. job[h] \in Active /\ log[h] \in Logs BY <1>1 DEF JobsTyped, At, Idle
<1>3. JobOK(job[h], log[h]) BY DEF GenInv
<1>4. job[h].minWait \in Nat BY <1>2 DEF Active
<1>5. IF job[h].minWait = 0 THEN log[h].soonest = -1
      ELSE log[h].soonest \in 0..job[h].minWait
    BY <1>1, <1>3 DEF JobOK, At
<1>6. log[h].answer = "none" BY <1>1, <1>3 DEF JobOK, At, Idle
<1>7. /\ l \in Logs /\ l.calls = log[h].calls /\ l.answer = "none"
      /\ l.soonest = log[h].soonest
    BY <1>2, <1>6 DEF Logs
<1>8. NextModel(h, FALSE, job[h].minWait, l) BY DEF Unusable
<1> HIDE DEF l
<1> QED BY <1>1, <1>4, <1>5, <1>7, <1>8, ChainStep

-----------------------------------------------------------------------------
(* Waits, and clients that go away *)

(* A request whose place in the chain changes is still a request. *)
LEMMA Restarted ==
    ASSUME NEW i \in Active, NEW at \in {"call", "wait", "repair"},
           NEW round \in Nat \ {0}, NEW next \in Nat \ {0},
           NEW limited \in BOOLEAN, NEW wait \in Nat
    PROVE  [i EXCEPT !.at = at, !.round = round, !.next = next, !.limited = limited,
                     !.minWait = wait] \in Active
BY DEF Active

LEMMA ResumeStep ==
    ASSUME JobsTyped, GenInv, NEW h \in Handlers, Resume(h)
    PROVE  JobsTyped' /\ GenInv'
<1> DEFINE j == [job[h] EXCEPT !.at = "call", !.round = @ + 1, !.next = 1,
                               !.limited = TRUE, !.minWait = 0]
           l == [log[h] EXCEPT !.calls = @ + 1, !.refused = TRUE, !.soonest = -1]
<1>1. job[h].at = "wait" BY DEF Resume
<1>2. job[h] \in Active /\ log[h] \in Logs BY <1>1 DEF JobsTyped, Idle
<1>3. JobOK(job[h], log[h]) /\ log[h].answer = "none"
    BY <1>1 DEF GenInv, JobOK, Idle
<1>4. /\ j \in Active /\ j.at = "call" /\ j.kind = job[h].kind
      /\ j.round = job[h].round + 1 /\ j.next = 1 /\ j.minWait = 0
    <2> DEFINE r == job[h].round + 1
    <2>1. r \in Nat \ {0} BY <1>2 DEF Active
    <2>2. j = [job[h] EXCEPT !.at = "call", !.round = r, !.next = 1,
                             !.limited = TRUE, !.minWait = 0]
        OBVIOUS
    <2> HIDE DEF r, j
    <2>3. j \in Active
        <3>1. /\ "call" \in {"call", "wait", "repair"} /\ 1 \in Nat \ {0}
              /\ TRUE \in BOOLEAN /\ 0 \in Nat
            OBVIOUS
        <3> QED BY ONLY <1>2, <2>1, <2>2, <3>1, Restarted, Zenon
    <2>4. /\ j.at = "call" /\ j.kind = job[h].kind /\ j.round = r
          /\ j.next = 1 /\ j.minWait = 0
        BY <1>2, <2>2 DEF Active
    <2> QED BY <2>3, <2>4 DEF r
<1>5. /\ l \in Logs /\ l.calls = log[h].calls + 1 /\ l.refused /\ l.soonest = -1
      /\ l.answer = "none"
    <2> DEFINE n == log[h].calls + 1
    <2>1. n \in Nat BY <1>2 DEF Logs
    <2>2. l = [log[h] EXCEPT !.calls = n, !.refused = TRUE, !.soonest = -1] OBVIOUS
    <2> HIDE DEF n, l
    <2>3. l \in Logs BY <1>2, <2>1, <2>2 DEF Logs
    <2>4. l.calls = n /\ l.refused /\ l.soonest = -1 /\ l.answer = log[h].answer
        BY <1>2, <2>2 DEF Logs
    <2> QED BY <1>3, <2>3, <2>4 DEF n
<1>6. job' = [job EXCEPT ![h] = j] /\ log' = [log EXCEPT ![h] = l] BY DEF Resume
<1>7. Honest(l) BY <1>5 DEF Honest
<1>8. JobOK(j, l)
    <2>1. job[h].kind \in Kinds BY <1>2 DEF Active
    <2>2. CASE job[h].kind \in Chained
        <3>1. /\ job[h].round = 1 /\ job[h].next \in 1..ChainLength
              /\ log[h].calls = job[h].next
            BY <1>1, <1>3, <2>2, GenerationConstants DEF JobOK
        <3>2. CASE job[h].next = ChainLength
            <4>1. "chat" \notin Chained BY DEF Chained
            <4> HIDE DEF j, l
            <4> QED BY <1>4, <1>5, <2>2, <3>1, <3>2, <4>1, GenerationConstants DEF JobOK
        <3>3. job[h].next = ChainLength BY <1>1, <1>3, <2>2 DEF JobOK
        <3> QED BY <3>2, <3>3
    <2>3. CASE job[h].kind = "chat"
        <3>1. "chat" \notin Chained BY DEF Chained
        <3>2. /\ log[h].calls = job[h].round /\ job[h].round <= MaxRetries
              /\ job[h].round \in Nat
            BY <1>1, <1>2, <1>3, <2>3 DEF JobOK, Active
        <3> HIDE DEF j, l
        <3> QED BY <1>4, <1>5, <2>3, <3>1, <3>2, GenerationConstants DEF JobOK
    <2> QED BY <2>1, <2>2, <2>3 DEF Kinds, Chained
<1> HIDE DEF j, l
<1> QED BY <1>4, <1>5, <1>6, <1>7, <1>8, HandlerStep

LEMMA CancelStep ==
    ASSUME JobsTyped, GenInv, NEW h \in Handlers, Cancel(h)
    PROVE  JobsTyped' /\ GenInv'
<1> DEFINE j == [job[h] EXCEPT !.gone = TRUE]
<1>1. job[h] \in Active /\ log[h] \in Logs BY DEF JobsTyped, Cancel
<1>2. j \in Active BY <1>1 DEF Active
<1>3. /\ j.at = job[h].at /\ j.kind = job[h].kind /\ j.round = job[h].round
      /\ j.next = job[h].next /\ j.limited = job[h].limited
      /\ j.minWait = job[h].minWait /\ j.timer = job[h].timer
    BY <1>1 DEF Active
<1>4. JobOK(job[h], log[h]) /\ job[h] # Idle BY DEF GenInv, Cancel
<1>5. JobOK(j, log[h])
    <2> HIDE DEF j
    <2> QED BY <1>3, <1>4 DEF JobOK
<1>6. Honest(log[h]) BY <1>4 DEF JobOK, Honest
<1>7. job' = [job EXCEPT ![h] = j] BY DEF Cancel
<1>8. log' = [log EXCEPT ![h] = log[h]] BY DEF Cancel, JobsTyped
<1> HIDE DEF j
<1> QED BY <1>1, <1>2, <1>5, <1>6, <1>7, <1>8, HandlerStep

LEMMA GiveUpStep ==
    ASSUME JobsTyped, GenInv, NEW h \in Handlers, GiveUp(h)
    PROVE  JobsTyped' /\ GenInv'
<1>1. log[h] \in Logs BY DEF JobsTyped
<1>2. Answer(h, log[h], "failed", 0) BY DEF GiveUp
<1> QED BY <1>1, <1>2, AnswerStep DEF Answers

-----------------------------------------------------------------------------
(* Replies that end a chain *)

LEMMA ProduceStep ==
    ASSUME JobsTyped, GenInv, NEW h \in Handlers, Produce(h)
    PROVE  JobsTyped' /\ GenInv'
<1>1. log[h] \in Logs BY DEF JobsTyped
<1>2. Answer(h, log[h], "graph", 0) BY DEF Produce
<1> QED BY <1>1, <1>2, AnswerStep DEF Answers

LEMMA RepairStep ==
    ASSUME JobsTyped, GenInv, NEW h \in Handlers, NEW round \in 1..MaxRepairRounds,
           job[h] # Idle, job[h].kind = "converse",
           log[h].calls + 1 <= 2 * ChainLength + round, Repair(h, round)
    PROVE  JobsTyped' /\ GenInv'
<1> DEFINE j == [job[h] EXCEPT !.at = "repair", !.next = round]
           n == log[h].calls + 1
           l == [log[h] EXCEPT !.calls = n]
<1>1. job[h] \in Active /\ log[h] \in Logs BY DEF JobsTyped
<1>2. round \in Nat \ {0} BY GenerationConstants
<1>3. j \in Active BY <1>1, <1>2 DEF Active
<1>4. n \in Nat BY <1>1 DEF Logs
<1>5. log[h].answer = "none" BY DEF GenInv, JobOK
<1>6. /\ l \in Logs /\ l.calls = n /\ l.answer = "none"
    <2> HIDE DEF n
    <2> QED BY <1>1, <1>4, <1>5 DEF Logs
<1>7. j.at = "repair" /\ j.kind = "converse" /\ j.next = round
    BY <1>1 DEF Active
<1>8. JobOK(j, l)
    <2> HIDE DEF j, l
    <2> QED BY <1>6, <1>7 DEF JobOK
<1>9. Honest(l) BY <1>6 DEF Honest
<1>10. job' = [job EXCEPT ![h] = j] /\ log' = [log EXCEPT ![h] = l] BY DEF Repair
<1> HIDE DEF j, l
<1> QED BY <1>3, <1>6, <1>8, <1>9, <1>10, HandlerStep

LEMMA SayStep ==
    ASSUME JobsTyped, GenInv, NEW h \in Handlers,
           NEW what \in {"graph", "flawed", "question", "failed"}, Say(h, what)
    PROVE  JobsTyped' /\ GenInv'
<1>1. CASE what = "flawed"
    <2>1. job[h] # Idle /\ job[h].at = "call" /\ job[h].kind = "converse"
        BY DEF Say, At, Idle
    <2>2. /\ job[h].round \in 1..2 /\ job[h].next \in 1..ChainLength
          /\ log[h].calls = (job[h].round - 1) * ChainLength + job[h].next
        BY <2>1 DEF GenInv, JobOK, Chained
    <2>3. CASE job[h].round = 1
        <3>1. log[h].calls + 1 <= 2 * ChainLength + 1
            BY <2>2, <2>3, GenerationConstants
        <3> QED BY <1>1, <2>1, <3>1, GenerationConstants, RepairStep DEF Say
    <2>4. CASE job[h].round = 2
        <3>1. log[h].calls + 1 <= 2 * ChainLength + 1
            BY <2>2, <2>4, GenerationConstants
        <3> QED BY <1>1, <2>1, <3>1, GenerationConstants, RepairStep DEF Say
    <2> QED BY <2>2, <2>3, <2>4
<1>2. CASE what # "flawed"
    <2>1. log[h] \in Logs BY DEF JobsTyped
    <2>2. Answer(h, log[h], what, 0) BY <1>2 DEF Say
    <2> QED BY <2>1, <2>2, AnswerStep DEF Answers
<1> QED BY <1>1, <1>2

LEMMA RepairedStep ==
    ASSUME JobsTyped, GenInv, NEW h \in Handlers,
           NEW what \in {"graph", "flawed", "question", "failed"}, Repaired(h, what)
    PROVE  JobsTyped' /\ GenInv'
<1>1. job[h].at = "repair" /\ job[h].kind = "converse" BY DEF Repaired, At
<1>2. job[h] \in Active /\ log[h] \in Logs BY <1>1 DEF JobsTyped, Idle
<1>3. job[h].next \in 1..MaxRepairRounds /\ log[h].calls <= 2 * ChainLength + job[h].next
    BY <1>1 DEF GenInv, JobOK
<1>4. CASE what = "flawed" /\ job[h].next < MaxRepairRounds
    <2> DEFINE round == job[h].next + 1
    <2>1. round \in 1..MaxRepairRounds BY <1>3, <1>4, GenerationConstants
    <2>2. log[h].calls \in Nat BY <1>2 DEF Logs
    <2>3. log[h].calls + 1 <= 2 * ChainLength + round
        BY <1>3, <2>2, GenerationConstants
    <2>4. Repair(h, round) BY <1>4 DEF Repaired
    <2>5. job[h] # Idle BY <1>1 DEF Idle
    <2> HIDE DEF round
    <2> QED BY <1>1, <2>1, <2>3, <2>4, <2>5, RepairStep
<1>5. CASE ~(what = "flawed" /\ job[h].next < MaxRepairRounds)
    <2>1. Answer(h, log[h], IF what = "graph" THEN "graph" ELSE "flawed", 0)
        BY <1>5 DEF Repaired
    <2> QED BY <1>2, <2>1, AnswerStep DEF Answers
<1> QED BY <1>4, <1>5

LEMMA ChatReplyStep ==
    ASSUME JobsTyped, GenInv, NEW h \in Handlers,
           NEW what \in {"text", "failed"}, ChatReply(h, what)
    PROVE  JobsTyped' /\ GenInv'
<1>1. log[h] \in Logs BY DEF JobsTyped
<1>2. Answer(h, log[h], what, 0) BY DEF ChatReply
<1> QED BY <1>1, <1>2, AnswerStep DEF Answers

LEMMA ChatRefusedStep ==
    ASSUME JobsTyped, GenInv, NEW h \in Handlers, ChatRefused(h)
    PROVE  JobsTyped' /\ GenInv'
<1>1. job[h].at = "call" /\ job[h].kind = "chat" BY DEF ChatRefused, At
<1>2. job[h] \in Active /\ log[h] \in Logs BY <1>1 DEF JobsTyped, Idle
<1>3. CASE job[h].round <= MaxRetries
    <2> DEFINE t == Backoff[job[h].round]
               j == [job[h] EXCEPT !.at = "wait", !.timer = t]
    <2>1. job[h].round \in 1..MaxRetries
        BY <1>2, <1>3, GenerationConstants DEF Active
    <2>2. t \in Nat BY <2>1, GenerationConstants
    <2>3. job' = [job EXCEPT ![h] = j] BY <1>3 DEF ChatRefused
    <2>4. log' = [log EXCEPT ![h] = log[h]] BY <1>3 DEF ChatRefused, JobsTyped
    <2> HIDE DEF t
    <2>5. /\ j \in Active /\ j.at = "wait" /\ j.kind = "chat"
          /\ j.round = job[h].round
        BY <1>1, <1>2, <2>2 DEF Active
    <2>6. log[h].answer = "none" /\ log[h].calls = job[h].round
        BY <1>1 DEF GenInv, JobOK, Idle
    <2>7. "chat" \notin Chained BY DEF Chained
    <2> HIDE DEF j
    <2>8. JobOK(j, log[h]) BY <1>3, <2>5, <2>6, <2>7 DEF JobOK
    <2>9. Honest(log[h]) BY <2>6 DEF Honest
    <2> QED BY <1>2, <2>3, <2>4, <2>5, <2>8, <2>9, HandlerStep
<1>4. CASE ~(job[h].round <= MaxRetries)
    <2>1. Answer(h, log[h], "failed", 0) BY <1>4 DEF ChatRefused
    <2> QED BY <1>2, <2>1, AnswerStep DEF Answers
<1> QED BY <1>3, <1>4

-----------------------------------------------------------------------------
(* Time, and arrivals *)

(* A unit of time never takes a wait below the hint it was set from. *)
LEMMA TickStep ==
    ASSUME JobsTyped, GenInv, Tick
    PROVE  JobsTyped' /\ GenInv'
<1>1. ASSUME NEW h \in Handlers
      PROVE  /\ job'[h] \in Active \cup {Idle} /\ log'[h] \in Logs
             /\ JobOK(job'[h], log'[h]) /\ Honest(log'[h])
    <2> DEFINE j == job[h]
               l == log[h]
               a == Less(log[h].soonest, 0)
               t == Less(job[h].timer, 0)
               k == [l EXCEPT !.soonest = a]
    <2>1. j \in Active \cup {Idle} /\ l \in Logs BY DEF JobsTyped
    <2>2. JobOK(j, l) BY DEF GenInv
    <2>3. Honest(l) BY DEF GenInv, BusyIsHonest, Honest
    <2>4. log'[h] = k BY DEF Tick
    <2>5. l.soonest \in Nat \cup {-1} BY <2>1 DEF Logs
    <2>6. /\ a \in Nat \cup {-1} /\ a <= l.soonest
          /\ l.soonest = -1 => a = -1
          /\ \A n \in Nat : l.soonest \in 0..n => a \in 0..n
          /\ \A n \in Nat : l.soonest \in 0..n => a \in 0..Less(n, 0)
        BY <2>5 DEF Less
    <2> HIDE DEF a
    <2>7. /\ k \in Logs /\ k.calls = l.calls /\ k.refused = l.refused
          /\ k.soonest = a /\ k.answer = l.answer /\ k.advice = l.advice
        BY <2>1, <2>6 DEF Logs
    <2>8. Honest(k)
        <3>1. l.advice \in Nat /\ MinAdvice \in Nat
            BY <2>1, GenerationConstants DEF Logs
        <3> HIDE DEF k
        <3> QED BY <2>3, <2>5, <2>6, <2>7, <3>1 DEF Honest
    <2>9. CASE j.at # "wait"
        <3>1. job'[h] = j BY <2>9 DEF Tick
        <3>2. CASE j = Idle
            <4> HIDE DEF k
            <4> QED BY <2>1, <2>4, <2>7, <2>8, <3>1, <3>2 DEF JobOK, Idle
        <3>3. CASE j # Idle
            <4>1. j.minWait \in Nat BY <2>1, <3>3 DEF Active
            <4> HIDE DEF k, j, l
            <4>2. JobOK(j, k)
                BY <2>2, <2>6, <2>7, <2>9, <3>3, <4>1 DEF JobOK
            <4> QED BY <2>1, <2>4, <2>7, <2>8, <3>1, <4>2
        <3> QED BY <3>2, <3>3
    <2>10. CASE j.at = "wait"
        <3> DEFINE i == [j EXCEPT !.timer = t]
        <3>1. j \in Active BY <2>1, <2>10 DEF Idle
        <3>2. j.timer \in Nat /\ j.minWait \in Nat BY <3>1 DEF Active
        <3>3. t \in Nat BY <3>2 DEF Less
        <3>4. job'[h] = i BY <2>10 DEF Tick
        <3>5. t = Less(j.timer, 0) OBVIOUS
        <3> HIDE DEF t
        <3>6. /\ i \in Active /\ i.at = j.at /\ i.kind = j.kind
              /\ i.round = j.round /\ i.next = j.next /\ i.limited = j.limited
              /\ i.minWait = j.minWait /\ i.timer = t
            BY <3>1, <3>3 DEF Active
        <3>7. i # Idle BY <2>10, <3>6 DEF Idle
        <3>8. j # Idle BY <2>10 DEF Idle
        <3> HIDE DEF i, k, j, l
        <3>9. JobOK(i, k)
            BY <2>2, <2>6, <2>7, <2>10, <3>2, <3>5, <3>6, <3>7, <3>8 DEF JobOK
        <3> QED BY <2>4, <2>7, <2>8, <3>4, <3>6, <3>9
    <2> QED BY <2>9, <2>10
<1>2. JobsTyped'
    <2>1. job' = [h \in Handlers |-> job'[h]] /\ log' = [h \in Handlers |-> log'[h]]
        BY DEF Tick
    <2> QED BY <1>1, <2>1 DEF JobsTyped
<1>3. BusyIsHonest' BY <1>1 DEF BusyIsHonest, Honest
<1> QED BY <1>1, <1>2, <1>3 DEF GenInv

LEMMA ArriveStep ==
    ASSUME JobsTyped, GenInv, NEW h \in Handlers, Arrive(h)
    PROVE  JobsTyped' /\ GenInv'
<1>1. ASSUME NEW k \in Keys, Generate(h, k)
      PROVE  JobsTyped' /\ GenInv'
    <2>1. CASE Begin(h, "generate", k) BY <2>1, BeginStep DEF Kinds
    <2>2. CASE Answer(h, NoLog, "graph", 0)
        BY <2>2, NoLogType, AnswerStep DEF Answers
    <2> QED BY <1>1, <2>1, <2>2 DEF Generate
<1>2. CASE Converse(h) BY <1>2, BeginStep DEF Converse, Kinds
<1>3. CASE Chat(h) BY <1>3, BeginStep DEF Chat, Kinds
<1> QED BY <1>1, <1>2, <1>3 DEF Arrive

LEMMA ProgressStep ==
    ASSUME JobsTyped, GenInv, NEW h \in Handlers, Progress(h)
    PROVE  JobsTyped' /\ GenInv'
BY RefusedStep, UnusableStep, ProduceStep, ResumeStep, GiveUpStep, SayStep,
   RepairedStep, ChatReplyStep, ChatRefusedStep DEF Progress

-----------------------------------------------------------------------------
(* Every request is sound in every state. *)

(* The chain's accumulators, its place and its waits stay consistent with the
   replies it got, whatever the models answer (runChain, GenerateDiagram). *)
THEOREM GenInductive == Spec => [](JobsTyped /\ GenInv)
<1>1. Init => JobsTyped /\ GenInv
    <2> SUFFICES ASSUME Init PROVE JobsTyped /\ GenInv
        OBVIOUS
    <2>1. JobsTyped BY NoLogType DEF Init, JobsTyped
    <2>2. \A h \in Handlers : JobOK(job[h], log[h]) /\ log[h].answer = "none"
        BY DEF Init, JobOK, Idle, NoLog
    <2> QED BY <2>1, <2>2 DEF GenInv, BusyIsHonest
<1>2. JobsTyped /\ GenInv /\ [Next]_vars => (JobsTyped /\ GenInv)'
    <2> SUFFICES ASSUME JobsTyped, GenInv, [Next]_vars
                 PROVE  JobsTyped' /\ GenInv'
        OBVIOUS
    <2>1. CASE Tick BY <2>1, TickStep
    <2>2. ASSUME NEW h \in Handlers, Arrive(h) \/ Progress(h) \/ Cancel(h)
          PROVE  JobsTyped' /\ GenInv'
        BY <2>2, ArriveStep, ProgressStep, CancelStep
    <2>3. CASE UNCHANGED vars
        BY <2>3 DEF vars, JobsTyped, GenInv, BusyIsHonest
    <2> QED BY <2>1, <2>2, <2>3 DEF Next
<1> QED BY <1>1, <1>2, PTL DEF Spec

(* BusyIsHonest: who is told that the AI is busy met rate limits only, and is not
   sent back too early (errs.RateLimited in GenerateDiagram). *)
THEOREM BusyIsHonestAlways == Spec => []BusyIsHonest
BY GenInductive, PTL DEF GenInv

(* CallsBounded: no mix of replies makes a request call the models more than
   twice round the chain, plus its repairs. *)
THEOREM CallsAreBounded == Spec => []CallsBounded
<1>1. JobsTyped /\ GenInv => CallsBounded
    <2> SUFFICES ASSUME JobsTyped, GenInv, NEW h \in Handlers, job[h] # Idle
                 PROVE  log[h].calls <= CallLimit(job[h].kind)
        BY DEF CallsBounded
    <2> DEFINE j == job[h]
               calls == log[h].calls
    <2>1. j \in Active BY DEF JobsTyped
    <2>2. JobOK(j, log[h]) BY DEF GenInv
    <2>3. CASE j.at = "repair"
        <3>1. /\ j.kind = "converse" /\ j.next \in 1..MaxRepairRounds
              /\ calls <= 2 * ChainLength + j.next
            BY <2>2, <2>3 DEF JobOK
        <3>2. calls \in Nat BY DEF JobsTyped, Logs
        <3> HIDE DEF calls
        <3>3. calls <= 2 * ChainLength + MaxRepairRounds
            BY <3>1, <3>2, GenerationConstants
        <3> QED BY <3>1, <3>3 DEF CallLimit, calls
    <2>4. CASE j.at # "repair" /\ j.kind \in Chained
        <3>1. j.at \in {"call", "wait"} BY <2>1, <2>4 DEF Active
        <3>2. /\ j.round \in 1..2 /\ j.next \in 1..ChainLength
              /\ calls = (j.round - 1) * ChainLength + j.next
            BY <2>2, <2>4, <3>1 DEF JobOK
        <3>3. calls <= 2 * ChainLength
            <4>1. CASE j.round = 1 BY <3>2, <4>1, GenerationConstants
            <4>2. CASE j.round = 2 BY <3>2, <4>2, GenerationConstants
            <4> QED BY <3>2, <4>1, <4>2
        <3>4. calls \in Nat BY DEF JobsTyped, Logs
        <3> HIDE DEF calls
        <3>5. calls <= 2 * ChainLength + MaxRepairRounds
            BY <3>3, <3>4, GenerationConstants
        <3> QED BY <2>4, <3>3, <3>5 DEF CallLimit, Chained, calls
    <2>5. CASE j.at # "repair" /\ j.kind = "chat"
        <3>1. j.at \in {"call", "wait"} BY <2>1, <2>5 DEF Active
        <3>2. /\ calls = j.round
              /\ j.round <= IF j.at = "wait" THEN MaxRetries ELSE MaxRetries + 1
            BY <2>2, <2>5, <3>1 DEF JobOK
        <3>3. j.round \in Nat BY <2>1 DEF Active
        <3> HIDE DEF calls, j
        <3>4. calls <= MaxRetries + 1 BY <3>2, <3>3, GenerationConstants
        <3> QED BY <2>5, <3>4 DEF CallLimit, calls, j
    <2> QED BY <2>1, <2>3, <2>4, <2>5 DEF Active, Kinds, Chained
<1> QED BY <1>1, GenInductive, PTL

(* RetryNotEarly: the second chain begins only after rate limits alone, and no
   sooner than the shortest hint. *)
THEOREM RetriesOnTime == Spec => RetryNotEarly
<1> DEFINE A(h) == At(h, "wait", Chained) /\ job'[h].at = "call" =>
                       log[h].refused /\ log[h].soonest = 0
<1>1. JobsTyped /\ GenInv /\ [Next]_vars => \A h \in Handlers : A(h)
    <2> SUFFICES ASSUME JobsTyped, GenInv, [Next]_vars, NEW h \in Handlers,
                        job[h].at = "wait", job[h].kind \in Chained,
                        job'[h].at = "call"
                 PROVE  log[h].refused /\ log[h].soonest = 0
        BY DEF At
    <2>1. job[h] \in Active BY DEF JobsTyped, Idle
    <2>2. job[h].timer \in Nat BY <2>1 DEF Active
    <2>3. log[h].refused /\ log[h].soonest \in 0..job[h].timer
        BY DEF GenInv, JobOK
    <2>4. ~(UNCHANGED job[h])
        BY DEF JobsTyped
    <2>5. ~Tick
        <3> SUFFICES ASSUME Tick PROVE FALSE
            OBVIOUS
        <3> DEFINE t == Less(job[h].timer, 0)
        <3>1. job'[h] = [job[h] EXCEPT !.timer = t] BY DEF Tick
        <3> HIDE DEF t
        <3>2. job'[h].at = "wait" BY <2>1, <3>1 DEF Active
        <3> QED BY <3>2
    <2>6. PICK g \in Handlers : Arrive(g) \/ Progress(g) \/ Cancel(g)
        BY <2>4, <2>5 DEF Next, vars
    <2>7. g = h
        <3> SUFFICES ASSUME g # h PROVE job'[h] = job[h]
            BY <2>4
        <3> QED BY <2>6 DEF JobsTyped, Arrive, Progress, Cancel, Generate, Converse,
                Chat, Begin, Answer, Refused, Unusable, NextModel, ChainEnds, Resume,
                GiveUp, Produce, Say, Repaired, Repair, ChatReply, ChatRefused
    <2>8. ~Cancel(h)
        <3> SUFFICES ASSUME Cancel(h) PROVE FALSE
            OBVIOUS
        <3>1. job'[h] = [job[h] EXCEPT !.gone = TRUE] BY DEF Cancel, JobsTyped
        <3>2. job'[h].at = "wait" BY <2>1, <3>1 DEF Active
        <3> QED BY <3>2
    <2>9. ~Arrive(h)
        BY DEF Arrive, Generate, Converse, Chat, Begin, Idle
    <2>10. ~GiveUp(h)
        BY DEF GiveUp, Answer, JobsTyped, Idle
    <2>11. Resume(h)
        BY <2>6, <2>7, <2>8, <2>9, <2>10
        DEF Progress, At, Refused, Unusable, Produce, Say, Repaired, ChatReply,
            ChatRefused
    <2>12. job[h].timer = 0 BY <2>11 DEF Resume
    <2> QED BY <2>3, <2>12
<1>2. JobsTyped /\ GenInv /\ [Next]_vars =>
        [\A h \in Handlers : A(h)]_vars
    BY <1>1
<1> QED BY <1>2, GenInductive, PTL DEF Spec, RetryNotEarly

-----------------------------------------------------------------------------
(* The cache *)

CacheTyped == cached \subseteq Keys /\ left \in [Keys -> -1..CacheTTL]
CacheInv == CacheTyped /\ IsFiniteSet(cached) /\ CacheBounded

(* put makes room for the entry it adds. *)
LEMMA EvictionMakesRoom ==
    ASSUME IsFiniteSet(cached), CacheBounded, NEW evicted \in Evictable
    PROVE  /\ IsFiniteSet(cached \ evicted)
           /\ Cardinality(cached \ evicted) \in Nat
           /\ Cardinality(cached \ evicted) < CacheMax
<1>1. /\ IsFiniteSet(cached \ evicted) /\ Cardinality(cached \ evicted) \in Nat
      /\ Cardinality(cached) \in Nat
    BY FS_Subset, FS_CardinalityType
<1>2. CASE Cardinality(cached) < CacheMax
    <2>1. cached \ evicted = cached BY <1>2 DEF Evictable
    <2> QED BY <1>1, <1>2, <2>1
<1>3. CASE ~(Cardinality(cached) < CacheMax) /\ Cardinality(cached \ Stale) < CacheMax
    <2>1. evicted = Stale BY <1>3 DEF Evictable
    <2> QED BY <1>1, <1>3, <2>1
<1>4. CASE ~(Cardinality(cached) < CacheMax) /\ ~(Cardinality(cached \ Stale) < CacheMax)
    <2>1. PICK k \in FirstOf(cached \ Stale) : evicted = Stale \cup {k}
        BY <1>4 DEF Evictable
    <2> DEFINE fresh == cached \ Stale
    <2>2. k \in fresh /\ cached \ evicted = fresh \ {k} BY <2>1 DEF FirstOf
    <2>3. /\ IsFiniteSet(fresh) /\ Cardinality(fresh) \in Nat
          /\ Cardinality(fresh) <= Cardinality(cached)
        BY FS_Subset, FS_CardinalityType
    <2> HIDE DEF fresh
    <2>4. Cardinality(fresh \ {k}) = Cardinality(fresh) - 1
        BY <2>2, <2>3, FS_RemoveElement
    <2>5. Cardinality(fresh) <= CacheMax
        BY <1>1, <2>3, GenerationConstants DEF CacheBounded
    <2>6. Cardinality(fresh \ {k}) < CacheMax
        BY <2>3, <2>4, <2>5, GenerationConstants
    <2>7. Cardinality(cached \ evicted) < CacheMax BY <2>2, <2>6, Zenon
    <2> QED BY <1>1, <2>7
<1> QED BY <1>2, <1>3, <1>4

LEMMA PutStep ==
    ASSUME CacheInv, NEW k \in Keys, Put(k)
    PROVE  CacheInv'
<1>1. PICK evicted \in Evictable : cached' = (cached \ evicted) \cup {k} BY DEF Put
<1> DEFINE rest == cached \ evicted
<1>2. IsFiniteSet(rest) /\ Cardinality(rest) \in Nat /\ Cardinality(rest) < CacheMax
    BY EvictionMakesRoom DEF CacheInv
<1>3. cached' = rest \cup {k} BY <1>1
<1>4. cached' \subseteq Keys BY <1>3 DEF CacheInv, CacheTyped
<1> HIDE DEF rest
<1>5. IsFiniteSet(cached') /\ Cardinality(cached') <= Cardinality(rest) + 1
    <2>1. /\ IsFiniteSet(rest \cup {k})
          /\ Cardinality(rest \cup {k}) =
                IF k \in rest THEN Cardinality(rest) ELSE Cardinality(rest) + 1
        BY <1>2, FS_AddElement
    <2>2. Cardinality(rest \cup {k}) <= Cardinality(rest) + 1 BY <1>2, <2>1
    <2> QED BY <1>3, <2>1, <2>2, Zenon
<1>6. Cardinality(cached') <= CacheMax
    <2>1. Cardinality(cached') \in Nat BY <1>5, FS_CardinalityType
    <2> QED BY <1>2, <1>5, <2>1, GenerationConstants
<1>7. left' \in [Keys -> -1..CacheTTL]
    BY GenerationConstants DEF Put, CacheInv, CacheTyped
<1> QED BY <1>4, <1>5, <1>6, <1>7 DEF CacheInv, CacheTyped, CacheBounded

(* The steps that touch the cache: a put, a get, or time. *)
LEMMA CacheSteps ==
    ASSUME Next
    PROVE  \/ \E h \in Handlers : Produce(h)
           \/ \E k \in Keys : cached' = cached \ {k} /\ (k \in cached => Expired(k))
                              /\ UNCHANGED left
           \/ cached' = cached /\ left' = [k \in Keys |-> Less(left[k], -1)]
           \/ UNCHANGED cacheVars
<1>1. CASE Tick BY <1>1 DEF Tick
<1>2. ASSUME NEW h \in Handlers, Arrive(h)
      PROVE  \/ \E k \in Keys : cached' = cached \ {k} /\ (k \in cached => Expired(k))
                                /\ UNCHANGED left
             \/ UNCHANGED cacheVars
    BY <1>2 DEF Arrive, Generate, Converse, Chat
<1>3. ASSUME NEW h \in Handlers, Progress(h), ~Produce(h) PROVE UNCHANGED cacheVars
    BY <1>3 DEF Progress, Refused, Unusable, Resume, GiveUp, Say, Repaired, ChatReply,
                ChatRefused
<1>4. ASSUME NEW h \in Handlers, Cancel(h) PROVE UNCHANGED cacheVars BY <1>4 DEF Cancel
<1> QED BY <1>1, <1>2, <1>3, <1>4 DEF Next

(* A diagram is only produced for a prompt, which has a key. *)
GenerateHasKey ==
    \A h \in Handlers : job[h] # Idle /\ job[h].kind = "generate" => job[h].key \in Keys

LEMMA KeysKept ==
    ASSUME JobsTyped, GenerateHasKey, [Next]_vars
    PROVE  GenerateHasKey'
<1> SUFFICES ASSUME NEW h \in Handlers, job'[h] # Idle, job'[h].kind = "generate"
             PROVE  job'[h].key \in Keys
    BY DEF GenerateHasKey
<1>1. CASE /\ job[h] # Idle /\ job'[h].kind = job[h].kind
           /\ job'[h].key = job[h].key
    BY <1>1 DEF GenerateHasKey
<1>2. job[h] # Idle => job[h] \in Active BY DEF JobsTyped
<1>3. CASE job'[h] = job[h] BY <1>1, <1>3
<1>4. CASE Tick
    <2> DEFINE t == Less(job[h].timer, 0)
    <2>1. CASE job[h].at = "wait"
        <3>1. job'[h] = [job[h] EXCEPT !.timer = t] BY <1>4, <2>1 DEF Tick
        <3>2. job[h] \in Active /\ job[h] # Idle BY <1>2, <2>1 DEF Idle
        <3> HIDE DEF t
        <3>3. job'[h].kind = job[h].kind /\ job'[h].key = job[h].key
            BY <3>1, <3>2 DEF Active
        <3> QED BY <1>1, <3>2, <3>3
    <2>2. CASE job[h].at # "wait"
        <3>1. job'[h] = job[h] BY <1>4, <2>2 DEF Tick
        <3> QED BY <1>3, <3>1
    <2> QED BY <2>1, <2>2
<1>5. ASSUME NEW g \in Handlers, Arrive(g) \/ Progress(g) \/ Cancel(g)
      PROVE  job'[h].key \in Keys
    <2>1. CASE g # h
        <3>1. job'[h] = job[h]
            BY <1>5, <2>1 DEF JobsTyped, Arrive, Progress, Cancel, Generate, Converse,
               Chat, Begin, Answer, Refused, Unusable, NextModel, ChainEnds, Resume,
               GiveUp, Produce, Say, Repaired, Repair, ChatReply, ChatRefused
        <3> QED BY <1>3, <3>1
    <2>2. CASE g = h /\ job[h] = Idle
        <3>1. ~Cancel(h) /\ ~Progress(h)
            BY <2>2 DEF Cancel, Progress, At, Idle, Refused, Unusable, Produce, Resume,
               GiveUp, Say, Repaired, ChatReply, ChatRefused
        <3>2. Arrive(h) BY <1>5, <2>2, <3>1
        <3>3. ~Converse(h) /\ ~Chat(h)
            BY DEF Converse, Chat, Begin, JobsTyped
        <3>4. PICK k \in Keys : Generate(h, k) BY <3>2, <3>3 DEF Arrive
        <3>5. ~Answer(h, NoLog, "graph", 0) BY DEF Answer, JobsTyped
        <3>6. Begin(h, "generate", k) BY <3>4, <3>5 DEF Generate
        <3>7. job'[h].key = k BY <3>6 DEF Begin, JobsTyped
        <3> QED BY <3>7
    <2>3. CASE g = h /\ job[h] # Idle
        <3>1. job[h] \in Active BY <1>2, <2>3
        <3>2. ~Arrive(h)
            BY <2>3 DEF Arrive, Generate, Converse, Chat, Begin
        <3>3. \A l, what, secs : ~Answer(h, l, what, secs)
            BY DEF Answer, JobsTyped
        <3> DEFINE Kept == job'[h].kind = job[h].kind /\ job'[h].key = job[h].key
        <3>4. ASSUME NEW limited, NEW wait, NEW l, NextModel(h, limited, wait, l)
              PROVE  Kept
            BY <3>1, <3>3, <3>4 DEF NextModel, ChainEnds, JobsTyped, Active
        <3>5. ASSUME NEW round, Repair(h, round)
              PROVE  Kept
            BY <3>1, <3>5 DEF Repair, JobsTyped, Active
        <3>6. ASSUME Cancel(h) PROVE Kept BY <3>1, <3>6 DEF Cancel, JobsTyped, Active
        <3>7. ASSUME Resume(h) PROVE Kept
            <4> DEFINE r == job[h].round + 1
            <4>1. job'[h] = [job[h] EXCEPT !.at = "call", !.round = r, !.next = 1,
                                           !.limited = TRUE, !.minWait = 0]
                BY <3>7 DEF Resume, JobsTyped
            <4> HIDE DEF r
            <4> QED BY <3>1, <4>1 DEF Active
        <3>8. ASSUME ChatRefused(h) PROVE Kept
            <4> DEFINE t == Backoff[job[h].round]
            <4>1. job'[h] = [job[h] EXCEPT !.at = "wait", !.timer = t]
                BY <3>3, <3>8 DEF ChatRefused, JobsTyped
            <4> HIDE DEF t
            <4> QED BY <3>1, <4>1 DEF Active
        <3> HIDE DEF Kept
        <3>9. ASSUME NEW hint \in Hints, Refused(h, hint) PROVE Kept
            BY <3>4, <3>9 DEF Refused
        <3>10. ASSUME Unusable(h) PROVE Kept BY <3>4, <3>10 DEF Unusable
        <3>11. ASSUME NEW what, Say(h, what) \/ Repaired(h, what) PROVE Kept
            BY <3>3, <3>5, <3>11 DEF Say, Repaired
        <3>12. Kept
            BY <1>5, <2>3, <3>2, <3>3, <3>6, <3>7, <3>8, <3>9, <3>10, <3>11
            DEF Progress, GiveUp, Produce, ChatReply
        <3> QED BY <1>1, <2>3, <3>12 DEF Kept
    <2> QED BY <2>1, <2>2, <2>3
<1> QED BY <1>3, <1>4, <1>5 DEF Next, vars

LEMMA CacheInductive == Spec => [](JobsTyped /\ GenerateHasKey /\ CacheInv)
<1>1. Init => GenerateHasKey /\ CacheInv
    <2> SUFFICES ASSUME Init PROVE GenerateHasKey /\ CacheInv
        OBVIOUS
    <2>1. GenerateHasKey BY DEF Init, GenerateHasKey
    <2>2. IsFiniteSet(cached) /\ Cardinality(cached) <= CacheMax
        BY FS_EmptySet, GenerationConstants DEF Init
    <2>3. CacheTyped BY GenerationConstants DEF Init, CacheTyped
    <2> QED BY <2>1, <2>2, <2>3 DEF CacheInv, CacheBounded
<1>2. JobsTyped /\ GenerateHasKey /\ CacheInv /\ [Next]_vars =>
        (GenerateHasKey /\ CacheInv)'
    <2> SUFFICES ASSUME JobsTyped, GenerateHasKey, CacheInv, [Next]_vars
                 PROVE  CacheInv'
        BY KeysKept
    <2>1. ASSUME NEW h \in Handlers, Produce(h)
          PROVE  CacheInv'
        <3>1. job[h].key \in Keys BY <2>1 DEF Produce, At, GenerateHasKey, Idle
        <3> QED BY <2>1, <3>1, PutStep DEF Produce
    <2>2. ASSUME NEW k \in Keys, cached' = cached \ {k}, UNCHANGED left
          PROVE  CacheInv'
        <3>1. /\ IsFiniteSet(cached') /\ Cardinality(cached') \in Nat
              /\ Cardinality(cached) \in Nat /\ Cardinality(cached') <= Cardinality(cached)
            BY <2>2, FS_Subset, FS_CardinalityType DEF CacheInv
        <3>2. Cardinality(cached') <= CacheMax
            BY <3>1, GenerationConstants DEF CacheInv, CacheBounded
        <3>3. CacheTyped' BY <2>2 DEF CacheInv, CacheTyped
        <3> QED BY <3>1, <3>2, <3>3 DEF CacheInv, CacheBounded
    <2>3. CASE cached' = cached /\ left' = [k \in Keys |-> Less(left[k], -1)]
        <3>1. \A k \in Keys : Less(left[k], -1) \in -1..CacheTTL
            BY GenerationConstants DEF CacheInv, CacheTyped, Less
        <3> QED BY <2>3, <3>1 DEF CacheInv, CacheTyped, CacheBounded
    <2>4. CASE UNCHANGED cacheVars
        BY <2>4 DEF cacheVars, CacheInv, CacheTyped, CacheBounded
    <2>5. CASE UNCHANGED vars
        BY <2>4, <2>5 DEF vars, cacheVars
    <2> QED BY <2>1, <2>2, <2>3, <2>4, <2>5, CacheSteps
<1> QED BY <1>1, <1>2, GenInductive, PTL DEF Spec

(* TypeOK, for any number of requests. *)
THEOREM TypeCorrect == Spec => []TypeOK
<1>1. JobsTyped /\ CacheInv => TypeOK BY DEF JobsTyped, CacheInv, CacheTyped, TypeOK
<1> QED BY <1>1, CacheInductive, PTL

(* CacheBounded: however many requests put diagrams at the same time, the cache
   stays finite and within cacheMax (diagramCache.put). *)
THEOREM CacheIsBounded == Spec => [](IsFiniteSet(cached) /\ CacheBounded)
BY CacheInductive, PTL DEF CacheInv

(* EvictsOldest: a diagram that has not expired leaves the cache only when it is
   full of such diagrams, and then the one that expires first (diagramCache.put). *)
THEOREM OldestLeaves == Spec => EvictsOldest
<1> DEFINE Lost == \A k \in cached \ cached' : ~Expired(k) =>
                      /\ Cardinality(cached) >= CacheMax
                      /\ \A o \in cached : left[k] <= left[o]
<1>1. CacheInv /\ [Next]_vars => [Lost]_vars
    <2> SUFFICES ASSUME CacheInv, Next, NEW k \in cached \ cached', ~Expired(k)
                 PROVE  /\ Cardinality(cached) >= CacheMax
                        /\ \A o \in cached : left[k] <= left[o]
        OBVIOUS
    <2>1. PICK h \in Handlers : Produce(h)
        BY CacheSteps DEF cacheVars
    <2>2. PICK evicted \in Evictable : cached' = (cached \ evicted) \cup {job[h].key}
        BY <2>1 DEF Produce, Put
    <2>3. k \in evicted BY <2>2
    <2>4. k \notin Stale BY DEF Stale
    <2>5. /\ ~(Cardinality(cached) < CacheMax)
          /\ ~(Cardinality(cached \ Stale) < CacheMax)
          /\ k \in FirstOf(cached \ Stale)
        BY <2>3, <2>4 DEF Evictable
    <2>6. /\ Cardinality(cached) \in Nat /\ Cardinality(cached \ Stale) \in Nat
          /\ Cardinality(cached \ Stale) <= Cardinality(cached)
          /\ Cardinality(cached) = Cardinality(cached \ Stale) => cached = cached \ Stale
        BY FS_Subset, FS_CardinalityType DEF CacheInv
    <2>7. Cardinality(cached) = Cardinality(cached \ Stale)
        BY <2>5, <2>6, GenerationConstants DEF CacheInv, CacheBounded
    <2>8. cached = cached \ Stale BY <2>6, <2>7
    <2>9. \A o \in cached : left[k] <= left[o] BY <2>5, <2>8 DEF FirstOf
    <2>10. Cardinality(cached) >= CacheMax BY <2>5, <2>6, GenerationConstants
    <2> QED BY <2>9, <2>10
<1> QED BY <1>1, CacheInductive, PTL DEF Spec, EvictsOldest

=============================================================================
