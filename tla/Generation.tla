----------------------------- MODULE Generation -----------------------------
(***************************************************************************)
(* Diagram generation: diagram_service.go walks a chain of language models *)
(* over the client of pkg/groq, waits and retries once when all of them    *)
(* are rate limited, repairs what a conversation produced, and keeps       *)
(* recent diagrams in a bounded cache that expires.                        *)
(*                                                                         *)
(* A step is one reply of a model, one operation of the cache (under its   *)
(* mutex) or a unit of time.  Models answer anything; a wait and the life  *)
(* of a cache entry are counted down.                                      *)
(***************************************************************************)
EXTENDS Integers, FiniteSets

CONSTANTS Handlers,        \* requests in progress at once
          Keys,            \* cacheKey of a prompt and its search option
          NoKey,
          ChainLength,     \* the primary model and the fallbacks that differ from it
          Hints,           \* retry hints the service sends; 0 for none
          MaxServerWait, MinAdvice, CacheTTL, CacheMax, MaxRepairRounds,
          MaxRetries, Backoff

ASSUME GenerationConstants ==
    /\ NoKey \notin Keys
    /\ ChainLength \in Nat \ {0}
    /\ Hints \subseteq Nat
    /\ MaxServerWait \in Nat /\ MinAdvice \in Nat \ {0} /\ CacheTTL \in Nat
    /\ CacheMax \in Nat \ {0}
    /\ MaxRepairRounds \in Nat \ {0} /\ MaxRetries \in Nat
    /\ Backoff \in [1..MaxRetries -> Nat]

VARIABLES cached, \* keys of diagramCache.entries
          left,   \* time until an entry expires; -1 once it has
          job,    \* per handler: the call or wait it is in
          log     \* history, per handler: calls of models for its last request,
                  \* whether every reply of the chain so far was a rate limit, the
                  \* time until the first of them is over, and the answer

cacheVars == <<cached, left>>
vars == <<cached, left, job, log>>

Idle == [at |-> "idle"]
Kinds == {"generate", "converse", "chat"}
Active == [at: {"call", "wait", "repair"}, kind: Kinds, key: Keys \cup {NoKey},
           round: Nat \ {0}, next: Nat \ {0}, limited: BOOLEAN, minWait: Nat,
           timer: Nat, gone: BOOLEAN]
Answers == {"none", "graph", "flawed", "question", "text", "busy", "failed"}
Logs == [calls: Nat, refused: BOOLEAN, soonest: Nat \cup {-1}, answer: Answers,
         advice: Nat]

TypeOK ==
    /\ cached \subseteq Keys
    /\ left \in [Keys -> -1..CacheTTL]
    /\ job \in [Handlers -> Active \cup {Idle}]
    /\ log \in [Handlers -> Logs]

NoLog == [calls |-> 0, refused |-> TRUE, soonest |-> -1, answer |-> "none", advice |-> 0]

Init ==
    /\ cached = {}
    /\ left = [k \in Keys |-> -1]
    /\ job = [h \in Handlers |-> Idle]
    /\ log = [h \in Handlers |-> NoLog]

-----------------------------------------------------------------------------
(* The cache *)

Expired(k) == left[k] < 0

Stale == {k \in cached : Expired(k)}
FirstOf(S) == {k \in S : \A o \in S : left[k] <= left[o]}

(* Mutant: the first entry of the map, whatever its age. *)
EvictsAny ==
    IF Cardinality(cached) < CacheMax THEN {{}} ELSE {{k} : k \in cached}

(* What put evicts: nothing until the cache is full; then the expired entries,
   and if that is not enough the one that expires first. *)
Evictable ==
    IF Cardinality(cached) < CacheMax THEN {{}}
    ELSE IF Cardinality(cached \ Stale) < CacheMax THEN {Stale}
    ELSE {Stale \cup {k} : k \in FirstOf(cached \ Stale)}

Put(k) ==
    /\ \E evicted \in Evictable : cached' = (cached \ evicted) \cup {k}
    /\ left' = [left EXCEPT ![k] = CacheTTL]

-----------------------------------------------------------------------------
(* A request begins, or is answered. *)

Begin(h, kind, k) ==
    /\ job[h] = Idle
    /\ job' = [job EXCEPT ![h] =
          [at |-> "call", kind |-> kind, key |-> k, round |-> 1, next |-> 1,
           limited |-> TRUE, minWait |-> 0, timer |-> 0, gone |-> FALSE]]
    /\ log' = [log EXCEPT ![h] = [NoLog EXCEPT !.calls = 1]]

Answer(h, l, what, secs) ==
    /\ job' = [job EXCEPT ![h] = Idle]
    /\ log' = [log EXCEPT ![h] = [l EXCEPT !.answer = what, !.advice = secs]]

(* GenerateDiagram: cache.get, which deletes an expired entry. *)
Generate(h, k) ==
    IF k \in cached /\ ~Expired(k)
    THEN job[h] = Idle /\ Answer(h, NoLog, "graph", 0) /\ UNCHANGED cacheVars
    ELSE Begin(h, "generate", k) /\ cached' = cached \ {k} /\ UNCHANGED left

(* GenerateDiagramConversational. *)
Converse(h) == Begin(h, "converse", NoKey) /\ UNCHANGED cacheVars

(* A chat or a summary over the Groq client, whose CompleteResult retries.  The
   Ollama client of a development machine makes one call and retries nothing:
   what it does is Chat followed by ChatReply. *)
Chat(h) == Begin(h, "chat", NoKey) /\ UNCHANGED cacheVars

-----------------------------------------------------------------------------
(* runChain and runChainMessages *)

At(h, place, kinds) == job[h].at = place /\ job[h].kind \in kinds
Chained == {"generate", "converse"}

Greater(a, b) == IF a > b THEN a ELSE b

(* Mutant: every chain that is all limited is followed by another one. *)
ChainEndsMutant(h, limited, wait, l) ==
    IF limited /\ wait \in 1..MaxServerWait
    THEN /\ job' = [job EXCEPT ![h].at = "wait", ![h].timer = wait, ![h].minWait = wait]
         /\ log' = [log EXCEPT ![h] = l]
    ELSE Answer(h, l, IF limited THEN "busy" ELSE "failed",
                IF limited THEN Greater(wait, MinAdvice) ELSE 0)

(* The chain is exhausted: wait for the shortest hint and retry, once, if every
   model was rate limited and the hint is short; or give up. *)
ChainEnds(h, limited, wait, l) ==
    IF job[h].round = 1 /\ limited /\ wait \in 1..MaxServerWait
    THEN /\ job' = [job EXCEPT ![h].at = "wait", ![h].timer = wait, ![h].minWait = wait]
         /\ log' = [log EXCEPT ![h] = l]
    ELSE Answer(h, l, IF limited THEN "busy" ELSE "failed",
                IF limited THEN Greater(wait, MinAdvice) ELSE 0)

NextModel(h, limited, wait, l) ==
    IF job[h].next < ChainLength
    THEN /\ job' = [job EXCEPT ![h].next = @ + 1, ![h].limited = limited,
                               ![h].minWait = wait]
         /\ log' = [log EXCEPT ![h] = [l EXCEPT !.calls = @ + 1]]
    ELSE ChainEnds(h, limited, wait, l)

Sooner(a, b) == IF b > 0 /\ (a < 0 \/ b < a) THEN b ELSE a

(* Mutant: the shortest wait starts from 0 and stays there. *)
RefusedMutant(h, hint) ==
    /\ At(h, "call", Chained) /\ ~job[h].gone
    /\ NextModel(h, job[h].limited,
                 IF hint < job[h].minWait THEN hint ELSE job[h].minWait,
                 [log[h] EXCEPT !.soonest = Sooner(@, hint)])
    /\ UNCHANGED cacheVars

(* HTTP 429, with or without a hint, or 413. *)
Refused(h, hint) ==
    /\ At(h, "call", Chained) /\ ~job[h].gone
    /\ LET shortest == job[h].minWait IN
       NextModel(h, job[h].limited,
                 IF hint > 0 /\ (shortest = 0 \/ hint < shortest) THEN hint ELSE shortest,
                 [log[h] EXCEPT !.soonest = Sooner(@, hint)])
    /\ UNCHANGED cacheVars

(* Mutant: any failure counts as a rate limit. *)
UnusableMutant(h) ==
    /\ At(h, "call", Chained) /\ ~job[h].gone
    /\ NextModel(h, job[h].limited, job[h].minWait, [log[h] EXCEPT !.refused = FALSE])
    /\ UNCHANGED cacheVars

(* Any other failure; for GenerateDiagram also a reply without a graph. *)
Unusable(h) ==
    /\ At(h, "call", Chained) /\ ~job[h].gone
    /\ NextModel(h, FALSE, job[h].minWait, [log[h] EXCEPT !.refused = FALSE])
    /\ UNCHANGED cacheVars

(* Mutant: after a wait the request starts over, as often as it takes. *)
ResumeForever(h) ==
    /\ job[h].at = "wait" /\ job[h].timer = 0 /\ ~job[h].gone
    /\ job' = [job EXCEPT ![h].at = "call", ![h].next = 1,
                          ![h].limited = TRUE, ![h].minWait = 0]
    /\ log' = [log EXCEPT ![h] = [NoLog EXCEPT !.calls = 1]]
    /\ UNCHANGED cacheVars

(* The wait is over: the whole chain again, or one more call of CompleteResult. *)
Resume(h) ==
    /\ job[h].at = "wait" /\ job[h].timer = 0 /\ ~job[h].gone
    /\ job' = [job EXCEPT ![h].at = "call", ![h].round = @ + 1, ![h].next = 1,
                          ![h].limited = TRUE, ![h].minWait = 0]
    /\ log' = [log EXCEPT ![h].calls = @ + 1, ![h].refused = TRUE, ![h].soonest = -1]
    /\ UNCHANGED cacheVars

(* The client goes away; the call or the wait it is in then ends. *)
Cancel(h) ==
    /\ job[h] # Idle
    /\ job' = [job EXCEPT ![h].gone = TRUE]
    /\ UNCHANGED <<cacheVars, log>>

GiveUp(h) ==
    /\ job[h].at \in {"call", "wait"} /\ job[h].gone
    /\ Answer(h, log[h], "failed", 0)
    /\ UNCHANGED cacheVars

-----------------------------------------------------------------------------
(* Replies that end a chain *)

Produce(h) ==
    /\ At(h, "call", {"generate"})
    /\ Put(job[h].key)
    /\ Answer(h, log[h], "graph", 0)

Repair(h, round) ==
    /\ job' = [job EXCEPT ![h].at = "repair", ![h].next = round]
    /\ log' = [log EXCEPT ![h].calls = @ + 1]

(* parseConversationResponse and validateGraph; "failed" is a diagram without
   nodes. *)
Say(h, what) ==
    /\ At(h, "call", {"converse"})
    /\ IF what = "flawed" THEN Repair(h, 1) ELSE Answer(h, log[h], what, 0)
    /\ UNCHANGED cacheVars

(* repairDiagram: a reply that is no diagram, an error or the last round leave
   the flawed diagram. *)
Repaired(h, what) ==
    /\ At(h, "repair", {"converse"})
    /\ IF what = "flawed" /\ job[h].next < MaxRepairRounds
       THEN Repair(h, job[h].next + 1)
       ELSE Answer(h, log[h], IF what = "graph" THEN "graph" ELSE "flawed", 0)
    /\ UNCHANGED cacheVars

(* CompleteResult: a reply or an error, or a 429 that is retried after a
   backoff, or the last one. *)
ChatReply(h, what) ==
    /\ At(h, "call", {"chat"})
    /\ Answer(h, log[h], what, 0)
    /\ UNCHANGED cacheVars

ChatRefused(h) ==
    /\ At(h, "call", {"chat"}) /\ ~job[h].gone
    /\ IF job[h].round <= MaxRetries
       THEN /\ job' = [job EXCEPT ![h].at = "wait", ![h].timer = Backoff[job[h].round]]
            /\ UNCHANGED log
       ELSE Answer(h, log[h], "failed", 0)
    /\ UNCHANGED cacheVars

-----------------------------------------------------------------------------
Less(n, floor) == IF n > floor THEN n - 1 ELSE n

Tick ==
    /\ left' = [k \in Keys |-> Less(left[k], -1)]
    /\ job' = [h \in Handlers |->
          IF job[h].at = "wait" THEN [job[h] EXCEPT !.timer = Less(@, 0)] ELSE job[h]]
    /\ log' = [h \in Handlers |-> [log[h] EXCEPT !.soonest = Less(@, 0)]]
    /\ UNCHANGED cached

Arrive(h) == (\E k \in Keys : Generate(h, k)) \/ Converse(h) \/ Chat(h)

Progress(h) ==
    \/ \E hint \in Hints : Refused(h, hint)
    \/ Unusable(h) \/ Produce(h) \/ Resume(h) \/ GiveUp(h)
    \/ \E what \in {"graph", "flawed", "question", "failed"} :
          Say(h, what) \/ Repaired(h, what)
    \/ \E what \in {"text", "failed"} : ChatReply(h, what)
    \/ ChatRefused(h)

Next == Tick \/ \E h \in Handlers : Arrive(h) \/ Progress(h) \/ Cancel(h)

Spec == Init /\ [][Next]_vars

(* Time passes, and every call ends: the HTTP client gives up after a minute. *)
FairSpec == Spec /\ WF_vars(Tick) /\ \A h \in Handlers : WF_vars(Progress(h))

-----------------------------------------------------------------------------
(* diagram_service.go:102-104, 597-600, groq.go:185-191.  A request costs at most
   two chains, or two and the repairs, or one call and its retries, however rate
   limits, failures and hints are mixed. *)
CallLimit(kind) ==
    CASE kind = "generate" -> 2 * ChainLength
      [] kind = "converse" -> 2 * ChainLength + MaxRepairRounds
      [] OTHER -> MaxRetries + 1
CallsBounded ==
    \A h \in Handlers : job[h] # Idle => log[h].calls <= CallLimit(job[h].kind)

(* diagram_service.go:102-104, 172-190.  The chain is retried only when every model was
   rate limited, and not before the first of them said it would be free. *)
RetryNotEarly ==
    [][\A h \in Handlers :
          At(h, "wait", Chained) /\ job'[h].at = "call" =>
              log[h].refused /\ log[h].soonest = 0]_vars

(* diagram_service.go:102-104, 193-199.  Who is told that the AI is busy met rate
   limits only, and is not sent back before the first of them ends. *)
BusyIsHonest ==
    \A h \in Handlers : log[h].answer = "busy" =>
        /\ log[h].refused
        /\ log[h].advice >= MinAdvice /\ log[h].advice >= log[h].soonest

(* diagram_service.go:786-807.  The cache never holds more than cacheMax diagrams,
   whatever requests overlap. *)
CacheBounded == Cardinality(cached) <= CacheMax

(* diagram_service.go:790-805.  A diagram that has not expired leaves the cache
   only when it is full of such diagrams, and none of them expires sooner. *)
EvictsOldest ==
    [][\A k \in cached \ cached' : ~Expired(k) =>
          /\ Cardinality(cached) >= CacheMax
          /\ \A o \in cached : left[k] <= left[o]]_vars

(* Every request is answered. *)
Answered == \A h \in Handlers : job[h] # Idle ~> job[h] = Idle

(* What makes them inductive: a handler's accumulators agree with the replies it
   got, its calls with its place in the chain, and it waits at least as long as
   the first hint. *)
JobOK(j, l) ==
    /\ j # Idle => l.answer = "none"
    /\ j.at \in {"call", "wait"} /\ j.kind \in Chained =>
          /\ j.round \in 1..2 /\ j.next \in 1..ChainLength
          /\ l.calls = (j.round - 1) * ChainLength + j.next
          /\ j.limited => l.refused
          /\ IF j.minWait = 0 THEN l.soonest = -1 ELSE l.soonest \in 0..j.minWait
    /\ j.at = "wait" /\ j.kind \in Chained =>
          j.round = 1 /\ j.next = ChainLength /\ l.refused /\ l.soonest \in 0..j.timer
    /\ j.at = "repair" =>
          /\ j.kind = "converse" /\ j.next \in 1..MaxRepairRounds
          /\ l.calls <= 2 * ChainLength + j.next
    /\ j.at \in {"call", "wait"} /\ j.kind = "chat" =>
          /\ l.calls = j.round
          /\ j.round <= IF j.at = "wait" THEN MaxRetries ELSE MaxRetries + 1
GenInv == BusyIsHonest /\ \A h \in Handlers : JobOK(job[h], log[h])

=============================================================================
