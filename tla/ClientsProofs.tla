---------------------------- MODULE ClientsProofs ----------------------------
(***************************************************************************)
(* Two protocols with clients whose requests and answers may be lost.      *)
(*                                                                         *)
(* The version of a flow loses no edit, for any number of clients,         *)
(* requests, payloads and versions: FlowInv is inductive with the types    *)
(* and AnswerHasOwnEdit, and under it every step of Flows is a step of     *)
(* EditLog or leaves it alone.                                             *)
(*                                                                         *)
(* A retired session key opens nothing and every answer can be read, for   *)
(* any number of users, tabs, keys and requests: SessionInv.  Behind the   *)
(* sessions every step is a step of Boards, where the lists of links are   *)
(* replaced as a whole because BoardsInv is inductive.                     *)
(***************************************************************************)
EXTENDS Flows, Session, TLAPS

LInv == TypeOK /\ FlowInv /\ AnswerHasOwnEdit

-----------------------------------------------------------------------------
(* What the sequence of edits does. *)
LEMMA AppendFacts ==
    ASSUME NEW S, NEW s \in Seq(S), NEW e \in S
    PROVE  /\ Append(s, e) \in Seq(S)
           /\ Len(Append(s, e)) = Len(s) + 1
           /\ DOMAIN Append(s, e) = 1..(Len(s) + 1)
           /\ Append(s, e)[Len(s) + 1] = e
           /\ \A i \in 1..Len(s) : Append(s, e)[i] = s[i]
  OBVIOUS

(* A handler that is at work holds a request. *)
LEMMA AtWork ==
    ASSUME TypeOK, NEW h \in Handlers, job[h].at # "idle"
    PROVE  job[h] \in Requests /\ job[h] # Idle
  <1>1. job[h] \in Requests \cup {Idle}  BY DEF TypeOK
  <1> QED  BY <1>1 DEF Idle

LEMMA RequestIsNotIdle ==
    ASSUME NEW r \in Requests
    PROVE  r # Idle /\ r.at # "idle"
  BY DEF Requests, Steps, Idle

LEMMA RequestTypes ==
    ASSUME NEW r \in Requests
    PROVE  /\ r.at \in Steps /\ r.client \in Clients
           /\ r.edit \in Edits \cup {NoEdit}
           /\ r.base \in 0..MaxVersion /\ r.got \in 0..MaxVersion
  BY DEF Requests

-----------------------------------------------------------------------------
(* The flow starts with no edit and nobody at work. *)
LEMMA InitLInv == ASSUME Init PROVE LInv
  <1>1. TypeOK  BY FlowsConstants DEF Init, TypeOK, EL!Entries
  <1>2. FlowInv  BY FlowsConstants DEF Init, FlowInv, Idle
  <1>3. AnswerHasOwnEdit  BY DEF Init, AnswerHasOwnEdit, Idle
  <1> QED  BY <1>1, <1>2, <1>3 DEF LInv

(* A new request names a version its client has seen. *)
LEMMA SendLInv ==
    ASSUME LInv, NEW c \in Clients, NEW h \in Handlers, NEW e \in Edits \cup {NoEdit},
           NEW at \in {"read", "update"}, Send(c, h, at, e), UNCHANGED <<row, seen>>,
           at = "read" => e = NoEdit,
           at = "update" => e # NoEdit /\ seen[c] < MaxVersion
    PROVE  LInv'
  <1> DEFINE r == [at |-> at, client |-> c, edit |-> e, base |-> seen[c], got |-> 0]
  <1>1. r \in Requests
    BY FlowsConstants DEF LInv, TypeOK, Requests, Steps
  <1>2. /\ job' = [job EXCEPT ![h] = r] /\ waits' = [waits EXCEPT ![c] = h]
        /\ waits[c] = NoHandler /\ job[h] = Idle
        /\ r.at = at /\ r.client = c /\ r.edit = e /\ r.base = seen[c] /\ r.got = 0
    BY DEF Send
  <1> HIDE DEF r
  <1>3. TypeOK'
    BY <1>1, <1>2 DEF LInv, TypeOK, row
  <1>4. FlowInv'
    <2>1. \A g \in Handlers : job'[g] = IF g = h THEN r ELSE job[g]
      BY <1>2 DEF LInv, TypeOK
    <2>2. \A d \in Clients : waits'[d] = IF d = c THEN h ELSE waits[d]
      BY <1>2 DEF LInv, TypeOK
    <2>3. \A d \in Clients \ {c} : waits[d] # h
      BY DEF Send
    <2>4. r # Idle  BY <1>1, RequestIsNotIdle
    <2>5. seen[c] \in Nat /\ seen[c] <= version /\ version \in Nat /\ 0 <= version
      BY FlowsConstants DEF LInv, TypeOK, FlowInv
    <2> QED  BY <2>1, <2>2, <2>3, <2>4, <2>5, <1>2, FlowsConstants DEF LInv, FlowInv, row
  <1>5. AnswerHasOwnEdit'
    BY <1>2 DEF LInv, TypeOK, AnswerHasOwnEdit, row
  <1> QED  BY <1>3, <1>4, <1>5 DEF LInv

(* Whoever a finished request was for is told of a version no older than the
   one it knew: this is all that FlowInv needs of an ending. *)
LEMMA FinishLInv ==
    ASSUME LInv, NEW h \in Handlers, Finish(h), UNCHANGED row,
           seen' \in [Clients -> 0..MaxVersion],
           \A c \in Clients : /\ seen[c] <= seen'[c] /\ seen'[c] <= version
                              /\ waits[c] # h => seen'[c] = seen[c]
    PROVE  LInv'
  <1>1. /\ \A g \in Handlers : job'[g] = IF g = h THEN Idle ELSE job[g]
        /\ job' \in [Handlers -> Requests \cup {Idle}]
    BY DEF Finish, LInv, TypeOK
  <1>2. /\ \A c \in Clients : waits'[c] = IF waits[c] = h THEN NoHandler ELSE waits[c]
        /\ waits' \in [Clients -> Handlers \cup {NoHandler}]
    BY DEF Finish, LInv, TypeOK
  <1>3. TypeOK'
    BY <1>1, <1>2 DEF LInv, TypeOK, row
  <1>4. FlowInv'
    <2>1. ASSUME NEW g \in Handlers, job'[g] # Idle
          PROVE  /\ job'[g].at \in {"update", "exists"} =>
                       job'[g].edit # NoEdit /\ job'[g].base < MaxVersion
                 /\ job'[g].base <= seen'[job'[g].client]
                 /\ job'[g].got <= version
                 /\ \A c \in Clients : waits'[c] = g =>
                       /\ job'[g].client = c
                       /\ job'[g].at = "answer" => seen'[c] <= job'[g].got
      <3>1. g # h /\ job'[g] = job[g] /\ job[g] # Idle  BY <1>1, <2>1
      <3>2. job[g] \in Requests  BY <3>1 DEF LInv, TypeOK
      <3>3. job[g].client \in Clients /\ job[g].base \in Nat
        BY <3>2, RequestTypes
      <3>4. seen[job[g].client] \in Nat /\ seen'[job[g].client] \in Nat
        BY <3>3, FlowsConstants DEF LInv, TypeOK
      <3>5. job[g].base <= seen[job[g].client]
        BY <3>1 DEF LInv, FlowInv
      <3>6. job[g].base <= seen'[job[g].client]
        BY <3>3, <3>4, <3>5
      <3>7. \A c \in Clients : waits'[c] = g => waits[c] = g /\ seen'[c] = seen[c]
        BY <1>2, <3>1, FlowsConstants
      <3> QED  BY <3>1, <3>6, <3>7 DEF LInv, FlowInv
    <2>2. \A c \in Clients : waits'[c] # NoHandler => job'[waits'[c]] # Idle
      BY <1>1, <1>2 DEF LInv, TypeOK, FlowInv
    <2> QED  BY <2>1, <2>2 DEF LInv, FlowInv, row
  <1>5. AnswerHasOwnEdit'
    BY <1>1 DEF LInv, AnswerHasOwnEdit, row, Idle
  <1> QED  BY <1>3, <1>4, <1>5 DEF LInv

(* A request that moves on without touching the row. *)
LEMMA MoveLInv ==
    ASSUME LInv, NEW h \in Handlers, NEW r \in Requests, job[h] # Idle,
           job' = [job EXCEPT ![h] = r], UNCHANGED <<row, seen, waits>>,
           r.client = job[h].client, r.edit = job[h].edit, r.base = job[h].base,
           r.got <= version,
           r.at \in {"update", "exists"} => job[h].at \in {"update", "exists"},
           r.at \in {"read", "answer"} => job[h].at \in {"read", "answer"},
           r.at = "answer" => r.got = version
    PROVE  LInv'
  <1>1. \A g \in Handlers : job'[g] = IF g = h THEN r ELSE job[g]
    BY DEF LInv, TypeOK
  <1>2. TypeOK'
    BY DEF LInv, TypeOK, row
  <1>3. r # Idle  BY RequestIsNotIdle
  <1>4. FlowInv'
    BY <1>1, <1>3 DEF LInv, TypeOK, FlowInv, row
  <1>5. AnswerHasOwnEdit'
    <2>1. job[h] \in Requests /\ job[h].base \in Nat /\ version \in Nat
      BY RequestTypes, FlowsConstants DEF LInv, TypeOK
    <2> QED  BY <1>1, <2>1 DEF LInv, AnswerHasOwnEdit, FlowInv, row
  <1> QED  BY <1>2, <1>4, <1>5 DEF LInv

(* A stored edit is the next of the log, made at the version before it by a
   client that has seen that version: nobody can have seen a later one. *)
LEMMA StoreFacts ==
    ASSUME LInv, NEW h \in Handlers, job[h].at = "update", version = job[h].base
    PROVE  /\ job[h] \in Requests /\ job[h].edit \in Edits
           /\ version = Len(log) /\ Len(log) \in Nat /\ version < MaxVersion
           /\ seen[job[h].client] = Len(log)
  <1>1. job[h] \in Requests /\ job[h] # Idle  BY AtWork DEF LInv
  <1>2. /\ job[h].edit # NoEdit /\ job[h].base < MaxVersion
        /\ job[h].base <= seen[job[h].client]
    BY <1>1 DEF LInv, FlowInv
  <1>3. version = Len(log) /\ Len(log) \in Nat
    BY DEF LInv, FlowInv, TypeOK
  <1>4. job[h].client \in Clients /\ job[h].edit \in Edits \cup {NoEdit}
    BY <1>1, RequestTypes
  <1>5. seen[job[h].client] \in Nat /\ seen[job[h].client] <= version
    BY <1>4, FlowsConstants DEF LInv, FlowInv, TypeOK
  <1> QED  BY <1>1, <1>2, <1>3, <1>4, <1>5

LEMMA StoreLInv ==
    ASSUME LInv, NEW h \in Handlers, UpdateRow(h), version = job[h].base
    PROVE  LInv'
  <1> DEFINE e == [by |-> job[h].client, edit |-> job[h].edit, base |-> job[h].base]
             r == [job[h] EXCEPT !.at = "read"]
  <1>1. /\ job[h].at = "update" /\ version' = version + 1 /\ data' = job[h].edit
        /\ log' = Append(log, e) /\ seen' = seen /\ waits' = waits
        /\ job' = [job EXCEPT ![h] = r]
    BY DEF UpdateRow, Go
  <1>2. /\ job[h] \in Requests /\ job[h].edit \in Edits
        /\ version = Len(log) /\ Len(log) \in Nat /\ version < MaxVersion
    BY <1>1, StoreFacts
  <1>3. /\ job[h].client \in Clients /\ job[h].base \in Nat /\ job[h].got \in 0..MaxVersion
        /\ job[h] # Idle
    BY <1>2, RequestTypes, RequestIsNotIdle, FlowsConstants
  <1>4. e \in EL!Entries /\ e.base = version /\ e.edit = job[h].edit
    BY <1>2, <1>3 DEF EL!Entries
  <1>5. /\ r \in Requests /\ r.at = "read" /\ r.client = job[h].client
        /\ r.edit = job[h].edit /\ r.base = job[h].base /\ r.got = job[h].got
    BY <1>2 DEF Requests, Steps
  <1>e. e = [by |-> r.client, edit |-> r.edit, base |-> r.base]  BY <1>5
  <1> HIDE DEF e, r
  <1>6. /\ log' \in Seq(EL!Entries) /\ Len(log') = version + 1
        /\ DOMAIN log' = 1..(version + 1) /\ DOMAIN log = 1..version
        /\ log'[version + 1] = e
        /\ \A i \in 1..version : log'[i] = log[i]
    BY <1>1, <1>2, <1>4, AppendFacts DEF LInv, TypeOK
  <1>7. \A g \in Handlers : job'[g] = IF g = h THEN r ELSE job[g]
    BY <1>1 DEF LInv, TypeOK
  <1>8. r # Idle  BY <1>5, RequestIsNotIdle
  <1>9. TypeOK'
    <2>1. version' \in 0..MaxVersion  BY <1>1, <1>2, FlowsConstants
    <2> QED  BY <2>1, <1>1, <1>2, <1>5, <1>6 DEF LInv, TypeOK
  <1>10. FlowInv'
    <2>1. version' = Len(log')  BY <1>1, <1>6
    <2>2. \A i \in DOMAIN log' : log'[i].base = i - 1
      BY <1>2, <1>4, <1>6 DEF LInv, FlowInv
    <2>3. data' = log'[version'].edit  BY <1>1, <1>4, <1>6
    <2>4. \A c \in Clients : seen'[c] <= version'
      BY <1>1, <1>2, FlowsConstants DEF LInv, FlowInv, TypeOK
    <2>5. ASSUME NEW g \in Handlers, job'[g] # Idle
          PROVE  /\ job'[g].at \in {"update", "exists"} =>
                       job'[g].edit # NoEdit /\ job'[g].base < MaxVersion
                 /\ job'[g].base <= seen'[job'[g].client]
                 /\ job'[g].got <= version'
                 /\ \A c \in Clients : waits'[c] = g =>
                       /\ job'[g].client = c
                       /\ job'[g].at = "answer" => seen'[c] <= job'[g].got
      <3>1. job[g] # Idle /\ job[g] \in Requests
        BY <2>5, <1>7, <1>3 DEF LInv, TypeOK
      <3>2. job[g].got \in Nat  BY <3>1, RequestTypes, FlowsConstants
      <3>3. job[g].got <= version  BY <3>1 DEF LInv, FlowInv
      <3>4. job[g].got <= version'  BY <3>2, <3>3, <1>1, <1>2
      <3> QED  BY <3>1, <3>4, <1>1, <1>5, <1>7 DEF LInv, FlowInv
    <2>6. \A c \in Clients : waits'[c] # NoHandler => job'[waits'[c]] # Idle
      BY <1>1, <1>7, <1>8 DEF LInv, FlowInv, TypeOK
    <2> QED  BY <2>1, <2>2, <2>3, <2>4, <2>5, <2>6 DEF FlowInv
  <1>11. AnswerHasOwnEdit'
    <2> SUFFICES ASSUME NEW g \in Handlers, job'[g].at \in {"read", "answer"},
                        job'[g].edit # NoEdit
                 PROVE  /\ job'[g].base < Len(log')
                        /\ log'[job'[g].base + 1] =
                              [by |-> job'[g].client, edit |-> job'[g].edit, base |-> job'[g].base]
                        /\ job'[g].at = "answer" => job'[g].base < job'[g].got
      BY DEF AnswerHasOwnEdit
    <2>1. CASE g = h
      BY <2>1, <1>2, <1>4, <1>5, <1>e, <1>6, <1>7
    <2>2. CASE g # h
      <3>1. job'[g] = job[g]  BY <2>2, <1>7
      <3>2. job[g] \in Requests
        BY <3>1, AtWork DEF LInv
      <3>3. job[g].base \in Nat  BY <3>2, RequestTypes, FlowsConstants
      <3>4. /\ job[g].base < Len(log)
            /\ log[job[g].base + 1] =
                  [by |-> job[g].client, edit |-> job[g].edit, base |-> job[g].base]
            /\ job[g].at = "answer" => job[g].base < job[g].got
        BY <3>1 DEF LInv, AnswerHasOwnEdit
      <3>5. job[g].base + 1 \in 1..version  BY <3>3, <3>4, <1>2
      <3> QED  BY <3>1, <3>3, <3>4, <3>5, <1>2, <1>6
    <2> QED  BY <2>1, <2>2
  <1> QED  BY <1>9, <1>10, <1>11 DEF LInv

-----------------------------------------------------------------------------
(* LInv is inductive. *)
LEMMA NextLInv == ASSUME LInv, [Next]_vars PROVE LInv'
  <1>1. ASSUME NEW h \in Handlers, NEW c \in Clients, GetFlow(c, h) PROVE LInv'
    BY <1>1, SendLInv DEF GetFlow
  <1>2. ASSUME NEW h \in Handlers, NEW c \in Clients, NEW e \in Edits, UpdateFlow(c, h, e)
        PROVE  LInv'
    <2>1. e # NoEdit  BY FlowsConstants
    <2> QED  BY <1>2, <2>1, SendLInv DEF UpdateFlow
  <1>3. ASSUME NEW h \in Handlers, UpdateRow(h) PROVE LInv'
    <2>1. CASE version = job[h].base  BY <1>3, <2>1, StoreLInv
    <2>2. CASE version # job[h].base
      <3> DEFINE r == [job[h] EXCEPT !.at = "exists"]
      <3>1. /\ job[h].at = "update" /\ job' = [job EXCEPT ![h] = r]
            /\ UNCHANGED <<row, seen, waits>>
        BY <1>3, <2>2 DEF UpdateRow, Go
      <3>2. job[h] \in Requests /\ job[h] # Idle  BY <3>1, AtWork DEF LInv
      <3>3. job[h].got <= version  BY <3>2 DEF LInv, FlowInv
      <3>4. /\ r \in Requests /\ r.at = "exists" /\ r.client = job[h].client
            /\ r.edit = job[h].edit /\ r.base = job[h].base /\ r.got = job[h].got
        BY <3>2 DEF Requests, Steps
      <3> HIDE DEF r
      <3> QED  BY <3>1, <3>2, <3>3, <3>4, MoveLInv
    <2> QED  BY <2>1, <2>2
  <1>4. ASSUME NEW h \in Handlers, Finish(h), UNCHANGED <<row, seen>> PROVE LInv'
    <2>1. /\ seen' \in [Clients -> 0..MaxVersion]
          /\ \A c \in Clients : seen[c] <= seen'[c] /\ seen'[c] <= version
      BY <1>4, FlowsConstants DEF LInv, TypeOK, FlowInv
    <2> QED  BY <1>4, <2>1, FinishLInv
  <1>5. ASSUME NEW h \in Handlers, Refuse(h) PROVE LInv'
    BY <1>4, <1>5 DEF Refuse
  <1>6. ASSUME NEW h \in Handlers, Fail(h) PROVE LInv'
    BY <1>4, <1>6 DEF Fail
  <1>7. ASSUME NEW h \in Handlers, ReadRow(h) PROVE LInv'
    <2> DEFINE r == [job[h] EXCEPT !.at = "answer", !.got = version]
    <2>1. /\ job[h].at = "read" /\ job' = [job EXCEPT ![h] = r]
          /\ UNCHANGED <<row, seen, waits>>
      BY <1>7 DEF ReadRow
    <2>2. job[h] \in Requests /\ job[h] # Idle  BY <2>1, AtWork DEF LInv
    <2>3. version \in 0..MaxVersion  BY DEF LInv, TypeOK
    <2>4. /\ r \in Requests /\ r.at = "answer" /\ r.client = job[h].client
          /\ r.edit = job[h].edit /\ r.base = job[h].base /\ r.got = version
      BY <2>2, <2>3 DEF Requests, Steps
    <2>5. version <= version  BY <2>3, FlowsConstants
    <2> HIDE DEF r
    <2> QED  BY <2>1, <2>2, <2>4, <2>5, MoveLInv
  <1>8. ASSUME NEW h \in Handlers, Answer(h) PROVE LInv'
    <2>1. job[h] \in Requests /\ job[h] # Idle /\ job[h].got \in 0..MaxVersion
      BY <1>8, AtWork, RequestTypes DEF Answer, LInv
    <2>2. seen' \in [Clients -> 0..MaxVersion]
      BY <1>8, <2>1 DEF Answer, LInv, TypeOK
    <2>3. ASSUME NEW c \in Clients
          PROVE  /\ seen[c] <= seen'[c] /\ seen'[c] <= version
                 /\ waits[c] # h => seen'[c] = seen[c]
      <3>1. seen[c] \in Nat /\ seen[c] <= version
        BY FlowsConstants DEF LInv, TypeOK, FlowInv
      <3>2. waits[c] = h => seen[c] <= job[h].got /\ job[h].got <= version
        BY <1>8, <2>1 DEF Answer, LInv, FlowInv
      <3>3. seen'[c] = IF waits[c] = h THEN job[h].got ELSE seen[c]
        BY <1>8 DEF Answer
      <3> QED  BY <3>1, <3>2, <3>3
    <2> QED  BY <1>8, <2>2, <2>3, FinishLInv DEF Answer
  <1>9. ASSUME NEW c \in Clients, GiveUp(c) PROVE LInv'
    <2>1. \A d \in Clients : waits'[d] = IF d = c THEN NoHandler ELSE waits[d]
      BY <1>9 DEF GiveUp, LInv, TypeOK
    <2>2. TypeOK'  BY <1>9 DEF GiveUp, LInv, TypeOK, row
    <2>3. FlowInv'  BY <1>9, <2>1, FlowsConstants DEF GiveUp, LInv, FlowInv, row
    <2>4. AnswerHasOwnEdit'  BY <1>9 DEF GiveUp, LInv, AnswerHasOwnEdit, row
    <2> QED  BY <2>2, <2>3, <2>4 DEF LInv
  <1>10. CASE UNCHANGED vars
    BY <1>10 DEF vars, LInv, TypeOK, FlowInv, AnswerHasOwnEdit
  <1> QED
    BY <1>1, <1>2, <1>3, <1>5, <1>6, <1>7, <1>8, <1>9, <1>10 DEF Next

(* The variables keep their types, whatever fails or is sent again. *)
THEOREM SpecTypeOK == Spec => []TypeOK
  <1>1. Init => LInv  BY InitLInv
  <1>2. LInv /\ [Next]_vars => LInv'  BY NextLInv
  <1>3. LInv => TypeOK  BY DEF LInv
  <1> QED  BY <1>1, <1>2, <1>3, PTL DEF Spec

(* flow_repo.go UpdateFlow: the version counts the edits. *)
THEOREM SpecFlowInv == Spec => []FlowInv
  <1>1. Init => LInv  BY InitLInv
  <1>2. LInv /\ [Next]_vars => LInv'  BY NextLInv
  <1>3. LInv => FlowInv  BY DEF LInv
  <1> QED  BY <1>1, <1>2, <1>3, PTL DEF Spec

(* flow_service.go UpdateFlow: the flow returned after an update has it. *)
THEOREM SpecAnswerHasOwnEdit == Spec => []AnswerHasOwnEdit
  <1>1. Init => LInv  BY InitLInv
  <1>2. LInv /\ [Next]_vars => LInv'  BY NextLInv
  <1>3. LInv => AnswerHasOwnEdit  BY DEF LInv
  <1> QED  BY <1>1, <1>2, <1>3, PTL DEF Spec

(* An update sent twice is stored once. *)
THEOREM SpecStoredOnce == Spec => []StoredOnce
  <1>1. LInv => StoredOnce
    <2> SUFFICES ASSUME LInv, NEW i \in DOMAIN log, NEW j \in DOMAIN log, log[i] = log[j]
                 PROVE  i = j
      BY DEF StoredOnce
    <2>1. log[i].base = i - 1 /\ log[j].base = j - 1  BY DEF LInv, FlowInv
    <2>2. DOMAIN log = 1..Len(log)  BY DEF LInv, TypeOK
    <2> QED  BY <2>1, <2>2
  <1>2. Init => LInv  BY InitLInv
  <1>3. LInv /\ [Next]_vars => LInv'  BY NextLInv
  <1> QED  BY <1>1, <1>2, <1>3, PTL DEF Spec

-----------------------------------------------------------------------------
(* Every step is an edit by a client that knew all the others, or a client
   learning of some, or nothing of the kind. *)
LEMMA StepRefines == ASSUME LInv, [Next]_vars PROVE [EL!Next]_<<log, seen>>
  <1>1. ASSUME NEW h \in Handlers, UpdateRow(h), version = job[h].base PROVE EL!Next
    <2>1. /\ job[h] \in Requests /\ job[h].edit \in Edits
          /\ job[h].base = Len(log) /\ seen[job[h].client] = Len(log)
      BY <1>1, StoreFacts DEF UpdateRow
    <2>2. job[h].client \in Clients  BY <2>1, RequestTypes
    <2>3. EL!Add(job[h].client, job[h].edit)
      BY <1>1, <2>1 DEF EL!Add, UpdateRow
    <2> QED  BY <2>1, <2>2, <2>3 DEF EL!Next
  <1>2. ASSUME NEW h \in Handlers, Answer(h) PROVE EL!Next \/ UNCHANGED <<log, seen>>
    <2>1. job[h] \in Requests /\ job[h] # Idle /\ job[h].got \in 0..MaxVersion
      BY <1>2, AtWork, RequestTypes DEF Answer, LInv
    <2>2. seen' = [c \in Clients |-> IF waits[c] = h THEN job[h].got ELSE seen[c]] /\ log' = log
      BY <1>2 DEF Answer, row
    <2>3. CASE \A c \in Clients : waits[c] # h
      BY <2>2, <2>3 DEF LInv, TypeOK
    <2>4. ASSUME NEW c \in Clients, waits[c] = h PROVE EL!Next
      <3>1. \A d \in Clients : waits[d] = h => d = c
        BY <2>1, <2>4 DEF LInv, FlowInv
      <3>2. seen[c] <= job[h].got /\ job[h].got <= Len(log)
        BY <1>2, <2>1, <2>4 DEF Answer, LInv, FlowInv
      <3>3. seen' = [seen EXCEPT ![c] = job[h].got]
        BY <2>2, <2>4, <3>1 DEF LInv, TypeOK
      <3>4. seen[c] \in Nat /\ Len(log) \in Nat /\ job[h].got \in Nat
        BY <2>1, FlowsConstants DEF LInv, TypeOK
      <3>5. job[h].got \in seen[c]..Len(log)  BY <3>2, <3>4
      <3>6. EL!Learn(c)  BY <2>2, <3>3, <3>5 DEF EL!Learn
      <3> QED  BY <3>6 DEF EL!Next
    <2> QED  BY <2>3, <2>4
  <1>3. CASE UNCHANGED vars  BY <1>3 DEF vars
  <1>4. CASE \E h \in Handlers, c \in Clients :
                 GetFlow(c, h) \/ GiveUp(c) \/ \E e \in Edits : UpdateFlow(c, h, e)
    BY <1>4 DEF GetFlow, GiveUp, UpdateFlow, row
  <1>5. CASE \E c \in Clients : GiveUp(c)
    BY <1>5 DEF GiveUp, row
  <1>6. CASE \E h \in Handlers :
                 \/ Refuse(h) \/ ReadRow(h) \/ Fail(h)
                 \/ UpdateRow(h) /\ version # job[h].base
    BY <1>6 DEF Refuse, ReadRow, Fail, UpdateRow, row
  <1> QED  BY <1>1, <1>2, <1>3, <1>4, <1>5, <1>6 DEF Next

(* Optimistic locking is what EditLog asks: the edits form one list and each
   was made by a client that knew all of the earlier ones. *)
THEOREM Refinement == Spec => ImplementsEditLog
  <1>1. Init => EL!Init  BY DEF Init, EL!Init
  <1>2. Init => LInv  BY InitLInv
  <1>3. LInv /\ [Next]_vars => LInv'  BY NextLInv
  <1>4. LInv /\ [Next]_vars => [EL!Next]_<<log, seen>>  BY StepRefines
  <1> QED  BY <1>1, <1>2, <1>3, <1>4, PTL DEF Spec, ImplementsEditLog, EL!Spec

-----------------------------------------------------------------------------
(* Boards. *)
Settled == {"log", "done"}

(* A set of rows has each list with all its urls or not at all... *)
Complete(rows) ==
    \A l \in Lists, u \in Urls :
        <<l, u>> \in rows => /\ u \in Content[l]
                             /\ \A v \in Content[l] : <<l, v>> \in rows

(* The rows of lists whose replacement is over. *)
Past == {r \in Rows : tx[r[1]].at \in Settled}

BoardsInv ==
    /\ BoardsTypeOK
    /\ \A b \in BoardIds : Complete(links[b]) /\ links[b] \subseteq Past
    /\ \A l \in Lists : /\ Complete(tx[l].sees) /\ tx[l].sees \subseteq Past
                        /\ Complete(tx[l].gone)
                        /\ tx[l].at = "unsent" => tx[l] = Unsent
                        /\ tx[l].at \in InTransaction => tx[l].board \in BoardIds
                        /\ tx[l].at = "insert" =>
                               tx[l].sees \cap links[tx[l].board] \subseteq tx[l].gone

(* The keys of the users differ and were drawn before. *)
KeysApart ==
    /\ \A u \in Users : keys[u] <= drawn
    /\ \A u, w \in Users : u # w /\ keys[u] = keys[w] => keys[u] = NoKey

(* A key that is not stored yet is nobody's but its call's; one that was stored
   is the user's or retired; a body encrypted with a retired key waits at the
   middleware, and one that has passed it was encrypted with the key that the
   middleware read. *)
CallInv(c) ==
    /\ call[c].at = "store" =>
           /\ call[c].tab \in Tabs /\ call[c].key \in 1..drawn
           /\ call[c].key \notin retired
           /\ \A u \in Users : keys[u] # call[c].key
           /\ \A d \in Calls : call[d].at = "store" /\ call[d].key = call[c].key => d = c
    /\ call[c].at = "welcome" =>
           /\ call[c].tab \in Tabs /\ call[c].key \in 1..drawn
           /\ call[c].key = keys[User(c)] \/ call[c].key \in retired
    /\ call[c].at = "sent" =>
           /\ call[c].tab \in Tabs
           /\ call[c].late => call[c].with \in retired
    /\ call[c].at \in {"run", "log", "encrypt", "answer"} =>
           call[c].key = call[c].with /\ ~call[c].late

SessionInv == KeysInv /\ KeysApart /\ \A c \in Calls : CallInv(c)

-----------------------------------------------------------------------------
LEMMA CompleteSets ==
    ASSUME NEW R, NEW S, Complete(R), Complete(S)
    PROVE  Complete(R \cap S) /\ Complete(R \ S) /\ Complete(R \cup S)
  <1>1. Complete(R \cap S)  BY DEF Complete
  <1>2. Complete(R \ S)
    <2> SUFFICES ASSUME NEW l \in Lists, NEW u \in Urls, <<l, u>> \in R, <<l, u>> \notin S,
                        NEW v \in Content[l]
                 PROVE  u \in Content[l] /\ <<l, v>> \in R /\ <<l, v>> \notin S
      BY DEF Complete
    <2> QED  BY BoardsConstants DEF Complete
  <1>3. Complete(R \cup S)  BY DEF Complete
  <1> QED  BY <1>1, <1>2, <1>3

LEMMA ListComplete ==
    ASSUME NEW l \in Lists PROVE Complete({l} \X Content[l]) /\ {l} \X Content[l] \subseteq Rows
  BY BoardsConstants DEF Complete, Rows

LEMMA JobFields ==
    ASSUME BoardsTypeOK, NEW l \in Lists
    PROVE  /\ tx[l] \in Jobs
           /\ tx[l].board \in BoardIds \cup {NoBoard}
           /\ tx[l].sees \subseteq Rows /\ tx[l].gone \subseteq Rows
  BY DEF BoardsTypeOK, Jobs

LEMMA IdleJobs == Unsent \in Jobs /\ Logging \in Jobs /\ Done \in Jobs
  BY DEF Unsent, Logging, Done, Jobs

LEMMA InitBoardsInv == ASSUME BoardsInit PROVE BoardsInv
  <1>1. BoardsTypeOK  BY IdleJobs DEF BoardsInit, BoardsTypeOK
  <1> QED  BY <1>1 DEF BoardsInit, BoardsInv, Unsent, Complete, Past, InTransaction

LEMMA RowsStay ==
    ASSUME BoardsInv, UNCHANGED <<links, tx>>, boards' \subseteq BoardIds,
           activity' \subseteq BoardIds \cup Lists
    PROVE  BoardsInv'
  BY DEF BoardsInv, BoardsTypeOK, Past, Rows

(* A replacement that goes on to its log entry or ends. *)
LEMMA EndJob ==
    ASSUME BoardsInv, UNCHANGED <<boards, links>>, activity' \subseteq BoardIds \cup Lists,
           NEW L \in SUBSET Lists, \A l \in L : tx[l].at # "unsent",
           tx' = [l \in Lists |-> IF l \in L THEN Done ELSE tx[l]]
    PROVE  BoardsInv'
  <1>1. BoardsTypeOK'  BY IdleJobs, JobFields DEF BoardsInv, BoardsTypeOK
  <1>2. \A l \in Lists : tx[l].at \in Settled => tx'[l].at \in Settled
    BY DEF Settled, Done
  <1>3. \A b \in BoardIds : Complete(links'[b]) /\ links'[b] \subseteq Past'
    BY <1>2 DEF BoardsInv, Past, Rows
  <1>4. ASSUME NEW l \in L
        PROVE  tx'[l] = Done
    BY <1>4
  <1>5. \A l \in Lists \ L : tx'[l] = tx[l]  OBVIOUS
  <1>6. \A l \in Lists : tx'[l].sees \subseteq Past'
    BY <1>2, <1>4, <1>5 DEF BoardsInv, Past, Done, Unsent, Rows
  <1>7. ASSUME NEW l \in Lists
        PROVE  /\ Complete(tx'[l].sees) /\ Complete(tx'[l].gone)
               /\ tx'[l].at \in InTransaction => tx'[l].board \in BoardIds
               /\ tx'[l].at = "unsent" => tx'[l] = Unsent
               /\ tx'[l].at = "insert" => tx'[l].sees \cap links'[tx'[l].board] \subseteq tx'[l].gone
    <2>1. Complete({})  BY DEF Complete
    <2>2. CASE l \in L
      BY <1>4, <2>1, <2>2 DEF Done, Unsent, InTransaction
    <2>3. CASE l \notin L  BY <1>5, <2>3 DEF BoardsInv
    <2> QED  BY <2>2, <2>3
  <1> QED  BY <1>1, <1>3, <1>6, <1>7 DEF BoardsInv

LEMMA StartDeleteInv ==
    ASSUME BoardsInv, NEW l \in Lists, NEW b \in BoardIds, StartDelete(l, b) PROVE BoardsInv'
  <1> DEFINE new == [tx[l] EXCEPT !.at = "wait", !.board = b, !.sees = links[b]]
  <1>1. /\ tx' = [tx EXCEPT ![l] = new] /\ UNCHANGED <<boards, links, activity>>
        /\ tx[l].at = "unsent" /\ tx[l] \in Jobs
    BY JobFields DEF StartDelete, BoardsInv
  <1>2. links[b] \subseteq Rows  BY DEF BoardsInv, BoardsTypeOK
  <1>3. /\ new \in Jobs /\ new.at = "wait" /\ new.board = b
        /\ new.sees = links[b] /\ new.gone = tx[l].gone
    BY <1>1, <1>2 DEF Jobs, InTransaction
  <1> HIDE DEF new
  <1>4. tx'[l] = new /\ \A k \in Lists \ {l} : tx'[k] = tx[k]
    BY <1>1 DEF BoardsInv, BoardsTypeOK
  <1>5. BoardsTypeOK'  BY <1>1, <1>3 DEF BoardsInv, BoardsTypeOK
  <1>6. Past \subseteq Past'
    BY <1>1, <1>4 DEF Past, Rows, Settled
  <1>7. \A bd \in BoardIds : Complete(links'[bd]) /\ links'[bd] \subseteq Past'
    BY <1>1, <1>6 DEF BoardsInv
  <1>8. \A k \in Lists : tx'[k].sees \subseteq Past'
    BY <1>3, <1>4, <1>6 DEF BoardsInv
  <1>9. ASSUME NEW k \in Lists
        PROVE  /\ Complete(tx'[k].sees) /\ Complete(tx'[k].gone)
               /\ tx'[k].at \in InTransaction => tx'[k].board \in BoardIds
               /\ tx'[k].at = "unsent" => tx'[k] = Unsent
               /\ tx'[k].at = "insert" => tx'[k].sees \cap links'[tx'[k].board] \subseteq tx'[k].gone
    BY <1>1, <1>3, <1>4 DEF BoardsInv
  <1> QED  BY <1>5, <1>7, <1>8, <1>9 DEF BoardsInv

LEMMA EndDeleteInv ==
    ASSUME BoardsInv, NEW l \in Lists, EndDelete(l) PROVE BoardsInv'
  <1> DEFINE took == tx[l].sees \cap links[tx[l].board]
             new == [tx[l] EXCEPT !.at = "insert", !.gone = took]
  <1>1. /\ tx[l] \in Jobs /\ tx[l].at = "wait" /\ tx[l].board \in BoardIds
        /\ UNCHANGED <<boards, links, activity>> /\ tx' = [tx EXCEPT ![l] = new]
    <2>1. tx[l] \in Jobs /\ tx[l].at = "wait"  BY JobFields DEF BoardsInv, EndDelete
    <2>2. tx[l].board \in BoardIds  BY <2>1 DEF BoardsInv, InTransaction
    <2> QED  BY <2>1, <2>2 DEF EndDelete
  <1>2. took \subseteq Rows  BY JobFields DEF BoardsInv
  <1>3. /\ new \in Jobs /\ new.at = "insert" /\ new.board = tx[l].board
        /\ new.sees = tx[l].sees /\ new.gone = took
    BY <1>1, <1>2 DEF Jobs, InTransaction
  <1>4. Complete(took)  BY <1>1, CompleteSets DEF BoardsInv
  <1> HIDE DEF new
  <1>5. tx'[l] = new /\ \A k \in Lists \ {l} : tx'[k] = tx[k]
    BY <1>1 DEF BoardsInv, BoardsTypeOK
  <1>6. BoardsTypeOK'  BY <1>1, <1>3 DEF BoardsInv, BoardsTypeOK
  <1>7. Past \subseteq Past'  BY <1>1, <1>5 DEF Past, Rows, Settled
  <1>8. \A bd \in BoardIds : Complete(links'[bd]) /\ links'[bd] \subseteq Past'
    BY <1>1, <1>7 DEF BoardsInv
  <1>9. ASSUME NEW k \in Lists
        PROVE  /\ Complete(tx'[k].sees) /\ tx'[k].sees \subseteq Past' /\ Complete(tx'[k].gone)
               /\ tx'[k].at \in InTransaction => tx'[k].board \in BoardIds
               /\ tx'[k].at = "unsent" => tx'[k] = Unsent
               /\ tx'[k].at = "insert" => tx'[k].sees \cap links'[tx'[k].board] \subseteq tx'[k].gone
    <2>1. CASE k = l
      <3>1. /\ Complete(tx[l].sees) /\ tx[l].sees \subseteq Past  BY DEF BoardsInv
      <3>2. new.sees \cap links[new.board] \subseteq new.gone  BY <1>3
      <3> QED  BY <1>1, <1>3, <1>4, <1>5, <1>7, <2>1, <3>1, <3>2
    <2>2. CASE k # l
      <3>1. tx'[k] = tx[k] /\ links' = links  BY <1>1, <1>5, <2>2
      <3> QED  BY <1>7, <3>1 DEF BoardsInv
    <2> QED  BY <2>1, <2>2
  <1> QED  BY <1>6, <1>8, <1>9 DEF BoardsInv

(* What a commit does to the board and to the other replacements. *)
LEMMA CommitFacts ==
    ASSUME BoardsInv, NEW l \in Lists, Commit(l)
    PROVE  /\ tx[l].at = "insert" /\ tx[l].board \in BoardIds
           /\ links'[tx[l].board] = (links[tx[l].board] \ tx[l].gone) \cup ({l} \X Content[l])
           /\ \A b \in BoardIds \ {tx[l].board} : links'[b] = links[b]
           /\ tx'[l] \in {Logging, Done} /\ \A k \in Lists \ {l} : tx'[k] = tx[k]
           /\ BoardsTypeOK'
  <1>1. tx[l].at = "insert"  BY DEF Commit
  <1>2. tx[l].board \in BoardIds  BY <1>1 DEF BoardsInv, InTransaction
  <1>3. PICK next \in {Logging, Done} : tx' = [tx EXCEPT ![l] = next]  BY DEF Commit
  <1>4. tx'[l] = next /\ \A k \in Lists \ {l} : tx'[k] = tx[k]
    BY <1>3 DEF BoardsInv, BoardsTypeOK
  <1>5. tx' \in [Lists -> Jobs]  BY <1>3, IdleJobs DEF BoardsInv, BoardsTypeOK
  <1>6. /\ links' = [links EXCEPT ![tx[l].board] = (@ \ tx[l].gone) \cup ({l} \X Content[l])]
        /\ UNCHANGED <<boards, activity>>
    BY DEF Commit
  <1>7. /\ links'[tx[l].board] = (links[tx[l].board] \ tx[l].gone) \cup ({l} \X Content[l])
        /\ \A b \in BoardIds \ {tx[l].board} : links'[b] = links[b]
    BY <1>2, <1>6 DEF BoardsInv, BoardsTypeOK
  <1>8. links' \in [BoardIds -> SUBSET Rows]
    BY <1>2, <1>6, ListComplete DEF BoardsInv, BoardsTypeOK
  <1> QED  BY <1>1, <1>2, <1>4, <1>5, <1>6, <1>7, <1>8 DEF BoardsInv, BoardsTypeOK

LEMMA CommitInv ==
    ASSUME BoardsInv, NEW l \in Lists, Commit(l) PROVE BoardsInv'
  <1> DEFINE b == tx[l].board
  <1>1. /\ tx[l].at = "insert" /\ b \in BoardIds
        /\ links'[b] = (links[b] \ tx[l].gone) \cup ({l} \X Content[l])
        /\ \A bd \in BoardIds \ {b} : links'[bd] = links[bd]
        /\ tx'[l] \in {Logging, Done} /\ \A k \in Lists \ {l} : tx'[k] = tx[k]
        /\ BoardsTypeOK'
    BY CommitFacts
  <1>2. /\ tx'[l].at \in Settled /\ tx'[l].at \notin InTransaction
        /\ tx'[l].sees = {} /\ tx'[l].gone = {}
    BY <1>1 DEF Logging, Done, Unsent, Settled, InTransaction
  <1>3. Past \subseteq Past'  BY <1>1, <1>2 DEF Past, Rows
  <1>4. {l} \X Content[l] \subseteq Past'  BY <1>2, ListComplete DEF Past, Rows
  <1>5. ASSUME NEW bd \in BoardIds PROVE Complete(links'[bd]) /\ links'[bd] \subseteq Past'
    <2>1. CASE bd # b  BY <1>1, <1>3, <2>1 DEF BoardsInv
    <2>2. CASE bd = b
      <3>1. Complete(links[b]) /\ Complete(tx[l].gone)  BY <1>1 DEF BoardsInv
      <3>2. Complete({l} \X Content[l])  BY ListComplete
      <3>3. Complete(links[b] \ tx[l].gone)  BY <3>1, CompleteSets
      <3>4. Complete((links[b] \ tx[l].gone) \cup ({l} \X Content[l]))
        BY <3>2, <3>3, CompleteSets
      <3>5. links[b] \subseteq Past  BY <1>1 DEF BoardsInv
      <3> QED  BY <1>1, <1>3, <1>4, <2>2, <3>4, <3>5
    <2> QED  BY <2>1, <2>2
  <1>6. ASSUME NEW k \in Lists, tx'[k].at = "insert"
        PROVE  tx'[k].sees \cap links'[tx'[k].board] \subseteq tx'[k].gone
    <2>1. k # l /\ tx'[k] = tx[k]  BY <1>1, <1>2, <1>6 DEF InTransaction
    <2>2. tx[k].sees \cap links[tx[k].board] \subseteq tx[k].gone /\ tx[k].board \in BoardIds
          /\ tx[k].sees \subseteq Past
      BY <1>6, <2>1 DEF BoardsInv, InTransaction
    <2>3. \A u : <<l, u>> \notin Past  BY <1>1 DEF Past, Settled
    <2>4. tx[k].sees \cap ({l} \X Content[l]) = {}  BY <2>2, <2>3
    <2> QED  BY <1>1, <2>1, <2>2, <2>4
  <1>7. ASSUME NEW k \in Lists
        PROVE  /\ Complete(tx'[k].sees) /\ tx'[k].sees \subseteq Past' /\ Complete(tx'[k].gone)
               /\ tx'[k].at \in InTransaction => tx'[k].board \in BoardIds
               /\ tx'[k].at = "unsent" => tx'[k] = Unsent
    <2>1. Complete({})  BY DEF Complete
    <2> QED  BY <1>1, <1>2, <1>3, <2>1 DEF BoardsInv, Settled
  <1> QED  BY <1>1, <1>5, <1>6, <1>7 DEF BoardsInv

LEMMA BoardsStep == ASSUME BoardsInv, [BoardsNext]_bvars PROVE BoardsInv'
  <1>1. CASE UNCHANGED bvars
    BY <1>1, RowsStay DEF bvars, BoardsInv, BoardsTypeOK
  <1>2. ASSUME NEW b \in BoardIds, InsertBoard(b) \/ LogCreated(b) PROVE BoardsInv'
    BY <1>2, RowsStay DEF InsertBoard, LogCreated, Log, BoardsInv, BoardsTypeOK
  <1>3. ASSUME NEW l \in Lists, Replace(l) PROVE BoardsInv'
    <2>1. ASSUME LogReplaced(l) \/ Rollback(l) PROVE BoardsInv'
      <3>1. /\ tx' = [tx EXCEPT ![l] = Done] /\ UNCHANGED <<boards, links>>
            /\ activity' \subseteq BoardIds \cup Lists /\ tx[l].at # "unsent"
        BY <2>1 DEF LogReplaced, Rollback, Log, BoardsInv, BoardsTypeOK, InTransaction
      <3>2. tx' = [k \in Lists |-> IF k \in {l} THEN Done ELSE tx[k]]
        BY <3>1 DEF BoardsInv, BoardsTypeOK
      <3> QED  BY <3>1, <3>2, EndJob
    <2> QED  BY <1>3, <2>1, StartDeleteInv, EndDeleteInv, CommitInv DEF Replace
  <1>4. CASE Stop
    <2> DEFINE L == {l \in Lists : tx[l].at # "unsent"}
    <2>1. tx' = [l \in Lists |-> IF l \in L THEN Done ELSE Unsent]  BY <1>4 DEF Stop
    <2>2. tx' = [l \in Lists |-> IF l \in L THEN Done ELSE tx[l]]
      BY <2>1 DEF BoardsInv
    <2> QED  BY <1>4, <2>2, EndJob DEF Stop, BoardsInv, BoardsTypeOK
  <1> QED  BY <1>1, <1>2, <1>3, <1>4 DEF BoardsNext

(* linked_resource_repo.go:57-58: whatever runs beside a replacement, fails or
   is rolled back, a board shows each list with all its links or not at all. *)
THEOREM BoardsStayComplete == BoardsSpec => []BoardsInv
  <1>1. BoardsInit => BoardsInv  BY InitBoardsInv
  <1>2. BoardsInv /\ [BoardsNext]_bvars => BoardsInv'  BY BoardsStep
  <1> QED  BY <1>1, <1>2, PTL DEF BoardsSpec

(* A list reaches a board only by its own commit. *)
LEMMA OnlyCommits ==
    ASSUME BoardsInv, [BoardsNext]_bvars, NEW b \in BoardIds, NEW l \in Lists,
           l \in On(b)', l \notin On(b)
    PROVE  Commit(l) /\ tx[l].board = b
  <1>1. PICK u \in Urls : <<l, u>> \in links'[b]  BY DEF On, UrlsOf
  <1>2. <<l, u>> \notin links[b]  BY DEF On, UrlsOf
  <1>3. PICK k \in Lists : Commit(k)
    <2>1. links' # links  BY <1>1, <1>2
    <2> QED  BY <2>1 DEF BoardsNext, bvars, InsertBoard, LogCreated, Stop, Replace,
                         StartDelete, EndDelete, LogReplaced, Rollback
  <1>4. /\ tx[k].board \in BoardIds
        /\ links'[tx[k].board] = (links[tx[k].board] \ tx[k].gone) \cup ({k} \X Content[k])
        /\ \A bd \in BoardIds \ {tx[k].board} : links'[bd] = links[bd]
    BY <1>3, CommitFacts
  <1>5. tx[k].board = b  BY <1>1, <1>2, <1>4
  <1>6. <<l, u>> \in {k} \X Content[k]  BY <1>1, <1>2, <1>4, <1>5
  <1> QED  BY <1>3, <1>5, <1>6

LEMMA StepReplaces ==
    ASSUME BoardsInv, BoardsInv', [BoardsNext]_bvars, NEW b \in BoardIds
    PROVE  /\ \A l \in On(b)' : UrlsOf(l, b)' = Content[l]
           /\ \A l \in On(b)' \ On(b) : links'[b] \cap tx[l].sees = {}
           /\ \A l \in Lists : tx[l].at \in Settled /\ l \notin On(b) => l \notin On(b)'
  <1>1. ASSUME NEW l \in Lists, l \in On(b)' PROVE UrlsOf(l, b)' = Content[l]
    <2>1. Complete(links'[b])  BY DEF BoardsInv
    <2>2. UrlsOf(l, b)' = {u \in Urls : <<l, u>> \in links'[b]}  BY DEF UrlsOf
    <2>3. PICK u \in Urls : <<l, u>> \in links'[b]  BY <1>1 DEF On, UrlsOf
    <2> QED  BY <2>1, <2>2, <2>3, BoardsConstants DEF Complete
  <1>2. ASSUME NEW l \in Lists, l \in On(b)', l \notin On(b)
        PROVE  links'[b] \cap tx[l].sees = {}
    <2>1. /\ tx[l].at = "insert" /\ tx[l].board = b
          /\ links'[b] = (links[b] \ tx[l].gone) \cup ({l} \X Content[l])
      BY <1>2, OnlyCommits, CommitFacts
    <2>2. tx[l].sees \cap links[b] \subseteq tx[l].gone /\ tx[l].sees \subseteq Past
      BY <2>1 DEF BoardsInv
    <2>3. \A u : <<l, u>> \notin Past  BY <2>1 DEF Past, Settled
    <2> QED  BY <2>1, <2>2, <2>3
  <1>3. ASSUME NEW l \in Lists, tx[l].at \in Settled, l \notin On(b), l \in On(b)' PROVE FALSE
    <2>1. Commit(l)  BY <1>3, OnlyCommits
    <2> QED  BY <1>3, <2>1 DEF Commit, Settled
  <1>4. On(b)' \subseteq Lists  BY DEF On
  <1> QED  BY <1>1, <1>2, <1>3, <1>4

(* A committed list is there as a whole, with nothing of what its replacement
   found, and one that was replaced never comes back. *)
THEOREM BoardsReplaceLists == BoardsSpec => ListsReplaced
  <1>1. BoardsInv /\ BoardsInv' /\ [BoardsNext]_bvars =>
          [\A b \in BoardIds :
             /\ \A l \in On(b)' : UrlsOf(l, b)' = Content[l]
             /\ \A l \in On(b)' \ On(b) : links'[b] \cap tx[l].sees = {}
             /\ \A l \in Lists : tx[l].at \in {"log", "done"} /\ l \notin On(b)
                                    => l \notin On(b)']_bvars
    BY StepReplaces DEF Settled
  <1>2. BoardsSpec => []BoardsInv  BY BoardsStayComplete
  <1> QED  BY <1>1, <1>2, PTL DEF BoardsSpec, ListsReplaced

-----------------------------------------------------------------------------
(* Sessions. *)
LEMMA SessionStep ==
    ASSUME BoardsTypeOK, [SessionNext]_svars PROVE [BoardsNext]_bvars
  <1>1. CASE UNCHANGED svars  BY <1>1 DEF svars, bvars
  <1>2. ASSUME NEW c \in Calls, Request(c) PROVE [BoardsNext]_bvars
    <2>1. ASSUME NEW b \in BoardIds, CreateBoard(c, b) PROVE BoardsNext
      BY <2>1 DEF CreateBoard, BoardsNext
    <2>2. ASSUME LogBoard(c) PROVE BoardsNext
      <3>1. LogCreated(call[c].board)  BY <2>2 DEF LogBoard
      <3>2. call[c].board \in BoardIds  BY <3>1 DEF LogCreated, BoardsTypeOK
      <3> QED  BY <3>1, <3>2 DEF BoardsNext
    <2>3. ASSUME \/ \E t \in Tabs : Ask(c, t) \/ SignIn(c, t)
                 \/ StoreKey(c) \/ Welcome(c) \/ Admit(c) \/ Reject(c)
                 \/ FailBoard(c) \/ Encrypt(c) \/ Drop(c)
          PROVE  UNCHANGED bvars
      BY <2>3 DEF Ask, SignIn, StoreKey, Welcome, Admit, Reject, FailBoard, Encrypt, Drop
    <2> QED  BY <1>2, <2>1, <2>2, <2>3 DEF Request
  <1>3. CASE \E u \in Users : Logout(u)  BY <1>3 DEF Logout
  <1>4. CASE Restart  BY <1>4 DEF Restart, BoardsNext
  <1>5. CASE \E l \in Lists : Replace(l) /\ UNCHANGED <<store, call>>
    BY <1>5 DEF BoardsNext
  <1> QED  BY <1>1, <1>2, <1>3, <1>4, <1>5 DEF SessionNext

(* Behind the encrypted route and its sessions, with restarts at any time, the
   boards are those of Boards: sign-ins, refusals and answers leave them alone
   and only stored boards are logged. *)
THEOREM SessionImplementsBoards == SessionSpec => ImplementsBoards
  <1>1. SessionInit => BoardsInit /\ BoardsInv  BY InitBoardsInv DEF SessionInit
  <1>2. BoardsInv /\ [SessionNext]_svars => BoardsInv' /\ [BoardsNext]_bvars
    BY SessionStep, BoardsStep DEF BoardsInv
  <1> QED  BY <1>1, <1>2, PTL DEF SessionSpec, ImplementsBoards, BoardsSpec

(* What Boards promises of the lists therefore holds behind the sessions. *)
THEOREM SessionReplacesLists == SessionSpec => ListsReplaced
  BY SessionImplementsBoards, BoardsReplaceLists DEF ImplementsBoards

-----------------------------------------------------------------------------
(* The calls of a state that SessionInv describes, and their types. *)
LEMMA CallFields ==
    ASSUME SessionTypeOK, NEW c \in Calls
    PROVE  /\ call[c] \in CallRecords
           /\ call[c].tab \in Tabs \cup {NoTab}
           /\ call[c].with \in Keys \cup {NoKey} /\ call[c].key \in Keys \cup {NoKey}
  BY DEF SessionTypeOK, CallRecords

LEMMA NoCallIsCall ==
    /\ NoCall \in CallRecords /\ NoCall.at = "idle"
  BY DEF NoCall, CallRecords, CallSteps

LEMMA InitSessionInv == ASSUME SessionInit PROVE SessionInv
  <1>1. BoardsTypeOK  BY InitBoardsInv DEF SessionInit, BoardsInv
  <1>2. SessionTypeOK
    BY <1>1, NoCallIsCall, SessionConstants DEF SessionInit, SessionTypeOK, NoKey
  <1>3. \A c \in Calls : CallInv(c)  BY NoCallIsCall DEF SessionInit, CallInv
  <1>4. KeysApart /\ KeysInv
    BY <1>2, SessionConstants DEF SessionInit, KeysApart, KeysInv, NoKey
  <1> QED  BY <1>3, <1>4 DEF SessionInv

(* One call goes on and no key is drawn, stored, retired or answered. *)
LEMMA CallMoves ==
    ASSUME SessionInv, NEW c \in Calls, NEW r \in CallRecords,
           call' = [call EXCEPT ![c] = r], UNCHANGED store, BoardsTypeOK',
           r.at # "store", CallInv(c)'
    PROVE  SessionInv'
  <1>1. call'[c] = r /\ \A d \in Calls \ {c} : call'[d] = call[d]
    BY DEF SessionInv, KeysInv, SessionTypeOK
  <1>2. SessionTypeOK'  BY DEF SessionInv, KeysInv, SessionTypeOK, store
  <1>3. KeysInv' /\ KeysApart'  BY <1>2 DEF SessionInv, KeysInv, KeysApart, store
  <1>4. ASSUME NEW d \in Calls, d # c PROVE CallInv(d)'
    BY <1>1, <1>4 DEF SessionInv, CallInv, User, store
  <1> QED  BY <1>3, <1>4 DEF SessionInv

LEMMA AskRecord ==
    ASSUME SessionTypeOK, NEW c \in Calls, NEW t \in Tabs, Ask(c, t)
    PROVE  \E r \in CallRecords : /\ call' = [call EXCEPT ![c] = r]
                                  /\ r.at = "sent" /\ r.tab = t
                                  /\ r.late => r.with \in retired
  <1> DEFINE r(late) == [NoCall EXCEPT !.at = "sent", !.tab = t, !.with = held[t], !.late = late]
  <1>1. held[t] \in Keys \cup {NoKey}
    BY SessionConstants DEF SessionTypeOK, Keys, NoKey
  <1>2. \A late \in BOOLEAN : /\ r(late) \in CallRecords /\ r(late).at = "sent"
                              /\ r(late).tab = t /\ r(late).with = held[t]
                              /\ r(late).late = late
    BY <1>1 DEF NoCall, CallRecords, CallSteps
  <1>3. call' = [call EXCEPT ![c] = r(held[t] \in retired)]  BY Zenon DEF Ask
  <1> HIDE DEF r
  <1>4. CASE held[t] \in retired
    <2>1. (held[t] \in retired) = TRUE  BY <1>4
    <2>2. call' = [call EXCEPT ![c] = r(TRUE)]  BY <1>3, <2>1
    <2>3. r(TRUE) \in CallRecords  BY <1>2
    <2> WITNESS r(TRUE) \in CallRecords
    <2> QED  BY <1>2, <1>4, <2>2
  <1>5. CASE held[t] \notin retired
    <2>1. (held[t] \in retired) = FALSE  BY <1>5
    <2>2. call' = [call EXCEPT ![c] = r(FALSE)]  BY <1>3, <2>1
    <2>3. r(FALSE) \in CallRecords  BY <1>2
    <2> WITNESS r(FALSE) \in CallRecords
    <2> QED  BY <1>2, <2>2
  <1> QED  BY <1>4, <1>5

LEMMA RequestStep ==
    ASSUME SessionInv, BoardsTypeOK', NEW c \in Calls,
           \/ \E t \in Tabs : Ask(c, t)
           \/ Admit(c) \/ Reject(c) \/ FailBoard(c) \/ Encrypt(c) \/ Drop(c)
           \/ \E b \in BoardIds : CreateBoard(c, b)
           \/ LogBoard(c)
    PROVE  SessionInv'
  <1> DEFINE Moved(r) == call' = [call EXCEPT ![c] = r] /\ call'[c] = r /\ r \in CallRecords
  <1>t. SessionTypeOK /\ call[c] \in CallRecords /\ CallInv(c)
    BY CallFields DEF SessionInv, KeysInv
  <1>m. ASSUME NEW r \in CallRecords, call' = [call EXCEPT ![c] = r] PROVE Moved(r)
    BY <1>t, <1>m DEF SessionTypeOK
  <1>1. ASSUME NEW t \in Tabs, Ask(c, t) PROVE SessionInv'
    <2>1. PICK r \in CallRecords : /\ call' = [call EXCEPT ![c] = r]
                                   /\ r.at = "sent" /\ r.tab = t
                                   /\ r.late => r.with \in retired
      BY <1>t, <1>1, AskRecord
    <2>2. UNCHANGED store  BY <1>1 DEF Ask
    <2>3. Moved(r)  BY <1>m, <2>1
    <2>4. CallInv(c)'  BY <2>1, <2>2, <2>3 DEF CallInv, store
    <2> QED  BY <2>1, <2>2, <2>3, <2>4, CallMoves
  <1>2. CASE Admit(c)
    <2> DEFINE r == [call[c] EXCEPT !.at = "run", !.key = keys[User(c)]]
    <2>1. /\ call[c].at = "sent" /\ keys[User(c)] = call[c].with /\ UNCHANGED store
          /\ call' = [call EXCEPT ![c] = r]
      BY <1>2 DEF Admit
    <2>2. /\ r \in CallRecords /\ r.at = "run" /\ r.with = call[c].with
          /\ r.key = call[c].with /\ r.late = call[c].late
      BY <1>t, <2>1, CallFields DEF CallRecords, CallSteps
    <2>3. call[c].tab \in Tabs /\ (call[c].late => call[c].with \in retired)
      BY <1>t, <2>1 DEF CallInv
    <2>4. User(c) \in Users  BY <2>3, SessionConstants DEF User
    <2>5. ~call[c].late  BY <2>1, <2>3, <2>4 DEF SessionInv, KeysInv
    <2>6. Moved(r)  BY <1>m, <2>1, <2>2
    <2> HIDE DEF r
    <2>7. CallInv(c)'  BY <2>2, <2>5, <2>6 DEF CallInv
    <2> QED  BY <2>1, <2>2, <2>6, <2>7, CallMoves
  <1>3. CASE Reject(c) \/ Drop(c)
    <2>1. call' = [call EXCEPT ![c] = NoCall] /\ UNCHANGED store
      BY <1>3 DEF Reject, Drop, EndCall
    <2>2. Moved(NoCall)  BY <1>m, <2>1, NoCallIsCall
    <2>3. CallInv(c)'  BY <2>2, NoCallIsCall DEF CallInv
    <2> QED  BY <2>1, <2>2, <2>3, NoCallIsCall, CallMoves
  <1>4. CASE FailBoard(c) \/ LogBoard(c) \/ Encrypt(c) \/ \E b \in BoardIds : CreateBoard(c, b)
    <2>1. PICK r \in CallRecords :
               /\ call' = [call EXCEPT ![c] = r] /\ UNCHANGED store
               /\ call[c].at \in {"run", "log", "encrypt"}
               /\ r.at \in {"log", "encrypt", "answer"}
               /\ r.with = call[c].with /\ r.key = call[c].key /\ r.late = call[c].late
      <3>1. CASE FailBoard(c)
        <4>1. [call[c] EXCEPT !.at = "encrypt"] \in CallRecords
          BY <1>t DEF CallRecords, CallSteps
        <4> WITNESS [call[c] EXCEPT !.at = "encrypt"] \in CallRecords
        <4> QED  BY <1>t, <3>1 DEF FailBoard, CallRecords, CallSteps
      <3>2. CASE LogBoard(c)
        <4>1. [call[c] EXCEPT !.at = "encrypt"] \in CallRecords
          BY <1>t DEF CallRecords, CallSteps
        <4> WITNESS [call[c] EXCEPT !.at = "encrypt"] \in CallRecords
        <4> QED  BY <1>t, <3>2 DEF LogBoard, CallRecords, CallSteps
      <3>3. CASE Encrypt(c)
        <4>1. [call[c] EXCEPT !.at = "answer"] \in CallRecords
          BY <1>t DEF CallRecords, CallSteps
        <4> WITNESS [call[c] EXCEPT !.at = "answer"] \in CallRecords
        <4> QED  BY <1>t, <3>3 DEF Encrypt, CallRecords, CallSteps
      <3>4. ASSUME NEW b \in BoardIds, CreateBoard(c, b)
            PROVE  \E r \in CallRecords :
                      /\ call' = [call EXCEPT ![c] = r] /\ UNCHANGED store
                      /\ call[c].at \in {"run", "log", "encrypt"}
                      /\ r.at \in {"log", "encrypt", "answer"}
                      /\ r.with = call[c].with /\ r.key = call[c].key /\ r.late = call[c].late
        <4>1. [call[c] EXCEPT !.at = "log", !.board = b] \in CallRecords
          BY <1>t DEF CallRecords, CallSteps
        <4> WITNESS [call[c] EXCEPT !.at = "log", !.board = b] \in CallRecords
        <4> QED  BY <1>t, <3>4 DEF CreateBoard, CallRecords, CallSteps
      <3> QED  BY <1>4, <3>1, <3>2, <3>3, <3>4
    <2>2. Moved(r)  BY <1>m, <2>1
    <2>3. CallInv(c)'  BY <1>t, <2>1, <2>2 DEF CallInv
    <2> QED  BY <2>1, <2>2, <2>3, CallMoves
  <1> QED  BY <1>1, <1>2, <1>3, <1>4

LEMMA SignInStep ==
    ASSUME SessionInv, NEW c \in Calls, NEW t \in Tabs, SignIn(c, t) PROVE SessionInv'
  <1> DEFINE r == [NoCall EXCEPT !.at = "store", !.tab = t, !.key = drawn + 1]
  <1>1. /\ call' = [call EXCEPT ![c] = r] /\ drawn' = drawn + 1 /\ drawn < MaxKeys
        /\ UNCHANGED <<bvars, keys, held, retired>>
    BY DEF SignIn
  <1>2. drawn \in Nat /\ MaxKeys \in Nat /\ SessionTypeOK
    BY SessionConstants DEF SessionInv, KeysInv, SessionTypeOK
  <1>3. drawn + 1 \in Keys  BY <1>1, <1>2 DEF Keys
  <1>4. r \in CallRecords /\ r.at = "store" /\ r.tab = t /\ r.key = drawn + 1
    BY <1>3 DEF NoCall, CallRecords, CallSteps
  <1> HIDE DEF r
  <1>5. call'[c] = r /\ \A d \in Calls \ {c} : call'[d] = call[d]
    BY <1>1, <1>2 DEF SessionTypeOK
  <1>6. SessionTypeOK'
    BY <1>1, <1>2, <1>4 DEF SessionTypeOK, BoardsTypeOK, bvars
  <1>7. KeysInv' /\ KeysApart'
    BY <1>1, <1>2, <1>6 DEF SessionInv, KeysInv, KeysApart, SessionTypeOK, Keys, NoKey
  <1>8. CallInv(c)'
    <2>1. drawn + 1 \in 1..drawn' /\ drawn + 1 \notin retired  BY <1>1, <1>2 DEF SessionTypeOK
    <2>2. \A u \in Users : keys[u] \in Nat /\ keys[u] <= drawn
      BY <1>2 DEF SessionInv, KeysApart, SessionTypeOK, Keys, NoKey
    <2>3. ASSUME NEW d \in Calls, d # c, call[d].at = "store" PROVE call[d].key # drawn + 1
      BY <1>2, <2>3 DEF SessionInv, CallInv
    <2> QED  BY <1>1, <1>2, <1>4, <1>5, <2>1, <2>2, <2>3 DEF CallInv
  <1>9. ASSUME NEW d \in Calls, d # c PROVE CallInv(d)'
    <2>1. call'[d] = call[d] /\ CallInv(d)  BY <1>5, <1>9 DEF SessionInv
    <2>2. \A k \in 1..drawn : k \in 1..drawn' /\ k # drawn + 1  BY <1>1, <1>2
    <2>3. User(d)' = User(d)  BY <2>1 DEF User
    <2>4. CASE call[d].at = "store"
      BY <1>1, <1>4, <1>5, <2>1, <2>2, <2>4 DEF CallInv
    <2>5. CASE call[d].at # "store"
      BY <1>1, <2>1, <2>2, <2>3, <2>5 DEF CallInv
    <2> QED  BY <2>4, <2>5
  <1> QED  BY <1>7, <1>8, <1>9 DEF SessionInv

LEMMA StoreKeyStep ==
    ASSUME SessionInv, NEW c \in Calls, StoreKey(c) PROVE SessionInv'
  <1> DEFINE u == User(c)
             new == call[c].key
             old == keys[u]
             r == [call[c] EXCEPT !.at = "welcome"]
  <1>1. /\ call[c].at = "store" /\ keys' = [keys EXCEPT ![u] = new]
        /\ retired' = retired \cup ({old} \ {NoKey})
        /\ call' = [call EXCEPT ![c] = r]
        /\ UNCHANGED <<bvars, drawn, held>>
    BY DEF StoreKey
  <1>2. SessionTypeOK /\ call[c] \in CallRecords
    BY CallFields DEF SessionInv, KeysInv
  <1>3. /\ call[c].tab \in Tabs /\ new \in 1..drawn /\ new \notin retired
        /\ \A w \in Users : keys[w] # new
        /\ \A d \in Calls : call[d].at = "store" /\ call[d].key = new => d = c
    BY <1>1 DEF SessionInv, CallInv
  <1>4. u \in Users /\ old \in Keys \cup {NoKey} /\ old <= drawn /\ drawn \in 0..MaxKeys
    BY <1>2, <1>3, SessionConstants DEF User, SessionTypeOK, SessionInv, KeysApart
  <1>5. /\ r \in CallRecords /\ r.at = "welcome" /\ r.tab = call[c].tab /\ r.key = new
    BY <1>2 DEF CallRecords, CallSteps
  <1> HIDE DEF r
  <1>6. call'[c] = r /\ \A d \in Calls \ {c} : call'[d] = call[d]
    BY <1>1, <1>2 DEF SessionTypeOK
  <1>7. keys'[u] = new /\ \A w \in Users \ {u} : keys'[w] = keys[w]
    BY <1>1, <1>2, <1>4 DEF SessionTypeOK
  <1>8. SessionTypeOK'
    <2>1. new \in Keys  BY <1>3, <1>4, SessionConstants DEF Keys
    <2>2. retired' \subseteq 1..drawn
      <3>1. old # NoKey => old \in 1..drawn
        BY <1>4, SessionConstants DEF Keys, NoKey
      <3>2. retired \subseteq 1..drawn  BY <1>2 DEF SessionTypeOK
      <3> QED  BY <1>1, <3>1, <3>2
    <2> QED  BY <1>1, <1>2, <1>4, <1>5, <2>1, <2>2 DEF SessionTypeOK, BoardsTypeOK, bvars
  <1>9. \A w \in Users \ {u} : keys[w] = old => keys[w] = NoKey
    BY <1>4 DEF SessionInv, KeysApart
  <1>10. KeysApart'
    BY <1>1, <1>3, <1>4, <1>7, SessionConstants DEF SessionInv, KeysApart
  <1>11. KeysInv'
    <2>1. ASSUME NEW t \in Tabs, held[t] # NoKey
          PROVE  held[t] = keys'[Owner[t]] \/ held[t] \in retired'
      <3>1. held[t] = keys[Owner[t]] \/ held[t] \in retired  BY <2>1 DEF SessionInv, KeysInv
      <3>2. Owner[t] \in Users  BY SessionConstants
      <3> QED  BY <1>1, <1>7, <2>1, <3>1, <3>2
    <2>2. ASSUME NEW w \in Users PROVE keys'[w] \notin retired'
      <3>1. keys[w] \notin retired  BY DEF SessionInv, KeysInv
      <3> QED  BY <1>1, <1>3, <1>4, <1>7, <1>9, <3>1
    <2> QED  BY <1>1, <1>8, <2>1, <2>2 DEF KeysInv
  <1>12. CallInv(c)'
    <2>1. User(c)' = u  BY <1>5, <1>6 DEF User
    <2> QED  BY <1>1, <1>3, <1>5, <1>6, <1>7, <2>1 DEF CallInv
  <1>13. ASSUME NEW d \in Calls, d # c PROVE CallInv(d)'
    <2>1. call'[d] = call[d] /\ CallInv(d) /\ User(d)' = User(d)
      BY <1>6, <1>13 DEF SessionInv, User
    <2>2. CASE call[d].at = "store"
      <3>1. call[d].key # new /\ call[d].key # old
        BY <1>3, <1>4, <1>13, <2>1, <2>2 DEF CallInv
      <3>2. \A w \in Users : keys'[w] # call[d].key
        BY <1>7, <2>1, <2>2, <3>1 DEF CallInv
      <3> QED  BY <1>1, <1>5, <1>6, <2>1, <2>2, <3>1, <3>2 DEF CallInv
    <2>3. CASE call[d].at = "welcome"
      <3>1. /\ call[d].tab \in Tabs /\ call[d].key \in 1..drawn
            /\ call[d].key = keys[User(d)] \/ call[d].key \in retired
        BY <2>1, <2>3 DEF CallInv
      <3>2. User(d) \in Users  BY <3>1, SessionConstants DEF User
      <3>3. call[d].key = keys'[User(d)] \/ call[d].key \in retired'
        BY <1>1, <1>4, <1>7, <3>1, <3>2 DEF NoKey
      <3> QED  BY <1>1, <2>1, <2>3, <3>1, <3>3 DEF CallInv
    <2>4. CASE call[d].at \notin {"store", "welcome"}
      BY <1>1, <2>1, <2>4 DEF CallInv
    <2> QED  BY <2>2, <2>3, <2>4
  <1> QED  BY <1>10, <1>11, <1>12, <1>13 DEF SessionInv

LEMMA WelcomeStep ==
    ASSUME SessionInv, NEW c \in Calls, Welcome(c) PROVE SessionInv'
  <1> DEFINE t == call[c].tab
  <1>1. /\ call[c].at = "welcome" /\ held' = [held EXCEPT ![t] = call[c].key]
        /\ call' = [call EXCEPT ![c] = NoCall]
        /\ UNCHANGED <<bvars, keys, drawn, retired>>
    BY DEF Welcome, EndCall
  <1>2. /\ t \in Tabs /\ call[c].key \in 1..drawn
        /\ call[c].key = keys[Owner[t]] \/ call[c].key \in retired
    BY <1>1 DEF SessionInv, CallInv, User
  <1>3. SessionTypeOK  BY DEF SessionInv, KeysInv
  <1>4. SessionTypeOK'
    BY <1>1, <1>2, <1>3, NoCallIsCall DEF SessionTypeOK, BoardsTypeOK, bvars
  <1>5. call'[c] = NoCall /\ \A d \in Calls \ {c} : call'[d] = call[d]
    BY <1>1, <1>3 DEF SessionTypeOK
  <1>6. held'[t] = call[c].key /\ \A s \in Tabs \ {t} : held'[s] = held[s]
    BY <1>1, <1>2, <1>3 DEF SessionTypeOK
  <1>7. KeysInv' /\ KeysApart'
    BY <1>1, <1>2, <1>4, <1>6 DEF SessionInv, KeysInv, KeysApart
  <1>8. CallInv(c)'  BY <1>5, NoCallIsCall DEF CallInv
  <1>9. ASSUME NEW d \in Calls, d # c PROVE CallInv(d)'
    <2>1. call'[d] = call[d] /\ CallInv(d) /\ User(d)' = User(d)
      BY <1>5, <1>9 DEF SessionInv, User
    <2> QED  BY <1>1, <1>5, <2>1, NoCallIsCall DEF CallInv
  <1> QED  BY <1>7, <1>8, <1>9 DEF SessionInv

LEMMA LogoutStep ==
    ASSUME SessionInv, NEW u \in Users, Logout(u) PROVE SessionInv'
  <1>1. /\ keys[u] # NoKey /\ keys' = [keys EXCEPT ![u] = NoKey]
        /\ retired' = retired \cup {keys[u]}
        /\ UNCHANGED <<bvars, drawn, held, call>>
    BY DEF Logout
  <1>2. SessionTypeOK /\ drawn \in 0..MaxKeys /\ keys[u] \in 1..drawn
    BY <1>1, SessionConstants DEF SessionInv, KeysInv, KeysApart, SessionTypeOK, Keys, NoKey
  <1>3. SessionTypeOK'
    BY <1>1, <1>2 DEF SessionTypeOK, BoardsTypeOK, bvars
  <1>4. keys'[u] = NoKey /\ \A w \in Users \ {u} : keys'[w] = keys[w]
    BY <1>1, <1>2 DEF SessionTypeOK
  <1>5. KeysApart'
    BY <1>1, <1>2, <1>4 DEF SessionInv, KeysApart, NoKey
  <1>6. \A w \in Users : keys'[w] \notin retired'
    BY <1>1, <1>2, <1>4 DEF SessionInv, KeysInv, KeysApart, SessionTypeOK, NoKey
  <1>7. KeysInv'
    BY <1>1, <1>3, <1>4, <1>6, SessionConstants DEF SessionInv, KeysInv
  <1>8. ASSUME NEW d \in Calls PROVE CallInv(d)'
    <2>1. CallInv(d) /\ User(d)' = User(d) /\ call'[d] = call[d]
      BY <1>1 DEF SessionInv, User
    <2>2. CASE call[d].at = "store"
      BY <1>1, <1>4, <2>1, <2>2 DEF CallInv, NoKey
    <2>3. CASE call[d].at = "welcome"
      <3>1. User(d) \in Users  BY <2>1, <2>3, SessionConstants DEF CallInv, User
      <3> QED  BY <1>1, <1>4, <2>1, <2>3, <3>1 DEF CallInv
    <2>4. CASE call[d].at \notin {"store", "welcome"}
      BY <1>1, <2>1, <2>4 DEF CallInv
    <2> QED  BY <2>2, <2>3, <2>4
  <1> QED  BY <1>5, <1>7, <1>8 DEF SessionInv

LEMMA RestartStep == ASSUME SessionInv, BoardsTypeOK', Restart PROVE SessionInv'
  <1>1. /\ retired' = 1..drawn /\ keys' = [u \in Users |-> NoKey]
        /\ call' = [c \in Calls |-> NoCall] /\ UNCHANGED <<drawn, held>>
    BY DEF Restart
  <1>2. SessionTypeOK  BY DEF SessionInv, KeysInv
  <1>3. SessionTypeOK'  BY <1>1, <1>2, NoCallIsCall DEF SessionTypeOK
  <1>4. KeysInv' /\ KeysApart'
    BY <1>1, <1>2, <1>3 DEF KeysInv, KeysApart, SessionTypeOK, NoKey
  <1>5. \A c \in Calls : CallInv(c)'  BY <1>1, NoCallIsCall DEF CallInv
  <1> QED  BY <1>4, <1>5 DEF SessionInv

LEMMA NextSessionInv ==
    ASSUME SessionInv, BoardsTypeOK', [SessionNext]_svars PROVE SessionInv'
  <1>1. ASSUME UNCHANGED <<keys, drawn, held, retired, call>> PROVE SessionInv'
    <2>1. SessionTypeOK'  BY <1>1 DEF SessionInv, KeysInv, SessionTypeOK
    <2>2. \A c \in Calls : CallInv(c)'  BY <1>1 DEF SessionInv, CallInv, User
    <2> QED  BY <1>1, <2>1, <2>2 DEF SessionInv, KeysInv, KeysApart
  <1>2. CASE UNCHANGED svars  BY <1>1, <1>2 DEF svars
  <1>3. ASSUME NEW c \in Calls, Request(c) PROVE SessionInv'
    BY <1>3, RequestStep, SignInStep, StoreKeyStep, WelcomeStep DEF Request
  <1>4. CASE \E l \in Lists : Replace(l) /\ UNCHANGED <<store, call>>
    BY <1>1, <1>4 DEF store
  <1> QED  BY <1>2, <1>3, <1>4, LogoutStep, RestartStep DEF SessionNext

(* The inductive invariant of the session keys and of the boards behind them. *)
THEOREM SpecSessionInv == SessionSpec => [](SessionInv /\ BoardsInv)
  <1>1. SessionInit => SessionInv /\ BoardsInv
    BY InitSessionInv, InitBoardsInv DEF SessionInit
  <1>2. SessionInv /\ BoardsInv /\ [SessionNext]_svars => SessionInv' /\ BoardsInv'
    <2> SUFFICES ASSUME SessionInv, BoardsInv, [SessionNext]_svars
                 PROVE  SessionInv' /\ BoardsInv'
      OBVIOUS
    <2>1. BoardsInv'  BY SessionStep, BoardsStep DEF BoardsInv
    <2>2. BoardsTypeOK'  BY <2>1 DEF BoardsInv
    <2> QED  BY <2>1, <2>2, NextSessionInv
  <1> QED  BY <1>1, <1>2, PTL DEF SessionSpec

(* A tab's key is the user's current one or was retired, and a retired key is
   nobody's: session_store.go and the sign-ins over it. *)
THEOREM SpecKeysInv == SessionSpec => []KeysInv
  BY SpecSessionInv, PTL DEF SessionInv

(* encrypt.go:72-101 lets no body through that was encrypted with a key retired
   before it was sent. *)
THEOREM SpecRetiredRunsNothing == SessionSpec => []RetiredRunsNothing
  <1>1. SessionInv => RetiredRunsNothing  BY DEF SessionInv, CallInv, RetiredRunsNothing
  <1> QED  BY <1>1, SpecSessionInv, PTL

(* encrypt.go:113 encrypts the answer with the key the body was opened with. *)
THEOREM SpecAnswerReadable == SessionSpec => []AnswerReadable
  <1>1. SessionInv => AnswerReadable  BY DEF SessionInv, CallInv, AnswerReadable
  <1> QED  BY <1>1, SpecSessionInv, PTL
=============================================================================
