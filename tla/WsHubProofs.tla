---------------------------- MODULE WsHubProofs ----------------------------
(* Type correctness of WsHub, the safety of closing send channels, who is handed
   a message, and what neighbours in a room know of each other. *)
EXTENDS WsHub, TLAPS

-----------------------------------------------------------------------------
(* Typing of the operators the actions are built from *)

(* Every goroutine's name is one, and belongs to a server. *)
LEMMA NamesTyped ==
    /\ \A c \in Clients : Conn(c) \in Goroutines
    /\ \A s \in Servers : Loop(s) \in Goroutines /\ Sub(s) \in Goroutines
                          /\ Http(s) \in Goroutines
BY DEF Conn, Loop, Sub, Http, Goroutines

(* The server of a goroutine is one of the servers. *)
LEMMA ServerOfType == \A t \in Goroutines : ServerOf(t) \in Servers
BY HubConstants DEF ServerOf, Goroutines

(* Goroutines are told apart by their names. *)
LEMMA NamesDistinct ==
    /\ \A c, d \in Clients : Conn(c) = Conn(d) => c = d
    /\ \A c \in Clients, s \in Servers :
          Conn(c) # Loop(s) /\ Conn(c) # Sub(s) /\ Conn(c) # Http(s)
    /\ \A r, s \in Servers : Loop(r) # Sub(s) /\ Loop(r) # Http(s)
    /\ \A r, s \in Servers : Loop(r) = Loop(s) => r = s
    /\ \A c \in Clients : ServerOf(Conn(c)) = HostOf[c]
    /\ \A s \in Servers : ServerOf(Loop(s)) = s /\ ServerOf(Sub(s)) = s
BY DEF Conn, Loop, Sub, Http, ServerOf

(* A new envelope is an envelope. *)
LEMMA EnvelopeType ==
    ASSUME NEW s \in Servers, NEW f \in Flows, NEW k \in Kinds, NEW u \in Users,
           NEW x \in Users \cup {NoUser}
    PROVE  Envelope(s, f, k, u, x) \in Envelopes
BY DEF Envelope, Envelopes

(* Recording one more recipient keeps an envelope an envelope. *)
LEMMA EnvelopeReached ==
    ASSUME NEW e \in Envelopes, NEW c \in Clients
    PROVE  [e EXCEPT !.reached = @ \cup {c}] \in Envelopes
BY DEF Envelopes

(* A goroutine whose range loop forgets a recipient still has the same message. *)
SameMessage(d, e) ==
    /\ d.source = e.source /\ d.flow = e.flow /\ d.kind = e.kind
    /\ d.user = e.user /\ d.exclude = e.exclude
    /\ d.reached \subseteq e.reached

LEMMA ForgottenMessages ==
    ASSUME WorkOK, NEW c \in Clients, NEW f \in Flows
    PROVE  /\ Forgotten(c, f) \in [Goroutines -> Envelopes \cup {NoEnvelope}]
           /\ \A t \in Goroutines : stage[t] # "idle" =>
                 /\ Forgotten(c, f)[t] \in Envelopes
                 /\ SameMessage(Forgotten(c, f)[t], env[t])
<1>1. ASSUME NEW t \in Goroutines, RangesOver(t, HostOf[c], f)
      PROVE  /\ env[t] \in Envelopes
             /\ [env[t] EXCEPT !.reached = @ \ {c}] \in Envelopes
             /\ SameMessage([env[t] EXCEPT !.reached = @ \ {c}], env[t])
  <2>1. env[t] \in Envelopes
    BY <1>1 DEF WorkOK, RangesOver
  <2> QED
    BY <2>1 DEF Envelopes, SameMessage
<1>2. ASSUME NEW t \in Goroutines
      PROVE  /\ Forgotten(c, f)[t] \in Envelopes \cup {NoEnvelope}
             /\ stage[t] # "idle" => /\ Forgotten(c, f)[t] \in Envelopes
                                    /\ SameMessage(Forgotten(c, f)[t], env[t])
  <2>1. CASE RangesOver(t, HostOf[c], f)
    BY <1>1, <2>1 DEF Forgotten
  <2>2. CASE ~RangesOver(t, HostOf[c], f)
    BY <2>2 DEF Forgotten, WorkOK, SameMessage
  <2> QED
    BY <2>1, <2>2
<1> QED
  BY <1>2 DEF Forgotten

(* What a connection hears is a set of users per flow. *)
LEMMA HearsType ==
    ASSUME TypeOK, NEW e \in Envelopes, NEW c \in Clients
    PROVE  Hears(c, e) \in [Flows -> SUBSET Users]
BY DEF Hears, TypeOK, QueuesOK, Envelopes

(* The clients of a room on one server are clients. *)
LEMMA LocalRoomType ==
    ASSUME MapsOK, NEW s \in Servers, NEW f \in Flows
    PROVE  LocalRoom(s, f) \subseteq Clients
BY DEF MapsOK, LocalRoom

(* Queueing a message keeps the send buffers and the histories well typed. *)
LEMMA EnqueueType ==
    ASSUME QueuesOK, NEW c \in Clients, NEW news \in [Flows -> SUBSET Users],
           Enqueue(c, news), UNCHANGED inbox
    PROVE  QueuesOK'
<1>1. CASE buf[c] < SendBufSize
  <2>1. SendBufSize \in Nat \ {0}
    BY HubConstants
  <2>2. buf' = [buf EXCEPT ![c] = @ + 1] /\ told' = [told EXCEPT ![c] = news]
        /\ UNCHANGED lossy
    BY <1>1 DEF Enqueue
  <2>3. buf[c] + 1 \in 0..SendBufSize
    BY <1>1, <2>1 DEF QueuesOK
  <2> QED
    BY <2>2, <2>3 DEF QueuesOK
<1>2. CASE ~(buf[c] < SendBufSize)
  BY <1>2 DEF QueuesOK, Enqueue
<1> QED
  BY <1>1, <1>2

(* A goroutine that begins a broadcast of an envelope is well typed. *)
LEMMA BeginType ==
    ASSUME WorkOK, NEW t \in Goroutines, NEW e \in Envelopes,
           NEW w \in {"joined", "start"}, Begin(t, w, e)
    PROVE  WorkOK'
BY DEF WorkOK, Begin

(* A process that a detected map race ends leaves everything else alone. *)
LEMMA CrashByRaceType ==
    ASSUME TypeOK, NEW t \in Goroutines, NEW s \in Servers, NEW f \in Flows,
           CrashByRace(t, s, f)
    PROVE  LifeOK' /\ MapsOK' /\ WorkOK' /\ QueuesOK'
BY DEF CrashByRace, TypeOK, LifeOK, MapsOK, WorkOK, QueuesOK,
       lifeVars, mapVars, workVars, queueVars

-----------------------------------------------------------------------------
(* Every reachable state is well typed, and a goroutine in the middle of a
   broadcast holds an envelope. *)
THEOREM TypeCorrect == Spec => []TypeOK
<1>1. Init => TypeOK
  BY HubConstants DEF Init, TypeOK, LifeOK, MapsOK, WorkOK, QueuesOK, BoundsOK
<1>2. TypeOK /\ [Next]_vars => TypeOK'
  <2> SUFFICES ASSUME TypeOK, [Next]_vars PROVE TypeOK'
    OBVIOUS
  <2> USE HubConstants DEF lifeVars, mapVars, workVars, queueVars, boundVars
  <2>1. ASSUME NEW c \in Clients, Serve(c) PROVE TypeOK'
    BY <2>1 DEF TypeOK, LifeOK, MapsOK, WorkOK, QueuesOK, BoundsOK, Serve
  <2>2. ASSUME NEW c \in Clients, ReadError(c) PROVE TypeOK'
    BY <2>2 DEF TypeOK, LifeOK, MapsOK, WorkOK, QueuesOK, BoundsOK, ReadError
  <2>3. ASSUME NEW c \in Clients, Unregister(c) PROVE TypeOK'
    <3>1. LifeOK'
      BY <2>3 DEF TypeOK, LifeOK, Unregister
    <3> QED
      BY <2>3, <3>1 DEF TypeOK, MapsOK, WorkOK, QueuesOK, BoundsOK, Unregister
  <2>4. ASSUME NEW c \in Clients, WriteMessage(c) PROVE TypeOK'
    BY <2>4 DEF TypeOK, LifeOK, MapsOK, WorkOK, QueuesOK, BoundsOK, WriteMessage
  <2>5. ASSUME NEW c \in Clients, WriteError(c) PROVE TypeOK'
    <3>1. LifeOK'
      BY <2>5 DEF TypeOK, WriteError, LifeOK, MapsOK, WorkOK, QueuesOK, BoundsOK
    <3>2. MapsOK'
      BY <2>5 DEF TypeOK, WriteError, LifeOK, MapsOK, WorkOK, QueuesOK, BoundsOK
    <3>3. WorkOK'
      BY <2>5 DEF TypeOK, WriteError, LifeOK, MapsOK, WorkOK, QueuesOK, BoundsOK
    <3>4. QueuesOK'
      BY <2>5 DEF TypeOK, WriteError, LifeOK, MapsOK, WorkOK, QueuesOK, BoundsOK
    <3>5. BoundsOK'
      BY <2>5 DEF TypeOK, WriteError, LifeOK, MapsOK, WorkOK, QueuesOK, BoundsOK
    <3> QED
      BY <3>1, <3>2, <3>3, <3>4, <3>5 DEF TypeOK
  <2>6. ASSUME NEW c \in Clients, WriteClose(c) PROVE TypeOK'
    BY <2>6 DEF TypeOK, LifeOK, MapsOK, WorkOK, QueuesOK, BoundsOK, WriteClose
  <2>7. ASSUME NEW c \in Clients, BadFrame(c) PROVE TypeOK'
    <3>1. told[c] \in [Flows -> SUBSET Users]
      BY DEF TypeOK, QueuesOK
    <3>2. QueuesOK'
      BY <2>7, <3>1, EnqueueType DEF TypeOK, BadFrame
    <3>3. BoundsOK'
      BY <2>7 DEF TypeOK, BoundsOK, BadFrame, ReadFrame
    <3> QED
      BY <2>7, <3>2, <3>3 DEF TypeOK, LifeOK, MapsOK, WorkOK, BadFrame
  <2>8. ASSUME NEW c \in Clients, TakeRoster(c) PROVE TypeOK'
    <3>1. env[Conn(c)] \in Envelopes
      BY <2>8, NamesTyped DEF TypeOK, WorkOK, TakeRoster
    <3>2. LocalRoom(HostOf[c], env[Conn(c)].flow) \subseteq Clients
      BY <3>1, LocalRoomType DEF TypeOK, Envelopes
    <3>3. WorkOK'
      BY <2>8, <3>1, <3>2, NamesTyped DEF TypeOK, WorkOK, TakeRoster
    <3> QED
      BY <2>8, <3>3 DEF TypeOK, LifeOK, MapsOK, QueuesOK, BoundsOK, TakeRoster
  <2>9. ASSUME NEW c \in Clients, SendRoster(c) PROVE TypeOK'
    <3> DEFINE t == Conn(c)
               f == env[t].flow
    <3>1. t \in Goroutines /\ env[t] \in Envelopes /\ f \in Flows
      BY <2>9, NamesTyped DEF TypeOK, WorkOK, SendRoster, Envelopes
    <3>2. LocalRoom(HostOf[c], f) \subseteq Clients
      BY <3>1, LocalRoomType DEF TypeOK
    <3>3. PICK visited \in SUBSET (todo[t] \cup LocalRoom(HostOf[c], f)) :
             Enqueue(c, IF c \in lossy THEN told[c]
                        ELSE [told[c] EXCEPT ![f] = @ \cup
                                ({UserOf[x] : x \in visited} \ {UserOf[c]})])
      BY <2>9 DEF SendRoster
    <3>4. visited \subseteq Clients
      BY <3>1, <3>2 DEF TypeOK, WorkOK
    <3>5. {UserOf[x] : x \in visited} \subseteq Users
      BY <3>4
    <3>6. [told[c] EXCEPT ![f] = @ \cup ({UserOf[x] : x \in visited} \ {UserOf[c]})]
             \in [Flows -> SUBSET Users]
      BY <3>1, <3>5 DEF TypeOK, QueuesOK
    <3>7. told[c] \in [Flows -> SUBSET Users]
      BY DEF TypeOK, QueuesOK
    <3>8. QueuesOK'
      BY <2>9, <3>3, <3>6, <3>7, EnqueueType DEF TypeOK, SendRoster
    <3>9. WorkOK'
      BY <2>9, <3>1 DEF TypeOK, WorkOK, SendRoster
    <3> QED
      BY <2>9, <3>8, <3>9 DEF TypeOK, LifeOK, MapsOK, BoundsOK, SendRoster
  <2>10. ASSUME NEW c \in Clients, NEW f \in Flows, FlowJoin(c, f) PROVE TypeOK'
    <3> DEFINE e == Envelope(HostOf[c], f, "presence.join", UserOf[c], NoUser)
    <3>1. BoundsOK'
      BY <2>10 DEF TypeOK, BoundsOK, FlowJoin, ReadFrame
    <3>2. CASE CrashByRace(Conn(c), HostOf[c], f)
      BY <3>1, <3>2, CrashByRaceType, NamesTyped DEF TypeOK
    <3>3. CASE ~CrashByRace(Conn(c), HostOf[c], f)
      <4>1. e \in Envelopes
        BY EnvelopeType DEF Kinds
      <4>2. Begin(Conn(c), "joined", e)
        BY <2>10, <3>3 DEF FlowJoin
      <4>3. WorkOK'
        BY <4>1, <4>2, BeginType, NamesTyped DEF TypeOK
      <4>4. MapsOK'
        BY <2>10, <3>3 DEF TypeOK, MapsOK, FlowJoin
      <4>5. QueuesOK'
        BY <2>10, <3>3 DEF TypeOK, QueuesOK, FlowJoin
      <4>6. LifeOK'
        BY <2>10, <3>3 DEF TypeOK, LifeOK, FlowJoin
      <4> QED
        BY <3>1, <4>3, <4>4, <4>5, <4>6 DEF TypeOK
    <3> QED
      BY <3>2, <3>3
  <2>11. ASSUME NEW c \in Clients, NEW f \in Flows, FlowLeave(c, f) PROVE TypeOK'
    <3> DEFINE e == Envelope(HostOf[c], f, "presence.leave", UserOf[c], NoUser)
    <3>1. BoundsOK'
      BY <2>11 DEF TypeOK, BoundsOK, FlowLeave, ReadFrame
    <3>2. CASE CrashByRace(Conn(c), HostOf[c], f)
      BY <3>1, <3>2, CrashByRaceType, NamesTyped DEF TypeOK
    <3>3. CASE ~CrashByRace(Conn(c), HostOf[c], f)
      <4>1. e \in Envelopes
        BY EnvelopeType DEF Kinds
      <4>2. /\ stage' = [stage EXCEPT ![Conn(c)] = "start"]
            /\ env' = [Forgotten(c, f) EXCEPT ![Conn(c)] = e]
            /\ UNCHANGED todo
        BY <2>11, <3>3 DEF FlowLeave
      <4>3. WorkOK'
        <5> DEFINE E == Forgotten(c, f)
        <5>1. /\ E \in [Goroutines -> Envelopes \cup {NoEnvelope}]
              /\ \A t \in Goroutines : stage[t] # "idle" => E[t] \in Envelopes
          BY ForgottenMessages DEF TypeOK
        <5>2. env' = [E EXCEPT ![Conn(c)] = e]
          BY <4>2
        <5> HIDE DEF E, e
        <5> QED
          BY <4>1, <4>2, <5>1, <5>2 DEF TypeOK, WorkOK
      <4>4. MapsOK'
        BY <2>11, <3>3 DEF TypeOK, MapsOK, FlowLeave
      <4>5. QueuesOK'
        <5>1. [told[c] EXCEPT ![f] = {}] \in [Flows -> SUBSET Users]
          BY DEF TypeOK, QueuesOK
        <5>2. told' = [told EXCEPT ![c] = [told[c] EXCEPT ![f] = {}]]
              /\ UNCHANGED <<buf, lossy, inbox>>
          BY <2>11, <3>3 DEF FlowLeave
        <5> QED
          BY <5>1, <5>2 DEF TypeOK, QueuesOK
      <4>6. LifeOK'
        BY <2>11, <3>3 DEF TypeOK, LifeOK, FlowLeave
      <4> QED
        BY <3>1, <4>3, <4>4, <4>5, <4>6 DEF TypeOK
    <3> QED
      BY <3>2, <3>3
  <2>12. ASSUME NEW c \in Clients, NEW f \in Flows, CursorUpdate(c, f) PROVE TypeOK'
    <3>1. Envelope(HostOf[c], f, "cursor.move", UserOf[c], NoUser) \in Envelopes
      BY EnvelopeType DEF Kinds
    <3>2. WorkOK'
      BY <2>12, <3>1, BeginType, NamesTyped DEF TypeOK, CursorUpdate
    <3>3. BoundsOK'
      BY <2>12 DEF TypeOK, BoundsOK, CursorUpdate, ReadFrame
    <3> QED
      BY <2>12, <3>2, <3>3 DEF TypeOK, LifeOK, MapsOK, QueuesOK, CursorUpdate
  <2>13. ASSUME NEW c \in Clients, NEW f \in Flows, Presentation(c, f) PROVE TypeOK'
    <3>1. Envelope(HostOf[c], f, "presentation", UserOf[c], UserOf[c]) \in Envelopes
      BY EnvelopeType DEF Kinds
    <3>2. WorkOK'
      BY <2>13, <3>1, BeginType, NamesTyped DEF TypeOK, Presentation
    <3>3. BoundsOK'
      BY <2>13 DEF TypeOK, BoundsOK, Presentation, ReadFrame
    <3> QED
      BY <2>13, <3>2, <3>3 DEF TypeOK, LifeOK, MapsOK, QueuesOK, Presentation
  <2>14. ASSUME NEW s \in Servers, ProcessRegister(s) PROVE TypeOK'
    <3> DEFINE c == Head(registerQ[s])
               rest == Tail(registerQ[s])
    <3>0. /\ c \in Clients /\ rest \in Seq(Clients)
          /\ registerQ' = [registerQ EXCEPT ![s] = rest]
          /\ userConns' = userConns \cup {c}
      BY <2>14 DEF TypeOK, LifeOK, ProcessRegister
    <3> HIDE DEF c, rest
    <3>1. LifeOK'
      BY <2>14, <3>0 DEF TypeOK, ProcessRegister, LifeOK
    <3>2. MapsOK'
      BY <2>14, <3>0 DEF TypeOK, ProcessRegister, MapsOK
    <3>3. WorkOK'
      BY <2>14 DEF TypeOK, ProcessRegister, WorkOK, workVars
    <3>4. QueuesOK'
      BY <2>14 DEF TypeOK, ProcessRegister, QueuesOK, queueVars
    <3>5. BoundsOK'
      BY <2>14 DEF TypeOK, ProcessRegister, BoundsOK, boundVars
    <3> QED
      BY <3>1, <3>2, <3>3, <3>4, <3>5 DEF TypeOK
  <2>15. ASSUME NEW s \in Servers, ProcessUnregister(s) PROVE TypeOK'
    <3> DEFINE c == Head(unregisterQ[s])
    <3>1. c \in Clients /\ Tail(unregisterQ[s]) \in Seq(Clients) /\ flows[c] \subseteq Flows
      BY <2>15 DEF TypeOK, LifeOK, MapsOK, ProcessUnregister
    <3>2. CASE \E f \in flows[c] : CrashByRace(Loop(s), s, f) /\ UNCHANGED boundVars
      <4>1. PICK f \in flows[c] : CrashByRace(Loop(s), s, f)
        BY <3>2
      <4>2. LifeOK' /\ MapsOK' /\ WorkOK' /\ QueuesOK'
        BY <3>1, <4>1, CrashByRaceType, NamesTyped
      <4> QED
        BY <3>2, <4>2 DEF TypeOK, BoundsOK
    <3>3. CASE ~\E f \in flows[c] : CrashByRace(Loop(s), s, f) /\ UNCHANGED boundVars
      <4>1. LifeOK'
        <5>1. unregisterQ' = [unregisterQ EXCEPT ![s] = Tail(@)]
              /\ UNCHANGED <<up, conn, writer, registerQ>>
          BY <2>15, <3>3 DEF ProcessUnregister
        <5> QED
          BY <3>1, <5>1 DEF TypeOK, LifeOK
      <4>2. flows[c] \X {UserOf[c]} \subseteq Flows \X Users
        BY <3>1
      <4>3. MapsOK'
        <5>1. /\ userConns' = userConns \ {c}
              /\ room' = [f \in Flows |-> IF f \in flows[c] THEN room[f] \ {c} ELSE room[f]]
              /\ closed' = closed \cup {c}
              /\ farewell' = [farewell EXCEPT ![s] = flows[c] \X {UserOf[c]}]
              /\ UNCHANGED flows
          BY <2>15, <3>3 DEF ProcessUnregister
        <5> HIDE DEF c
        <5> QED
          BY <3>1, <4>2, <5>1 DEF TypeOK, MapsOK
      <4> QED
        BY <2>15, <3>3, <4>1, <4>3
           DEF TypeOK, WorkOK, QueuesOK, BoundsOK, ProcessUnregister
    <3> QED
      BY <3>2, <3>3
  <2>16. ASSUME NEW s \in Servers, Farewell(s) PROVE TypeOK'
    BY <2>16, EnvelopeType, NamesTyped
       DEF TypeOK, LifeOK, MapsOK, WorkOK, QueuesOK, BoundsOK, Farewell, Kinds
  <2>17. ASSUME NEW s \in Servers, Receive(s) PROVE TypeOK'
    <3>1. Head(inbox[s]) \in Envelopes
      BY <2>17 DEF TypeOK, QueuesOK, Receive
    <3>2. WorkOK'
      <4>1. CASE Head(inbox[s]).source = s
        BY <2>17, <4>1 DEF TypeOK, WorkOK, Receive
      <4>2. CASE Head(inbox[s]).source # s
        BY <2>17, <3>1, <4>2, BeginType, NamesTyped DEF TypeOK, Receive
      <4> QED
        BY <4>1, <4>2
    <3>3. QueuesOK'
      BY <2>17 DEF TypeOK, QueuesOK, Receive
    <3> QED
      BY <2>17, <3>2, <3>3 DEF TypeOK, LifeOK, MapsOK, BoundsOK, Receive
  <2>18. ASSUME NEW s \in Servers, Relayed(s) PROVE TypeOK'
    BY <2>18, NamesTyped
       DEF TypeOK, LifeOK, MapsOK, WorkOK, QueuesOK, BoundsOK, Relayed, Finish
  <2>19. ASSUME NEW s \in Servers, NEW u \in Users, NEW f \in Flows,
                SaveDiagram(s, u, f)
         PROVE TypeOK'
    <3>1. LifeOK'
      BY <2>19, EnvelopeType, NamesTyped
         DEF TypeOK, SaveDiagram, Begin, Kinds, LifeOK, MapsOK, WorkOK, QueuesOK,
             BoundsOK
    <3>2. MapsOK'
      BY <2>19, EnvelopeType, NamesTyped
         DEF TypeOK, SaveDiagram, Begin, Kinds, LifeOK, MapsOK, WorkOK, QueuesOK,
             BoundsOK
    <3>3. WorkOK'
      BY <2>19, EnvelopeType, NamesTyped
         DEF TypeOK, SaveDiagram, Begin, Kinds, LifeOK, MapsOK, WorkOK, QueuesOK,
             BoundsOK
    <3>4. QueuesOK'
      BY <2>19, EnvelopeType, NamesTyped
         DEF TypeOK, SaveDiagram, Begin, Kinds, LifeOK, MapsOK, WorkOK, QueuesOK,
             BoundsOK
    <3>5. BoundsOK'
      BY <2>19, EnvelopeType, NamesTyped
         DEF TypeOK, SaveDiagram, Begin, Kinds, LifeOK, MapsOK, WorkOK, QueuesOK,
             BoundsOK
    <3> QED
      BY <3>1, <3>2, <3>3, <3>4, <3>5 DEF TypeOK
  <2>20. ASSUME NEW t \in Goroutines, TakeRoom(t) PROVE TypeOK'
    <3>1. env[t] \in Envelopes /\ env[t].flow \in Flows
      BY <2>20 DEF TypeOK, WorkOK, TakeRoom, Envelopes
    <3>2. LocalRoom(ServerOf(t), env[t].flow) \subseteq Clients
      BY <3>1, LocalRoomType, ServerOfType DEF TypeOK
    <3>3. WorkOK'
      BY <2>20, <3>1, <3>2 DEF TypeOK, WorkOK, TakeRoom
    <3> QED
      BY <2>20, <3>3 DEF TypeOK, LifeOK, MapsOK, QueuesOK, BoundsOK, TakeRoom
  <2>21. ASSUME NEW t \in Goroutines, Publish(t) PROVE TypeOK'
    BY <2>21 DEF TypeOK, LifeOK, MapsOK, WorkOK, QueuesOK, BoundsOK, Publish, Finish
  <2>22. ASSUME NEW t \in Goroutines, NEW c \in Clients, Deliver(t, c) PROVE TypeOK'
    <3>1. env[t] \in Envelopes
      BY <2>22 DEF TypeOK, WorkOK, Deliver
    <3>2. QueuesOK'
      BY <2>22, <3>1, HearsType, EnqueueType DEF TypeOK, Deliver
    <3>3. [env[t] EXCEPT !.reached = @ \cup {c}] \in Envelopes
      BY <3>1, EnvelopeReached
    <3>4. WorkOK'
      BY <2>22, <3>1, <3>3 DEF TypeOK, WorkOK, Deliver
    <3> QED
      BY <2>22, <3>2, <3>4 DEF TypeOK, LifeOK, MapsOK, BoundsOK, Deliver
  <2>23. ASSUME NEW t \in Goroutines, NEW c \in Clients, SkipRemoved(t, c) PROVE TypeOK'
    BY <2>23 DEF TypeOK, LifeOK, MapsOK, WorkOK, QueuesOK, BoundsOK, SkipRemoved
  <2>24. ASSUME NEW t \in Goroutines, NEW c \in Clients, PanicOnClosed(t, c) PROVE TypeOK'
    BY <2>24, ServerOfType
       DEF TypeOK, LifeOK, MapsOK, WorkOK, QueuesOK, BoundsOK, PanicOnClosed, Finish
  <2>25. CASE UNCHANGED vars
    BY <2>25 DEF vars, TypeOK, LifeOK, MapsOK, WorkOK, QueuesOK, BoundsOK
  <2> QED
    BY <2>1, <2>2, <2>3, <2>4, <2>5, <2>6, <2>7, <2>8, <2>9, <2>10, <2>11, <2>12, <2>13,
       <2>14, <2>15, <2>16, <2>17, <2>18, <2>19, <2>20, <2>21, <2>22, <2>23, <2>24, <2>25
    DEF Next, ConnStep, ServerStep, DeliveryStep
<1>3. QED
  BY <1>1, <1>2, PTL DEF Spec

-----------------------------------------------------------------------------
(* The name of a read pump is that of its connection. *)
LEMMA ConnGoroutine ==
    \A t \in Goroutines : t[1] = "conn" => t[2] \in Clients /\ t = Conn(t[2])
BY DEF Goroutines, Conn

(* CloseInv speaks of these variables only. *)
LEMMA CloseInvStable ==
    ASSUME CloseInv, UNCHANGED <<conn, unregisterQ, room, flows, closed, stage, todo>>
    PROVE  CloseInv'
BY DEF CloseInv, ClosedIsGone, QueuedIsGone, NoDoubleClose, OpenWhileHandling,
       RoomsAreFlows, ClosedLeavesRooms, TodoIsLocal, LoopTodoOpen

(* A step that leaves the maps, the connections and the unregister channel
   alone has only the goroutines' own work to answer for. *)
LEMMA BroadcastStable ==
    ASSUME CloseInv, UNCHANGED <<conn, unregisterQ, room, flows, closed>>,
           OpenWhileHandling', TodoIsLocal', LoopTodoOpen'
    PROVE  CloseInv'
BY DEF CloseInv, ClosedIsGone, QueuedIsGone, NoDoubleClose, RoomsAreFlows,
       ClosedLeavesRooms

(* CloseInv is inductive: nothing can bring a connection whose send channel is
   closed back into a room, or have it closed again. *)
THEOREM CloseInvariant == Spec => []CloseInv
<1>1. Init => CloseInv
  BY NamesTyped
     DEF Init, CloseInv, ClosedIsGone, QueuedIsGone, NoDoubleClose, OpenWhileHandling,
         RoomsAreFlows, ClosedLeavesRooms, TodoIsLocal, LoopTodoOpen
<1>2. TypeOK /\ CloseInv /\ [Next]_vars => CloseInv'
  <2> SUFFICES ASSUME TypeOK, CloseInv, [Next]_vars PROVE CloseInv'
    OBVIOUS
  <2> USE HubConstants, NamesTyped DEF lifeVars, mapVars, workVars, queueVars, boundVars
  <2>1. ASSUME NEW c \in Clients, Serve(c) PROVE CloseInv'
    <3>1. \A d \in Clients : conn'[d] = conn[d] \/ (conn[d] = "new" /\ conn'[d] = "open")
      <4>1. conn[c] = "new" /\ conn' = [conn EXCEPT ![c] = "open"]
        BY <2>1 DEF Serve
      <4> QED
        BY <4>1 DEF TypeOK, LifeOK
    <3>2. ClosedIsGone' /\ OpenWhileHandling'
      BY <2>1, <3>1 DEF Serve, CloseInv, ClosedIsGone, OpenWhileHandling, TypeOK, MapsOK
    <3>3. QueuedIsGone'
      <4>1. \A s \in Servers : \A i \in 1..Len(unregisterQ[s]) : unregisterQ[s][i] \in Clients
        BY DEF TypeOK, LifeOK
      <4> QED
        BY <2>1, <3>1, <4>1 DEF Serve, CloseInv, QueuedIsGone
    <3> QED
      BY <2>1, <3>2, <3>3
         DEF Serve, CloseInv, NoDoubleClose, RoomsAreFlows, ClosedLeavesRooms,
             TodoIsLocal, LoopTodoOpen
  <2>2. ASSUME NEW c \in Clients, ReadError(c) PROVE CloseInv'
    <3>1. \A d \in Clients : conn[d] = "gone" => conn'[d] = "gone"
      BY <2>2 DEF ReadError, TypeOK, LifeOK
    <3>2. ClosedIsGone'
      BY <2>2, <3>1 DEF ReadError, CloseInv, ClosedIsGone, TypeOK, MapsOK
    <3>3. QueuedIsGone'
      <4>1. \A s \in Servers : \A i \in 1..Len(unregisterQ[s]) : unregisterQ[s][i] \in Clients
        BY DEF TypeOK, LifeOK
      <4> QED
        BY <2>2, <3>1, <4>1 DEF ReadError, CloseInv, QueuedIsGone
    <3>4. OpenWhileHandling'
      BY <2>2 DEF ReadError, CloseInv, OpenWhileHandling, TypeOK, LifeOK
    <3> QED
      BY <2>2, <3>2, <3>3, <3>4
         DEF ReadError, CloseInv, NoDoubleClose, RoomsAreFlows, ClosedLeavesRooms,
             TodoIsLocal, LoopTodoOpen
  <2>3. ASSUME NEW c \in Clients, Unregister(c) PROVE CloseInv'
    <3> DEFINE s == HostOf[c]
               q == unregisterQ[s]
    <3>1. /\ conn[c] = "closing"
          /\ q \in Seq(Clients)
          /\ unregisterQ' = [unregisterQ EXCEPT ![s] = Append(q, c)]
          /\ conn' = [conn EXCEPT ![c] = "gone"]
          /\ UNCHANGED <<room, flows, closed, stage, todo>>
      BY <2>3 DEF Unregister, TypeOK, LifeOK
    <3>2. conn'[c] = "gone" /\ \A d \in Clients : conn[d] = "gone" => conn'[d] = "gone"
      BY <3>1 DEF TypeOK, LifeOK
    <3>3. /\ c \notin closed
          /\ \A r \in Servers : \A i \in 1..Len(unregisterQ[r]) : unregisterQ[r][i] # c
      BY <3>1 DEF CloseInv, ClosedIsGone, QueuedIsGone
    <3>4. \A r \in Servers : \A i \in 1..Len(unregisterQ'[r]) :
             \/ i \in 1..Len(unregisterQ[r]) /\ unregisterQ'[r][i] = unregisterQ[r][i]
             \/ r = s /\ i = Len(q) + 1 /\ unregisterQ'[r][i] = c
      <4>1. \A r \in Servers : unregisterQ'[r] = IF r = s THEN Append(q, c)
                                                 ELSE unregisterQ[r]
        BY <3>1 DEF TypeOK, LifeOK
      <4> HIDE DEF q, s
      <4>2. \A i \in 1..Len(Append(q, c)) :
               \/ i \in 1..Len(q) /\ Append(q, c)[i] = q[i]
               \/ i = Len(q) + 1 /\ Append(q, c)[i] = c
        BY <3>1
      <4> QED
        BY <4>1, <4>2 DEF q
    <3>5. \A r \in Servers : \A i \in 1..Len(unregisterQ[r]) : unregisterQ[r][i] \in Clients
      BY DEF TypeOK, LifeOK
    <3>6. QueuedIsGone'
      <4>1. ASSUME NEW r \in Servers, NEW i \in 1..Len(unregisterQ'[r])
            PROVE  conn'[unregisterQ'[r][i]] = "gone" /\ HostOf[unregisterQ'[r][i]] = r
        <5>1. CASE i \in 1..Len(unregisterQ[r]) /\ unregisterQ'[r][i] = unregisterQ[r][i]
          <6>1. conn[unregisterQ[r][i]] = "gone" /\ HostOf[unregisterQ[r][i]] = r
            BY <5>1 DEF CloseInv, QueuedIsGone
          <6> QED
            BY <3>2, <3>5, <5>1, <6>1
        <5> QED
          BY <3>2, <3>4, <5>1
      <4> QED
        BY <4>1 DEF QueuedIsGone
    <3>7. NoDoubleClose'
      BY <3>1, <3>3, <3>4 DEF CloseInv, NoDoubleClose
    <3>8. ClosedIsGone'
      BY <3>1, <3>2 DEF CloseInv, ClosedIsGone, TypeOK, MapsOK
    <3>9. OpenWhileHandling'
      BY <3>1 DEF CloseInv, OpenWhileHandling, TypeOK, LifeOK
    <3> QED
      BY <3>1, <3>6, <3>7, <3>8, <3>9
         DEF CloseInv, RoomsAreFlows, ClosedLeavesRooms, TodoIsLocal, LoopTodoOpen
  <2>4. ASSUME NEW c \in Clients, WriteMessage(c) PROVE CloseInv'
    BY <2>4, CloseInvStable DEF WriteMessage
  <2>5. ASSUME NEW c \in Clients, WriteError(c) PROVE CloseInv'
    BY <2>5, CloseInvStable DEF WriteError
  <2>6. ASSUME NEW c \in Clients, WriteClose(c) PROVE CloseInv'
    BY <2>6, CloseInvStable DEF WriteClose
  <2>7. ASSUME NEW c \in Clients, BadFrame(c) PROVE CloseInv'
    BY <2>7, CloseInvStable DEF BadFrame
  <2>8. ASSUME NEW c \in Clients, TakeRoster(c) PROVE CloseInv'
    BY <2>8, NamesDistinct, BroadcastStable
       DEF CloseInv, OpenWhileHandling, TodoIsLocal, LoopTodoOpen, TypeOK, WorkOK,
           TakeRoster, LocalRoom
  <2>9. ASSUME NEW c \in Clients, SendRoster(c) PROVE CloseInv'
    BY <2>9, NamesDistinct, BroadcastStable
       DEF CloseInv, OpenWhileHandling, TodoIsLocal, LoopTodoOpen, TypeOK, WorkOK,
           SendRoster, Enqueue
  <2>10. ASSUME NEW c \in Clients, NEW f \in Flows, FlowJoin(c, f) PROVE CloseInv'
    <3>1. CASE CrashByRace(Conn(c), HostOf[c], f)
      BY <3>1, CloseInvStable DEF CrashByRace
    <3>2. CASE ~CrashByRace(Conn(c), HostOf[c], f)
      <4>1. /\ conn[c] = "open"
            /\ flows' = [flows EXCEPT ![c] = @ \cup {f}]
            /\ room' = [room EXCEPT ![f] = @ \cup {c}]
            /\ stage' = [stage EXCEPT ![Conn(c)] = "joined"]
            /\ UNCHANGED <<conn, unregisterQ, closed, todo>>
        BY <2>10, <3>2 DEF FlowJoin, ReadFrame, Begin
      <4>2. c \notin closed
        BY <4>1 DEF CloseInv, ClosedIsGone
      <4>3. \A g \in Flows : room'[g] = IF g = f THEN room[g] \cup {c} ELSE room[g]
        BY <4>1 DEF TypeOK, MapsOK
      <4>4. RoomsAreFlows'
        <5> SUFFICES ASSUME NEW g \in Flows, NEW d \in room'[g] PROVE g \in flows'[d]
          BY DEF RoomsAreFlows
        <5>1. d \in Clients
          BY <4>3 DEF TypeOK, MapsOK
        <5>2. CASE d = c
          BY <4>1, <4>3, <5>2 DEF CloseInv, RoomsAreFlows, TypeOK, MapsOK
        <5>3. CASE d # c
          BY <4>1, <4>3, <5>1, <5>3 DEF CloseInv, RoomsAreFlows, TypeOK, MapsOK
        <5> QED
          BY <5>2, <5>3
      <4>5. ClosedLeavesRooms'
        BY <4>1, <4>2, <4>3 DEF CloseInv, ClosedLeavesRooms
      <4>6. OpenWhileHandling'
        BY <4>1, NamesDistinct DEF CloseInv, OpenWhileHandling, TypeOK, WorkOK
      <4>7. LoopTodoOpen'
        BY <4>1, NamesDistinct DEF CloseInv, LoopTodoOpen, TypeOK, WorkOK
      <4>8. ClosedIsGone' /\ TodoIsLocal'
        BY <4>1 DEF CloseInv, ClosedIsGone, TodoIsLocal
      <4>9. QueuedIsGone'
        BY <4>1 DEF CloseInv, QueuedIsGone
      <4>10. NoDoubleClose'
        BY <4>1 DEF CloseInv, NoDoubleClose
      <4> QED
        BY <4>4, <4>5, <4>6, <4>7, <4>8, <4>9, <4>10 DEF CloseInv
    <3> QED
      BY <3>1, <3>2
  <2>11. ASSUME NEW c \in Clients, NEW f \in Flows, FlowLeave(c, f) PROVE CloseInv'
    <3>1. CASE CrashByRace(Conn(c), HostOf[c], f)
      BY <3>1, CloseInvStable DEF CrashByRace
    <3>2. CASE ~CrashByRace(Conn(c), HostOf[c], f)
      <4>1. /\ conn[c] = "open"
            /\ flows' = [flows EXCEPT ![c] = @ \ {f}]
            /\ room' = [room EXCEPT ![f] = @ \ {c}]
            /\ stage' = [stage EXCEPT ![Conn(c)] = "start"]
            /\ UNCHANGED <<conn, unregisterQ, closed, todo>>
        BY <2>11, <3>2 DEF FlowLeave, ReadFrame, Begin
      <4>2. c \notin closed
        BY <4>1 DEF CloseInv, ClosedIsGone
      <4>3. \A g \in Flows : room'[g] = IF g = f THEN room[g] \ {c} ELSE room[g]
        BY <4>1 DEF TypeOK, MapsOK
      <4>4. RoomsAreFlows'
        <5> SUFFICES ASSUME NEW g \in Flows, NEW d \in room'[g] PROVE g \in flows'[d]
          BY DEF RoomsAreFlows
        <5>1. d \in Clients
          BY <4>3 DEF TypeOK, MapsOK
        <5>2. CASE d = c
          BY <4>1, <4>3, <5>2 DEF CloseInv, RoomsAreFlows, TypeOK, MapsOK
        <5>3. CASE d # c
          BY <4>1, <4>3, <5>1, <5>3 DEF CloseInv, RoomsAreFlows, TypeOK, MapsOK
        <5> QED
          BY <5>2, <5>3
      <4>5. ClosedLeavesRooms'
        BY <4>1, <4>2, <4>3 DEF CloseInv, ClosedLeavesRooms
      <4>6. OpenWhileHandling'
        BY <4>1, NamesDistinct DEF CloseInv, OpenWhileHandling, TypeOK, WorkOK
      <4>7. LoopTodoOpen'
        BY <4>1, NamesDistinct DEF CloseInv, LoopTodoOpen, TypeOK, WorkOK
      <4>8. ClosedIsGone' /\ TodoIsLocal'
        BY <4>1 DEF CloseInv, ClosedIsGone, TodoIsLocal
      <4>9. QueuedIsGone'
        BY <4>1 DEF CloseInv, QueuedIsGone
      <4>10. NoDoubleClose'
        BY <4>1 DEF CloseInv, NoDoubleClose
      <4> QED
        BY <4>4, <4>5, <4>6, <4>7, <4>8, <4>9, <4>10 DEF CloseInv
    <3> QED
      BY <3>1, <3>2
  <2>12. ASSUME NEW c \in Clients, NEW f \in Flows, CursorUpdate(c, f) PROVE CloseInv'
    BY <2>12, NamesDistinct, BroadcastStable
       DEF CloseInv, OpenWhileHandling, TodoIsLocal, LoopTodoOpen, TypeOK, WorkOK,
           CursorUpdate, ReadFrame, Begin
  <2>13. ASSUME NEW c \in Clients, NEW f \in Flows, Presentation(c, f) PROVE CloseInv'
    BY <2>13, NamesDistinct, BroadcastStable
       DEF CloseInv, OpenWhileHandling, TodoIsLocal, LoopTodoOpen, TypeOK, WorkOK,
           Presentation, ReadFrame, Begin
  <2>14. ASSUME NEW s \in Servers, ProcessRegister(s) PROVE CloseInv'
    BY <2>14, CloseInvStable DEF ProcessRegister
  <2>15. ASSUME NEW s \in Servers, ProcessUnregister(s) PROVE CloseInv'
    <3> DEFINE q == unregisterQ[s]
               c == Head(q)
    <3>1. CASE \E f \in flows[c] : CrashByRace(Loop(s), s, f)
      BY <3>1, CloseInvStable DEF CrashByRace
    <3>2. CASE ~\E f \in flows[c] : CrashByRace(Loop(s), s, f)
      <4>1. /\ stage[Loop(s)] = "idle"
            /\ q # <<>>
            /\ unregisterQ' = [unregisterQ EXCEPT ![s] = Tail(q)]
            /\ room' = [f \in Flows |-> IF f \in flows[c] THEN room[f] \ {c} ELSE room[f]]
            /\ closed' = closed \cup {c}
            /\ UNCHANGED <<conn, flows, stage, todo>>
        BY <2>15, <3>2 DEF ProcessUnregister, LoopIdle
      <4>0. q \in Seq(Clients)
        BY DEF TypeOK, LifeOK
      <4>2. /\ 1 \in 1..Len(q) /\ c = q[1] /\ c \in Clients
            /\ Tail(q) \in Seq(Clients) /\ Len(Tail(q)) = Len(q) - 1
            /\ \A i \in 1..Len(Tail(q)) : i + 1 \in 1..Len(q) /\ Tail(q)[i] = q[i + 1]
        BY <4>0, <4>1
      <4>3. conn[c] = "gone" /\ HostOf[c] = s
        BY <4>2 DEF CloseInv, QueuedIsGone
      <4>4. \A r \in Servers : unregisterQ'[r] = IF r = s THEN Tail(q) ELSE unregisterQ[r]
        BY <4>1 DEF TypeOK, LifeOK
      <4>5. ClosedIsGone'
        BY <4>1, <4>3 DEF CloseInv, ClosedIsGone
      <4>6. QueuedIsGone'
        BY <4>1, <4>2, <4>4 DEF CloseInv, QueuedIsGone
      <4>7. NoDoubleClose'
        <5>1. ASSUME NEW i \in 1..Len(Tail(q))
              PROVE  Tail(q)[i] # c /\ Tail(q)[i] \notin closed
          BY <4>2, <5>1 DEF CloseInv, NoDoubleClose
        <5>2. ASSUME NEW i \in 1..Len(Tail(q)), NEW j \in 1..Len(Tail(q)),
                     Tail(q)[i] = Tail(q)[j]
              PROVE  i = j
          BY <4>2, <5>2 DEF CloseInv, NoDoubleClose
        <5>3. ASSUME NEW r \in Servers, r # s, NEW i \in 1..Len(unregisterQ[r])
              PROVE  unregisterQ[r][i] # c
          BY <4>3, <5>3 DEF CloseInv, QueuedIsGone
        <5> SUFFICES ASSUME NEW r \in Servers, NEW i \in 1..Len(unregisterQ'[r])
                     PROVE  /\ unregisterQ'[r][i] \notin closed'
                            /\ \A j \in 1..Len(unregisterQ'[r]) :
                                  unregisterQ'[r][i] = unregisterQ'[r][j] => i = j
          BY DEF NoDoubleClose
        <5>4. CASE r = s
          <6>1. unregisterQ'[r] = Tail(q) /\ closed' = closed \cup {c}
            BY <4>1, <4>4, <5>4
          <6> QED
            BY <5>1, <5>2, <6>1
        <5>5. CASE r # s
          BY <4>1, <4>4, <5>3, <5>5 DEF CloseInv, NoDoubleClose
        <5> QED
          BY <5>4, <5>5
      <4>8. RoomsAreFlows'
        BY <4>1 DEF CloseInv, RoomsAreFlows
      <4>9. ClosedLeavesRooms'
        BY <4>1 DEF CloseInv, RoomsAreFlows, ClosedLeavesRooms
      <4>10. LoopTodoOpen'
        <5> SUFFICES ASSUME NEW r \in Servers, stage[Loop(r)] = "deliver"
                     PROVE  todo[Loop(r)] \cap (closed \cup {c}) = {}
          BY <4>1 DEF LoopTodoOpen
        <5>1. r # s
          BY <4>1
        <5>2. c \notin todo[Loop(r)]
          BY <4>3, <5>1, NamesDistinct DEF CloseInv, TodoIsLocal
        <5> QED
          BY <5>2 DEF CloseInv, LoopTodoOpen
      <4> QED
        BY <4>1, <4>5, <4>6, <4>7, <4>8, <4>9, <4>10
           DEF CloseInv, OpenWhileHandling, TodoIsLocal
    <3> QED
      BY <3>1, <3>2
  <2>16. ASSUME NEW s \in Servers, Farewell(s) PROVE CloseInv'
    BY <2>16, NamesDistinct, BroadcastStable
       DEF CloseInv, OpenWhileHandling, TodoIsLocal, LoopTodoOpen, TypeOK, WorkOK,
           Farewell
  <2>17. ASSUME NEW s \in Servers, Receive(s) PROVE CloseInv'
    <3>1. \A c \in Clients : stage'[Conn(c)] = stage[Conn(c)]
      BY <2>17, NamesDistinct DEF Receive, Begin, TypeOK, WorkOK
    <3>2. \A r \in Servers : stage'[Loop(r)] = stage[Loop(r)]
      <4>1. stage' = stage \/ stage' = [stage EXCEPT ![Sub(s)] = "start"]
        BY <2>17 DEF Receive, Begin
      <4>2. \A r \in Servers : Loop(r) # Sub(s)
        BY NamesDistinct
      <4> QED
        BY <4>1, <4>2 DEF TypeOK, WorkOK
    <3>3. UNCHANGED <<conn, unregisterQ, room, flows, closed, todo>>
      BY <2>17 DEF Receive, Begin
    <3> QED
      BY <3>1, <3>2, <3>3
         DEF CloseInv, ClosedIsGone, QueuedIsGone, NoDoubleClose, OpenWhileHandling,
             RoomsAreFlows, ClosedLeavesRooms, TodoIsLocal, LoopTodoOpen
  <2>18. ASSUME NEW s \in Servers, Relayed(s) PROVE CloseInv'
    BY <2>18, NamesDistinct, BroadcastStable
       DEF CloseInv, OpenWhileHandling, TodoIsLocal, LoopTodoOpen, TypeOK, WorkOK,
           Relayed, Finish
  <2>19. ASSUME NEW s \in Servers, NEW u \in Users, NEW f \in Flows,
                SaveDiagram(s, u, f)
         PROVE CloseInv'
    BY <2>19, NamesDistinct, BroadcastStable
       DEF CloseInv, OpenWhileHandling, TodoIsLocal, LoopTodoOpen, TypeOK, WorkOK,
           SaveDiagram, Begin
  <2>20. ASSUME NEW t \in Goroutines, TakeRoom(t) PROVE CloseInv'
    <3>1. /\ stage[t] = "start"
          /\ stage' = [stage EXCEPT ![t] = "deliver"]
          /\ \E R \in SUBSET LocalRoom(ServerOf(t), env[t].flow) :
                todo' = [todo EXCEPT ![t] = R]
          /\ UNCHANGED <<conn, unregisterQ, room, flows, closed>>
      BY <2>20 DEF TakeRoom
    <3>2. env[t].flow \in Flows
      BY <3>1 DEF TypeOK, WorkOK, Envelopes
    <3>3. PICK R \in SUBSET LocalRoom(ServerOf(t), env[t].flow) :
             todo' = [todo EXCEPT ![t] = R]
      BY <3>1
    <3>4. R \cap closed = {} /\ \A c \in R : HostOf[c] = ServerOf(t)
      BY <3>2 DEF LocalRoom, CloseInv, ClosedLeavesRooms
    <3>5. OpenWhileHandling'
      BY <3>1 DEF CloseInv, OpenWhileHandling, TypeOK, WorkOK
    <3>6. TodoIsLocal'
      BY <3>3, <3>4 DEF CloseInv, TodoIsLocal, TypeOK, WorkOK
    <3>7. LoopTodoOpen'
      BY <3>1, <3>3, <3>4 DEF CloseInv, LoopTodoOpen, TypeOK, WorkOK
    <3>8. ClosedIsGone' /\ QueuedIsGone' /\ NoDoubleClose'
      BY <3>1 DEF CloseInv, ClosedIsGone, QueuedIsGone, NoDoubleClose
    <3>9. RoomsAreFlows' /\ ClosedLeavesRooms'
      BY <3>1 DEF CloseInv, RoomsAreFlows, ClosedLeavesRooms
    <3> QED
      BY <3>5, <3>6, <3>7, <3>8, <3>9 DEF CloseInv
  <2>21. ASSUME NEW t \in Goroutines, Publish(t) PROVE CloseInv'
    BY <2>21, NamesDistinct, BroadcastStable
       DEF CloseInv, OpenWhileHandling, TodoIsLocal, LoopTodoOpen, TypeOK, WorkOK,
           Publish, Finish
  <2>22. ASSUME NEW t \in Goroutines, NEW c \in Clients, Deliver(t, c) PROVE CloseInv'
    BY <2>22, NamesDistinct, BroadcastStable
       DEF CloseInv, OpenWhileHandling, TodoIsLocal, LoopTodoOpen, TypeOK, WorkOK,
           Deliver, Enqueue
  <2>23. ASSUME NEW t \in Goroutines, NEW c \in Clients, SkipRemoved(t, c) PROVE CloseInv'
    BY <2>23, NamesDistinct, BroadcastStable
       DEF CloseInv, OpenWhileHandling, TodoIsLocal, LoopTodoOpen, TypeOK, WorkOK,
           SkipRemoved
  <2>24. ASSUME NEW t \in Goroutines, NEW c \in Clients, PanicOnClosed(t, c) PROVE CloseInv'
    <3>1. /\ stage[t] = "deliver"
          /\ stage' = [stage EXCEPT ![t] = "idle"]
          /\ todo' = [todo EXCEPT ![t] = {}]
          /\ conn' = IF t[1] = "conn" THEN [conn EXCEPT ![t[2]] = "closing"] ELSE conn
          /\ UNCHANGED <<unregisterQ, room, flows, closed>>
      BY <2>24 DEF PanicOnClosed, Finish
    <3>2. t[1] = "conn" => conn[t[2]] = "open"
      BY <3>1, ConnGoroutine DEF CloseInv, OpenWhileHandling
    <3>3. \A d \in Clients : conn[d] = "gone" => conn'[d] = "gone"
      BY <3>1, <3>2, ConnGoroutine DEF TypeOK, LifeOK
    <3>4. ClosedIsGone'
      BY <3>1, <3>3 DEF CloseInv, ClosedIsGone, TypeOK, MapsOK
    <3>5. QueuedIsGone'
      <4>1. \A s \in Servers : \A i \in 1..Len(unregisterQ[s]) : unregisterQ[s][i] \in Clients
        BY DEF TypeOK, LifeOK
      <4> QED
        BY <3>1, <3>3, <4>1 DEF CloseInv, QueuedIsGone
    <3>6. OpenWhileHandling'
      <4> SUFFICES ASSUME NEW d \in Clients, stage'[Conn(d)] # "idle"
                   PROVE  conn'[d] = "open"
        BY DEF OpenWhileHandling
      <4>1. Conn(d) # t /\ stage[Conn(d)] # "idle" /\ conn[d] = "open"
        BY <3>1 DEF CloseInv, OpenWhileHandling, TypeOK, WorkOK
      <4>2. t[1] = "conn" => t[2] # d
        BY <4>1, ConnGoroutine
      <4> QED
        BY <3>1, <4>1, <4>2 DEF TypeOK, LifeOK
    <3>7. TodoIsLocal' /\ LoopTodoOpen'
      BY <3>1 DEF CloseInv, TodoIsLocal, LoopTodoOpen, TypeOK, WorkOK
    <3> QED
      BY <3>1, <3>4, <3>5, <3>6, <3>7
         DEF CloseInv, NoDoubleClose, RoomsAreFlows, ClosedLeavesRooms
  <2>25. CASE UNCHANGED vars
    BY <2>25, CloseInvStable DEF vars
  <2> QED
    BY <2>1, <2>2, <2>3, <2>4, <2>5, <2>6, <2>7, <2>8, <2>9, <2>10, <2>11, <2>12, <2>13,
       <2>14, <2>15, <2>16, <2>17, <2>18, <2>19, <2>20, <2>21, <2>22, <2>23, <2>24, <2>25
    DEF Next, ConnStep, ServerStep, DeliveryStep
<1>3. QED
  BY <1>1, <1>2, TypeCorrect, PTL DEF Spec

-----------------------------------------------------------------------------
(* A connection whose send channel is closed is in no flow room. *)
THEOREM ClosedStaysOut == Spec => []ClosedLeavesRooms
BY CloseInvariant, PTL DEF CloseInv

(* No send channel is closed twice. *)
THEOREM ClosedOnce == Spec => []NoDoubleClose
BY CloseInvariant, PTL DEF CloseInv

(* The event loop never sends to a closed channel, so a disconnection cannot
   end the process from there. *)
THEOREM LoopSafe == Spec => []LoopNeverPanics
<1>1. TypeOK /\ CloseInv => LoopNeverPanics
  <2> SUFFICES ASSUME TypeOK, CloseInv, NEW s \in Servers, stage[Loop(s)] = "deliver"
               PROVE  Producible(Loop(s)) \cap closed = {}
    BY DEF LoopNeverPanics
  <2>1. env[Loop(s)].flow \in Flows
    BY NamesTyped DEF TypeOK, WorkOK, Envelopes
  <2> QED
    BY <2>1 DEF Producible, LocalRoom, CloseInv, LoopTodoOpen, ClosedLeavesRooms
<1> QED
  BY <1>1, TypeCorrect, CloseInvariant, PTL

-----------------------------------------------------------------------------
(* Who a message is handed to.  A message that travels between instances has
   reached connections of the instance that published it, none of them the
   excluded user's.  A goroutine that broadcasts one has handed it to
   connections of the publisher and of its own instance; to none of its own
   before the range loop starts, and never to one the loop has still to visit,
   unless that one has left the room since.
   Only a subscriber works on what another instance published. *)
CarriesOK(e) == \A c \in e.reached : UserOf[c] # e.exclude /\ HostOf[c] = e.source

BroadcastOK(t, w, e, T) ==
    w # "idle" =>
        /\ (e.source = ServerOf(t)) <=> (t[1] # "sub")
        /\ \A c \in e.reached :
              UserOf[c] # e.exclude /\ HostOf[c] \in {e.source, ServerOf(t)}
        /\ w # "deliver" => \A c \in e.reached : HostOf[c] # ServerOf(t)
        /\ w = "deliver" => \A c \in T : UserOf[c] # e.exclude /\ c \notin e.reached

FanoutInv ==
    /\ \A t \in Goroutines : BroadcastOK(t, stage[t], env[t], todo[t])
    /\ \A s \in Servers : \A i \in 1..Len(inbox[s]) : CarriesOK(inbox[s][i])

(* What kind of goroutine a name stands for, and on which server it runs. *)
LEMMA NameKinds ==
    /\ \A c \in Clients : Conn(c)[1] = "conn"
    /\ \A s \in Servers : /\ Loop(s)[1] = "loop" /\ Sub(s)[1] = "sub"
                          /\ Http(s)[1] = "http" /\ ServerOf(Http(s)) = s
BY DEF Conn, Loop, Sub, Http, ServerOf

(* FanoutInv speaks of broadcasts and of messages under way only. *)
LEMMA FanoutStable ==
    ASSUME FanoutInv, UNCHANGED <<stage, env, todo, inbox>>
    PROVE  FanoutInv'
BY DEF FanoutInv, BroadcastOK, CarriesOK

(* A step of one goroutine has only its own broadcast to answer for. *)
LEMMA FanoutStep ==
    ASSUME TypeOK, FanoutInv, NEW t \in Goroutines, NEW w, NEW e, NEW T,
           stage' = [stage EXCEPT ![t] = w], env' = [env EXCEPT ![t] = e],
           todo' = [todo EXCEPT ![t] = T], BroadcastOK(t, w, e, T),
           \A s \in Servers : \A i \in 1..Len(inbox'[s]) : CarriesOK(inbox'[s][i])
    PROVE  FanoutInv'
<1>1. \A s \in Servers : \A i \in 1..Len(inbox'[s]) : CarriesOK(inbox[s][i])'
  BY DEF CarriesOK
<1>2. ASSUME NEW o \in Goroutines
      PROVE  BroadcastOK(o, stage[o], env[o], todo[o])'
  <2>1. CASE o = t
    <3>1. stage'[o] = w /\ env'[o] = e /\ todo'[o] = T
      BY <2>1 DEF TypeOK, WorkOK
    <3> QED
      BY <2>1, <3>1 DEF BroadcastOK
  <2>2. CASE o # t
    <3>1. stage'[o] = stage[o] /\ env'[o] = env[o] /\ todo'[o] = todo[o]
      BY <2>2 DEF TypeOK, WorkOK
    <3> QED
      BY <3>1 DEF BroadcastOK, FanoutInv
  <2> QED
    BY <2>1, <2>2
<1> QED
  BY <1>1, <1>2 DEF FanoutInv

(* A broadcast that begins with a message of the goroutine's own instance is in
   order: it has reached nobody. *)
LEMMA FanoutBegin ==
    ASSUME TypeOK, FanoutInv, NEW t \in Goroutines, t[1] # "sub",
           NEW w \in {"joined", "start"},
           NEW f, NEW k, NEW u, NEW x,
           stage' = [stage EXCEPT ![t] = w], UNCHANGED <<todo, inbox>>,
           env' = [env EXCEPT ![t] = Envelope(ServerOf(t), f, k, u, x)]
    PROVE  FanoutInv'
<1> DEFINE e == Envelope(ServerOf(t), f, k, u, x)
<1>1. e.source = ServerOf(t) /\ e.reached = {}
  BY DEF Envelope
<1>2. BroadcastOK(t, w, e, todo[t])
  BY <1>1 DEF BroadcastOK
<1>3. todo' = [todo EXCEPT ![t] = todo[t]]
  BY DEF TypeOK, WorkOK
<1>4. \A s \in Servers : \A i \in 1..Len(inbox'[s]) : CarriesOK(inbox'[s][i])
  BY DEF FanoutInv
<1> HIDE DEF e
<1> QED
  BY <1>2, <1>3, <1>4, FanoutStep DEF e

(* A goroutine that is done with its broadcast has nothing to answer for. *)
LEMMA FanoutEnd ==
    ASSUME TypeOK, FanoutInv, NEW t \in Goroutines, Finish(t),
           \A s \in Servers : \A i \in 1..Len(inbox'[s]) : CarriesOK(inbox'[s][i])
    PROVE  FanoutInv'
<1>1. BroadcastOK(t, "idle", NoEnvelope, {})
  BY DEF BroadcastOK
<1> QED
  BY <1>1, FanoutStep DEF Finish

(* FanoutInv is inductive. *)
THEOREM FanoutInvariant == Spec => []FanoutInv
<1>1. Init => FanoutInv
  BY DEF Init, FanoutInv, BroadcastOK
<1>2. TypeOK /\ CloseInv /\ FanoutInv /\ [Next]_vars => FanoutInv'
  <2> SUFFICES ASSUME TypeOK, CloseInv, FanoutInv, [Next]_vars PROVE FanoutInv'
    OBVIOUS
  <2> USE NamesTyped DEF lifeVars, mapVars, workVars, queueVars, boundVars
  <2>0. \A s \in Servers : \A i \in 1..Len(inbox[s]) : CarriesOK(inbox[s][i])
    BY DEF FanoutInv
  <2>1. ASSUME NEW c \in Clients,
               Serve(c) \/ ReadError(c) \/ Unregister(c) \/ WriteMessage(c)
                 \/ WriteError(c) \/ WriteClose(c) \/ BadFrame(c)
        PROVE  FanoutInv'
    BY <2>1, FanoutStable
       DEF Serve, ReadError, Unregister, WriteMessage, WriteError, WriteClose, BadFrame
  <2>2. ASSUME NEW c \in Clients, TakeRoster(c) \/ SendRoster(c) PROVE FanoutInv'
    <3> DEFINE t == Conn(c)
    <3>1. /\ stage[t] \notin {"idle", "deliver"}
          /\ \E w \in {"list", "start"}, T \in SUBSET LocalRoom(HostOf[c], env[t].flow) :
                /\ stage' = [stage EXCEPT ![t] = w]
                /\ todo' = [todo EXCEPT ![t] = T]
          /\ UNCHANGED <<env, inbox>>
      BY <2>2 DEF TakeRoster, SendRoster
    <3>2. PICK w \in {"list", "start"}, T \in SUBSET LocalRoom(HostOf[c], env[t].flow) :
             stage' = [stage EXCEPT ![t] = w] /\ todo' = [todo EXCEPT ![t] = T]
      BY <3>1
    <3>3. BroadcastOK(t, stage[t], env[t], todo[t])
      BY DEF FanoutInv
    <3>4. BroadcastOK(t, w, env[t], T)
      BY <3>1, <3>3 DEF BroadcastOK
    <3>5. env' = [env EXCEPT ![t] = env[t]]
      BY <3>1 DEF TypeOK, WorkOK
    <3> QED
      BY <2>0, <3>1, <3>2, <3>4, <3>5, FanoutStep
  <2>3. ASSUME NEW c \in Clients, NEW f \in Flows,
               FlowJoin(c, f) \/ CursorUpdate(c, f) \/ Presentation(c, f)
        PROVE  FanoutInv'
    <3>1. CASE CrashByRace(Conn(c), HostOf[c], f)
      BY <3>1, FanoutStable DEF CrashByRace
    <3>2. CASE ~CrashByRace(Conn(c), HostOf[c], f)
      <4>1. \E w \in {"joined", "start"} : \E k, u, x :
               /\ stage' = [stage EXCEPT ![Conn(c)] = w]
               /\ env' = [env EXCEPT ![Conn(c)] = Envelope(HostOf[c], f, k, u, x)]
               /\ UNCHANGED <<todo, inbox>>
        BY <2>3, <3>2 DEF FlowJoin, CursorUpdate, Presentation, Begin
      <4>2. Conn(c)[1] # "sub" /\ ServerOf(Conn(c)) = HostOf[c]
        BY NameKinds, NamesDistinct
      <4>3. PICK w \in {"joined", "start"} : \E k, u, x :
               /\ stage' = [stage EXCEPT ![Conn(c)] = w]
               /\ env' = [env EXCEPT ![Conn(c)] = Envelope(HostOf[c], f, k, u, x)]
               /\ UNCHANGED <<todo, inbox>>
        BY <4>1
      <4>4. PICK k, u, x :
               /\ stage' = [stage EXCEPT ![Conn(c)] = w]
               /\ env' = [env EXCEPT ![Conn(c)] = Envelope(HostOf[c], f, k, u, x)]
               /\ UNCHANGED <<todo, inbox>>
        BY <4>3
      <4> QED
        BY <4>2, <4>4, FanoutBegin
    <3> QED
      BY <3>1, <3>2
  <2>4. ASSUME NEW s \in Servers, ProcessRegister(s) \/ ProcessUnregister(s)
        PROVE  FanoutInv'
    BY <2>4, FanoutStable DEF ProcessRegister, ProcessUnregister, CrashByRace
  <2>5. ASSUME NEW s \in Servers, Farewell(s) PROVE FanoutInv'
    <3>1. Loop(s)[1] # "sub" /\ ServerOf(Loop(s)) = s
      BY NameKinds, NamesDistinct
    <3>2. stage' = [stage EXCEPT ![Loop(s)] = "start"] /\ UNCHANGED <<todo, inbox>>
      BY <2>5 DEF Farewell
    <3>3. PICK p \in farewell[s] :
             env' = [env EXCEPT ![Loop(s)] =
                       Envelope(ServerOf(Loop(s)), p[1], "presence.leave", p[2], NoUser)]
      BY <2>5, <3>1 DEF Farewell
    <3> QED
      BY <3>1, <3>2, <3>3, FanoutBegin
  <2>6. ASSUME NEW s \in Servers, Receive(s) PROVE FanoutInv'
    <3> DEFINE e == Head(inbox[s])
    <3>1. /\ inbox[s] # <<>>
          /\ inbox' = [inbox EXCEPT ![s] = Tail(@)]
          /\ \/ UNCHANGED workVars
             \/ e.source # s /\ Begin(Sub(s), "start", e)
      BY <2>6 DEF Receive
    <3>2. /\ inbox[s] \in Seq(Envelopes) /\ Len(inbox[s]) \in Nat \ {0}
          /\ e = inbox[s][1]
          /\ \A i \in 1..Len(Tail(inbox[s])) :
                i + 1 \in 1..Len(inbox[s]) /\ Tail(inbox[s])[i] = inbox[s][i + 1]
      BY <3>1 DEF TypeOK, QueuesOK
    <3>3. \A r \in Servers : \A i \in 1..Len(inbox'[r]) : CarriesOK(inbox'[r][i])
      <4> SUFFICES ASSUME NEW r \in Servers, NEW i \in 1..Len(inbox'[r])
                   PROVE  CarriesOK(inbox'[r][i])
        OBVIOUS
      <4>1. inbox'[r] = IF r = s THEN Tail(inbox[s]) ELSE inbox[r]
        BY <3>1 DEF TypeOK, QueuesOK
      <4> QED
        BY <2>0, <3>2, <4>1
    <3>4. CASE UNCHANGED workVars
      BY <2>0, <3>3, <3>4 DEF FanoutInv, BroadcastOK, CarriesOK
    <3>5. CASE e.source # s /\ Begin(Sub(s), "start", e)
      <4>1. CarriesOK(e)
        BY <2>0, <3>2
      <4>2. Sub(s)[1] = "sub" /\ ServerOf(Sub(s)) = s
        BY NameKinds, NamesDistinct
      <4>3. BroadcastOK(Sub(s), "start", e, todo[Sub(s)])
        BY <3>5, <4>1, <4>2 DEF BroadcastOK, CarriesOK
      <4>4. todo' = [todo EXCEPT ![Sub(s)] = todo[Sub(s)]]
        BY <3>5 DEF Begin, TypeOK, WorkOK
      <4> QED
        BY <3>3, <3>5, <4>3, <4>4, FanoutStep DEF Begin
    <3> QED
      BY <3>1, <3>4, <3>5
  <2>7. ASSUME NEW s \in Servers, Relayed(s) PROVE FanoutInv'
    BY <2>0, <2>7, FanoutEnd DEF Relayed
  <2>8. ASSUME NEW s \in Servers, NEW u \in Users, NEW f \in Flows, SaveDiagram(s, u, f)
        PROVE  FanoutInv'
    BY <2>8, NameKinds, FanoutBegin DEF SaveDiagram, Begin
  <2>9. ASSUME NEW t \in Goroutines, TakeRoom(t) PROVE FanoutInv'
    <3> DEFINE T == {c \in LocalRoom(ServerOf(t), env[t].flow) :
                        UserOf[c] # env[t].exclude}
    <3>1. /\ stage[t] = "start" /\ stage' = [stage EXCEPT ![t] = "deliver"]
          /\ todo' = [todo EXCEPT ![t] = T] /\ UNCHANGED inbox
          /\ env' = [env EXCEPT ![t] = env[t]]
      BY <2>9 DEF TakeRoom, TypeOK, WorkOK
    <3>2. BroadcastOK(t, stage[t], env[t], todo[t])
      BY DEF FanoutInv
    <3>3. BroadcastOK(t, "deliver", env[t], T)
      BY <3>1, <3>2 DEF BroadcastOK, LocalRoom
    <3> QED
      BY <2>0, <3>1, <3>3, FanoutStep
  <2>10. ASSUME NEW t \in Goroutines, Publish(t) PROVE FanoutInv'
    <3>1. /\ stage[t] = "deliver" /\ t[1] # "sub" /\ Finish(t)
          /\ \A s \in Servers : inbox'[s] = inbox[s] \/ inbox'[s] = Append(inbox[s], env[t])
      BY <2>10 DEF Publish
    <3>2. CarriesOK(env[t])
      BY <3>1 DEF FanoutInv, BroadcastOK, CarriesOK
    <3>3. \A s \in Servers : \A i \in 1..Len(inbox'[s]) : CarriesOK(inbox'[s][i])
      <4> SUFFICES ASSUME NEW s \in Servers, NEW i \in 1..Len(inbox'[s])
                   PROVE  CarriesOK(inbox'[s][i])
        OBVIOUS
      <4>1. inbox[s] \in Seq(Envelopes)
        BY DEF TypeOK, QueuesOK
      <4>2. \/ i \in 1..Len(inbox[s]) /\ inbox'[s][i] = inbox[s][i]
            \/ inbox'[s][i] = env[t]
        BY <3>1, <4>1
      <4> QED
        BY <2>0, <3>2, <4>2
    <3> QED
      BY <3>1, <3>3, FanoutEnd
  <2>11. ASSUME NEW t \in Goroutines, NEW c \in Clients, Deliver(t, c) PROVE FanoutInv'
    <3> DEFINE e == [env[t] EXCEPT !.reached = @ \cup {c}]
    <3>1. /\ stage[t] = "deliver" /\ c \in Producible(t)
          /\ stage' = [stage EXCEPT ![t] = "deliver"]
          /\ todo' = [todo EXCEPT ![t] = todo[t] \ {c}]
          /\ env' = [env EXCEPT ![t] = e] /\ UNCHANGED inbox
      BY <2>11 DEF Deliver, TypeOK, WorkOK
    <3>2. env[t] \in Envelopes
      BY <3>1 DEF TypeOK, WorkOK
    <3>3. /\ e.source = env[t].source /\ e.exclude = env[t].exclude
          /\ e.reached = env[t].reached \cup {c}
      BY <3>2 DEF Envelopes
    <3>4. BroadcastOK(t, "deliver", env[t], todo[t])
      BY <3>1 DEF FanoutInv
    <3>5. UserOf[c] # env[t].exclude /\ HostOf[c] = ServerOf(t)
      BY <3>1, <3>4 DEF Producible, LocalRoom, BroadcastOK, CloseInv, TodoIsLocal
    <3>6. BroadcastOK(t, "deliver", e, todo[t] \ {c})
      BY <3>3, <3>4, <3>5 DEF BroadcastOK
    <3> HIDE DEF e
    <3> QED
      BY <2>0, <3>1, <3>6, FanoutStep
  <2>12. ASSUME NEW t \in Goroutines, NEW c \in Clients, SkipRemoved(t, c)
         PROVE  FanoutInv'
    <3>1. /\ stage[t] = "deliver"
          /\ stage' = [stage EXCEPT ![t] = "deliver"]
          /\ todo' = [todo EXCEPT ![t] = todo[t] \ {c}]
          /\ env' = [env EXCEPT ![t] = env[t]] /\ UNCHANGED inbox
      BY <2>12 DEF SkipRemoved, TypeOK, WorkOK
    <3>2. BroadcastOK(t, "deliver", env[t], todo[t])
      BY <3>1 DEF FanoutInv
    <3>3. BroadcastOK(t, "deliver", env[t], todo[t] \ {c})
      BY <3>2 DEF BroadcastOK
    <3> QED
      BY <2>0, <3>1, <3>3, FanoutStep
  <2>13. ASSUME NEW t \in Goroutines, NEW c \in Clients, PanicOnClosed(t, c)
         PROVE  FanoutInv'
    BY <2>0, <2>13, FanoutEnd DEF PanicOnClosed
  <2>14. ASSUME NEW c \in Clients, NEW f \in Flows, FlowLeave(c, f) PROVE FanoutInv'
    <3> DEFINE e == Envelope(HostOf[c], f, "presence.leave", UserOf[c], NoUser)
    <3>1. CASE CrashByRace(Conn(c), HostOf[c], f)
      BY <3>1, FanoutStable DEF CrashByRace
    <3>2. CASE ~CrashByRace(Conn(c), HostOf[c], f)
      <4>1. /\ stage' = [stage EXCEPT ![Conn(c)] = "start"]
            /\ env' = [Forgotten(c, f) EXCEPT ![Conn(c)] = e]
            /\ UNCHANGED <<todo, inbox>>
        BY <2>14, <3>2 DEF FlowLeave
      <4>2. Conn(c)[1] # "sub" /\ ServerOf(Conn(c)) = HostOf[c]
        BY NameKinds, NamesDistinct
      <4>3. e.source = HostOf[c] /\ e.reached = {}
        BY DEF Envelope
      <4> HIDE DEF e
      <4>4. ASSUME NEW t \in Goroutines PROVE BroadcastOK(t, stage'[t], env'[t], todo'[t])
        <5>1. BroadcastOK(t, stage[t], env[t], todo[t])
          BY DEF FanoutInv
        <5>2. CASE t = Conn(c)
          <6>1. stage'[t] = "start" /\ env'[t] = e
            BY <4>1, <5>2, ForgottenMessages DEF TypeOK, WorkOK
          <6> QED
            BY <4>2, <4>3, <5>2, <6>1 DEF BroadcastOK
        <5>3. CASE t # Conn(c)
          <6>1. /\ stage'[t] = stage[t] /\ todo'[t] = todo[t]
                /\ stage[t] # "idle" => SameMessage(env'[t], env[t])
            BY <4>1, <5>3, ForgottenMessages DEF TypeOK, WorkOK
          <6> QED
            BY <5>1, <6>1 DEF BroadcastOK, SameMessage
        <5> QED
          BY <5>2, <5>3
      <4> QED
        BY <2>0, <4>1, <4>4 DEF FanoutInv, BroadcastOK, CarriesOK
    <3> QED
      BY <3>1, <3>2
  <2>15. CASE UNCHANGED vars
    BY <2>15, FanoutStable DEF vars
  <2> QED
    BY <2>1, <2>2, <2>3, <2>4, <2>5, <2>6, <2>7, <2>8, <2>9, <2>10, <2>11, <2>12, <2>13,
       <2>14, <2>15
    DEF Next, ConnStep, ServerStep, DeliveryStep
<1>3. QED
  BY <1>1, <1>2, TypeCorrect, CloseInvariant, PTL DEF Spec

(* No connection that stays in the room is handed the same message twice, by
   local delivery, by the relay or by one range loop. *)
THEOREM HandedAtMostOnce == Spec => []AtMostOnce
<1>1. FanoutInv => AtMostOnce
  BY DEF FanoutInv, BroadcastOK, AtMostOnce
<1> QED
  BY <1>1, FanoutInvariant, PTL

(* No connection of the excluded user is sent the message, on any instance. *)
THEOREM ExcludedUserSpared == Spec => []SenderSpared
<1>1. FanoutInv => SenderSpared
  BY DEF FanoutInv, BroadcastOK, SenderSpared
<1> QED
  BY <1>1, FanoutInvariant, PTL

-----------------------------------------------------------------------------
(* Whose presence a message is about.  A read pump announces its own user, and
   is out of the room it announces to have left; the event loop speaks for
   connections it has closed; a presence message from another instance is about
   a user with a connection there. *)
Presence == {"presence.join", "presence.leave"}
AuthoredBy(x, u, s) == UserOf[x] = u /\ HostOf[x] = s
Authored(e) == e.kind \in Presence => \E x \in Clients : AuthoredBy(x, e.user, e.source)

AuthorOK(t, w, e, R, X) ==
    w # "idle" =>
        /\ t[1] = "conn" =>
              /\ AuthoredBy(t[2], e.user, e.source)
              /\ e.kind = "presence.join" => e.exclude = NoUser
              /\ e.kind = "presence.leave" => t[2] \notin R[e.flow]
        /\ t[1] = "loop" => \E x \in X : AuthoredBy(x, e.user, e.source)
        /\ t[1] = "sub" => Authored(e)
        /\ t[1] = "http" => e.kind \notin Presence

LeaversClosed(F, X) ==
    \A s \in Servers : \A p \in F[s] : \E x \in X : AuthoredBy(x, p[2], s)

AuthorInv ==
    /\ \A t \in Goroutines : AuthorOK(t, stage[t], env[t], room, closed)
    /\ LeaversClosed(farewell, closed)
    /\ \A s \in Servers : \A i \in 1..Len(inbox[s]) : Authored(inbox[s][i])

(* What a step of goroutine t must show to keep AuthorInv: nothing but its own
   broadcast, if the others keep their messages, nobody else enters a room and no channel is opened again. *)
LEMMA AuthorStepOthers ==
    ASSUME TypeOK, AuthorInv, NEW t \in Goroutines, NEW w, NEW e,
           stage'[t] = w, env'[t] = e,
           \A o \in Goroutines \ {t} :
               /\ stage'[o] = stage[o]
               /\ stage[o] # "idle" => SameMessage(env'[o], env[o]),
           closed \subseteq closed',
           \A f \in Flows, c \in Clients : c \in room'[f] => c \in room[f] \/ t = Conn(c),
           AuthorOK(t, w, e, room', closed'),
           LeaversClosed(farewell', closed'),
           \A s \in Servers : \A i \in 1..Len(inbox'[s]) : Authored(inbox'[s][i])
    PROVE  AuthorInv'
<1>1. \A s \in Servers : \A i \in 1..Len(inbox'[s]) : Authored(inbox[s][i])'
  BY DEF Authored, AuthoredBy
<1>2. LeaversClosed(farewell, closed)'
  BY DEF LeaversClosed, AuthoredBy
<1>3. ASSUME NEW o \in Goroutines
      PROVE  AuthorOK(o, stage[o], env[o], room, closed)'
  <2>1. CASE o = t
    <3>1. stage'[o] = w /\ env'[o] = e
      BY <2>1
    <3> QED
      BY <2>1, <3>1 DEF AuthorOK, AuthoredBy, Authored
  <2>2. CASE o # t
    <3>1. /\ stage'[o] = stage[o]
          /\ stage[o] # "idle" => SameMessage(env'[o], env[o])
      BY <2>2
    <3>2. AuthorOK(o, stage[o], env[o], room, closed)
      BY DEF AuthorInv
    <3>3. stage[o] # "idle" => env[o].flow \in Flows
      BY DEF TypeOK, WorkOK, Envelopes
    <3>4. o[1] = "conn" => o[2] \in Clients /\ t # Conn(o[2])
      BY <2>2, ConnGoroutine
    <3>5. AuthorOK(o, stage[o], env[o], room', closed')
      BY <3>2, <3>3, <3>4 DEF AuthorOK
    <3> QED
      BY <3>1, <3>5 DEF AuthorOK, AuthoredBy, Authored, SameMessage
  <2> QED
    BY <2>1, <2>2
<1> QED
  BY <1>1, <1>2, <1>3 DEF AuthorInv

LEMMA AuthorStep ==
    ASSUME TypeOK, AuthorInv, NEW t \in Goroutines, NEW w, NEW e,
           stage' = [stage EXCEPT ![t] = w], env' = [env EXCEPT ![t] = e],
           closed \subseteq closed',
           \A f \in Flows, c \in Clients : c \in room'[f] => c \in room[f] \/ t = Conn(c),
           AuthorOK(t, w, e, room', closed'),
           LeaversClosed(farewell', closed'),
           \A s \in Servers : \A i \in 1..Len(inbox'[s]) : Authored(inbox'[s][i])
    PROVE  AuthorInv'
<1>1. /\ stage'[t] = w /\ env'[t] = e
      /\ \A o \in Goroutines \ {t} :
            /\ stage'[o] = stage[o]
            /\ stage[o] # "idle" => SameMessage(env'[o], env[o])
  BY DEF TypeOK, WorkOK, SameMessage
<1> QED
  BY <1>1, AuthorStepOthers

(* A step that begins no broadcast, and whose server's rooms do not grow. *)
LEMMA AuthorStable ==
    ASSUME TypeOK, AuthorInv, UNCHANGED <<stage, env, inbox>>,
           closed \subseteq closed',
           \A f \in Flows : room'[f] \subseteq room[f],
           LeaversClosed(farewell', closed')
    PROVE  AuthorInv'
<1>1. ASSUME NEW o \in Goroutines
      PROVE  AuthorOK(o, stage[o], env[o], room, closed)'
  <2>1. AuthorOK(o, stage[o], env[o], room, closed)
    BY DEF AuthorInv
  <2>2. stage[o] # "idle" => env[o].flow \in Flows
    BY DEF TypeOK, WorkOK, Envelopes
  <2>3. AuthorOK(o, stage[o], env[o], room', closed')
    BY <2>1, <2>2 DEF AuthorOK
  <2> QED
    BY <2>3 DEF AuthorOK, AuthoredBy, Authored
<1>2. LeaversClosed(farewell, closed)'
  BY DEF LeaversClosed, AuthoredBy
<1> QED
  BY <1>1, <1>2 DEF AuthorInv, Authored, AuthoredBy

(* AuthorInv is inductive. *)
THEOREM AuthorInvariant == Spec => []AuthorInv
<1>1. Init => AuthorInv
  BY DEF Init, AuthorInv, AuthorOK, LeaversClosed
<1>2. TypeOK /\ CloseInv /\ AuthorInv /\ [Next]_vars => AuthorInv'
  <2> SUFFICES ASSUME TypeOK, CloseInv, AuthorInv, [Next]_vars
               PROVE  AuthorInv'
    OBVIOUS
  <2> USE NamesTyped DEF lifeVars, mapVars, workVars, queueVars, boundVars
  <2>a. \A s \in Servers : \A i \in 1..Len(inbox[s]) : Authored(inbox[s][i])
    BY DEF AuthorInv
  <2>b. LeaversClosed(farewell, closed)
    BY DEF AuthorInv
  <2>1. ASSUME NEW c \in Clients,
               Serve(c) \/ ReadError(c) \/ Unregister(c) \/ WriteMessage(c)
                 \/ WriteError(c) \/ WriteClose(c) \/ BadFrame(c)
        PROVE  AuthorInv'
    BY <2>b, <2>1, AuthorStable
       DEF Serve, ReadError, Unregister, WriteMessage, WriteError, WriteClose, BadFrame
  <2>2. ASSUME NEW c \in Clients, TakeRoster(c) \/ SendRoster(c) PROVE AuthorInv'
    <3>1. /\ stage[Conn(c)] # "idle"
          /\ \E w \in {"list", "start"} : stage' = [stage EXCEPT ![Conn(c)] = w]
          /\ UNCHANGED <<room, closed, farewell, env, inbox>>
      BY <2>2 DEF TakeRoster, SendRoster
    <3>2. PICK w \in {"list", "start"} : stage' = [stage EXCEPT ![Conn(c)] = w]
      BY <3>1
    <3>3. AuthorOK(Conn(c), stage[Conn(c)], env[Conn(c)], room, closed)
      BY DEF AuthorInv
    <3>4. AuthorOK(Conn(c), w, env[Conn(c)], room', closed')
      BY <3>1, <3>3 DEF AuthorOK
    <3>5. env' = [env EXCEPT ![Conn(c)] = env[Conn(c)]]
      BY <3>1 DEF TypeOK, WorkOK
    <3> QED
      BY <2>a, <2>b, <3>1, <3>2, <3>4, <3>5, AuthorStep
  <2>3. ASSUME NEW c \in Clients, NEW f \in Flows,
               \/ FlowJoin(c, f) \/ FlowLeave(c, f)
               \/ CursorUpdate(c, f) \/ Presentation(c, f)
        PROVE  AuthorInv'
    <3> DEFINE t == Conn(c)
               OthersKeep(e) ==
                   /\ env'[t] = e
                   /\ \A o \in Goroutines \ {t} :
                         stage[o] # "idle" => SameMessage(env'[o], env[o])
    <3>1. CASE CrashByRace(t, HostOf[c], f)
      BY <2>b, <3>1, AuthorStable DEF CrashByRace
    <3>2. CASE ~CrashByRace(t, HostOf[c], f)
      <4>0. t[1] = "conn" /\ t[2] = c
        BY DEF Conn
      <4>1. ASSUME NEW w \in {"joined", "start"}, NEW k \in Kinds,
                   NEW x \in Users \cup {NoUser},
                   stage' = [stage EXCEPT ![t] = w],
                   env'[t] = Envelope(HostOf[c], f, k, UserOf[c], x),
                   \A o \in Goroutines \ {t} :
                       stage[o] # "idle" => SameMessage(env'[o], env[o]),
                   k = "presence.join" => x = NoUser,
                   k = "presence.leave" => c \notin room'[f],
                   \A g \in Flows, d \in Clients : d \in room'[g] => d \in room[g] \/ d = c,
                   UNCHANGED <<closed, farewell, inbox>>
            PROVE  AuthorInv'
        <5> DEFINE e == Envelope(HostOf[c], f, k, UserOf[c], x)
        <5>1. /\ e.source = HostOf[c] /\ e.user = UserOf[c] /\ e.kind = k
              /\ e.exclude = x /\ e.flow = f
          BY DEF Envelope
        <5>2. AuthorOK(t, w, e, room', closed')
          BY <4>0, <4>1, <5>1 DEF AuthorOK, AuthoredBy
        <5>3. /\ stage'[t] = w
              /\ \A o \in Goroutines \ {t} :
                    /\ stage'[o] = stage[o]
                    /\ stage[o] # "idle" => SameMessage(env'[o], env[o])
          BY <4>1 DEF TypeOK, WorkOK
        <5>4. \A g \in Flows, d \in Clients : d \in room'[g] => d \in room[g] \/ t = Conn(d)
          BY <4>1
        <5>5. \A s \in Servers : \A i \in 1..Len(inbox'[s]) : Authored(inbox'[s][i])
          BY <2>a, <4>1
        <5>6. LeaversClosed(farewell', closed')
          BY <2>b, <4>1
        <5> HIDE DEF e, t
        <5> QED
          BY <4>1, <5>2, <5>3, <5>4, <5>5, <5>6, AuthorStepOthers DEF e, t
      <4>2. CASE FlowJoin(c, f)
        <5>1. /\ stage' = [stage EXCEPT ![t] = "joined"]
              /\ env' = [env EXCEPT ![t] =
                           Envelope(HostOf[c], f, "presence.join", UserOf[c], NoUser)]
              /\ room' = [room EXCEPT ![f] = @ \cup {c}]
              /\ UNCHANGED <<closed, farewell, inbox>>
          BY <3>2, <4>2 DEF FlowJoin, Begin
        <5>2. \A g \in Flows, d \in Clients : d \in room'[g] => d \in room[g] \/ d = c
          BY <5>1 DEF TypeOK, MapsOK
        <5>3. OthersKeep(Envelope(HostOf[c], f, "presence.join", UserOf[c], NoUser))
          BY <5>1 DEF TypeOK, WorkOK, SameMessage
        <5> QED
          BY <4>1, <5>1, <5>2, <5>3 DEF Kinds
      <4>3. CASE FlowLeave(c, f)
        <5>1. /\ stage' = [stage EXCEPT ![t] = "start"]
              /\ env' = [Forgotten(c, f) EXCEPT ![t] =
                           Envelope(HostOf[c], f, "presence.leave", UserOf[c], NoUser)]
              /\ room' = [room EXCEPT ![f] = @ \ {c}]
              /\ UNCHANGED <<closed, farewell, inbox>>
          BY <3>2, <4>3 DEF FlowLeave
        <5>2. /\ \A g \in Flows, d \in Clients : d \in room'[g] => d \in room[g] \/ d = c
              /\ c \notin room'[f]
          BY <5>1 DEF TypeOK, MapsOK
        <5>3. OthersKeep(Envelope(HostOf[c], f, "presence.leave", UserOf[c], NoUser))
          BY <5>1, ForgottenMessages DEF TypeOK
        <5> QED
          BY <4>1, <5>1, <5>2, <5>3 DEF Kinds
      <4>4. CASE CursorUpdate(c, f) \/ Presentation(c, f)
        <5>1. /\ stage' = [stage EXCEPT ![t] = "start"]
              /\ \/ env' = [env EXCEPT ![t] =
                              Envelope(HostOf[c], f, "cursor.move", UserOf[c], NoUser)]
                 \/ env' = [env EXCEPT ![t] =
                              Envelope(HostOf[c], f, "presentation", UserOf[c], UserOf[c])]
              /\ UNCHANGED <<room, closed, farewell, inbox>>
          BY <4>4 DEF CursorUpdate, Presentation, Begin
        <5>2. UserOf[c] \in Users
          BY HubConstants
        <5>3. \/ OthersKeep(Envelope(HostOf[c], f, "cursor.move", UserOf[c], NoUser))
              \/ OthersKeep(Envelope(HostOf[c], f, "presentation", UserOf[c], UserOf[c]))
          BY <5>1 DEF TypeOK, WorkOK, SameMessage
        <5> QED
          BY <4>1, <5>1, <5>2, <5>3 DEF Kinds
      <4> QED
        BY <2>3, <4>2, <4>3, <4>4
    <3> QED
      BY <3>1, <3>2
  <2>4. ASSUME NEW s \in Servers, ProcessRegister(s) PROVE AuthorInv'
    BY <2>b, <2>4, AuthorStable DEF ProcessRegister
  <2>5. ASSUME NEW s \in Servers, ProcessUnregister(s) PROVE AuthorInv'
    <3> DEFINE q == unregisterQ[s]
               c == Head(q)
    <3>1. CASE \E f \in flows[c] : CrashByRace(Loop(s), s, f)
      BY <2>b, <3>1, AuthorStable DEF CrashByRace
    <3>2. CASE ~\E f \in flows[c] : CrashByRace(Loop(s), s, f)
      <4>1. /\ q # <<>>
            /\ room' = [f \in Flows |-> IF f \in flows[c] THEN room[f] \ {c} ELSE room[f]]
            /\ closed' = closed \cup {c}
            /\ farewell' = [farewell EXCEPT ![s] = flows[c] \X {UserOf[c]}]
            /\ UNCHANGED <<stage, env, inbox>>
        BY <2>5, <3>2 DEF ProcessUnregister
      <4>2. q \in Seq(Clients)
        BY DEF TypeOK, LifeOK
      <4>3. 1 \in 1..Len(q) /\ c = q[1]
        BY <4>1, <4>2
      <4>4. HostOf[c] = s
        BY <4>3 DEF CloseInv, QueuedIsGone
      <4>5. \A p \in flows[c] \X {UserOf[c]} : p[2] = UserOf[c]
        OBVIOUS
      <4>6. AuthoredBy(c, UserOf[c], s)
        BY <4>4 DEF AuthoredBy
      <4>7. \A r \in Servers : farewell'[r] =
               IF r = s THEN flows[c] \X {UserOf[c]} ELSE farewell[r]
        BY <4>1 DEF TypeOK, MapsOK
      <4> HIDE DEF c
      <4>8. LeaversClosed(farewell', closed')
        BY <2>b, <4>1, <4>5, <4>6, <4>7 DEF LeaversClosed
      <4> QED
        BY <4>1, <4>8, AuthorStable
    <3> QED
      BY <3>1, <3>2
  <2>6. ASSUME NEW s \in Servers, Farewell(s) PROVE AuthorInv'
    <3>1. /\ stage' = [stage EXCEPT ![Loop(s)] = "start"]
          /\ UNCHANGED <<room, closed, inbox>>
      BY <2>6 DEF Farewell
    <3>2. PICK p \in farewell[s] :
             /\ farewell' = [farewell EXCEPT ![s] = @ \ {p}]
             /\ env' = [env EXCEPT ![Loop(s)] =
                          Envelope(s, p[1], "presence.leave", p[2], NoUser)]
      BY <2>6 DEF Farewell
    <3> DEFINE e == Envelope(s, p[1], "presence.leave", p[2], NoUser)
    <3>3. e.source = s /\ e.user = p[2]
      BY DEF Envelope
    <3>4. \E x \in closed : AuthoredBy(x, p[2], s)
      BY <2>b DEF LeaversClosed
    <3>5. Loop(s)[1] = "loop"
      BY NameKinds
    <3>6. AuthorOK(Loop(s), "start", e, room', closed')
      BY <3>1, <3>3, <3>4, <3>5 DEF AuthorOK
    <3>7. \A r \in Servers : farewell'[r] \subseteq farewell[r]
      BY <3>2 DEF TypeOK, MapsOK
    <3>8. LeaversClosed(farewell', closed')
      BY <2>b, <3>1, <3>7 DEF LeaversClosed
    <3> HIDE DEF e
    <3> QED
      BY <2>a, <3>1, <3>2, <3>6, <3>8, AuthorStep DEF e
  <2>7. ASSUME NEW s \in Servers, Receive(s) PROVE AuthorInv'
    <3> DEFINE e == Head(inbox[s])
    <3>1. /\ inbox[s] # <<>>
          /\ inbox' = [inbox EXCEPT ![s] = Tail(@)]
          /\ UNCHANGED workVars \/ Begin(Sub(s), "start", e)
          /\ UNCHANGED <<room, closed, farewell>>
      BY <2>7 DEF Receive
    <3>2. /\ inbox[s] \in Seq(Envelopes) /\ Len(inbox[s]) \in Nat \ {0}
          /\ e = inbox[s][1]
          /\ \A i \in 1..Len(Tail(inbox[s])) :
                i + 1 \in 1..Len(inbox[s]) /\ Tail(inbox[s])[i] = inbox[s][i + 1]
      BY <3>1 DEF TypeOK, QueuesOK
    <3>3. \A r \in Servers : \A i \in 1..Len(inbox'[r]) : Authored(inbox'[r][i])
      <4> SUFFICES ASSUME NEW r \in Servers, NEW i \in 1..Len(inbox'[r])
                   PROVE  Authored(inbox'[r][i])
        OBVIOUS
      <4>1. inbox'[r] = IF r = s THEN Tail(inbox[s]) ELSE inbox[r]
        BY <3>1 DEF TypeOK, QueuesOK
      <4> QED
        BY <2>a, <3>2, <4>1
    <3>4. CASE UNCHANGED workVars
      <4>1. stage' = [stage EXCEPT ![Sub(s)] = stage[Sub(s)]]
            /\ env' = [env EXCEPT ![Sub(s)] = env[Sub(s)]]
        BY <3>4 DEF TypeOK, WorkOK
      <4>2. AuthorOK(Sub(s), stage[Sub(s)], env[Sub(s)], room', closed')
        BY <3>1 DEF AuthorInv
      <4> QED
        BY <2>b, <3>1, <3>3, <4>1, <4>2, AuthorStep
    <3>5. CASE Begin(Sub(s), "start", e)
      <4>1. Authored(e)
        BY <2>a, <3>2
      <4>2. Sub(s)[1] = "sub"
        BY NameKinds
      <4>3. AuthorOK(Sub(s), "start", e, room', closed')
        BY <4>1, <4>2 DEF AuthorOK
      <4> QED
        BY <2>b, <3>1, <3>3, <3>5, <4>3, AuthorStep DEF Begin
    <3> QED
      BY <3>1, <3>4, <3>5
  <2>8. ASSUME NEW t \in Goroutines, Finish(t), UNCHANGED <<room, closed, farewell>>,
               \A s \in Servers : \A i \in 1..Len(inbox'[s]) : Authored(inbox'[s][i])
        PROVE  AuthorInv'
    <3>1. AuthorOK(t, "idle", NoEnvelope, room', closed')
      BY DEF AuthorOK
    <3> QED
      BY <2>b, <2>8, <3>1, AuthorStep DEF Finish
  <2>9. ASSUME NEW s \in Servers, Relayed(s) PROVE AuthorInv'
    BY <2>a, <2>8, <2>9 DEF Relayed
  <2>10. ASSUME NEW s \in Servers, NEW u \in Users, NEW f \in Flows, SaveDiagram(s, u, f)
         PROVE  AuthorInv'
    <3> DEFINE e == Envelope(s, f, "diagram_updated", u, u)
    <3>1. /\ stage' = [stage EXCEPT ![Http(s)] = "start"]
          /\ env' = [env EXCEPT ![Http(s)] = e]
          /\ UNCHANGED <<room, closed, farewell, inbox>>
      BY <2>10 DEF SaveDiagram, Begin
    <3>2. e.kind \notin Presence
      BY DEF Envelope, Presence
    <3>3. AuthorOK(Http(s), "start", e, room', closed')
      BY <3>2, NameKinds DEF AuthorOK
    <3> HIDE DEF e
    <3> QED
      BY <2>a, <2>b, <3>1, <3>3, AuthorStep
  <2>11. ASSUME NEW t \in Goroutines, TakeRoom(t) PROVE AuthorInv'
    <3>1. /\ stage[t] = "start" /\ stage' = [stage EXCEPT ![t] = "deliver"]
          /\ env' = [env EXCEPT ![t] = env[t]]
          /\ UNCHANGED <<room, closed, farewell, inbox>>
      BY <2>11 DEF TakeRoom, TypeOK, WorkOK
    <3>2. AuthorOK(t, stage[t], env[t], room, closed)
      BY DEF AuthorInv
    <3>3. AuthorOK(t, "deliver", env[t], room', closed')
      BY <3>1, <3>2 DEF AuthorOK
    <3> QED
      BY <2>a, <2>b, <3>1, <3>3, AuthorStep
  <2>12. ASSUME NEW t \in Goroutines, Publish(t) PROVE AuthorInv'
    <3>1. /\ stage[t] = "deliver" /\ t[1] # "sub" /\ Finish(t)
          /\ \A s \in Servers : inbox'[s] = inbox[s] \/ inbox'[s] = Append(inbox[s], env[t])
          /\ UNCHANGED <<room, closed, farewell>>
      BY <2>12 DEF Publish
    <3>2. Authored(env[t])
      <4>1. AuthorOK(t, stage[t], env[t], room, closed)
        BY DEF AuthorInv
      <4>2. closed \subseteq Clients
        BY DEF TypeOK, MapsOK
      <4>3. t[1] \in {"conn", "loop", "http"}
        BY <3>1 DEF Goroutines
      <4>4. CASE t[1] = "conn"
        BY <3>1, <4>1, <4>4, ConnGoroutine DEF AuthorOK, Authored
      <4>5. CASE t[1] = "loop"
        BY <3>1, <4>1, <4>2, <4>5 DEF AuthorOK, Authored
      <4>6. CASE t[1] = "http"
        BY <3>1, <4>1, <4>6 DEF AuthorOK, Authored
      <4> QED
        BY <4>3, <4>4, <4>5, <4>6
    <3>3. \A s \in Servers : \A i \in 1..Len(inbox'[s]) : Authored(inbox'[s][i])
      <4> SUFFICES ASSUME NEW s \in Servers, NEW i \in 1..Len(inbox'[s])
                   PROVE  Authored(inbox'[s][i])
        OBVIOUS
      <4>1. inbox[s] \in Seq(Envelopes)
        BY DEF TypeOK, QueuesOK
      <4>2. \/ i \in 1..Len(inbox[s]) /\ inbox'[s][i] = inbox[s][i]
            \/ inbox'[s][i] = env[t]
        BY <3>1, <4>1
      <4> QED
        BY <2>a, <3>2, <4>2
    <3> QED
      BY <2>8, <3>1, <3>3
  <2>13. ASSUME NEW t \in Goroutines, NEW c \in Clients, Deliver(t, c) PROVE AuthorInv'
    <3> DEFINE e == [env[t] EXCEPT !.reached = @ \cup {c}]
    <3>1. /\ stage[t] = "deliver"
          /\ stage' = [stage EXCEPT ![t] = "deliver"]
          /\ env' = [env EXCEPT ![t] = e]
          /\ UNCHANGED <<room, closed, farewell, inbox>>
      BY <2>13 DEF Deliver, TypeOK, WorkOK
    <3>2. env[t] \in Envelopes
      BY <3>1 DEF TypeOK, WorkOK
    <3>3. /\ e.source = env[t].source /\ e.exclude = env[t].exclude
          /\ e.kind = env[t].kind /\ e.user = env[t].user /\ e.flow = env[t].flow
      BY <3>2 DEF Envelopes
    <3>4. AuthorOK(t, "deliver", env[t], room, closed)
      BY <3>1 DEF AuthorInv
    <3> HIDE DEF e
    <3>5. AuthorOK(t, "deliver", e, room', closed')
      BY <3>1, <3>3, <3>4 DEF AuthorOK, Authored
    <3> QED
      BY <2>a, <2>b, <3>1, <3>5, AuthorStep
  <2>14. ASSUME NEW t \in Goroutines, NEW c \in Clients, SkipRemoved(t, c)
         PROVE  AuthorInv'
    BY <2>b, <2>14, AuthorStable DEF SkipRemoved
  <2>15. ASSUME NEW t \in Goroutines, NEW c \in Clients, PanicOnClosed(t, c)
         PROVE  AuthorInv'
    BY <2>a, <2>8, <2>15 DEF PanicOnClosed
  <2>16. CASE UNCHANGED vars
    BY <2>b, <2>16, AuthorStable DEF vars
  <2> QED
    BY <2>1, <2>2, <2>3, <2>4, <2>5, <2>6, <2>7, <2>9, <2>10, <2>11, <2>12, <2>13,
       <2>14, <2>15, <2>16
    DEF Next, ConnStep, ServerStep, DeliveryStep
<1>3. QED
  BY <1>1, <1>2, TypeCorrect, CloseInvariant, PTL DEF Spec

-----------------------------------------------------------------------------
(* Why c, in a room with d, knows of d: it has been told; or it is about to list
   a room that d is already in; or d is still announcing itself and has c ahead
   of it.  Stated from the moment both are in the room, until the read pump of
   d returns or c loses a message. *)
WillList(c, d, f) ==
    /\ env[Conn(c)].flow = f
    /\ \/ stage[Conn(c)] = "joined"
       \/ stage[Conn(c)] = "list" /\ d \in todo[Conn(c)]

WillAnnounce(c, d, f) ==
    /\ stage[Conn(d)] # "idle"
    /\ env[Conn(d)].kind = "presence.join"
    /\ env[Conn(d)].flow = f
    /\ stage[Conn(d)] = "deliver" => c \in todo[Conn(d)]

Neighbours(c, d, f) ==
    /\ c # d /\ HostOf[c] = HostOf[d] /\ OnlyConnection(d)
    /\ c \in room[f] /\ d \in room[f]
    /\ c \notin lossy
    /\ conn[d] \notin {"closing", "gone"}

KnowsOf(c, d, f) ==
    UserOf[d] \in told[c][f] \/ WillList(c, d, f) \/ WillAnnounce(c, d, f)

PeersInv == \A f \in Flows : \A c, d \in Clients : Neighbours(c, d, f) => KnowsOf(c, d, f)

(* A step that sends nothing, starts no reading and touches no read pump's
   broadcast leaves what is known, and what is under way, as it was. *)
LEMMA PeersStable ==
    ASSUME PeersInv,
           \A f \in Flows : room'[f] \subseteq room[f],
           \A c \in Clients : conn[c] \in {"closing", "gone"} => conn'[c] \in {"closing", "gone"},
           \A c \in Clients : /\ stage'[Conn(c)] = stage[Conn(c)]
                              /\ env'[Conn(c)] = env[Conn(c)]
                              /\ todo'[Conn(c)] = todo[Conn(c)],
           UNCHANGED <<told, lossy>>
    PROVE  PeersInv'
BY DEF PeersInv, Neighbours, KnowsOf, OnlyConnection, WillList, WillAnnounce

(* The presence.leave of d's user reaches no neighbour of d: it is sent by d
   itself once it has left, by the event loop once d is closed, and the user
   has no other connection. *)
LEMMA NoFalseLeave ==
    ASSUME TypeOK, CloseInv, FanoutInv, AuthorInv,
           NEW f \in Flows, NEW c \in Clients, NEW d \in Clients, Neighbours(c, d, f),
           NEW t \in Goroutines, stage[t] = "deliver", c \in Producible(t),
           env[t].kind = "presence.leave", env[t].flow = f, env[t].user = UserOf[d]
    PROVE  FALSE
<1>1. AuthorOK(t, stage[t], env[t], room, closed)
  BY DEF AuthorInv
<1>2. \A x \in Clients : UserOf[x] = UserOf[d] => x = d
  BY DEF Neighbours, OnlyConnection
<1>3. t[1] \in {"conn", "loop", "sub", "http"}
  BY DEF Goroutines
<1>4. CASE t[1] = "conn"
  BY <1>1, <1>2, <1>4, ConnGoroutine DEF AuthorOK, AuthoredBy, Neighbours
<1>5. CASE t[1] = "loop"
  <2>1. closed \subseteq Clients
    BY DEF TypeOK, MapsOK
  <2>2. d \in closed
    BY <1>1, <1>2, <1>5, <2>1 DEF AuthorOK, AuthoredBy
  <2> QED
    BY <2>2 DEF Neighbours, CloseInv, ClosedLeavesRooms
<1>6. CASE t[1] = "sub"
  <2>1. HostOf[d] = env[t].source
    BY <1>1, <1>2, <1>6 DEF AuthorOK, AuthoredBy, Authored, Presence
  <2>2. env[t].source # ServerOf(t)
    BY <1>6 DEF FanoutInv, BroadcastOK
  <2>3. HostOf[c] = ServerOf(t)
    BY DEF Producible, LocalRoom, CloseInv, TodoIsLocal
  <2> QED
    BY <2>1, <2>2, <2>3 DEF Neighbours
<1>7. CASE t[1] = "http"
  BY <1>1, <1>7 DEF AuthorOK, Presence
<1> QED
  BY <1>3, <1>4, <1>5, <1>6, <1>7

(* PeersInv is inductive: a client joins the room before it lists it, and lists
   it before it announces itself. *)
THEOREM PeersInvariant == Spec => []PeersInv
<1>1. Init => PeersInv
  BY DEF Init, PeersInv, Neighbours
<1>2. TypeOK /\ CloseInv /\ FanoutInv /\ AuthorInv /\ PeersInv /\ [Next]_vars => PeersInv'
  <2> SUFFICES ASSUME TypeOK, CloseInv, FanoutInv, AuthorInv, PeersInv, [Next]_vars
               PROVE  PeersInv'
    OBVIOUS
  <2> USE NamesTyped, NamesDistinct DEF lifeVars, mapVars, workVars, queueVars, boundVars
  <2>1. ASSUME NEW a \in Clients,
               Serve(a) \/ ReadError(a) \/ Unregister(a) \/ WriteMessage(a)
                 \/ WriteError(a) \/ WriteClose(a)
        PROVE  PeersInv'
    <3>1. /\ UNCHANGED <<room, told, lossy, stage, env, todo>>
          /\ \/ UNCHANGED conn
             \/ conn[a] = "new" /\ conn' = [conn EXCEPT ![a] = "open"]
             \/ conn' = [conn EXCEPT ![a] = "closing"]
             \/ conn' = [conn EXCEPT ![a] = "gone"]
      BY <2>1 DEF Serve, ReadError, Unregister, WriteMessage, WriteError, WriteClose
    <3>2. \A c \in Clients :
             conn[c] \in {"closing", "gone"} => conn'[c] \in {"closing", "gone"}
      BY <3>1 DEF TypeOK, LifeOK
    <3> QED
      BY <3>1, <3>2, PeersStable
  <2>2. ASSUME NEW a \in Clients, BadFrame(a) PROVE PeersInv'
    <3>1. /\ UNCHANGED <<room, conn, stage, env, todo>>
          /\ \/ told' = [told EXCEPT ![a] = told[a]] /\ UNCHANGED lossy
             \/ /\ lossy' = lossy \cup {a}
                /\ \A c \in Clients : c # a => told'[c] = told[c]
      BY <2>2 DEF BadFrame, Enqueue, TypeOK, QueuesOK
    <3>2. \A c \in Clients : c \notin lossy' => c \notin lossy /\ told'[c] = told[c]
      BY <3>1 DEF TypeOK, QueuesOK
    <3> QED
      BY <3>1, <3>2
         DEF PeersInv, Neighbours, KnowsOf, OnlyConnection, WillList, WillAnnounce
  <2>3. ASSUME NEW a \in Clients, TakeRoster(a) PROVE PeersInv'
    <3> DEFINE t == Conn(a)
    <3>1. /\ stage[t] = "joined"
          /\ \A c \in Clients : stage'[Conn(c)] = IF c = a THEN "list" ELSE stage[Conn(c)]
          /\ \A c \in Clients : todo'[Conn(c)] = IF c = a THEN LocalRoom(HostOf[a], env[t].flow)
                                                 ELSE todo[Conn(c)]
          /\ UNCHANGED <<room, conn, lossy, told, env>>
      BY <2>3 DEF TakeRoster, TypeOK, WorkOK
    <3> SUFFICES ASSUME NEW f \in Flows, NEW c \in Clients, NEW d \in Clients,
                        Neighbours(c, d, f)'
                 PROVE  KnowsOf(c, d, f)'
      BY DEF PeersInv
    <3>2. Neighbours(c, d, f) /\ KnowsOf(c, d, f)
      BY <3>1 DEF PeersInv, Neighbours, OnlyConnection
    <3>3. CASE UserOf[d] \in told[c][f]
      BY <3>1, <3>3 DEF KnowsOf
    <3>4. CASE WillList(c, d, f)
      BY <3>1, <3>2, <3>4 DEF KnowsOf, WillList, LocalRoom, Neighbours
    <3>5. CASE WillAnnounce(c, d, f)
      BY <3>1, <3>5 DEF KnowsOf, WillAnnounce
    <3> QED
      BY <3>2, <3>3, <3>4, <3>5 DEF KnowsOf
  <2>4. ASSUME NEW a \in Clients, SendRoster(a) PROVE PeersInv'
    <3> DEFINE t == Conn(a)
               g == env[t].flow
    <3>1. /\ stage[t] = "list"
          /\ \A c \in Clients : stage'[Conn(c)] = IF c = a THEN "start" ELSE stage[Conn(c)]
          /\ \A c \in Clients : c # a => todo'[Conn(c)] = todo[Conn(c)]
          /\ UNCHANGED <<room, conn, env>>
      BY <2>4 DEF SendRoster, TypeOK, WorkOK
    <3>2. PICK visited \in SUBSET (todo[t] \cup LocalRoom(HostOf[a], g)) :
             /\ todo[t] \cap LocalRoom(HostOf[a], g) \subseteq visited
             /\ Enqueue(a, IF a \in lossy THEN told[a]
                           ELSE [told[a] EXCEPT ![g] = @ \cup
                                   ({UserOf[x] : x \in visited} \ {UserOf[a]})])
      BY <2>4 DEF SendRoster
    <3>3. g \in Flows
      BY <3>1 DEF TypeOK, WorkOK, Envelopes
    <3>4. lossy \subseteq lossy' /\ \A c \in Clients : c # a => told'[c] = told[c]
      BY <3>2 DEF Enqueue, TypeOK, QueuesOK
    <3>5. a \notin lossy' =>
             told'[a] = [told[a] EXCEPT ![g] = @ \cup
                           ({UserOf[x] : x \in visited} \ {UserOf[a]})]
      BY <3>2 DEF Enqueue, TypeOK, QueuesOK
    <3> SUFFICES ASSUME NEW f \in Flows, NEW c \in Clients, NEW d \in Clients,
                        Neighbours(c, d, f)'
                 PROVE  KnowsOf(c, d, f)'
      BY DEF PeersInv
    <3>6. Neighbours(c, d, f) /\ KnowsOf(c, d, f)
      BY <3>1, <3>4 DEF PeersInv, Neighbours, OnlyConnection
    <3>7. CASE UserOf[d] \in told[c][f]
      <4>1. UserOf[d] \in told'[c][f]
        <5>1. CASE c = a
          <6>1. a \notin lossy'
            BY <5>1 DEF Neighbours
          <6> DEFINE met == {UserOf[x] : x \in visited} \ {UserOf[a]}
          <6>2. told'[a] = [told[a] EXCEPT ![g] = @ \cup met]
            BY <3>5, <6>1
          <6>3. told[a] \in [Flows -> SUBSET Users]
            BY DEF TypeOK, QueuesOK
          <6> HIDE DEF met, g
          <6>4. told[a][f] \subseteq told'[a][f]
            BY <3>3, <6>2, <6>3
          <6> QED
            BY <3>7, <5>1, <6>4
        <5>2. CASE c # a
          BY <3>4, <3>7, <5>2
        <5> QED
          BY <5>1, <5>2
      <4> QED
        BY <4>1 DEF KnowsOf
    <3>8. CASE WillList(c, d, f)
      <4>1. CASE c = a
        <5>1. d \in todo[t] /\ f = g
          BY <3>1, <3>8, <4>1 DEF WillList
        <5>2. d \in visited
          BY <3>2, <3>6, <4>1, <5>1 DEF Neighbours, LocalRoom
        <5>3. UserOf[d] # UserOf[a]
          BY <3>6, <4>1 DEF Neighbours, OnlyConnection
        <5>4. a \notin lossy'
          BY <4>1 DEF Neighbours
        <5>5. UserOf[d] \in told'[c][f]
          <6> DEFINE met == {UserOf[x] : x \in visited} \ {UserOf[a]}
          <6>1. told'[a] = [told[a] EXCEPT ![g] = @ \cup met]
            BY <3>5, <5>4
          <6>2. told[a] \in [Flows -> SUBSET Users] /\ UserOf[d] \in met
            BY <5>2, <5>3 DEF TypeOK, QueuesOK
          <6> HIDE DEF met, g
          <6> QED
            BY <3>3, <4>1, <5>1, <6>1, <6>2
        <5> QED
          BY <5>5 DEF KnowsOf
      <4>2. CASE c # a
        BY <3>1, <3>8, <4>2 DEF KnowsOf, WillList
      <4> QED
        BY <4>1, <4>2
    <3>9. CASE WillAnnounce(c, d, f)
      BY <3>1, <3>9 DEF KnowsOf, WillAnnounce
    <3> QED
      BY <3>6, <3>7, <3>8, <3>9 DEF KnowsOf
  <2>5. ASSUME NEW a \in Clients, NEW g \in Flows, FlowJoin(a, g) PROVE PeersInv'
    <3>1. CASE CrashByRace(Conn(a), HostOf[a], g)
      BY <3>1, PeersStable DEF CrashByRace
    <3>2. CASE ~CrashByRace(Conn(a), HostOf[a], g)
      <4>1. /\ stage[Conn(a)] = "idle"
            /\ stage' = [stage EXCEPT ![Conn(a)] = "joined"]
            /\ env' = [env EXCEPT ![Conn(a)] =
                         Envelope(HostOf[a], g, "presence.join", UserOf[a], NoUser)]
            /\ room' = [room EXCEPT ![g] = @ \cup {a}]
            /\ UNCHANGED <<conn, lossy, told, todo>>
        BY <2>5, <3>2 DEF FlowJoin, ReadFrame, Begin
      <4>2. /\ stage'[Conn(a)] = "joined"
            /\ env'[Conn(a)].flow = g /\ env'[Conn(a)].kind = "presence.join"
        BY <4>1 DEF TypeOK, WorkOK, Envelope
      <4>3. \A c \in Clients : c # a => /\ stage'[Conn(c)] = stage[Conn(c)]
                                        /\ env'[Conn(c)] = env[Conn(c)]
        BY <4>1 DEF TypeOK, WorkOK
      <4>4. \A h \in Flows : room'[h] = IF h = g THEN room[h] \cup {a} ELSE room[h]
        BY <4>1 DEF TypeOK, MapsOK
      <4> SUFFICES ASSUME NEW f \in Flows, NEW c \in Clients, NEW d \in Clients,
                          Neighbours(c, d, f)'
                   PROVE  KnowsOf(c, d, f)'
        BY DEF PeersInv
      <4>5. CASE c = a /\ f = g
        BY <4>2, <4>5 DEF KnowsOf, WillList
      <4>6. CASE d = a /\ f = g
        BY <4>2, <4>6 DEF KnowsOf, WillAnnounce
      <4>7. CASE f # g \/ (c # a /\ d # a)
        <5>1. KnowsOf(c, d, f)
          BY <4>1, <4>4, <4>7 DEF PeersInv, Neighbours, OnlyConnection
        <5> QED
          BY <4>1, <4>3, <5>1 DEF KnowsOf, WillList, WillAnnounce
      <4> QED
        BY <4>5, <4>6, <4>7
    <3> QED
      BY <3>1, <3>2
  <2>6. ASSUME NEW a \in Clients, NEW g \in Flows,
               FlowLeave(a, g) \/ CursorUpdate(a, g) \/ Presentation(a, g)
        PROVE  PeersInv'
    <3>1. CASE CrashByRace(Conn(a), HostOf[a], g)
      BY <3>1, PeersStable DEF CrashByRace
    <3>2. CASE ~CrashByRace(Conn(a), HostOf[a], g)
      <4>1. /\ stage[Conn(a)] = "idle"
            /\ \/ /\ room' = [room EXCEPT ![g] = @ \ {a}]
                  /\ told' = [told EXCEPT ![a][g] = {}]
               \/ UNCHANGED <<room, told>>
            /\ UNCHANGED <<conn, lossy, todo>>
        BY <2>6, <3>2 DEF FlowLeave, CursorUpdate, Presentation, ReadFrame, Begin
      <4>2. \A c \in Clients : c # a =>
               /\ stage'[Conn(c)] = stage[Conn(c)]
               /\ stage[Conn(c)] # "idle" => SameMessage(env'[Conn(c)], env[Conn(c)])
        <5>1. CASE FlowLeave(a, g)
          <6>1. /\ stage' = [stage EXCEPT ![Conn(a)] = "start"]
                /\ env' = [Forgotten(a, g) EXCEPT ![Conn(a)] =
                            Envelope(HostOf[a], g, "presence.leave", UserOf[a], NoUser)]
            BY <3>2, <5>1 DEF FlowLeave
          <6> QED
            BY <6>1, ForgottenMessages DEF TypeOK, WorkOK
        <5>2. CASE CursorUpdate(a, g) \/ Presentation(a, g)
          BY <5>2 DEF CursorUpdate, Presentation, Begin, TypeOK, WorkOK, SameMessage
        <5> QED
          BY <2>6, <5>1, <5>2
      <4>3. \A f \in Flows : /\ room'[f] \subseteq room[f]
                             /\ \A c \in room'[f] : told'[c][f] = told[c][f]
        <5>1. CASE UNCHANGED <<room, told>>
          BY <5>1
        <5>2. CASE /\ room' = [room EXCEPT ![g] = @ \ {a}]
                   /\ told' = [told EXCEPT ![a][g] = {}]
          <6>1. \A f \in Flows : room'[f] = IF f = g THEN room[f] \ {a} ELSE room[f]
            BY <5>2 DEF TypeOK, MapsOK
          <6>2. told' = [told EXCEPT ![a] = [told[a] EXCEPT ![g] = {}]]
            BY <5>2
          <6>3. \A c \in Clients, f \in Flows :
                   c # a \/ f # g => told'[c][f] = told[c][f]
            BY <6>2 DEF TypeOK, QueuesOK
          <6> QED
            BY <6>1, <6>3 DEF TypeOK, MapsOK
        <5> QED
          BY <4>1, <5>1, <5>2
      <4> SUFFICES ASSUME NEW f \in Flows, NEW c \in Clients, NEW d \in Clients,
                          Neighbours(c, d, f)'
                   PROVE  KnowsOf(c, d, f)'
        BY DEF PeersInv
      <4>4. KnowsOf(c, d, f)
        BY <4>1, <4>3 DEF PeersInv, Neighbours, OnlyConnection
      <4>5. told'[c][f] = told[c][f]
        BY <4>3 DEF Neighbours
      <4> QED
        BY <4>1, <4>2, <4>4, <4>5 DEF KnowsOf, WillList, WillAnnounce, SameMessage
    <3> QED
      BY <3>1, <3>2
  <2>7. ASSUME NEW s \in Servers, ProcessRegister(s) PROVE PeersInv'
    BY <2>7, PeersStable DEF ProcessRegister
  <2>8. ASSUME NEW s \in Servers, ProcessUnregister(s) PROVE PeersInv'
    BY <2>8, PeersStable DEF ProcessUnregister, CrashByRace
  <2>9. ASSUME NEW s \in Servers,
                Farewell(s) \/ Receive(s) \/ Relayed(s)
                  \/ \E u \in Users, f \in Flows : SaveDiagram(s, u, f)
         PROVE  PeersInv'
    <3>1. \A c \in Clients : Conn(c) \notin {Loop(s), Sub(s), Http(s)}
      OBVIOUS
    <3>2. /\ \A c \in Clients : stage'[Conn(c)] = stage[Conn(c)]
          /\ UNCHANGED <<room, conn, told, lossy>>
      BY <2>9, <3>1
         DEF Farewell, Receive, Relayed, SaveDiagram, Begin, Finish, TypeOK, WorkOK
    <3>3. \A c \in Clients : env'[Conn(c)] = env[Conn(c)]
      BY <2>9, <3>1
         DEF Farewell, Receive, Relayed, SaveDiagram, Begin, Finish, TypeOK, WorkOK
    <3>4. \A c \in Clients : todo'[Conn(c)] = todo[Conn(c)]
      BY <2>9, <3>1
         DEF Farewell, Receive, Relayed, SaveDiagram, Begin, Finish, TypeOK, WorkOK
    <3> QED
      BY <3>2, <3>3, <3>4, PeersStable
  <2>10. ASSUME NEW t \in Goroutines, TakeRoom(t) PROVE PeersInv'
    <3> DEFINE T == {x \in LocalRoom(ServerOf(t), env[t].flow) :
                        UserOf[x] # env[t].exclude}
    <3>1. /\ stage[t] = "start"
          /\ \A o \in Goroutines : stage'[o] = IF o = t THEN "deliver" ELSE stage[o]
          /\ \A o \in Goroutines : todo'[o] = IF o = t THEN T ELSE todo[o]
          /\ UNCHANGED <<room, conn, told, lossy, env>>
      BY <2>10 DEF TakeRoom, TypeOK, WorkOK
    <3> SUFFICES ASSUME NEW f \in Flows, NEW c \in Clients, NEW d \in Clients,
                        Neighbours(c, d, f)'
                 PROVE  KnowsOf(c, d, f)'
      BY DEF PeersInv
    <3>2. Neighbours(c, d, f) /\ KnowsOf(c, d, f)
      BY <3>1 DEF PeersInv, Neighbours, OnlyConnection
    <3>3. CASE UserOf[d] \in told[c][f]
      BY <3>1, <3>3 DEF KnowsOf
    <3>4. CASE WillList(c, d, f)
      BY <3>1, <3>4 DEF KnowsOf, WillList
    <3>5. CASE WillAnnounce(c, d, f)
      <4>1. CASE t = Conn(d)
        <5>1. AuthorOK(t, stage[t], env[t], room, closed)
          BY DEF AuthorInv
        <5>2. env[t].exclude = NoUser /\ env[t].flow = f
          BY <3>1, <3>5, <4>1, <5>1, NameKinds DEF AuthorOK, WillAnnounce
        <5>3. UserOf[c] # NoUser
          BY HubConstants
        <5>4. c \in T
          BY <3>2, <4>1, <5>2, <5>3 DEF LocalRoom, Neighbours
        <5> QED
          BY <3>1, <3>5, <4>1, <5>4 DEF KnowsOf, WillAnnounce
      <4>2. CASE t # Conn(d)
        BY <3>1, <3>5, <4>2 DEF KnowsOf, WillAnnounce
      <4> QED
        BY <4>1, <4>2
    <3> QED
      BY <3>2, <3>3, <3>4, <3>5 DEF KnowsOf
  <2>11. ASSUME NEW t \in Goroutines, Publish(t) PROVE PeersInv'
    <3>1. /\ stage[t] = "deliver" /\ todo[t] = {}
          /\ \A o \in Goroutines : o # t => /\ stage'[o] = stage[o]
                                            /\ env'[o] = env[o] /\ todo'[o] = todo[o]
          /\ UNCHANGED <<room, conn, told, lossy>>
      BY <2>11 DEF Publish, Finish, TypeOK, WorkOK
    <3> SUFFICES ASSUME NEW f \in Flows, NEW c \in Clients, NEW d \in Clients,
                        Neighbours(c, d, f)'
                 PROVE  KnowsOf(c, d, f)'
      BY DEF PeersInv
    <3>2. KnowsOf(c, d, f)
      BY <3>1 DEF PeersInv, Neighbours, OnlyConnection
    <3> QED
      BY <3>1, <3>2 DEF KnowsOf, WillList, WillAnnounce
  <2>12. ASSUME NEW t \in Goroutines, NEW x \in Clients, Deliver(t, x) PROVE PeersInv'
    <3> DEFINE e == env[t]
    <3>1. /\ stage[t] = "deliver" /\ x \in Producible(t)
          /\ Enqueue(x, Hears(x, e))
          /\ \A o \in Goroutines : todo'[o] = IF o = t THEN todo[o] \ {x} ELSE todo[o]
          /\ \A o \in Goroutines : o # t => env'[o] = env[o]
          /\ UNCHANGED <<room, conn, stage>>
      BY <2>12 DEF Deliver, TypeOK, WorkOK
    <3>2. e \in Envelopes
      BY <3>1 DEF TypeOK, WorkOK
    <3>3. env'[t].flow = e.flow /\ env'[t].kind = e.kind
      <4>1. env'[t] = [e EXCEPT !.reached = @ \cup {x}]
        BY <2>12 DEF Deliver, TypeOK, WorkOK
      <4> QED
        BY <3>2, <4>1 DEF Envelopes
    <3>4. lossy \subseteq lossy' /\ \A c \in Clients : c # x => told'[c] = told[c]
      BY <3>1 DEF Enqueue, TypeOK, QueuesOK
    <3>5. x \notin lossy' => told'[x] = Hears(x, e) /\ x \notin lossy
      BY <3>1 DEF Enqueue, TypeOK, QueuesOK
    <3> SUFFICES ASSUME NEW f \in Flows, NEW c \in Clients, NEW d \in Clients,
                        Neighbours(c, d, f)'
                 PROVE  KnowsOf(c, d, f)'
      BY DEF PeersInv
    <3>6. Neighbours(c, d, f) /\ KnowsOf(c, d, f)
      BY <3>1, <3>4 DEF PeersInv, Neighbours, OnlyConnection
    <3>7. c \notin lossy'
      BY DEF Neighbours
    <3>8. CASE UserOf[d] \in told[c][f]
      <4>1. CASE c # x
        BY <3>4, <3>8, <4>1 DEF KnowsOf
      <4>2. CASE c = x
        <5>1. told'[c] = Hears(c, e) /\ c \notin lossy
          BY <3>5, <3>7, <4>2
        <5>2. ~(e.kind = "presence.leave" /\ e.flow = f /\ e.user = UserOf[d])
          BY <3>1, <3>6, <4>2, NoFalseLeave
        <5>3. UserOf[d] \in Hears(c, e)[f]
          BY <3>2, <3>8, <5>1, <5>2 DEF Hears, TypeOK, QueuesOK, Envelopes
        <5> QED
          BY <5>1, <5>3 DEF KnowsOf
      <4> QED
        BY <4>1, <4>2
    <3>9. CASE WillList(c, d, f)
      <4>1. Conn(c) # t
        BY <3>1, <3>9 DEF WillList
      <4> QED
        BY <3>1, <3>9, <4>1 DEF KnowsOf, WillList
    <3>10. CASE WillAnnounce(c, d, f)
      <4>1. CASE Conn(d) # t
        BY <3>1, <3>10, <4>1 DEF KnowsOf, WillAnnounce
      <4>2. CASE Conn(d) = t /\ c # x
        BY <3>1, <3>3, <3>10, <4>2 DEF KnowsOf, WillAnnounce
      <4>3. CASE Conn(d) = t /\ c = x
        <5>1. told'[c] = Hears(c, e) /\ c \notin lossy
          BY <3>5, <3>7, <4>3
        <5>2. AuthorOK(t, stage[t], e, room, closed)
          BY DEF AuthorInv
        <5>3. t[1] = "conn" /\ t[2] = d
          BY <4>3 DEF Conn
        <5>4. e.user = UserOf[d] /\ e.flow = f /\ e.kind = "presence.join"
          BY <3>1, <3>10, <4>3, <5>2, <5>3 DEF AuthorOK, AuthoredBy, WillAnnounce
        <5>5. UserOf[d] \in Hears(c, e)[f]
          BY <5>1, <5>4 DEF Hears, TypeOK, QueuesOK
        <5> QED
          BY <5>1, <5>5 DEF KnowsOf
      <4> QED
        BY <4>1, <4>2, <4>3
    <3> QED
      BY <3>6, <3>8, <3>9, <3>10 DEF KnowsOf
  <2>13. ASSUME NEW t \in Goroutines, NEW x \in Clients, SkipRemoved(t, x)
         PROVE  PeersInv'
    <3>1. /\ stage[t] = "deliver" /\ x \notin room[env[t].flow]
          /\ \A o \in Goroutines : todo'[o] = IF o = t THEN todo[o] \ {x} ELSE todo[o]
          /\ UNCHANGED <<room, conn, stage, env, told, lossy>>
      BY <2>13 DEF SkipRemoved, TypeOK, WorkOK
    <3> SUFFICES ASSUME NEW f \in Flows, NEW c \in Clients, NEW d \in Clients,
                        Neighbours(c, d, f)'
                 PROVE  KnowsOf(c, d, f)'
      BY DEF PeersInv
    <3>2. KnowsOf(c, d, f) /\ c \in room[f]
      BY <3>1 DEF PeersInv, Neighbours, OnlyConnection
    <3> QED
      BY <3>1, <3>2 DEF KnowsOf, WillList, WillAnnounce
  <2>14. ASSUME NEW t \in Goroutines, NEW x \in Clients, PanicOnClosed(t, x)
         PROVE  PeersInv'
    <3>1. /\ stage[t] = "deliver"
          /\ \A o \in Goroutines : o # t => /\ stage'[o] = stage[o]
                                            /\ env'[o] = env[o] /\ todo'[o] = todo[o]
          /\ conn' = IF t[1] = "conn" THEN [conn EXCEPT ![t[2]] = "closing"] ELSE conn
          /\ UNCHANGED <<room, told, lossy>>
      BY <2>14 DEF PanicOnClosed, Finish, TypeOK, WorkOK
    <3> SUFFICES ASSUME NEW f \in Flows, NEW c \in Clients, NEW d \in Clients,
                        Neighbours(c, d, f)'
                 PROVE  KnowsOf(c, d, f)'
      BY DEF PeersInv
    <3>2. conn'[d] \notin {"closing", "gone"}
      BY DEF Neighbours
    <3>3. t # Conn(d) /\ conn[d] = conn'[d]
      BY <3>1, <3>2 DEF Conn, TypeOK, LifeOK
    <3>4. KnowsOf(c, d, f)
      BY <3>1, <3>2, <3>3 DEF PeersInv, Neighbours, OnlyConnection
    <3> QED
      BY <3>1, <3>3, <3>4 DEF KnowsOf, WillList, WillAnnounce
  <2>15. CASE UNCHANGED vars
    BY <2>15, PeersStable DEF vars
  <2> QED
    BY <2>1, <2>2, <2>3, <2>4, <2>5, <2>6, <2>7, <2>8, <2>9, <2>10, <2>11, <2>12,
       <2>13, <2>14, <2>15
    DEF Next, ConnStep, ServerStep, DeliveryStep
<1>3. QED
  BY <1>1, <1>2, TypeCorrect, CloseInvariant, FanoutInvariant, AuthorInvariant, PTL
     DEF Spec

(* Of two users with one connection each in a room of the same instance, each
   has been told of the other once both joins are handled, unless a message to
   it was dropped. *)
THEOREM PeersAreTold == Spec => []PeersTold
<1>1. TypeOK /\ PeersInv => PeersTold
  <2> SUFFICES ASSUME TypeOK, PeersInv, NEW f \in Flows, NEW c \in room[f], NEW d \in room[f],
                      c # d, HostOf[c] = HostOf[d], OnlyConnection(d), c \notin lossy,
                      Listed(c, f), Announced(d, f)
               PROVE  UserOf[d] \in told[c][f]
    BY DEF PeersTold
  <2>1. c \in Clients /\ d \in Clients
    BY DEF TypeOK, MapsOK
  <2>2. KnowsOf(c, d, f)
    BY <2>1 DEF PeersInv, Neighbours, Announced
  <2> QED
    BY <2>2 DEF KnowsOf, WillList, WillAnnounce, Listed, Announced
<1> QED
  BY <1>1, TypeCorrect, PeersInvariant, PTL

=============================================================================
