------------------------------- MODULE WsHub -------------------------------
(***************************************************************************)
(* The WebSocket hub of pkg/ws: server instances that share a Redis        *)
(* pub/sub, each with an event loop (processEvents), a Redis subscriber    *)
(* (subscribeRedis), HTTP handlers that broadcast a saved diagram, and     *)
(* per connection a read pump and a write pump.                            *)
(*                                                                         *)
(* A step is what a goroutine does between two points where others may     *)
(* interleave: a critical section of Hub.mu, one receive from a channel,   *)
(* one iteration of a delivery loop, one call to Redis.  The delivery      *)
(* loops take the map under RLock and range over it after RUnlock          *)
(* (hub.go:243-247), so they are loops of several steps here.              *)
(***************************************************************************)
EXTENDS Naturals, Sequences, FiniteSets

CONSTANTS Servers,      \* server instances, one Hub each
          Clients,      \* WebSocket connections (a reconnect is another one)
          Users, Flows,
          NoUser,       \* the empty ExcludeUserID
          UserOf,       \* the authenticated user of a connection
          HostOf,       \* the instance a connection was upgraded on
          QueueCap,     \* capacity of the register and unregister channels
          SendBufSize,  \* capacity of Client.send
          InboxCap,     \* capacity of a subscriber's message channel; 0 when Redis
                        \* cannot be reached (every Publish fails)
          Flaky,        \* bound: the connections whose peer or network may fail
          FrameKinds,   \* bound: the inbound frame types of each connection
          MaxFrames,    \* bound: frames each connection sends
          MaxSaves      \* bound: diagrams saved over HTTP in all

AllFrameKinds == {"flow.join", "flow.leave", "cursor.update", "presentation", "bad"}

ASSUME HubConstants ==
    /\ NoUser \notin Users
    /\ UserOf \in [Clients -> Users]
    /\ HostOf \in [Clients -> Servers]
    /\ QueueCap \in Nat \ {0}
    /\ SendBufSize \in Nat \ {0}
    /\ InboxCap \in Nat
    /\ Flaky \subseteq Clients
    /\ FrameKinds \in [Clients -> SUBSET AllFrameKinds]
    /\ MaxFrames \in [Clients -> Nat]
    /\ MaxSaves \in Nat

VARIABLES
    up,          \* the server processes that have not crashed
    conn,        \* read pump: "new", "open", "closing" (returned), "gone" (unregistered)
    writer,      \* write pump: "none", "running", "stopped"
    registerQ,   \* Hub.register of each server
    unregisterQ, \* Hub.unregister of each server
    userConns,   \* connections in Hub.userConns
    room,        \* Hub.flowConns: per flow, the connections of all servers
    flows,       \* Client.flows
    closed,      \* connections whose send channel is closed
    buf,         \* number of messages waiting in Client.send
    farewell,    \* leave broadcasts processEvents still has to make
    stage,       \* per goroutine: where it is in a broadcast
    env,         \* per goroutine: the envelope it is broadcasting
    todo,        \* per goroutine: clients its range loop has still to visit
    inbox,       \* envelopes Redis has delivered to each server's subscriber
    told,        \* what the messages queued to a connection say about who is in a flow
    lossy,       \* connections that lost a message to a full buffer
    frames,      \* frames handled per connection (bound)
    saves        \* diagrams saved (bound)

lifeVars  == <<up, conn, writer, registerQ, unregisterQ>>
mapVars   == <<userConns, room, flows, closed, farewell>>
workVars  == <<stage, env, todo>>
queueVars == <<buf, told, lossy>>
boundVars == <<frames, saves>>
vars == <<lifeVars, mapVars, workVars, queueVars, inbox, boundVars>>

-----------------------------------------------------------------------------
(* Goroutines *)

Conn(c) == <<"conn", c>>   \* the read pump of a connection
Loop(s) == <<"loop", s>>   \* processEvents
Sub(s)  == <<"sub", s>>    \* subscribeRedis
Http(s) == <<"http", s>>   \* a SaveDiagram request

Goroutines == ({"conn"} \X Clients) \cup ({"loop", "sub", "http"} \X Servers)
ServerOf(t) == IF t[1] = "conn" THEN HostOf[t[2]] ELSE t[2]

Kinds == {"presence.join", "presence.leave", "cursor.move",
          "presentation", "diagram_updated"}

(* RedisEnvelope; "reached" records the connections the message was handed to,
   less those that have sent flow.leave since. *)
Envelopes == [source: Servers, flow: Flows, kind: Kinds, user: Users,
              exclude: Users \cup {NoUser}, reached: SUBSET Clients]
NoEnvelope == [kind |-> "none"]

Envelope(s, f, kind, u, excl) ==
    [source |-> s, flow |-> f, kind |-> kind, user |-> u,
     exclude |-> excl, reached |-> {}]

(* The map flowConns[f] of server s. *)
LocalRoom(s, f) == {c \in room[f] : HostOf[c] = s}

(* Goroutines that are ranging over the map flowConns[f] of server s. *)
RangesOver(t, s, f) ==
    /\ stage[t] \in {"list", "deliver"}
    /\ ServerOf(t) = s
    /\ env[t].flow = f

LifeOK ==
    /\ up \subseteq Servers
    /\ conn \in [Clients -> {"new", "open", "closing", "gone"}]
    /\ writer \in [Clients -> {"none", "running", "stopped"}]
    /\ registerQ \in [Servers -> Seq(Clients)]
    /\ unregisterQ \in [Servers -> Seq(Clients)]

MapsOK ==
    /\ userConns \subseteq Clients
    /\ room \in [Flows -> SUBSET Clients]
    /\ flows \in [Clients -> SUBSET Flows]
    /\ closed \subseteq Clients
    /\ farewell \in [Servers -> SUBSET (Flows \X Users)]

(* A goroutine in the middle of a broadcast holds an envelope. *)
WorkOK ==
    /\ stage \in [Goroutines -> {"idle", "joined", "list", "start", "deliver"}]
    /\ env \in [Goroutines -> Envelopes \cup {NoEnvelope}]
    /\ todo \in [Goroutines -> SUBSET Clients]
    /\ \A t \in Goroutines : stage[t] # "idle" => env[t] \in Envelopes

QueuesOK ==
    /\ buf \in [Clients -> 0..SendBufSize]
    /\ told \in [Clients -> [Flows -> SUBSET Users]]
    /\ lossy \subseteq Clients
    /\ inbox \in [Servers -> Seq(Envelopes)]

BoundsOK ==
    /\ frames \in [Clients -> Nat]
    /\ \A c \in Clients : frames[c] <= MaxFrames[c]
    /\ saves \in 0..MaxSaves

TypeOK == LifeOK /\ MapsOK /\ WorkOK /\ QueuesOK /\ BoundsOK

Init ==
    /\ up = Servers
    /\ conn = [c \in Clients |-> "new"]
    /\ writer = [c \in Clients |-> "none"]
    /\ registerQ = [s \in Servers |-> <<>>]
    /\ unregisterQ = [s \in Servers |-> <<>>]
    /\ userConns = {}
    /\ room = [f \in Flows |-> {}]
    /\ flows = [c \in Clients |-> {}]
    /\ closed = {}
    /\ buf = [c \in Clients |-> 0]
    /\ farewell = [s \in Servers |-> {}]
    /\ stage = [t \in Goroutines |-> "idle"]
    /\ env = [t \in Goroutines |-> NoEnvelope]
    /\ todo = [t \in Goroutines |-> {}]
    /\ inbox = [s \in Servers |-> <<>>]
    /\ told = [c \in Clients |-> [f \in Flows |-> {}]]
    /\ lossy = {}
    /\ frames = [c \in Clients |-> 0]
    /\ saves = 0

-----------------------------------------------------------------------------
(* Connection life cycle *)

(* Serve: upgrade, register <- c (blocks while the channel is full), start
   the write pump, enter the read pump. *)
Serve(c) ==
    /\ HostOf[c] \in up
    /\ conn[c] = "new"
    /\ Len(registerQ[HostOf[c]]) < QueueCap
    /\ registerQ' = [registerQ EXCEPT ![HostOf[c]] = Append(@, c)]
    /\ conn' = [conn EXCEPT ![c] = "open"]
    /\ writer' = [writer EXCEPT ![c] = "running"]
    /\ UNCHANGED <<up, unregisterQ, mapVars, workVars, queueVars, inbox, boundVars>>

(* readPump: ReadMessage fails (peer closed, pong deadline, conn closed). *)
ReadError(c) ==
    /\ HostOf[c] \in up
    /\ c \in Flaky
    /\ conn[c] = "open"
    /\ stage[Conn(c)] = "idle"
    /\ conn' = [conn EXCEPT ![c] = "closing"]
    /\ UNCHANGED <<up, writer, registerQ, unregisterQ, mapVars, workVars,
                   queueVars, inbox, boundVars>>

(* Mutant: a write pump that returns without closing the connection. *)
ReadClosedMutant(c) == FALSE

(* A connection its own write pump has closed can only fail to be read. *)
ReadClosed(c) == writer[c] = "stopped" /\ ReadError(c)

(* readPump's deferred unregister <- c, which blocks while the channel is full. *)
Unregister(c) ==
    /\ HostOf[c] \in up
    /\ conn[c] = "closing"
    /\ Len(unregisterQ[HostOf[c]]) < QueueCap
    /\ unregisterQ' = [unregisterQ EXCEPT ![HostOf[c]] = Append(@, c)]
    /\ conn' = [conn EXCEPT ![c] = "gone"]
    /\ UNCHANGED <<up, writer, registerQ, mapVars, workVars, queueVars,
                   inbox, boundVars>>

(* writePump writes one buffered message; on failure it closes the connection
   and returns.  A ping can fail too, with nothing buffered. *)
WriteMessage(c) ==
    /\ HostOf[c] \in up
    /\ writer[c] = "running"
    /\ buf[c] > 0
    /\ buf' = [buf EXCEPT ![c] = @ - 1]
    /\ UNCHANGED <<lifeVars, mapVars, workVars, told, lossy, inbox, boundVars>>

(* Mutant: the write pump, too, unregisters the connection it gives up. *)
WriteErrorMutant(c) ==
    /\ writer[c] = "running"
    /\ Len(unregisterQ[HostOf[c]]) < QueueCap
    /\ writer' = [writer EXCEPT ![c] = "stopped"]
    /\ unregisterQ' = [unregisterQ EXCEPT ![HostOf[c]] = Append(@, c)]
    /\ UNCHANGED <<up, conn, registerQ, mapVars, workVars, queueVars, inbox, boundVars>>

WriteError(c) ==
    /\ HostOf[c] \in up
    /\ c \in Flaky
    /\ writer[c] = "running"
    /\ \/ buf[c] > 0 /\ buf' = [buf EXCEPT ![c] = @ - 1]
       \/ UNCHANGED buf
    /\ writer' = [writer EXCEPT ![c] = "stopped"]
    /\ UNCHANGED <<up, conn, registerQ, unregisterQ, mapVars, workVars,
                   told, lossy, inbox, boundVars>>

(* writePump drains the closed channel, sends a close frame and returns. *)
WriteClose(c) ==
    /\ HostOf[c] \in up
    /\ writer[c] = "running"
    /\ c \in closed
    /\ buf[c] = 0
    /\ writer' = [writer EXCEPT ![c] = "stopped"]
    /\ UNCHANGED <<up, conn, registerQ, unregisterQ, mapVars, workVars,
                   queueVars, inbox, boundVars>>

-----------------------------------------------------------------------------
(* Writes to a flowConns map.  A range loop of another goroutine may be
   running on it without the lock: the runtime may detect the race and abort
   the process ("concurrent map iteration and map write"), or not. *)

RangedByOther(t, s, f) == \E o \in Goroutines \ {t} : RangesOver(o, s, f)

CrashByRace(t, s, f) ==
    /\ RangedByOther(t, s, f)
    /\ up' = up \ {s}
    /\ UNCHANGED <<conn, writer, registerQ, unregisterQ, mapVars, workVars,
                   queueVars, inbox>>

-----------------------------------------------------------------------------
(* processEvents *)

(* Mutant: the leave broadcasts run in a goroutine of their own. *)
LoopIdleMutant(s) == s \in up

LoopIdle(s) ==
    /\ s \in up
    /\ stage[Loop(s)] = "idle"
    /\ farewell[s] = {}

ProcessRegister(s) ==
    /\ LoopIdle(s)
    /\ registerQ[s] # <<>>
    /\ userConns' = userConns \cup {Head(registerQ[s])}
    /\ registerQ' = [registerQ EXCEPT ![s] = Tail(@)]
    /\ UNCHANGED <<up, conn, writer, unregisterQ, room, flows, closed, farewell,
                   workVars, queueVars, inbox, boundVars>>

(* Remove the client from both maps under the lock, close its send channel;
   the presence.leave broadcasts for its flows follow (Farewell). *)
ProcessUnregister(s) ==
    /\ LoopIdle(s)
    /\ unregisterQ[s] # <<>>
    /\ LET c == Head(unregisterQ[s]) IN
       \/ /\ userConns' = userConns \ {c}
          /\ room' = [f \in Flows |-> IF f \in flows[c] THEN room[f] \ {c} ELSE room[f]]
          /\ closed' = closed \cup {c}
          /\ farewell' = [farewell EXCEPT ![s] = flows[c] \X {UserOf[c]}]
          /\ unregisterQ' = [unregisterQ EXCEPT ![s] = Tail(@)]
          /\ UNCHANGED <<up, conn, writer, registerQ, flows, workVars,
                         queueVars, inbox, boundVars>>
       \/ /\ \E f \in flows[c] : CrashByRace(Loop(s), s, f)
          /\ UNCHANGED boundVars

(* The unregister case's loop over the flows the client was in. *)
Farewell(s) ==
    /\ s \in up
    /\ stage[Loop(s)] = "idle"
    /\ \E p \in farewell[s] :
          /\ farewell' = [farewell EXCEPT ![s] = @ \ {p}]
          /\ env' = [env EXCEPT ![Loop(s)] =
                        Envelope(s, p[1], "presence.leave", p[2], NoUser)]
    /\ stage' = [stage EXCEPT ![Loop(s)] = "start"]
    /\ UNCHANGED <<lifeVars, userConns, room, flows, closed, todo, queueVars,
                   inbox, boundVars>>

-----------------------------------------------------------------------------
(* Client.enqueue: a send that never blocks.  told is the history of what the
   queued presence messages say: "news" replaces it when the message fits, and
   it is given up when one is dropped. *)
Enqueue(c, news) ==
    IF buf[c] < SendBufSize
    THEN /\ buf' = [buf EXCEPT ![c] = @ + 1]
         /\ told' = [told EXCEPT ![c] = news]
         /\ UNCHANGED lossy
    ELSE /\ lossy' = lossy \cup {c}
         /\ told' = [told EXCEPT ![c] = [f \in Flows |-> {}]]
         /\ UNCHANGED buf

(* What connection c knows once it has been sent envelope e. *)
Hears(c, e) ==
    IF c \in lossy THEN told[c] ELSE
    [told[c] EXCEPT ![e.flow] =
        CASE e.kind = "presence.join"  -> @ \cup {e.user}
          [] e.kind = "presence.leave" -> @ \ {e.user}
          [] OTHER -> @]

-----------------------------------------------------------------------------
(* handleClientMessage, called by the read pump for one frame at a time *)

ReadFrame(c, kind) ==
    /\ HostOf[c] \in up
    /\ kind \in FrameKinds[c]
    /\ conn[c] = "open"
    /\ stage[Conn(c)] = "idle"
    /\ frames[c] < MaxFrames[c]
    /\ frames' = [frames EXCEPT ![c] = @ + 1]
    /\ UNCHANGED saves

(* Start handling a frame: the goroutine's next steps work on envelope e. *)
Begin(t, where, e) ==
    /\ stage' = [stage EXCEPT ![t] = where]
    /\ env' = [env EXCEPT ![t] = e]
    /\ UNCHANGED todo

(* Mutant: the joining client is not sent the list of those already there. *)
FlowJoinMutant(c, f) ==
    /\ ReadFrame(c, "flow.join")
    /\ flows' = [flows EXCEPT ![c] = @ \cup {f}]
    /\ room' = [room EXCEPT ![f] = @ \cup {c}]
    /\ Begin(Conn(c), "start",
             Envelope(HostOf[c], f, "presence.join", UserOf[c], NoUser))
    /\ UNCHANGED <<lifeVars, userConns, closed, farewell, queueVars, inbox>>

(* flow.join: c.joinFlow, then the write to flowConns under the lock. *)
FlowJoin(c, f) ==
    /\ ReadFrame(c, "flow.join")
    /\ \/ /\ flows' = [flows EXCEPT ![c] = @ \cup {f}]
          /\ room' = [room EXCEPT ![f] = @ \cup {c}]
          /\ Begin(Conn(c), "joined",
                   Envelope(HostOf[c], f, "presence.join", UserOf[c], NoUser))
          /\ UNCHANGED <<lifeVars, userConns, closed, farewell, queueVars, inbox>>
       \/ CrashByRace(Conn(c), HostOf[c], f)

(* flowUserIDs, first half: take the map under RLock. *)
TakeRoster(c) ==
    /\ HostOf[c] \in up
    /\ stage[Conn(c)] = "joined"
    /\ todo' = [todo EXCEPT ![Conn(c)] = LocalRoom(HostOf[c], env[Conn(c)].flow)]
    /\ stage' = [stage EXCEPT ![Conn(c)] = "list"]
    /\ UNCHANGED <<lifeVars, mapVars, env, queueVars, inbox, boundVars>>

(* flowUserIDs, second half, and the presence.list message.  Entries removed
   from or added to the map since it was taken may or may not be visited. *)
SendRoster(c) ==
    LET t == Conn(c)
        f == env[t].flow
        now == LocalRoom(HostOf[c], f)
    IN /\ HostOf[c] \in up
       /\ stage[t] = "list"
       /\ \E visited \in SUBSET (todo[t] \cup now) :
             /\ todo[t] \cap now \subseteq visited
             /\ LET others == {UserOf[x] : x \in visited} \ {UserOf[c]} IN
                Enqueue(c, IF c \in lossy THEN told[c]
                           ELSE [told[c] EXCEPT ![f] = @ \cup others])
       /\ stage' = [stage EXCEPT ![t] = "start"]
       /\ todo' = [todo EXCEPT ![t] = {}]
       /\ UNCHANGED <<lifeVars, mapVars, env, inbox, boundVars>>

(* An entry deleted from a map is a new one when it is inserted again: a range
   loop that has produced it may produce it once more. *)
Forgotten(c, f) ==
    [t \in Goroutines |->
        IF RangesOver(t, HostOf[c], f) THEN [env[t] EXCEPT !.reached = @ \ {c}]
        ELSE env[t]]

(* flow.leave: also when the client never joined the flow.  A client that
   leaves forgets who was there. *)
FlowLeave(c, f) ==
    /\ ReadFrame(c, "flow.leave")
    /\ \/ /\ flows' = [flows EXCEPT ![c] = @ \ {f}]
          /\ room' = [room EXCEPT ![f] = @ \ {c}]
          /\ told' = [told EXCEPT ![c][f] = {}]
          /\ stage' = [stage EXCEPT ![Conn(c)] = "start"]
          /\ env' = [Forgotten(c, f) EXCEPT ![Conn(c)] =
                        Envelope(HostOf[c], f, "presence.leave", UserOf[c], NoUser)]
          /\ UNCHANGED <<lifeVars, userConns, closed, farewell, todo, buf, lossy, inbox>>
       \/ LocalRoom(HostOf[c], f) # {} /\ CrashByRace(Conn(c), HostOf[c], f)

(* cursor.update: rebroadcast to the whole room, no membership required. *)
CursorUpdate(c, f) ==
    /\ ReadFrame(c, "cursor.update")
    /\ Begin(Conn(c), "start",
             Envelope(HostOf[c], f, "cursor.move", UserOf[c], NoUser))
    /\ UNCHANGED <<lifeVars, mapVars, queueVars, inbox>>

(* presentation.start, .stop and .slide: rebroadcast to everyone else. *)
Presentation(c, f) ==
    /\ ReadFrame(c, "presentation")
    /\ Begin(Conn(c), "start",
             Envelope(HostOf[c], f, "presentation", UserOf[c], UserOf[c]))
    /\ UNCHANGED <<lifeVars, mapVars, queueVars, inbox>>

(* A frame that does not parse: the client is sent an error message. *)
BadFrame(c) ==
    /\ ReadFrame(c, "bad")
    /\ Enqueue(c, told[c])
    /\ UNCHANGED <<lifeVars, mapVars, workVars, inbox>>

(* SaveDiagram's broadcast, after the diagram is stored. *)
SaveDiagram(s, u, f) ==
    /\ s \in up
    /\ stage[Http(s)] = "idle"
    /\ saves < MaxSaves
    /\ saves' = saves + 1
    /\ Begin(Http(s), "start", Envelope(s, f, "diagram_updated", u, u))
    /\ UNCHANGED <<lifeVars, mapVars, queueVars, inbox, frames>>

-----------------------------------------------------------------------------
(* publishChannel: deliverLocal, then Redis.  The subscriber runs deliverLocal
   alone. *)

(* Mutant: deliverToFlow ignores ExcludeUserID. *)
TakeRoomMutant(t) ==
    /\ ServerOf(t) \in up
    /\ stage[t] = "start"
    /\ stage' = [stage EXCEPT ![t] = "deliver"]
    /\ todo' = [todo EXCEPT ![t] = LocalRoom(ServerOf(t), env[t].flow)]
    /\ UNCHANGED <<lifeVars, mapVars, env, queueVars, inbox, boundVars>>

(* deliverToFlow takes the map under RLock; the excluded user is skipped. *)
TakeRoom(t) ==
    /\ ServerOf(t) \in up
    /\ stage[t] = "start"
    /\ stage' = [stage EXCEPT ![t] = "deliver"]
    /\ todo' = [todo EXCEPT ![t] =
          {c \in LocalRoom(ServerOf(t), env[t].flow) : UserOf[c] # env[t].exclude}]
    /\ UNCHANGED <<lifeVars, mapVars, env, queueVars, inbox, boundVars>>

(* The entries the range loop may produce next: those taken, and those added
   to the map since, a client that left and came back among them.  (A room left
   by its last client is dropped, and the next flow.join makes a new map; here
   the loops over the old one may see that client too, which allows more.) *)
Producible(t) ==
    todo[t] \cup {c \in LocalRoom(ServerOf(t), env[t].flow) :
                      UserOf[c] # env[t].exclude /\ c \notin env[t].reached}

Deliver(t, c) ==
    /\ ServerOf(t) \in up
    /\ stage[t] = "deliver"
    /\ c \in Producible(t)
    /\ c \notin closed
    /\ Enqueue(c, Hears(c, env[t]))
    /\ todo' = [todo EXCEPT ![t] = @ \ {c}]
    /\ env' = [env EXCEPT ![t].reached = @ \cup {c}]
    /\ UNCHANGED <<lifeVars, mapVars, stage, inbox, boundVars>>

(* An entry removed from the map before the loop reached it is not produced. *)
SkipRemoved(t, c) ==
    /\ ServerOf(t) \in up
    /\ stage[t] = "deliver"
    /\ c \in todo[t] \ room[env[t].flow]
    /\ todo' = [todo EXCEPT ![t] = @ \ {c}]
    /\ UNCHANGED <<lifeVars, mapVars, stage, env, queueVars, inbox, boundVars>>

Finish(t) ==
    /\ stage' = [stage EXCEPT ![t] = "idle"]
    /\ env' = [env EXCEPT ![t] = NoEnvelope]
    /\ todo' = [todo EXCEPT ![t] = {}]

(* enqueue on a closed send channel panics.  Gin's recovery middleware catches
   the panic of a read pump (whose deferred unregister still runs) and of an
   HTTP handler; in the other goroutines it ends the process. *)
PanicOnClosed(t, c) ==
    /\ ServerOf(t) \in up
    /\ stage[t] = "deliver"
    /\ c \in Producible(t) \cap closed
    /\ Finish(t)
    /\ conn' = IF t[1] = "conn" THEN [conn EXCEPT ![t[2]] = "closing"] ELSE conn
    /\ up' = IF t[1] \in {"loop", "sub"} THEN up \ {ServerOf(t)} ELSE up
    /\ UNCHANGED <<writer, registerQ, unregisterQ, mapVars, queueVars,
                   inbox, boundVars>>

(* Mutant: publishing waits until every subscriber has room. *)
PublishMutant(t) ==
    /\ stage[t] = "deliver"
    /\ todo[t] = {}
    /\ t[1] # "sub"
    /\ \A s \in up : Len(inbox[s]) < InboxCap
    /\ inbox' = [s \in Servers |-> Append(inbox[s], env[t])]
    /\ Finish(t)
    /\ UNCHANGED <<lifeVars, mapVars, queueVars, boundVars>>

(* rdb.Publish: at most once to each subscriber; an error is only logged, and
   a full subscriber channel drops the message. *)
Publish(t) ==
    /\ ServerOf(t) \in up
    /\ stage[t] = "deliver"
    /\ todo[t] = {}
    /\ t[1] # "sub"
    /\ \E subscribers \in SUBSET up :
          inbox' = [s \in Servers |->
                      IF s \in subscribers /\ Len(inbox[s]) < InboxCap
                      THEN Append(inbox[s], env[t]) ELSE inbox[s]]
    /\ Finish(t)
    /\ UNCHANGED <<lifeVars, mapVars, queueVars, boundVars>>

(* Mutant: the subscriber relays its own server's messages too. *)
ReceiveMutant(s) ==
    /\ s \in up
    /\ stage[Sub(s)] = "idle"
    /\ inbox[s] # <<>>
    /\ inbox' = [inbox EXCEPT ![s] = Tail(@)]
    /\ Begin(Sub(s), "start", Head(inbox[s]))
    /\ UNCHANGED <<lifeVars, mapVars, queueVars, boundVars>>

(* subscribeRedis: skip what this instance published, else deliverLocal. *)
Receive(s) ==
    /\ s \in up
    /\ stage[Sub(s)] = "idle"
    /\ inbox[s] # <<>>
    /\ inbox' = [inbox EXCEPT ![s] = Tail(@)]
    /\ IF Head(inbox[s]).source = s
       THEN UNCHANGED workVars
       ELSE Begin(Sub(s), "start", Head(inbox[s]))
    /\ UNCHANGED <<lifeVars, mapVars, queueVars, boundVars>>

Relayed(s) ==
    /\ s \in up
    /\ stage[Sub(s)] = "deliver"
    /\ todo[Sub(s)] = {}
    /\ Finish(Sub(s))
    /\ UNCHANGED <<lifeVars, mapVars, queueVars, inbox, boundVars>>

-----------------------------------------------------------------------------
DeliveryStep(t) ==
    \/ TakeRoom(t)
    \/ \E c \in Clients : Deliver(t, c) \/ SkipRemoved(t, c) \/ PanicOnClosed(t, c)
    \/ Publish(t)

ConnStep(c) ==
    \/ Serve(c) \/ ReadError(c) \/ Unregister(c)
    \/ WriteMessage(c) \/ WriteError(c) \/ WriteClose(c)
    \/ \E f \in Flows : \/ FlowJoin(c, f) \/ FlowLeave(c, f)
                        \/ CursorUpdate(c, f) \/ Presentation(c, f)
    \/ BadFrame(c) \/ TakeRoster(c) \/ SendRoster(c)

ServerStep(s) ==
    \/ ProcessRegister(s) \/ ProcessUnregister(s) \/ Farewell(s)
    \/ Receive(s) \/ Relayed(s)
    \/ \E u \in Users, f \in Flows : SaveDiagram(s, u, f)

Next ==
    \/ \E c \in Clients : ConnStep(c)
    \/ \E s \in Servers : ServerStep(s)
    \/ \E t \in Goroutines : DeliveryStep(t)

Spec == Init /\ [][Next]_vars

(* The scheduler runs every goroutine that can run; peers, the network and
   HTTP callers owe nothing.  A write either succeeds or fails within writeWait. *)
Fairness ==
    /\ \A c \in Clients :
          /\ WF_vars(Unregister(c))
          /\ WF_vars(ReadClosed(c))
          /\ WF_vars(WriteMessage(c) \/ WriteError(c))
          /\ WF_vars(WriteClose(c))
          /\ WF_vars(TakeRoster(c) \/ SendRoster(c))
    /\ \A s \in Servers :
          /\ WF_vars(ProcessRegister(s))
          /\ WF_vars(ProcessUnregister(s))
          /\ WF_vars(Farewell(s))
          /\ WF_vars(Receive(s) \/ Relayed(s))
    /\ \A t \in Goroutines : WF_vars(DeliveryStep(t))

FairSpec == Spec /\ Fairness

-----------------------------------------------------------------------------
(* Safety *)

(* hub.go:86-105.  Once a connection's send channel is closed it is in no
   flow room: its read pump has returned, so nothing can put it back. *)
ClosedLeavesRooms == \A f \in Flows : room[f] \cap closed = {}

(* hub.go:105.  A send channel is never closed twice (that would panic in the
   event loop): one connection is unregistered once. *)
NoDoubleClose ==
    \A s \in Servers : \A i \in 1..Len(unregisterQ[s]) :
        /\ unregisterQ[s][i] \notin closed
        /\ \A j \in 1..Len(unregisterQ[s]) :
              unregisterQ[s][i] = unregisterQ[s][j] => i = j

(* hub.go:109-114.  The event loop, whose panic would end the process, never
   sends to a closed channel: it is the only goroutine that closes one. *)
LoopNeverPanics ==
    \A s \in Servers :
        stage[Loop(s)] = "deliver" => Producible(Loop(s)) \cap closed = {}

(* Why the three hold.  A connection whose channel is closed or about to be has
   a read pump that returned; while a frame is handled the pump runs; a room
   holds only connections that list it among their flows, which is what the
   event loop goes by when it cleans up; and a range loop only has connections
   of its own server, so no other event loop can close one of them. *)
ClosedIsGone == \A c \in closed : conn[c] = "gone"
QueuedIsGone ==
    \A s \in Servers : \A i \in 1..Len(unregisterQ[s]) :
        conn[unregisterQ[s][i]] = "gone" /\ HostOf[unregisterQ[s][i]] = s
OpenWhileHandling == \A c \in Clients : stage[Conn(c)] # "idle" => conn[c] = "open"
RoomsAreFlows == \A f \in Flows : \A c \in room[f] : f \in flows[c]
TodoIsLocal == \A t \in Goroutines : \A c \in todo[t] : HostOf[c] = ServerOf(t)
LoopTodoOpen ==
    \A s \in Servers : stage[Loop(s)] = "deliver" => todo[Loop(s)] \cap closed = {}

CloseInv ==
    /\ ClosedIsGone
    /\ QueuedIsGone
    /\ NoDoubleClose
    /\ OpenWhileHandling
    /\ RoomsAreFlows
    /\ ClosedLeavesRooms
    /\ TodoIsLocal
    /\ LoopTodoOpen

(* hub.go:20-24, 243-251, 331-334.  A connection that stays in the room is not
   handed the same message twice: by local delivery and again when it comes back
   from Redis, or by a range loop that finds it a second time.  One that leaves
   and comes back while the loop runs may be. *)
AtMostOnce ==
    \A t \in Goroutines :
        stage[t] = "deliver" => todo[t] \cap env[t].reached = {}

(* hub.go:282-286.  On every instance, no connection of the excluded user is
   sent the message. *)
SenderSpared ==
    \A t \in Goroutines :
        stage[t] = "deliver" =>
            \A c \in env[t].reached \cup todo[t] : UserOf[c] # env[t].exclude

(* hub.go:128-145.  Of two users with one connection each in a room of the
   same instance, each has been told of the other, by presence.list or
   presence.join, as soon as both joins are handled; unless a message to it
   was dropped.  Depends on joining the room before listing it, and on listing
   it before announcing. *)
OnlyConnection(c) == \A x \in Clients : UserOf[x] = UserOf[c] => x = c
Listed(c, f) == ~(stage[Conn(c)] \in {"joined", "list"} /\ env[Conn(c)].flow = f)
Announced(c, f) ==
    /\ conn[c] = "open"
    /\ env[Conn(c)].kind = "presence.join" => env[Conn(c)].flow # f

PeersTold ==
    \A f \in Flows : \A c, d \in room[f] :
        /\ c # d
        /\ HostOf[c] = HostOf[d]
        /\ HostOf[c] \in up
        /\ OnlyConnection(d)
        /\ c \notin lossy
        /\ Listed(c, f)
        /\ Announced(d, f)
        => UserOf[d] \in told[c][f]

-----------------------------------------------------------------------------
(* Liveness *)

(* client.go:86-91, 122-137, hub.go:86-105.  A connection that failed, on
   either side, is unregistered and both its pumps end. *)
DisconnectCompletes ==
    \A c \in Clients :
        conn[c] = "closing" \/ writer[c] = "stopped"
            ~> (c \in closed /\ writer[c] = "stopped") \/ HostOf[c] \notin up

(* hub.go:119-121.  Every frame, every leave broadcast, every relayed message
   and every saved diagram is dealt with: no goroutine waits on another one. *)
BroadcastsFinish ==
    \A t \in Goroutines :
        stage[t] # "idle" ~> stage[t] = "idle" \/ ServerOf(t) \notin up

-----------------------------------------------------------------------------
(* What the sources say and the code does not do *)

(* client.go:151-153: enqueue "places it in the send buffer", or drops it when
   full.  On a closed channel it panics. *)
NoSendOnClosed ==
    \A t \in Goroutines :
        stage[t] = "deliver" => Producible(t) \cap closed = {}

=============================================================================
