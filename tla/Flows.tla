-------------------------------- MODULE Flows --------------------------------
(***************************************************************************)
(* A flow with a version and the clients that edit it: flow_service.go     *)
(* over flow_repo.go.  An update names the version its client last saw and *)
(* is refused if the row has another.                                      *)
(*                                                                         *)
(* No operation creates or deletes such a flow, so one row is enough.  A   *)
(* client waits for one answer at a time but may stop waiting: what it     *)
(* sent then still runs, and the client may send it again.                 *)
(***************************************************************************)
EXTENDS Naturals, Sequences

CONSTANTS Clients,
          Handlers,    \* HTTP requests in progress at once
          Edits,       \* data payloads
          NoHandler, NoEdit,
          MaxVersion   \* bound: clients stop editing there

ASSUME FlowsConstants ==
    /\ NoHandler \notin Handlers
    /\ NoEdit \notin Edits
    /\ MaxVersion \in Nat

VARIABLES version, \* flows.version
          data,    \* flows.data
          seen,    \* per client: the version in its last answer
          waits,   \* per client: the request it waits for
          job,     \* per handler: its next statement and what it has read
          log      \* history: the updates stored, in order

vars == <<version, data, seen, waits, job, log>>
row == <<version, data, log>>

EL == INSTANCE EditLog WITH Clients <- Clients, Edits <- Edits, log <- log, seen <- seen

Idle == [at |-> "idle"]
Steps == {"update", "exists", "read", "answer"}
Requests == [at: Steps, client: Clients, edit: Edits \cup {NoEdit},
             base: 0..MaxVersion, got: 0..MaxVersion]

TypeOK ==
    /\ version \in 0..MaxVersion
    /\ data \in Edits \cup {NoEdit}
    /\ seen \in [Clients -> 0..MaxVersion]
    /\ waits \in [Clients -> Handlers \cup {NoHandler}]
    /\ job \in [Handlers -> Requests \cup {Idle}]
    /\ log \in Seq(EL!Entries)

Init ==
    /\ version = 0 /\ data = NoEdit
    /\ seen = [c \in Clients |-> 0]
    /\ waits = [c \in Clients |-> NoHandler]
    /\ job = [h \in Handlers |-> Idle]
    /\ log = << >>

Go(h, at) == job' = [job EXCEPT ![h].at = at]

(* The answer to h reaches its client if that still waits for it. *)
Finish(h) ==
    /\ job' = [job EXCEPT ![h] = Idle]
    /\ waits' = [c \in Clients |-> IF waits[c] = h THEN NoHandler ELSE waits[c]]

Send(c, h, at, e) ==
    /\ job[h] = Idle /\ waits[c] = NoHandler
    /\ \A d \in Clients : waits[d] # h
    /\ job' = [job EXCEPT ![h] = [at |-> at, client |-> c, edit |-> e,
                                  base |-> seen[c], got |-> 0]]
    /\ waits' = [waits EXCEPT ![c] = h]

-----------------------------------------------------------------------------
GetFlow(c, h) ==
    /\ Send(c, h, "read", NoEdit)
    /\ UNCHANGED <<row, seen>>

UpdateFlow(c, h, e) ==
    /\ seen[c] < MaxVersion
    /\ Send(c, h, "update", e)
    /\ UNCHANGED <<row, seen>>

(* Mutant: UPDATE ... WHERE id = $1, whatever the version. *)
UpdateRowMutant(h) ==
    /\ job[h].at = "update" /\ version < MaxVersion
    /\ version' = version + 1
    /\ data' = job[h].edit
    /\ log' = Append(log, [by |-> job[h].client, edit |-> job[h].edit, base |-> job[h].base])
    /\ Go(h, "read")
    /\ UNCHANGED <<seen, waits>>

(* UPDATE ... WHERE id = $1 AND version = $5. *)
UpdateRow(h) ==
    /\ job[h].at = "update"
    /\ IF version = job[h].base
       THEN /\ version' = version + 1
            /\ data' = job[h].edit
            /\ log' = Append(log, [by |-> job[h].client, edit |-> job[h].edit,
                                   base |-> job[h].base])
            /\ Go(h, "read")
       ELSE /\ UNCHANGED row
            /\ Go(h, "exists")
    /\ UNCHANGED <<seen, waits>>

(* SELECT EXISTS: 409, or 404 when the query fails.  Either way the client
   learns nothing and fetches the flow again. *)
Refuse(h) ==
    /\ job[h].at = "exists"
    /\ Finish(h)
    /\ UNCHANGED <<row, seen>>

(* Mutant: the answer to an update is the row its client had. *)
ReadRowMutant(h) ==
    /\ job[h].at = "read"
    /\ job' = [job EXCEPT ![h].at = "answer",
                          ![h].got = IF job[h].edit = NoEdit THEN version ELSE job[h].base]
    /\ UNCHANGED <<row, seen, waits>>

(* GetFlowByID, for a GET or once an update is stored. *)
ReadRow(h) ==
    /\ job[h].at = "read"
    /\ job' = [job EXCEPT ![h].at = "answer", ![h].got = version]
    /\ UNCHANGED <<row, seen, waits>>

Answer(h) ==
    /\ job[h].at = "answer"
    /\ seen' = [c \in Clients |-> IF waits[c] = h THEN job[h].got ELSE seen[c]]
    /\ Finish(h)
    /\ UNCHANGED row

(* A statement fails, or the connection breaks before the answer. *)
Fail(h) ==
    /\ job[h] # Idle
    /\ Finish(h)
    /\ UNCHANGED <<row, seen>>

(* The client stops waiting; the request runs on. *)
GiveUp(c) ==
    /\ waits[c] # NoHandler
    /\ waits' = [waits EXCEPT ![c] = NoHandler]
    /\ UNCHANGED <<row, seen, job>>

Next ==
    \/ \E h \in Handlers :
          \/ \E c \in Clients : GetFlow(c, h) \/ \E e \in Edits : UpdateFlow(c, h, e)
          \/ UpdateRow(h) \/ Refuse(h) \/ ReadRow(h) \/ Answer(h) \/ Fail(h)
    \/ \E c \in Clients : GiveUp(c)

Spec == Init /\ [][Next]_vars

-----------------------------------------------------------------------------
(* flow_service.go:30: "expectedVersion must match the current DB version
   (optimistic locking)".  No edit is lost: the flow's edits are those of
   EditLog, each by a client that knew all of the earlier ones. *)
ImplementsEditLog == EL!Spec

(* flow_service.go:57: the row fetched after an update "includes incremented
   version".  Another client may have gone on since, but what is returned has
   the caller's edit behind it. *)
AnswerHasOwnEdit ==
    \A h \in Handlers : job[h].at \in {"read", "answer"} /\ job[h].edit # NoEdit =>
        /\ job[h].base < Len(log)
        /\ log[job[h].base + 1] =
              [by |-> job[h].client, edit |-> job[h].edit, base |-> job[h].base]
        /\ job[h].at = "answer" => job[h].base < job[h].got

(* An update sent again because its answer was lost or late is stored once,
   while its client has seen nothing new in between. *)
StoredOnce == \A i, j \in DOMAIN log : log[i] = log[j] => i = j

(* Why: the version counts the edits, and what clients name and what they are
   about to be told never runs ahead of it or back. *)
FlowInv ==
    /\ version = Len(log)
    /\ \A i \in DOMAIN log : log[i].base = i - 1
    /\ version > 0 => data = log[version].edit
    /\ \A c \in Clients : seen[c] <= version
    /\ \A h \in Handlers : job[h] # Idle =>
          /\ job[h].at \in {"update", "exists"} =>
                job[h].edit # NoEdit /\ job[h].base < MaxVersion
          /\ job[h].base <= seen[job[h].client]
          /\ job[h].got <= version
          /\ \A c \in Clients : waits[c] = h =>
                /\ job[h].client = c
                /\ job[h].at = "answer" => seen[c] <= job[h].got
    /\ \A c \in Clients : waits[c] # NoHandler => job[waits[c]] # Idle
=============================================================================
