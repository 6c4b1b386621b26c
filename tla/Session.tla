------------------------------ MODULE Session ------------------------------
(***************************************************************************)
(* Session keys, and the two routes that are encrypted with them: the      *)
(* store of session_store.go, the middleware of encrypt.go around          *)
(* POST /boards, and the sign-ins and sign-outs that put keys in the store *)
(* and take them out.  The store is in memory and keeps one key per user;  *)
(* each browser tab keeps the key its own sign-in was answered with.       *)
(*                                                                         *)
(* GET /boards is not modelled: it has no body to decrypt and changes      *)
(* nothing.  A token is valid all the time; its day is not modelled.       *)
(***************************************************************************)
EXTENDS Boards

CONSTANTS Users, Tabs,
          Owner,  \* the user of a tab
          MaxKeys, \* bound: sign-ins
          Calls,  \* HTTP requests in progress at once
          NoTab

ASSUME SessionConstants ==
    /\ Owner \in [Tabs -> Users]
    /\ MaxKeys \in Nat /\ NoTab \notin Tabs

VARIABLES keys,    \* Store.keys
          drawn,   \* how many keys were drawn so far
          held,    \* per tab: the key it encrypts and decrypts with
          call,    \* per request: its next step and what it has read
          retired  \* history: keys that were replaced, deleted or lost

svars == <<bvars, keys, drawn, held, call, retired>>
store == <<keys, drawn, held, retired>>

(* The random keys, numbered as they are drawn: no two are equal. *)
NoKey == 0
Keys == 1..MaxKeys

CallSteps == {"idle", "store", "welcome", "sent", "run", "log", "encrypt", "answer"}
CallRecords == [at: CallSteps, tab: Tabs \cup {NoTab},
                with: Keys \cup {NoKey}, \* what the tab encrypted the body with
                key: Keys \cup {NoKey},  \* the session key read or drawn
                board: BoardIds \cup {NoBoard},
                late: BOOLEAN]           \* history: sent with a retired key
NoCall == [at |-> "idle", tab |-> NoTab, with |-> NoKey, key |-> NoKey,
         board |-> NoBoard, late |-> FALSE]

SessionTypeOK ==
    /\ BoardsTypeOK
    /\ keys \in [Users -> Keys \cup {NoKey}]
    /\ drawn \in 0..MaxKeys /\ retired \subseteq 1..drawn
    /\ held \in [Tabs -> 0..drawn]
    /\ call \in [Calls -> CallRecords]

SessionInit ==
    /\ BoardsInit
    /\ keys = [u \in Users |-> NoKey] /\ held = [t \in Tabs |-> NoKey]
    /\ drawn = 0 /\ retired = {}
    /\ call = [c \in Calls |-> NoCall]

User(c) == Owner[call[c].tab]
EndCall(c) == call' = [call EXCEPT ![c] = NoCall]

-----------------------------------------------------------------------------
(* The key is drawn outside the lock... *)
SignIn(c, t) ==
    /\ call[c] = NoCall /\ drawn < MaxKeys
    /\ call' = [call EXCEPT ![c] = [NoCall EXCEPT !.at = "store", !.tab = t, !.key = drawn + 1]]
    /\ drawn' = drawn + 1
    /\ UNCHANGED <<bvars, keys, held, retired>>

(* Mutant: a user who is signed in keeps the key in the store. *)
StoreKeyMutant(c) ==
    /\ call[c].at = "store"
    /\ keys' = [keys EXCEPT ![User(c)] = IF @ = NoKey THEN call[c].key ELSE @]
    /\ call' = [call EXCEPT ![c].at = "welcome"]
    /\ UNCHANGED <<bvars, drawn, held, retired>>

(* Mutant: a tab that has a key goes on with it. *)
StoreKeyAgain(c) ==
    /\ call[c].at = "store"
    /\ keys' = [keys EXCEPT ![User(c)] = IF held[call[c].tab] = NoKey THEN call[c].key
                                         ELSE held[call[c].tab]]
    /\ retired' = retired \cup ({keys[User(c)]} \ {NoKey})
    /\ call' = [call EXCEPT ![c].at = "welcome"]
    /\ UNCHANGED <<bvars, drawn, held>>

(* ...and replaces the user's key under it. *)
StoreKey(c) ==
    /\ call[c].at = "store"
    /\ keys' = [keys EXCEPT ![User(c)] = call[c].key]
    /\ retired' = retired \cup ({keys[User(c)]} \ {NoKey})
    /\ call' = [call EXCEPT ![c].at = "welcome"]
    /\ UNCHANGED <<bvars, drawn, held>>

(* The answer to a sign-in; of two of one tab either may come last. *)
Welcome(c) ==
    /\ call[c].at = "welcome"
    /\ held' = [held EXCEPT ![call[c].tab] = call[c].key]
    /\ EndCall(c)
    /\ UNCHANGED <<bvars, keys, drawn, retired>>

(* A sign-out by one tab signs the user out of all. *)
Logout(u) ==
    /\ keys[u] # NoKey
    /\ keys' = [keys EXCEPT ![u] = NoKey]
    /\ retired' = retired \cup {keys[u]}
    /\ UNCHANGED <<bvars, drawn, held, call>>

(* The server stops and starts: its memory and the requests it was serving
   are gone, the database and the tabs are not. *)
Restart ==
    /\ retired' = 1..drawn
    /\ keys' = [u \in Users |-> NoKey]
    /\ call' = [c \in Calls |-> NoCall]
    /\ Stop
    /\ UNCHANGED <<drawn, held>>

-----------------------------------------------------------------------------
(* A tab asks for a board, its body encrypted with the key it holds. *)
Ask(c, t) ==
    /\ call[c] = NoCall /\ held[t] # NoKey
    /\ call' = [call EXCEPT ![c] = [NoCall EXCEPT !.at = "sent", !.tab = t, !.with = held[t],
                                                !.late = held[t] \in retired]]
    /\ UNCHANGED <<bvars, store>>

(* Mutant: a body that cannot be decrypted is passed on as it came. *)
AdmitMutant(c) ==
    /\ call[c].at = "sent" /\ keys[User(c)] # NoKey
    /\ call' = [call EXCEPT ![c].at = "run", ![c].key = keys[User(c)]]
    /\ UNCHANGED <<bvars, store>>

(* The middleware reads the key once and opens the body with it. *)
Admit(c) ==
    /\ call[c].at = "sent" /\ keys[User(c)] = call[c].with
    /\ call' = [call EXCEPT ![c].at = "run", ![c].key = keys[User(c)]]
    /\ UNCHANGED <<bvars, store>>

(* No key: 401.  Another key: 400.  Neither answer is encrypted. *)
Reject(c) ==
    /\ call[c].at = "sent" /\ keys[User(c)] # call[c].with
    /\ EndCall(c)
    /\ UNCHANGED <<bvars, store>>

CreateBoard(c, b) ==
    /\ call[c].at = "run"
    /\ InsertBoard(b)
    /\ call' = [call EXCEPT ![c].at = "log", ![c].board = b]
    /\ UNCHANGED store

LogBoard(c) ==
    /\ call[c].at = "log"
    /\ LogCreated(call[c].board)
    /\ call' = [call EXCEPT ![c].at = "encrypt"]
    /\ UNCHANGED store

(* The insert fails, or the user has no organization; the error is encrypted
   like any answer. *)
FailBoard(c) ==
    /\ call[c].at = "run"
    /\ call' = [call EXCEPT ![c].at = "encrypt"]
    /\ UNCHANGED <<bvars, store>>

(* Mutant: the key is looked up again for the answer. *)
EncryptMutant(c) ==
    /\ call[c].at = "encrypt"
    /\ call' = [call EXCEPT ![c].at = "answer", ![c].key = keys[User(c)]]
    /\ UNCHANGED <<bvars, store>>

Encrypt(c) ==
    /\ call[c].at = "encrypt"
    /\ call' = [call EXCEPT ![c].at = "answer"]
    /\ UNCHANGED <<bvars, store>>

(* An answer that changes nothing in its tab: to a request, or to a sign-in
   that fails after its key was stored or whose answer is lost. *)
Drop(c) ==
    /\ call[c].at \in {"welcome", "answer"}
    /\ EndCall(c)
    /\ UNCHANGED <<bvars, store>>

Request(c) ==
    \/ \E t \in Tabs : Ask(c, t) \/ SignIn(c, t)
    \/ StoreKey(c) \/ Welcome(c)
    \/ Admit(c) \/ Reject(c)
    \/ \E b \in BoardIds : CreateBoard(c, b)
    \/ LogBoard(c) \/ FailBoard(c) \/ Encrypt(c) \/ Drop(c)

SessionNext ==
    \/ \E c \in Calls : Request(c)
    \/ \E u \in Users : Logout(u)
    \/ Restart
    \/ \E l \in Lists : Replace(l) /\ UNCHANGED <<store, call>>

SessionSpec == SessionInit /\ [][SessionNext]_svars

-----------------------------------------------------------------------------
(* What a tab was told stays true for a reason: the key it holds is the one in
   the store unless a later sign-in, a sign-out or a restart has taken that one's
   place; and a key that was replaced, deleted or lost never opens a session
   again, although sign-ins that overlap store and answer in any order. *)
KeysInv ==
    /\ SessionTypeOK
    /\ \A t \in Tabs : held[t] # NoKey => held[t] = keys[Owner[t]] \/ held[t] \in retired
    /\ \A u \in Users : keys[u] \notin retired

(* No board is created for a body encrypted with a key that was retired
   before it was sent. *)
RetiredRunsNothing ==
    \A c \in Calls : call[c].at \in {"run", "log", "encrypt", "answer"} => ~call[c].late

(* The answer to a request that was run is encrypted with the key its tab
   used for it, although sign-ins, sign-outs and handlers ran in between:
   the tab can read whether its board was created. *)
AnswerReadable ==
    \A c \in Calls : call[c].at = "answer" => call[c].key = call[c].with

(* Behind the sessions the boards behave as Boards says: a restart is no more
   than a rollback, and only boards that are stored are logged. *)
ImplementsBoards == BoardsSpec
=============================================================================
