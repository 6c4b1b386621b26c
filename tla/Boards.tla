------------------------------- MODULE Boards -------------------------------
(***************************************************************************)
(* Boards, the list of links each keeps and the log of what was done to    *)
(* them: board_service.go and linked_resource_service.go over their        *)
(* repositories.  A list is replaced as a whole, by a transaction that     *)
(* deletes the rows it finds and inserts its own.                          *)
(*                                                                         *)
(* A step is one SQL statement.  The database runs at READ COMMITTED: a    *)
(* DELETE finds the rows committed when it starts, waits for those another *)
(* transaction has deleted and not committed, and then deletes what is     *)
(* still there.  Nothing deletes a board.  Titles, and with them           *)
(* UpdateBoard, are left out, and requests refused before any statement.   *)
(***************************************************************************)
EXTENDS Naturals, FiniteSets

CONSTANTS BoardIds, \* UUIDs, each given out once
          Lists,    \* the requests to replace a list, each with rows of its own
          Urls,
          Content,  \* the urls of each request
          NoBoard

ASSUME BoardsConstants ==
    /\ Content \in [Lists -> SUBSET Urls]
    /\ NoBoard \notin BoardIds

VARIABLES boards,   \* the rows of boards
          links,    \* per board: its linked_resources, each <<request, url>>
          activity, \* activity_logs: the boards created, the lists replaced
          tx        \* per replacement: its next statement, what its DELETE saw
                    \* and what of it is deleted but not committed

bvars == <<boards, links, activity, tx>>

Rows == Lists \X Urls
InTransaction == {"wait", "insert"}
Jobs == [at: {"unsent", "log", "done"} \cup InTransaction,
         board: BoardIds \cup {NoBoard},
         sees: SUBSET Rows, gone: SUBSET Rows]
Unsent == [at |-> "unsent", board |-> NoBoard, sees |-> {}, gone |-> {}]
Logging == [Unsent EXCEPT !.at = "log"]
Done == [Unsent EXCEPT !.at = "done"]

BoardsTypeOK ==
    /\ boards \subseteq BoardIds
    /\ links \in [BoardIds -> SUBSET Rows]
    /\ activity \subseteq BoardIds \cup Lists
    /\ tx \in [Lists -> Jobs]

BoardsInit ==
    /\ boards = {}
    /\ links = [b \in BoardIds |-> {}]
    /\ activity = {}
    /\ tx = [l \in Lists |-> Unsent]

-----------------------------------------------------------------------------
InsertBoard(b) ==
    /\ b \notin boards
    /\ boards' = boards \cup {b}
    /\ UNCHANGED <<links, activity, tx>>

(* The entry is written after the change, and a failure of it is swallowed. *)
Log(entry) ==
    \/ activity' = activity \cup {entry}
    \/ UNCHANGED activity

LogCreated(b) == b \in boards /\ Log(b) /\ UNCHANGED <<boards, links, tx>>

-----------------------------------------------------------------------------
(* The replacements whose transaction is open. *)
Open(b) == {l \in Lists : tx[l].at \in InTransaction /\ tx[l].board = b}
Others(l) == Open(tx[l].board) \ {l}

(* The board is looked up, which nothing can undo, and the DELETE takes its
   snapshot... *)
StartDelete(l, b) ==
    /\ tx[l].at = "unsent" /\ b \in boards
    /\ tx' = [tx EXCEPT ![l].at = "wait", ![l].board = b, ![l].sees = links[b]]
    /\ UNCHANGED <<boards, links, activity>>

(* Mutant: rows that another transaction has deleted are left to it. *)
EndDeleteMutant(l) ==
    /\ tx[l].at = "wait"
    /\ tx' = [tx EXCEPT ![l].at = "insert",
                          ![l].gone = (tx[l].sees \cap links[tx[l].board])
                                      \ UNION {tx[k].gone : k \in Others(l)}]
    /\ UNCHANGED <<boards, links, activity>>

(* ...and deletes what is still there when nobody else holds a row of it. *)
EndDelete(l) ==
    /\ tx[l].at = "wait"
    /\ \A k \in Others(l) : tx[k].gone \cap tx[l].sees = {}
    /\ tx' = [tx EXCEPT ![l].at = "insert",
                          ![l].gone = tx[l].sees \cap links[tx[l].board]]
    /\ UNCHANGED <<boards, links, activity>>

(* The INSERTs, which nobody sees before the commit, and the commit.  Its own
   answer may be lost: the request then fails although the list was replaced,
   and nothing is logged. *)
Commit(l) ==
    /\ tx[l].at = "insert"
    /\ links' = [links EXCEPT ![tx[l].board] = (@ \ tx[l].gone) \cup ({l} \X Content[l])]
    /\ \E next \in {Logging, Done} : tx' = [tx EXCEPT ![l] = next]
    /\ UNCHANGED <<boards, activity>>

LogReplaced(l) ==
    /\ tx[l].at = "log"
    /\ Log(l)
    /\ tx' = [tx EXCEPT ![l] = Done]
    /\ UNCHANGED <<boards, links>>

(* Mutant: what was deleted is put back by hand. *)
RollbackMutant(l) ==
    /\ tx[l].at \in InTransaction
    /\ links' = [links EXCEPT ![tx[l].board] = @ \cup tx[l].sees]
    /\ tx' = [tx EXCEPT ![l] = Done]
    /\ UNCHANGED <<boards, activity>>

(* A statement fails: the transaction is rolled back. *)
Rollback(l) ==
    /\ tx[l].at \in InTransaction
    /\ tx' = [tx EXCEPT ![l] = Done]
    /\ UNCHANGED <<boards, links, activity>>

(* The server stops: every open transaction is rolled back. *)
Stop ==
    /\ tx' = [l \in Lists |-> IF tx[l].at = "unsent" THEN Unsent ELSE Done]
    /\ UNCHANGED <<boards, links, activity>>

Replace(l) ==
    \/ \E b \in BoardIds : StartDelete(l, b)
    \/ EndDelete(l)
    \/ Commit(l) \/ LogReplaced(l) \/ Rollback(l)

BoardsNext ==
    \/ \E b \in BoardIds : InsertBoard(b) \/ LogCreated(b)
    \/ \E l \in Lists : Replace(l)
    \/ Stop

BoardsSpec == BoardsInit /\ [][BoardsNext]_bvars

-----------------------------------------------------------------------------
UrlsOf(l, b) == {u \in Urls : <<l, u>> \in links[b]}
On(b) == {l \in Lists : UrlsOf(l, b) # {}}

(* linked_resource_repo.go:57-58: "the board is never left in a partial state".
   A list that is on a board is there with all its urls.  When one is committed
   nothing is left of what the board showed when its replacement began, whoever
   else deleted it or rolled its own deletion back; what others committed
   meanwhile is left, so that a board can show two lists at once.  And a list
   that was replaced never comes back, whatever fails or is rolled back. *)
ListsReplaced ==
    [][\A b \in BoardIds :
           /\ \A l \in On(b)' : UrlsOf(l, b)' = Content[l]
           /\ \A l \in On(b)' \ On(b) : links'[b] \cap tx[l].sees = {}
           /\ \A l \in Lists : tx[l].at \in {"log", "done"} /\ l \notin On(b)
                                  => l \notin On(b)']_bvars
=============================================================================
