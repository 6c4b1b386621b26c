----------------------------- MODULE BoardFlows -----------------------------
(***************************************************************************)
(* The flows of a board, their diagrams and their votes:                   *)
(* board_flow_service.go and board_flow_vote_service.go over their         *)
(* repositories.  A flow is two rows, one in board_flows with the size of  *)
(* the diagram and one in flow_diagrams with the diagram itself; a save    *)
(* writes them by two statements and a duplicate reads them by two.        *)
(*                                                                         *)
(* A step is one SQL statement, or one transaction of which nothing is     *)
(* seen before its commit.  One board is modelled, so a check of the board *)
(* never fails; node and edge count are one number; names are left out,    *)
(* and with them RenameFlow, which writes nothing else.                    *)
(***************************************************************************)
EXTENDS Naturals

CONSTANTS FlowIds,  \* UUIDs, each given out once
          Users,
          Docs,     \* diagrams
          Blank,    \* the diagram of a new flow
          Size,     \* how many nodes a diagram has
          Handlers, \* HTTP requests in progress at once
          NoDoc

ASSUME BoardFlowsConstants ==
    /\ Blank \in Docs /\ NoDoc \notin Docs
    /\ Size \in [Docs -> Nat] /\ Size[Blank] = 0

VARIABLES
    live,    \* the rows of board_flows
    used,    \* the ids given out so far
    count,   \* board_flows.node_count
    diagram, \* flow_diagrams
    votes,   \* who has voted on what
    shown,   \* the diagram last sent to those who have the flow open
    job,     \* per handler: its next step and what it has read
    settled  \* history: no save or copy that overlapped another has the last word

vars == <<live, used, count, diagram, votes, shown, job, settled>>

Idle == [at |-> "idle"]
Saves == [at: {"upsert", "counts", "publish"}, flow: FlowIds, doc: Docs, alone: BOOLEAN]
Copies == [at: {"row", "diagram"}, flow: FlowIds, new: FlowIds, count: Nat, alone: BOOLEAN]

TypeOK ==
    /\ live \subseteq used /\ used \subseteq FlowIds
    /\ count \in [FlowIds -> Nat]
    /\ diagram \in [FlowIds -> Docs \cup {NoDoc}]
    /\ votes \subseteq FlowIds \X Users
    /\ shown \in [FlowIds -> Docs \cup {NoDoc}]
    /\ job \in [Handlers -> Saves \cup Copies \cup {Idle}]
    /\ settled \in [FlowIds -> BOOLEAN]

Init ==
    /\ live = {} /\ used = {}
    /\ count = [f \in FlowIds |-> 0]
    /\ diagram = [f \in FlowIds |-> NoDoc]
    /\ votes = {}
    /\ shown = [f \in FlowIds |-> NoDoc]
    /\ job = [h \in Handlers |-> Idle]
    /\ settled = [f \in FlowIds |-> TRUE]

Finish(h) == job' = [job EXCEPT ![h] = Idle]

(* h is writing the rows of f. *)
Writing(h, f) == job[h].at \in {"counts", "publish"} /\ job[h].flow = f
(* h has copied one row of f and not yet the other. *)
Copying(h, f) == job[h].at = "diagram" /\ job[h].flow = f

(* The jobs, when those of `bad' turn out to overlap with another. *)
Overlap(bad) == [h \in Handlers |-> IF h \in bad THEN [job[h] EXCEPT !.alone = FALSE]
                                                 ELSE job[h]]

-----------------------------------------------------------------------------
(* Both rows in one transaction. *)
CreateFlow(f) ==
    /\ f \notin used
    /\ used' = used \cup {f} /\ live' = live \cup {f}
    /\ count' = [count EXCEPT ![f] = 0]
    /\ diagram' = [diagram EXCEPT ![f] = Blank]
    /\ UNCHANGED <<votes, shown, job, settled>>

(* DELETE, with ON DELETE CASCADE to the diagram and the votes.  Those who have the
   flow open are sent nothing. *)
DeleteFlow(f) ==
    /\ f \in live
    /\ live' = live \ {f}
    /\ count' = [count EXCEPT ![f] = 0]
    /\ diagram' = [diagram EXCEPT ![f] = NoDoc]
    /\ votes' = {v \in votes : v[1] # f}
    /\ job' = Overlap({h \in Handlers : Copying(h, f)})
    /\ UNCHANGED <<used, shown, settled>>

(* INSERT ... ON CONFLICT DO UPDATE; the foreign key refuses a flow that is
   gone.  Nothing asks whether the flow is one of the board in the URL. *)
CastVote(f, u) ==
    /\ f \in live
    /\ votes' = votes \cup {<<f, u>>}
    /\ UNCHANGED <<live, used, count, diagram, shown, job, settled>>

RemoveVote(f, u) ==
    /\ votes' = votes \ {<<f, u>>}
    /\ UNCHANGED <<live, used, count, diagram, shown, job, settled>>

-----------------------------------------------------------------------------
(* The new id is made up before the source is looked for; a look at it for
   its name, when the request has none, decides nothing that copying its row
   does not. *)
DuplicateFlow(h, f, g) ==
    /\ job[h] = Idle /\ f \in live /\ g \notin used
    /\ used' = used \cup {g}
    /\ job' = [job EXCEPT ![h] = [at |-> "row", flow |-> f, new |-> g,
                                  count |-> 0, alone |-> TRUE]]
    /\ UNCHANGED <<live, count, diagram, votes, shown, settled>>

(* INSERT ... SELECT of the row: seen by nobody yet.  No row: 404. *)
CopyRow(h) ==
    /\ job[h].at = "row"
    /\ IF job[h].flow \in live
       THEN job' = [job EXCEPT ![h].at = "diagram", ![h].count = count[job[h].flow]]
       ELSE Finish(h)
    /\ UNCHANGED <<live, used, count, diagram, votes, shown, settled>>

(* Mutant: a new flow starts with no nodes, also a copy. *)
CopyDiagramMutant(h) ==
    /\ job[h].at = "diagram"
    /\ LET f == job[h].flow
           g == job[h].new
       IN /\ live' = live \cup {g}
          /\ count' = [count EXCEPT ![g] = 0]
          /\ diagram' = [diagram EXCEPT ![g] = diagram[f]]
          /\ settled' = [settled EXCEPT ![g] = job[h].alone /\ settled[f]]
    /\ Finish(h)
    /\ UNCHANGED <<used, votes, shown>>

(* INSERT ... SELECT of the diagram, if there still is one, and COMMIT. *)
CopyDiagram(h) ==
    /\ job[h].at = "diagram"
    /\ LET f == job[h].flow
           g == job[h].new
       IN /\ live' = live \cup {g}
          /\ count' = [count EXCEPT ![g] = job[h].count]
          /\ diagram' = [diagram EXCEPT ![g] = diagram[f]]
          /\ settled' = [settled EXCEPT ![g] = job[h].alone /\ settled[f]]
    /\ Finish(h)
    /\ UNCHANGED <<used, votes, shown>>

-----------------------------------------------------------------------------
SaveDiagram(h, f, d) ==
    /\ job[h] = Idle /\ f \in live
    /\ job' = [job EXCEPT ![h] = [at |-> "upsert", flow |-> f, doc |-> d, alone |-> TRUE]]
    /\ UNCHANGED <<live, used, count, diagram, votes, shown, settled>>

(* Mutant: flow_diagrams is declared without its foreign key. *)
UpsertDiagramMutant(h) ==
    /\ job[h].at = "upsert"
    /\ LET f == job[h].flow
           others == {g \in Handlers : Writing(g, f)}
       IN /\ diagram' = [diagram EXCEPT ![f] = job[h].doc]
          /\ settled' = [settled EXCEPT ![f] = FALSE]
          /\ job' = [Overlap(others \cup {g \in Handlers : Copying(g, f)})
                        EXCEPT ![h] = [job[h] EXCEPT !.at = "counts", !.alone = (others = {})]]
    /\ UNCHANGED <<live, used, count, votes, shown>>

(* INSERT ... ON CONFLICT DO UPDATE; refused by the foreign key when the flow
   was deleted after it was looked for. *)
UpsertDiagram(h) ==
    /\ job[h].at = "upsert"
    /\ LET f == job[h].flow
           others == {g \in Handlers : Writing(g, f)}
       IN IF f \in live
          THEN /\ diagram' = [diagram EXCEPT ![f] = job[h].doc]
               /\ settled' = [settled EXCEPT ![f] = FALSE]
               /\ job' = [Overlap(others \cup {g \in Handlers : Copying(g, f)})
                             EXCEPT ![h] = [job[h] EXCEPT !.at = "counts",
                                                          !.alone = (others = {})]]
          ELSE /\ Finish(h)
               /\ UNCHANGED <<diagram, settled>>
    /\ UNCHANGED <<live, used, count, votes, shown>>

(* Mutant: the counts are those of the diagram that was there before. *)
UpdateCountsMutant(h) ==
    /\ job[h].at = "counts"
    /\ LET f == job[h].flow
       IN IF f \in live
          THEN job' = [Overlap({g \in Handlers : Copying(g, f)})
                          EXCEPT ![h] = [job[h] EXCEPT !.at = "publish"]]
          ELSE Finish(h)
    /\ UNCHANGED <<live, used, count, diagram, votes, shown, settled>>

(* UPDATE of the counts: an error when the flow is gone. *)
UpdateCounts(h) ==
    /\ job[h].at = "counts"
    /\ LET f == job[h].flow
       IN IF f \in live
          THEN /\ count' = [count EXCEPT ![f] = Size[job[h].doc]]
               /\ job' = [Overlap({g \in Handlers : Copying(g, f)})
                             EXCEPT ![h] = [job[h] EXCEPT !.at = "publish"]]
          ELSE /\ Finish(h)
               /\ UNCHANGED count
    /\ UNCHANGED <<live, used, diagram, votes, shown, settled>>

(* The others who have the flow open are sent the diagram, also when the flow was
   deleted meanwhile, and the caller is answered. *)
Publish(h) ==
    /\ job[h].at = "publish"
    /\ shown' = [shown EXCEPT ![job[h].flow] = job[h].doc]
    /\ settled' = [settled EXCEPT ![job[h].flow] = job[h].alone]
    /\ Finish(h)
    /\ UNCHANGED <<live, used, count, diagram, votes>>

(* A statement fails, or the server stops: a transaction is rolled back, a
   save keeps what it has written. *)
Fail(h) ==
    /\ job[h] # Idle
    /\ Finish(h)
    /\ UNCHANGED <<live, used, count, diagram, votes, shown, settled>>

Next ==
    \/ \E f \in FlowIds :
          \/ CreateFlow(f) \/ DeleteFlow(f)
          \/ \E u \in Users : CastVote(f, u) \/ RemoveVote(f, u)
          \/ \E h \in Handlers :
                \/ \E g \in FlowIds : DuplicateFlow(h, f, g)
                \/ \E d \in Docs : SaveDiagram(h, f, d)
    \/ \E h \in Handlers :
          \/ CopyRow(h) \/ CopyDiagram(h)
          \/ UpsertDiagram(h) \/ UpdateCounts(h) \/ Publish(h) \/ Fail(h)

Spec == Init /\ [][Next]_vars

-----------------------------------------------------------------------------
(* What the board's list says of its flows, and what opening one returns: the
   default diagram stands in for a missing row. *)
ListFlows == [f \in live |-> count[f]]
GetDiagram(f) == IF diagram[f] = NoDoc THEN Blank ELSE diagram[f]

(* board_flow_service.go:137: a save "upserts diagram data and updates
   node/edge counts".  Unless two of them wrote at once, or the last one
   failed half-way, the counts in the list are those of the diagram, and it
   is the diagram that those who have the flow open were sent; so also for a
   copy of such a flow.  A save sets right what a failed one left. *)
CountsMatch ==
    \A f \in live : settled[f] =>
        /\ diagram[f] # NoDoc
        /\ ListFlows[f] = Size[GetDiagram(f)]
        /\ shown[f] \in {NoDoc, GetDiagram(f)}

(* board_flow_service.go:107 "deep-copies a flow and its diagram": both rows
   are those of the source, unless it was saved or deleted meanwhile. *)
CopyIsWhole ==
    [][\A h \in Handlers : Copying(h, job[h].flow) /\ job[h].alone /\ job'[h] = Idle =>
          \/ UNCHANGED live
          \/ /\ live' = live \cup {job[h].new}
             /\ count'[job[h].new] = count[job[h].flow]
             /\ diagram'[job[h].new] = diagram[job[h].flow]]_vars

(* board_flow_repo.go:162: a flow that was deleted is gone from the tables with its
   diagram and its votes, whatever was still at work on it: a save, a copy or a
   vote that had found it before stores nothing of it any more. *)
NothingLeft ==
    /\ \A f \in FlowIds \ live : diagram[f] = NoDoc /\ count[f] = 0
    /\ \A v \in votes : v[1] \in live

(* Why the counts match: a save that overlaps no other still has its diagram
   in place when it stores the counts and when it sends it... *)
Writers ==
    \A h \in Handlers : Writing(h, job[h].flow) /\ job[h].flow \in live =>
        /\ ~settled[job[h].flow]
        /\ job[h].alone =>
              /\ diagram[job[h].flow] = job[h].doc
              /\ job[h].at = "publish" => count[job[h].flow] = Size[job[h].doc]
              /\ \A g \in Handlers \ {h} : ~Writing(g, job[h].flow)
(* ...a copy still has the counts of its source... *)
Copiers ==
    \A h \in Handlers : Copying(h, job[h].flow) /\ job[h].alone =>
        job[h].flow \in live /\ job[h].count = count[job[h].flow]
(* ...the id of a copy is known to the request that makes it only... *)
NewIds ==
    \A h \in Handlers : job[h] # Idle =>
        /\ job[h].flow \in used
        /\ job[h].at \in {"row", "diagram"} =>
              /\ job[h].new \in used \ live
              /\ \A g \in Handlers : job[g] # Idle =>
                    /\ job[g].flow # job[h].new
                    /\ job[g].at \in {"row", "diagram"} /\ g # h => job[g].new # job[h].new
(* ...and so nobody has been sent a diagram under it. *)
Unseen ==
    \A f \in FlowIds : shown[f] # NoDoc =>
        /\ f \in used
        /\ \A h \in Handlers : job[h].at \in {"row", "diagram"} => job[h].new # f
BoardFlowsInv == Writers /\ Copiers /\ NewIds /\ Unseen
=============================================================================
