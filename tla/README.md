# SyncSpace backend: specifications and proofs

This directory holds TLA+ models of the SyncSpace backend (the Go server in `src/`), the
TLC configurations that check them on small instances, and TLAPS proofs about them for
instances of every size. Source references are `file.go:line` in the repository, without
the directory where the name is unique.

    tlc -workers 2 -config hub_rooms.cfg MCWsHub    # one run
    tlapm WsHubProofs.tla                           # the proofs about one module

| module | what it is | proofs |
|---|---|---|
| `WsHub` / `MCWsHub` | the WebSocket hub: event loop, pumps, rooms, Redis relay | `WsHubProofs` |
| `Leave` / `MCLeave` | leave types, balances, requests, approvals | `LeaveProofs` |
| `Columns` | abstract: a board as its users see it, columns that are lists of tasks | |
| `Kanban` | tasks and their positions in a board's columns, which implement `Columns` | `KanbanProofs` |
| `Reports` / `MCKanban` | board health, over `Kanban` | `KanbanProofs` |
| `Orgs` / `MCOrgs` | accounts, organizations, memberships, invite links | `OrgsProofs` |
| `Generation` / `MCGeneration` | diagram generation: the chain of models, rate limits, repairs, the cache | `GenerationProofs` |
| `EditLog` | abstract: a list of edits, each made in knowledge of those before it | |
| `Flows` / `MCFlows` | flows with versions, which implement `EditLog` | `ClientsProofs` |
| `BoardFlows` / `MCBoardFlows` | a board's flows: diagrams, counts, copies, votes | `BoardFlowsProofs` |
| `Attendance` / `MCAttendance` | check-in, check-out, the team's summary | `AttendanceProofs` |
| `Boards` | boards, their lists of links, the activity log | `ClientsProofs` |
| `Session` / `MCSession` | session keys and the encrypted transport in front of `Boards` | `ClientsProofs` |

`PROJECT.json` lists the components, the runs, the mutants each property catches, the source
lines every definition translates, the hazards and the theorems.

## 1. The system

The server is a Gin HTTP API over PostgreSQL and Redis, with a WebSocket endpoint. A
request runs `middleware` (JWT, organization context, encryption on two board routes), a
controller that binds and validates, a service that holds the rules, and a repository with
the SQL. Three things make it hard to reason about:

* **Requests are concurrent and mostly not transactional.** Most services run two or more
  SQL statements with nothing around them. Between any two of them another request may run,
  the client may go away (the request's context cancels the next query) or the process may
  die. Only task moves, task deletion, diagram creation and duplication, and the
  replacement of linked resources are in transactions, at PostgreSQL's default isolation.
* **The hub is goroutines over shared maps.** Each instance has an event loop, a Redis
  subscriber, two goroutines per connection and the HTTP handlers, which share Go maps under
  a lock, channels that close, and buffers that overflow.
* **Some state is only in memory**: session keys and the cache of generated diagrams.

### Inventory

| component | state | operations | hard behaviours | what makes it correct | here |
|---|---|---|---|---|---|
| WebSocket hub (`pkg/ws`) | `userConns`, `flowConns`, each client's flows, send buffer and pumps; channels `register`, `unregister` | upgrade, read, write, join, leave, cursor, presentation, broadcast, relay through Redis | range over a map after the lock is released; close against send; blocking channels between goroutines; a relay that drops | a closed connection is in no room and is closed once; the loop never panics; no message twice; the sender spared; users in a room know of each other; a failed connection is cleaned up | `WsHub` |
| Diagram broadcast (`board_flow_service`) | as above | `SaveDiagram` tells the room | runs in an HTTP goroutine | the author's own connections are spared on every instance | `WsHub` |
| Leave | `leave_types`, `leave_balances`, `leave_requests` | list and seed types, initialize, adjust, request, approve, deny | read, then write, by separate statements; late initialization; two reviews; partial failure | requests have balances; adjustments stand; charges follow decisions; a decision is final and charged once | `Leave` |
| Tasks and columns | `tasks.stage`, `tasks.position`, the other columns | create, patch, move, delete | positions read before a transaction or without a lock; a snapshot per statement; read-modify-write of a row | columns contiguous; order kept; a stage change goes to the bottom; a patch keeps what it does not name | `Kanban` |
| Accounts, organizations, members, invites | `users`, `organizations`, `organization_members`, `invite_tokens` | register (with or without a link), found an organization, invite, send a link, change a role, remove, leave | a role checked, then used later; a token checked, used, marked; partial failure | the owner stays; only the owner promotes; one organization per user; a link admits once | `Orgs` |
| Session keys and encryption | one AES key per user in memory, one per tab in the browser | draw and store at sign-in, delete at sign-out, read in the middleware | drawn outside the lock; a key replaced while a handler runs; a restart loses all keys | an answer can be read by the tab that asked; a retired key never returns and runs nothing | `Session` |
| Boards, linked resources, activity log | `boards`, `linked_resources`, `activity_logs` | create a board, replace a list, log | overlapping transactions that delete each other's rows; a lost commit; a log entry that is swallowed | a list is there as a whole or not; what was replaced stays gone | `Boards` |
| Attendance | `attendance_logs` | check in, check out, own status, team summary, availability | check, then insert; midnight between statements; a summary of two queries | one open session; answers and summary true | `Attendance` |
| Board flows and diagrams | `board_flows`, `flow_diagrams`, node and edge counts | create, rename, duplicate, delete, save | save and duplicate by two statements; deletion in between | counts belong to the diagram; a copy is whole; nothing is left of a deleted flow | `BoardFlows` |
| Votes | `board_flow_votes`, `flow_votes` | cast, remove | a vote on a flow that is being deleted | no vote outlives its flow | `BoardFlows` |
| Flows with versions | `flows.version` | conditional update, read back | two clients, lost answers, requests sent again; the row answered is read after the update | no edit lost or stored twice | `Flows` |
| Diagram generation | a chain of models, a bounded cache with expiry | generate, converse, retry, validate, repair | rate limits, one retry after a wait, cancellation, eviction | bounded attempts; the cache stays bounded; a retry and a busy answer honour the hints; every request ends | `Generation` |
| Board health | none | one aggregate over `tasks` | the edge between at risk and overdue; a stage the query expects and no task has | health does not improve by itself | `Reports` |
| Analytics, dashboard | none | read-only aggregates over `tasks` | stages the queries expect and no task has (section 12) | - | not modelled |
| Presence over HTTP | a Redis hash with an expiry | join, leave, list | a second notion of presence beside the hub's, which shares nothing with it | - | not modelled |
| Users, profiles, preferences | a row per user | update, avatar, preferences | read-modify-write of one row by its owner | - | not modelled |
| Notifications | a row per event | insert, mark read | single statements on rows of one user | - | not modelled |
| Chat and summaries (`ai_service`, `groq.CompleteResult`) | none | one call with retries | rate limits | bounded calls | `Generation` |
| AI conversation history | a JSON document | upsert | last writer wins | - | not modelled |
| E-mail, images, start-up, routes, configuration | none | input and output, wiring | none a model reaches | - | not modelled |

How they meet: the hub knows users by the JWT's subject only and asks nothing of the
database; `SaveDiagram` calls it after its statements; organizations decide which members'
boards, leave and attendance a request may touch, through `OrgContext`; session keys are
issued by registration and sign-in; boards are created behind the encryption, and a board's
health is read from the tasks other requests write. Two compositions follow that:
`Session` runs its requests against `Boards`, step by step with the actions of the module
below, and `Reports` adds a clock and a query to `Kanban`. The other parts share no state that an
invariant here relates. A saved diagram's broadcast is in `WsHub` as seen by the hub and in
`BoardFlows` as seen by the tables; approved leave is decided in `Leave` and an input of
`Attendance`.

Every run checks the properties that are hard to get right. Type correctness is proved
instead of run, in every module with proofs (for `Orgs` as part of `OrgsInductive`), and so
are the inductive invariants; all of them were checked with TLC before they were proved. The
types of `Session` are in `KeysInv`.

Much of this code goes wrong when two requests overlap in one particular way. The models
contain those overlaps. What is claimed nevertheless is stated of everything they have not
touched: a *history* variable, which no action reads, records the requests, columns, users or
links that met with it, and the property excuses these and nothing else. So no property
assumes that requests come one at a time, that clients are careful or that queries succeed;
section 12 says what each history records and shows that without it the property is false.

## 2. WsHub: the WebSocket hub

### Correspondence

Each server `s` has one event loop `Loop(s)`, one subscriber `Sub(s)`, one HTTP handler in
its broadcast `Http(s)`; each connection has a read pump `Conn(c)` and a write pump
(`writer[c]`). A step is what a goroutine does between two points where another may
interleave: a critical section of `Hub.mu`, one channel operation, one iteration of a
delivery loop, one Redis call.

| model | code |
|---|---|
| `Serve`, `Unregister`, `ReadError` | `Serve`, `readPump` and its deferred `unregister <- c` |
| `WriteMessage`, `WriteError`, `WriteClose` | `writePump` |
| `ProcessRegister`, `ProcessUnregister`, `Farewell` | the two cases of `processEvents`; the leave broadcasts after the second |
| `FlowJoin`, `TakeRoster`, `SendRoster` | `flow.join`: write to the room, `flowUserIDs`, `presence.list`, then the broadcast |
| `FlowLeave`, `CursorUpdate`, `Presentation`, `BadFrame` | the other cases of `handleClientMessage` |
| `TakeRoom`, `Deliver`, `SkipRemoved`, `PanicOnClosed` | `deliverToFlow` and `enqueue` |
| `Publish`, `Receive`, `Relayed` | `publishChannel`'s Redis half and `subscribeRedis` |
| `SaveDiagram` | the broadcast at the end of `BoardFlowService.SaveDiagram` |

`userConns` is the set of registered connections (the map is keyed by user, and each client
is a key of the inner map). `room[f]` is the union over the servers of `flowConns[f]`;
`LocalRoom` is one server's.

Choices that are wider than the code, so that what is proved covers it:

* *Range loops.* Go lets a loop over a map produce or not produce an entry added
  meanwhile, and never one removed before it is reached. `Producible` and `SkipRemoved`
  say that, and `SendRoster` the same for the list. An entry that was produced, removed and
  added again may be produced again: `FlowLeave` takes a client out of what the loops over
  its room have reached.
* *The data race itself.* `deliverToFlow` and `flowUserIDs` release `mu` and then iterate
  (hub.go:243-247), although hub.go:29 says `mu` protects the map. A write at the same time
  is undefined: the runtime may abort the process. `CrashByRace` is that outcome; the
  other disjunct of the same action is the write without detection.
* *Panics.* A send on a closed channel is recovered by Gin in a read pump and in an HTTP
  handler, and not in the loop or the subscriber, where the process ends.
* *Redis.* At most once per subscriber, to any subset, in the publisher's order; full
  subscriber channels drop; `InboxCap = 0` stands for an unreachable Redis.

`told` and `lossy` are history: what the presence messages queued for a connection say,
until one is dropped. `frames`, `saves`, `Flaky` and `FrameKinds` are bounds.

### Runs

| run | instance | shows |
|---|---|---|
| `hub_rooms` | two users, one server, buffers of one, both may fail, two frames each of join, leave, cursor and unparsable | `ClosedLeavesRooms`, `NoDoubleClose`, `LoopNeverPanics`, `PeersTold` |
| `hub_fanout` | a connection on each of two servers, Redis, a save on either; one connection joins, leaves and joins again while the other broadcasts | `AtMostOnce`: of what a connection is handed while it stays in the room, nothing twice, by local delivery, relay and loops that see it again; `SenderSpared` on both servers |
| `hub_live` | two users, one server, one that may fail, fair goroutines | `DisconnectCompletes`, `BroadcastsFinish` |
| `hub_panic` | as `hub_live` without fairness | **violated**: client.go:151-153 says a message is placed in the buffer or dropped; a broadcast can send to a channel the loop has closed, and panics |

Two connections are enough for the hub's races: every hazard is between one connection
that leaves and one goroutine that iterates, and each goroutine kind occurs. Buffers and
channels of one place make full and empty both common. `hub_fanout` needs the second
server; two frames each are needed in `hub_rooms` to join, leave and act after that. The
search stops where connections run out (there is no reconnect; a reconnection is another
member of `Clients`), hence `CHECK_DEADLOCK FALSE` in these runs.

### Fairness

`FairSpec` gives weak fairness to what a runnable goroutine does: the pumps' channel
operations, the event loop, the subscriber, and every step of a delivery. Go's scheduler is
preemptive and channel receivers are served in order, so a goroutine that can go on does.
A write is fair as *succeeds or fails*: `writePump` sets a deadline of `writeWait`
(client.go:124). A read is fair only on a connection its own write pump closed
(`ReadClosed`): the next read of a closed socket fails. Peers, the network and HTTP callers
owe nothing: `Serve`, frames, `ReadError` and `SaveDiagram` have no fairness. Under this,
every failed connection is cleaned up on both sides and no goroutine waits on another for
ever, although `register` and `unregister` block when full: the event loop never waits for
the goroutines that wait for it. A crashed process ends its obligations
(`HostOf[c] \notin up`).

### Proofs

`TypeCorrect` is type correctness, which includes that buffers stay within their
capacities. `CloseInvariant` proves `CloseInv`, from which `ClosedStaysOut`, `ClosedOnce`
and `LoopSafe` follow. None of those is inductive alone. That a closed connection is in no
room needs that it stays out, so that its read pump is gone (`ClosedIsGone`,
`OpenWhileHandling`: a frame is handled only while the pump runs); that cleaning up by
`Client.flows` finds every room (`RoomsAreFlows`); and that its second unregistration
cannot be queued (`QueuedIsGone`, `NoDoubleClose`). That the loop never sends to a closed
channel needs that its range loop has only its own server's connections (`TodoIsLocal`,
`LoopTodoOpen`): it is the only goroutine that closes those.

*Fan-out.* `HandedAtMostOnce` (`AtMostOnce`) and `ExcludedUserSpared` (`SenderSpared`) follow
from `FanoutInv` (`FanoutInvariant`), which adds where a message is: on an instance that did
not publish it, it has reached only connections of the publisher (`CarriesOK`), none of them
the excluded user's; before the range loop it has reached nobody here; and in the loop nobody
who is still to be visited. Only a subscriber works on what another instance published, so
local delivery and relay never meet on one connection. This is about connections that stay in
the room: one that leaves and comes back while a loop runs may be produced again and handed
the message a second time (`ForgottenMessages`), which nothing in the code prevents.

*Presence.* `PeersAreTold` (`PeersTold`) needs two more invariants. `AuthorInv`: a presence
message is about the user whose connection makes it, and a departure is announced only by a
connection that has left the room or is closed, the farewells of the event loop included; so
a user with one connection in a room is never announced to have left it (`NoFalseLeave`).
`PeersInv`: of two neighbours in a room, each knows of the other, or still has the list to
take in which the other will be (`WillList`), or the other is still announcing itself and
has it ahead (`WillAnnounce`); a message dropped makes the connection `lossy` and
ends the claim. The order of `flow.join` (write the room, take the list, broadcast) is what
carries it from step to step.

All of it is for any number of servers, connections, rooms and buffers; the only assumption
is `HubConstants`.

## 3. Leave

A handler runs one SQL statement per step; `job[h]` is the statement it runs next and what
it has read. `Fail` ends a handler between two statements: a database error, a cancelled
request and a crash look alike here, since the tables are all that remains.

| model | code (`leave_service.go`) |
|---|---|
| `OpenTypes`, `ListTypes`, `SeedOne`, `InitForUser` | `GetMyBalances`, `GetLeaveTypes`, `SeedDefaults` (one insert per default), `InitForUser` |
| `CreateLeaveType`, `UpdateLeaveType`, `AdjustBalance` | one statement each |
| `RequestLeave`, `CreateRequest` | the balance check; the insert |
| `Review`, `Approve`, `Increment`, `Deny` | `ApproveLeave` and `DenyLeave`: read the request, `UpdateStatus`, `Increment` |

Dates are abstracted to the year that selects the balance and a number of days. Every
handler may review. `adjusted` and `contested` are history; `contested` has the requests that
two reviews were deciding at once: between `Review`, which reads the status, and the
statement that overwrites it without looking again. `Members` are the users with a
membership, from which `AdjustBalance` selects the row it inserts. `MaxFails` bounds failures,
`Years` the calendar.

| run | instance | shows |
|---|---|---|
| `leave` | two handlers, two types, two years, two requests on one balance, one failure | `AdjustmentsStand`, `LeaveInv`; of requests that were not contested `ChargesMatch` (charged once, and charged unless a handler died) and `DecisionIsFinal` |

A balance of two days with requests of one day leaves room for exactly the interesting
cases: both fit together, are approved together, and one of them is approved twice. (That pending requests are not counted, so that two requests may
overdraw a balance, is what the code does and nothing says otherwise.) The year can turn in
the middle of an initialization. Every handler can always finish, so deadlock is checked.

Proved, for any number of handlers, all of which may review, users, requests and years:
`LeaveInductive` (`LeaveInv`), hence `IncrementFindsItsRow` and `NoChargeBeforeDecision`;
`AdjustmentsAreKept`; `TypeCorrect`. The argument: balances are never deleted and a request
is made only against one, so what a handler read of it stays true; ids are fresh, so a
request on file is never created over (`FreshIds`).

`ReviewsAreAlone` is what `DecisionsAreFinal` and `ChargesAlwaysMatch` (`ChargesMatch`) rest
on: as long as a request is not contested, a review that is deciding it still finds it pending
and is the only one (`ReviewsDecideAlone`). So its first statement turns a pending request
into a debt of its handler, and the second statement or a failure settles the debt
(`ChargesApprove`, `ChargesSettled`). The sums of `ChargesMatch` are a fold over sets of any
size. What the proofs need of it, that a sum is a number and that one element more adds its
days (`SumType`, `SumAdd`), is proved from the fold's definition: that the recursion has one
solution on a finite set (`SumExists`, `SumUnique`), and that the order in which the fold takes
elements does not matter (`SumRemove`), each by taking a smallest counterexample
(`LeastNumber`), because induction theorems cannot be instantiated.

## 4. Kanban

`stage` and `position` are the columns of `tasks` that place a task; `content` the others.
A handler runs a statement per step, at PostgreSQL's default isolation, read committed. An
`UPDATE` of several rows takes two: it *finds* its rows in what is committed when it starts;
then it waits for those that other transactions have changed, and changes the ones that still
match. So rows that are inserted, or come to match, in between are missed, as in the database.
Rows that were changed stay locked (`Held`, `Locked`) until the commit, which goes with the last
statement: the rows it writes are locked, so nobody can tell the two apart.

| model | code (`task_service.go`, `task_repo.go`) |
|---|---|
| `CreateTask`, `InsertTask` | `NextPosition`, then `INSERT` |
| `UpdateTask`, `WriteTask`, `AppendTask` | `UpdateTask`: load and patch, write all columns back, then `NextPosition` and a move when the stage changes |
| `MoveTask`, `SelectTask` | `UpdateTaskStage`: the request; the `SELECT`, which locks nothing |
| `FindBelow`, `CloseGap` | its first `UPDATE`, which closes the gap; the second one finds its rows |
| `PlaceTask` | the second `UPDATE`, which makes room; the third, which places the task; `COMMIT` |
| `DeleteTask`, `CloseDeleted` | `DELETE ... RETURNING`; the `UPDATE` that closes the gap; `COMMIT` |
| `Fail` | a statement that fails, a deadlock broken by the database, a cancelled request |

`NextPositions` has 0 beside the right answer: the error of `NextPosition`'s query is discarded
(task_repo.go:224). `Drops` are the positions clients ask for, in the column or below its end:
the server accepts any from 0 up. `MaxPosition` is the largest `INTEGER`; a statement that needs
more fails.

Two histories say when positions can no longer be relied on. A request is `misled` from the
moment another one commits a change of a column it has read something of (`About`), or when
its `NextPosition` failed. A column is `marred` when a misled request has changed it, or when a
client has dropped a task below its end (task_service.go:412 lets it). Nothing repairs a column, so it stays marred. What
the properties claim is that nothing else disturbs a column, however requests overlap and fail.
`MaxMarred` is a bound: no request begins once more columns are marred; those in progress go on.

| run | instance | shows |
|---|---|---|
| `kanban` | two handlers, three tasks, two columns, drops at 1, positions up to 2, a day that passes; requests begin while no column is marred | `OrderKept`; of columns not marred `ColumnsContiguous`, `ImplementsColumns`; of requests not misled `StageChangeAppends`; of `Reports` (section 11) `TimeOnlyWorsens` |

Three tasks fill a column with a top, a middle and a bottom; a drop at 1 is into the middle
of a column, at its bottom, or below its end. Two requests are enough for every pair of
statements that can meet; stale positions, waiting for locks, deadlocks, failed queries and
drops below the end all happen. `due` is the one other field health needs. Ids are not reused, so a run ends when
all tasks are deleted: `CHECK_DEADLOCK FALSE`.

Proved, for any number of handlers, tasks and columns: `TypeCorrect` (no position is ever
negative: a row is raised only once by a transaction, which has found it below another).
`RequestsKnow` is the inductive invariant (`KanbanInv`). Of every request it says
(`HeldJob`) that the rows it has changed are in no other's hands, that they were all found in
one column, and that of a row its first `UPDATE` has moved up the second one knows whether to
move it down again. Of a request that is not misled (`FreshJob`) it says that what it
has read is still so: the task's stage and position, the bottom of the new column, and the rows
each `UPDATE` found.

`OrderIsKept` (`OrderKept`): closing and opening a gap are monotone in the position, also for
rows found in an old snapshot, so however stale their bounds, two tasks that are not
being moved never change places; an insert touches a task that was not there. This one needs no history:
it holds of every request. `ColumnsStayContiguous` (`ColumnsContiguous`): removing a task and
closing its gap, or opening one within the column and filling it, keep positions exactly
`0..n-1` without ties (`ClosedContiguous`, `OpenedContiguous`), provided the rows are the right
ones, which `FreshJob` says. `StageChangeIsAppend` (`StageChangeAppends`) holds also in a
marred column: the position read for the bottom is below every task, with gaps or without.
`PatchTouchesOnlySupplied` is a counterexample (section 12) and neither run nor proved.

*The board as lists.* task_repo.go:119 gives the client "Kanban-ready data": tasks ordered by
stage, then position. `Columns` is what its users take that for: a list per column, to which a
new task is added at the bottom, and from which a task is taken, to be gone or to be inserted
where it was dropped. `Listed` is the mapping: the list of a column's tasks by position.
`ImplementsColumns` is `Columns` under that mapping, with `upset` as soon as a column is marred,
after which `Columns` promises nothing. `KanbanImplementsColumns` proves it for boards of any
size: the UPDATEs that shift positions are the `RemoveAt` and `InsertAt` of a list
(`ListedRemoves`, `ListedInserts`), also when both happen in one column. Besides contiguity the
argument needs that each column has a length: of infinitely many tasks, none is at the bottom
(`ShownLength`). Reads and what is found beforehand are stutters, and so is all that a patch
does to other fields.

## 5. Orgs

One statement per step. `RoleIn` is `GetMemberRole`: `owner_id` wins over the member row.
Its two `SELECT`s are one step because `owner_id` never changes once set. In
`UpdateMemberRole` the rule that an admin cannot promote to admin is checked with the
caller's role, before the target is read: it reads nothing else. `InviteMember` takes the
organization from the URL: `Known` is the ids a manager can name, random ones which only the
answer to `CreateOrg`, sent once the owner's row is stored, and the caller's list
(`GetMyOrgs`) tell; so an organization that is still without its owner's row is unknown to
everybody. The address a link was sent to is not compared with the one that registers, so
links have none. The session keys that registration and sign-in end with are `Session`'s.

`joined`, `leaky` and `raced` are history. `raced` has the users who asked for an organization
while another request was making them a member of one. `leaky` has the links that a
registration found open while another one was using it, and those whose mark failed or was
never reached.

| model | code (`auth_service.go`, `org_service.go`) |
|---|---|
| `Register`, `CheckToken`, `Join`, `MarkUsed` | the statements of `Register` in order |
| `CreateOrg`, `InsertOrganization`, `InsertOwner` | `CreateOrg` |
| `InviteMember`, `InsertInvited`; `SendInvite`, `InsertInviteToken`, `Expire` | invitations by account and by link |
| `UpdateMemberRole`, `CheckCaller`, `CheckTarget`, `UpdateOrgMemberRole` | role changes |
| `RemoveMember`, `CheckRemoved`, `CheckRemover`, `DeleteOrgMember` | removal and leaving |
| `Fail`, `Restart` | a statement that fails; the end of the process and of every request |

| run | instance | shows |
|---|---|---|
| `orgs` | two users, two organizations, a link, two requests at once | `OwnerSeated`, `PromotedByOwner`; of users not in `raced` `OneActiveOrg` |

Two users cover owner and other, caller and target; a user's two requests may overlap. Two
organizations are needed for somebody to end up in both.

Proved, for any number of users, organizations, links and requests: `OrgsInductive`, hence
`OwnerAlwaysSeated`; `PromotionsByOwner`, although a role may change between check and
update; `OneOrgPerUser` (`OneActiveOrg`); and `LinksAdmitOnce`. The argument for the first: a
request that has checked that its target is not the owner stays right, since `owner_id` is set
once (`JobOK`); only the owner's own row is ever first in an organization, because others
must find it seated. For `OneOrgPerUser`, whoever is about to become active is not active
anywhere, and by no other request about to become so, unless the user is in `raced`
(`OneOrgInv`): `CreateOrg` looks for both, and a registration is the account's first request.
`LinksAdmitOnce` is `JoinsOnce` (API_DOCS.md:310, a one-time link): a link that is not `leaky`
is used by one registration at a time, and once that one has let somebody in the link is
marked, or still being used by it. A violation takes three users, one of them to send the
link, which is too many for the run.

## 6. Generation

A step is one reply of a model, one operation of the cache (both are under its mutex), or a
unit of time. Models answer anything: success, a rate limit with any hint of `Hints` (0 for
none; 413 counts as one), another failure. What a reply is worth (`parseGraph`,
`parseConversationResponse`, `validateGraph`) is enumerated: a graph, a flawed graph, a
question, a failure. The two copies of the chain, `runChain` and `runChainMessages`, and of
the retry around them have the same control and share their actions; they differ in what
ends a chain (`Produce`, `Say`), and a reply without a graph moves `runChain` on
(`Unusable`) but not its copy. `Chat` is the Groq client, with its retries; the Ollama client
(`ollama.go`) makes one call and does not retry, which is a behaviour of `Chat` too.

| model | code (`diagram_service.go`, `groq.go`) |
|---|---|
| `Generate`, `Produce` | `GenerateDiagram`: `cache.get`, and `cache.put` of the graph it ends with |
| `Converse`, `Say` | `GenerateDiagramConversational` and what it does with the reply |
| `Refused`, `Unusable`, `NextModel` | one turn of the loop of `runChain`, `runChainMessages` |
| `ChainEnds`, `Resume` | the wait and the second chain; the two ways to give up |
| `Repair`, `Repaired` | a round of `repairDiagram` |
| `Chat`, `ChatReply`, `ChatRefused` | `CompleteResult` with its retries and backoff |
| `Cancel`, `GiveUp` | the request's context |
| `Put`, `Evictable` | `diagramCache.put` |

Time is counted down: `timer` is what remains of a wait, `left[k]` of a cache entry (-1 is
past its expiry, as `now.After` is strict). A wait is at least its hint; the code adds
0.3 s. `log` is history, except that it carries the answer: the calls a request has made,
whether every reply of its current chain was a rate limit, and the time until the first of
those limits is over. `CallsBounded`, `RetryNotEarly` and `BusyIsHonest` compare what the
accumulators `limited` and `minWait` decide with that history.

| run | instance | shows |
|---|---|---|
| `generation` | one handler serving requests without end, three models, hints 0 to 3 with a longest wait of 2, two repair rounds, two retries, three prompts and a cache of two whose entries live two units | `CallsBounded`, `BusyIsHonest`, `RetryNotEarly`, `EvictsOldest`, `Answered` |

A hint of 3 is longer than the server waits, a hint of 1 shorter than another; three models
give a first, a middle and a last; a third prompt forces evictions, with none, one or both
entries expired. Requests share only the cache, and one handler puts, lets time pass and
puts again; the proofs are for any number of handlers.

*Fairness.* `Tick`: time passes. `Progress`: a call ends, because the HTTP client of
`groq.go` has a timeout. Cancellation and new requests are not fair.

Proved, for any number of handlers, models and hints and every limit: `GenInductive`, hence
`CallsAreBounded`, `BusyIsHonestAlways` and `RetriesOnTime`; `CacheIsBounded` and `OldestLeaves`; `TypeCorrect`. The argument: `JobOK` ties the
accumulators to the replies (`limited` implies all were rate limits; `minWait` is 0 exactly
when no hint was given, and bounds the time until the first limit ends), the number of
calls to the place in the chain, and the timer to the hint it was set from. For the cache,
`EvictionMakesRoom` shows that one entry fewer than the limit remains; since the cache is
never over its limit, a fresh entry is evicted only when nothing in it is stale, so that the
first of the fresh entries is the first of all. That a diagram is produced only under its
prompt's key (`KeysKept`) is what keeps the cache's keys typed. `Answered` stays with TLC.

## 7. Flows with versions

One row of `flows`: no operation creates or deletes one. A client waits for one answer at a
time, may give up, and then sends again while its first request still runs. A step is one
SQL statement.

| model | code (`flow_service.go`, `flow_repo.go`) |
|---|---|
| `GetFlow`, `UpdateFlow` | the two routes; an update names the version the client last saw |
| `UpdateRow` | `UPDATE ... WHERE id = $1 AND version = $5` |
| `Refuse` | the `SELECT EXISTS` after a miss: 409 or 404 |
| `ReadRow`, `Answer` | `GetFlowByID` after an update, or for a GET; the answer |
| `Fail`, `GiveUp` | a failing statement or connection; a client that stops waiting |

`EditLog` is what the version is for: the edits form one list, and each is added by a client
that knew all before it. `ImplementsEditLog` maps `log` (history: the stored updates) and
`seen` to it. `AnswerHasOwnEdit` says what the caller of an update learns although the row
it is answered with is read by a later statement.

| run | instance | shows |
|---|---|---|
| `flows` | two clients, two requests at once, two edits, three versions | `ImplementsEditLog`, `AnswerHasOwnEdit` |

Two requests let one client's abandoned request meet its own second one, or another
client's; three versions let a request be one or two behind. Every request can finish, so
deadlock is checked.

Proved, for any number of clients, requests and edits: `Refinement` (every step is a step of
`EditLog` or a stutter), `SpecAnswerHasOwnEdit`, `SpecStoredOnce` (an edit sent again is
stored once), `SpecFlowInv`. The argument: the version is the length of the list, and what a
client names or is about to be told is never ahead of it, nor behind what it knew
(`FlowInv`); so an update that finds its version is by a client that knew everything.

## 8. Board flows

One board; a flow is a row in `board_flows` with the counts and a row in `flow_diagrams`. A
step is a statement, or a transaction nothing of which is seen before its commit; the copy
of `Duplicate` reads its source by two statements, which at read committed may see different
saves. Node and edge count are one number, a diagram its size. An id is given out once.

| model | code (`board_flow_service.go`, `board_flow_repo.go`, `board_flow_vote_repo.go`) |
|---|---|
| `CreateFlow`, `DeleteFlow` | one transaction; one DELETE with its cascades |
| `DuplicateFlow`, `CopyRow`, `CopyDiagram` | `Duplicate` |
| `SaveDiagram`, `UpsertDiagram`, `UpdateCounts`, `Publish` | `SaveDiagram`: the look, the two statements of `UpsertDiagram`, the broadcast |
| `CastVote`, `RemoveVote` | one statement each |
| `ListFlows`, `GetDiagram` | the two readers |

`shown` is the diagram last sent to those who have the flow open. `Publish` sends it whatever
has happened to the flow since the counts were written (board_flow_controller.go:221), and
`DeleteFlow` sends nothing: a deleted flow may be shown, and `NothingLeft` is about the tables.

`settled` and `alone` are history: which saves and copies overlapped. They are needed to say
what holds, for without them nothing does: two saves at once may leave one's diagram with the
other's counts, and a save that fails in between has stored its diagram.

| run | instance | shows |
|---|---|---|
| `board_flows` | three requests, two ids, two diagrams of different size, one voter | `CountsMatch`, `NothingLeft`, `CopyIsWhole` |

Three requests are two saves and a copy or a deletion at once; two ids are a source and its
copy. A fourth kind of request adds no pair of steps that these do not have.

Proved, for any number of flows, diagrams and requests: `SpecCountsMatch`, `SpecNothingLeft`,
`SpecCopyIsWhole`, from `SpecBoardFlowsInv`: a save that overlaps no
other still has its diagram in place when it writes the counts (`Writers`), a copy the
counts of its source (`Copiers`), an id made up for a copy is known to nobody else
(`NewIds`), and so nobody was sent a diagram under it (`Unseen`). For `NothingLeft` the
foreign keys do the work: they refuse the first statement of a save whose flow is gone, and its
second one finds no row.

## 9. Attendance

`logs` is `attendance_logs` in the order of the check-ins; `Midnight` may come between any
two statements, because each asks for `CURRENT_DATE` itself. Approved leave is a constant.

| model | code (`attendance_service.go`, `attendance_repo.go`) |
|---|---|
| `CheckIn`, `GetTodayLog`, `InsertLog` | `CheckIn`: look, insert |
| `CheckOut`, `CloseLogs` | `CheckOut`: one UPDATE of every open row of the day |
| `AnswerTodayLog` | the row read again for the answer |
| `GetTeamToday`, `GetApprovedForDate` | the two queries of `GetTeamStatus`, `GetMemberAvailability` |

`clashed`, `alone` and `left` are history: which requests of one member overlapped, and who
checked out between the two queries of a summary.

| run | instance | shows |
|---|---|---|
| `attendance` | two members, two requests at once, two days (both on leave on the second), three check-ins | `OneSession`, `AnsweredTruly`, `SummaryIsTrue` |

Three check-ins are two of one member on a day and one on the next, or two that overlap and
one of the other member. The bound on them stops insertions only; requests can always fail
or end, so deadlock is checked.

Proved, for any number of members, requests, days and check-ins: these three as
`SpecOneSession`, `SpecAnsweredTruly`, `SpecSummaryIsTrue`; `SpecClosedFirst`: closed
sessions of a day come before open ones, which is why a summary that takes the first of the
day, where the member's own status takes the latest, never shows somebody as present who has
left; `SpecPastIsSettled`: nothing writes a row of a day that has passed. The inductive
invariant (`AttendanceInv`) adds that a check-in that overlaps no request of its member still
finds nothing open when it inserts. The other half of a true summary, that who is present is
shown so, does not hold (section 12).

## 10. Sessions and boards

`Boards` is the database side: boards, lists of links, the log. A list is replaced by a
transaction. At read committed its DELETE finds the rows committed when it starts
(`StartDelete`), waits while another open transaction has deleted one of them, and deletes
what is still there (`EndDelete`); nobody sees the rows it inserts before `Commit`, whose
answer may be lost. `Stop` is the end of the server: every open transaction is rolled back.

`Session` is what stands in front: the store with one key per user, the tabs with the keys
they were answered with, and `POST /boards`, whose body is opened and whose answer is sealed
with a key read once, before the handler runs.

| model | code |
|---|---|
| `SignIn`, `StoreKey`, `Welcome` | `AuthService.SignIn`: `GenerateKey` draws the key, then takes the lock; the answer |
| `Logout`, `Restart` | `DeleteKey`; the end of the process, which keeps nothing of the store |
| `Ask`, `Admit`, `Reject`, `Encrypt` | the tab; `middleware/encrypt.go` before and after the handler |
| `CreateBoard`, `LogBoard`, `FailBoard` | `BoardService.CreateBoard` |
| `StartDelete`, `EndDelete`, `Commit`, `LogReplaced`, `Rollback` | `LinkedResourceService.ReplaceAll` over the repository's transaction |
| `Log` | `ActivityLogger.Log`, which swallows a failure |

Keys are numbered as they are drawn, so that no two are equal; what a body was encrypted
with stands for the body. `retired` and `late` are history: keys that were replaced, deleted
or lost, and requests sent with one of them.

| run | instance | shows |
|---|---|---|
| `session` | one user in two tabs, two encrypted requests at once, two sign-ins, a board, three replacements of its list, restarts | `KeysInv`, `RetiredRunsNothing`, `AnswerReadable`; `ListsReplaced` |

Two tabs are the one that asks and the one that signs in or out meanwhile; three replacements
are needed for one to wait for another while a third has committed. Users
can always sign out or the server restart, so deadlock is checked.

Proved, for any number of users, tabs, keys, boards, lists and requests, with no assumption
but the constants': all four properties. `SessionImplementsBoards` (`ImplementsBoards`) says
that behind the sessions the database behaves as `Boards` alone does: a restart is a
rollback, requests that were refused do nothing, nothing but stored boards is logged. It takes
each step of `Session` to a step of `Boards` or a stutter; the two share the tables, so the mapping is the
identity on them, and the steps of keys and tabs are the stutters. `BoardsStayComplete` proves
`BoardsInv`: what a transaction has seen, deleted or inserted is always made of whole lists
(`Complete`) whose replacement is over (`Past`). That is what a deletion needs to leave nothing
half, and it gives `BoardsReplaceLists` (`ListsReplaced`), which `SessionReplacesLists` carries
over by the refinement. `SpecSessionInv` proves `SessionInv`, hence `SpecKeysInv`,
`SpecRetiredRunsNothing` and `SpecAnswerReadable`: the users' keys differ and all were drawn
(`KeysApart`); a key on its way from `GenerateKey` to the store is nobody's and was not retired,
one on its way to its tab is the user's or was retired already, and what has passed the
middleware was encrypted with the key the middleware read (`CallInv`).

## 11. Reports

`Reports` extends `Kanban` with due dates (the field `due` of a task), a clock in days and
the query behind a board's health; all tasks are of high priority. A step is one of `Kanban`
(`Edit`) or the next day.

| model | code |
|---|---|
| `Overdue`, `AtRisk`, `Done` | `GetTaskRiskCounts` |
| `Health` | `BoardService.GetBoardHealth` |
| `NextDay` | the clock |

Checked in the run `kanban`, with the two days of risk shortened to one and critical from the
second overdue task on: when only time passes, health does not improve (`TimeOnlyWorsens`): a
task goes from at risk to overdue with no day between on which it is in neither count.
`TimeWorsens` proves it for any finite number of tasks, as health compares cardinalities.

`Done` is the stage `done`, as in the query, and no task has it (`ReportsConstants` says so of
`Stages`). So requests that finish tasks do not improve health either, which is not what the
query is written for (section 12), and no property here says that they do or do not.

## 12. What the code does that its words do not say

`hub_panic` is the run of one divergence, with its quotation in `PROJECT.json`, "findings".

Five more statements hold except for what a history variable records. Each history is
needed: without it TLC finds the property violated on the instance of the run itself, or on
the one named.

| statement | excused | without the excuse |
|---|---|---|
| migrations/003:45 gives the workflow as create, pending, then approved or denied; leave_balance_repo.go:61: `Increment` adds days "on leave approval" | `contested` | `DecisionIsFinal`, `ChargesMatch`: of two overlapping reviews the later overwrites the decision, and two overlapping approvals both charge |
| task_repo.go:395 keeps "all position values contiguous" | `marred`, by requests in `misled` and by drops below the end | `ColumnsContiguous`, `ImplementsColumns`: a stale or missing position leaves ties and gaps |
| task_service.go:287: a stage change moves the task to the bottom | `misled` | `StageChangeAppends`: another task was added to the column since its bottom was read, or the query for it failed |
| org_service.go:249: a conflict if the caller already belongs to an organization | `raced` | `OneActiveOrg`: two overlapping `CreateOrg` requests of one user, or one and a registration by a link |
| API_DOCS.md:310: a one-time link | `leaky` | `JoinsOnce` (three users, one organization): two overlapping registrations join by one link, or a mark is lost |

A sixth has no such form: task_controller.go:115 says that a `PATCH` touches only the fields
supplied, and `UpdateTask` writes every column back as it was loaded. With two fields (`due`
and another) TLC finds `PatchTouchesOnlySupplied` violated on one task: the later of two
overlapping patches undoes the other.

A seventh is a contradiction in every state rather than in some interleaving. The queries of
board health and analytics take the stages `todo`, `in_progress` and `done` for planned, begun
and finished (board_repo.go:142-150, analytics_repo.go:61, 256, 321, 453, 474-476), as
schema.sql:69 and API_DOCS.md:580-585 and 714 do. But schema.sql:76 makes `Planning` the
default, task_service.go:13-19 admits only Planning, Design, Development, QA and Deployment,
and the list of upcoming tasks (task_repo.go:358) takes `Deployment` for finished. Finished
tasks are therefore still counted as overdue or at risk, health does not improve by finishing
them, and the phases of the team's chart are all empty. It follows from the text of the queries
alone, so there is nothing for a run to search; `Done` in `Reports` has the query as it is.

Others were met while modelling:

* hub.go:29 says `mu` protects the maps; both range loops run after `RUnlock`.
* client.go:86 and hub.go:61 say the end of the read pump unregisters a connection.
  `register` and `unregister` are two channels read by one `select` (hub.go:73-86): of a
  short-lived connection the loop may take the end before the beginning, which puts a
  closed connection into `userConns` for good. `ProcessRegister` and `ProcessUnregister`
  have it; it is harmless as long as `PublishToUser`, the only reader of that map, has no
  caller.
* message.go:12: `presence.leave` reads as "a user left"; closing one of two tabs sends it.
* message.go:14: `cursor.move` goes back to its sender too.
* hub.go:275 `PublishToUser` has no caller; hub.go:282 "safe to call when hub is nil" is
  not so.
* hub.go:243-251: a connection that leaves a room and joins it again while a broadcast ranges
  over it may be produced a second time, and get the message twice.
* leave_service.go:131-141: `Decrement` has no caller, so nothing takes back a charge; a
  failure after `UpdateStatus` leaves an approval that is not charged.
* migrations/003:31 says balances are "auto-initialized"; leave_service.go:60 does so only
  for a user without any balance that year, so a type created later has no row, and a
  request for it is refused.
* org_service.go:283: a failure after the organization's insert leaves it without its
  owner's row. A failure after `InsertUser` in `Register` leaves an account the client was
  told does not exist. Members invited by account have no operation that accepts.
* attendance_service.go:66-69: logs come newest first and the last one read wins, so a
  member who checked out and in again counts as absent. `SummaryIsTrue` is the half that holds.
* linked_resource_service.go:45 "atomically replaces": it does, but two replacements that
  overlap on an empty list both commit, and the board shows both, with a URL in each twice.
* flow_service.go:40: the check that `data` is not null or an array lets the JSON value
  `null` pass.
* board_flow_repo.go:250-284: the diagram and its counts are two statements without a
  transaction; saves that overlap leave them of different diagrams until the next save.
* board_flow_controller.go:221: a save that is past its statements sends its diagram to those
  who have the flow open also when the flow was deleted in between; a deletion tells nobody.
* `GenerateDiagram` answers with a graph it has parsed and not validated; only the
  conversation's repairs call `validateGraph`.
* diagram_service.go:368 calls three questions a "hard cap"; it is a sentence in the prompt,
  and replies taken for questions because they cannot be parsed are not counted.
* diagram_service.go:599: a failed repair returns "the original"; after a first repair that
  is still flawed it returns that one.
* diagram_service.go:786: replacing an entry of a full cache evicts another one as well.

## 13. What is only model-checked, and what is out of reach

Every invariant and action property of the passing runs is proved, and so are the three
refinements, `ImplementsEditLog`, `ImplementsColumns` and `ImplementsBoards` (the last one only
proved); so are type correctness and the inductive invariant of every module. The theorems
assume the constants' assumptions and nothing else: any number of requests may overlap, any
statement may fail, clients may ask for anything the server accepts. What the code does not
keep is excused in the statement itself, through the histories `contested`, `misled` and
`marred`, `raced` and `leaky` (section 12), `settled` and `alone` (section 8), `clashed`,
`alone` and `left` (section 9); each is set by the steps that overlap or fail, and the
inductive invariants show that nothing else is needed. `TimeOnlyWorsens` is proved for finitely
many tasks, as it compares their numbers. `JoinsOnce` is proved and has no run; TLC checked it
with three users, one organization and one link. `PatchTouchesOnlySupplied` is false (section
12).

Only model-checked: `DisconnectCompletes`, `BroadcastsFinish` and `Answered`, which are liveness
properties under fairness; the prover handles neither that nor `ENABLED`. `NoSendOnClosed`
is false (section 12). The induction theorems of the
library cannot be instantiated by the prover; the one fold in a proved property is dealt with
by smallest counterexamples (section 3).

Not modelled: the contents of messages and diagrams, wording, pagination, listings, the
cipher and the token format; presence over HTTP, users and their preferences, notifications,
votes on versioned flows, dashboards and upcoming tasks, `RenameFlow`,
`UpdateBoard`, `UpdateOrg`, the stored conversations (each a single statement on rows nobody
else's rule depends on); and e-mail, images, start-up, routing and configuration, which are
input, output and wiring.

## 14. Plan

1. Proofs of what no property of a run says yet: that the fold over `Requests` bounds
   `leave_balances.used` by the days requested; the half of liveness that is safety, that a
   goroutine of the hub that waits has somebody to wait for.
2. Replies of the models: `parseConversationResponse`, `validateGraph` and `parseGraph` as
   operators over small graphs and replies, which `Generation` enumerates the outcomes of.
3. `WsHub`: an abstract room (who is in it, who was told) that the hub implements on one
   server as long as no message is dropped; the presence interface over HTTP beside it.
4. Registration and sign-in in one module with the session keys: `Orgs` in front of `Session`,
   so that a key is issued by the last step of a registration.
