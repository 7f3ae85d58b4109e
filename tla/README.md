# A verification project for the Octate P2P backend

This directory holds TLA+ models of the backend in `src/`, the TLC runs that check them on
small instances, and theorems about them that TLAPS checks for every value of the constants.
Everything is translated from the TypeScript source; where a document says something else, a
run shows the difference or this file reports it.

    tlc -workers 2 -config RoomManager.cfg MCRoomManager.tla      # any run: <name>.cfg with the module PROJECT.json names
    tlapm RoomManager_proofs.tla                                   # any *_proofs module

Contents: 1 the system, 2 modules and how they correspond to the code, 3 properties and runs,
4 bounds and fairness, 5 proofs, 6 where code and documents disagree, 7 what is not modelled,
8 plan.

## 1. The system

The backend introduces peers to each other. Documents are edited peer to peer; the server
keeps rooms, relays WebRTC signalling and hands out tokens. Everything runs in one Node.js
process: handlers run to completion, and other code comes in only at an `await`, between two
events, or when a timer fires.

| Component | State it keeps | Operations | Hard behaviour | What makes it correct |
|---|---|---|---|---|
| Room manager (`roomManager.ts`) | `rooms`: metadata, peers, counts, two kinds of timestamps | create, join, leave, heartbeat, broadcast, cleanup every 30 s, shutdown | cleanup decides first by the room's and then by the peers' inactivity; two timeouts from the environment | one entry per user, counts right, a live peer is never dropped, silent ones and idle rooms always are |
| Token authority (`authManager.ts`) | `validTokens` | generate, validate, invalidate | expiry, tokens used for another user or room | a live token survives every attempt to use it |
| Signaling server (`signalingServer.ts`) | `clients`: one entry per authenticated socket | connect, auth, create, join, leave, heartbeat, relays, ping, close | messages name a user and a room of their own; a socket is lost before its close event arrives; a user comes back on a second socket; a socket changes rooms | nobody is listed without a token, the lists of peers the clients keep are right, nobody takes out another's live peer, while all act in their own name; no ghost stays |
| HTTP routes (`routes.ts`) | none | issue tokens, create, join, leave, cleanup, statistics | change rooms behind the back of connected clients | change rooms only as the room manager does |
| Memory manager (`memoryManager.ts`) | monitor timer, time of the last warning | start, stop, monitor | a cleanup at any moment, a cooldown | costs no live peer its place; is not starved |
| Lean server (`lean.server.ts`) | `rooms` with their peers | auth, forward, disconnect | late close of a replaced socket, one socket in several rooms | rooms are those with peers, replaced sockets harm nobody |
| CRDT manager (`crdtManager.ts`) | per peer and room: characters, clocks | insert, delete, integrate, export, import, save, load | concurrent operations in different orders | replicas converge, no text is lost, identifiers are unique as long as no peer loses its clock |
| Token manager (`tokenManager.ts`, `auth_tokens` of `supabaseDB.ts`) | validation cache; rows | generate, validate, revoke, clear, cleanup | a select is awaited between reading the clock and filling the cache | revocation and expiry take effect within the cache's TTL; live rows stay |
| Session manager (`sessionManager.ts`, `pending_operations` of `supabaseDB.ts`) | sessions, index by user; rows | create or resume, disconnect, add and acknowledge operations, terminate, cleanup | terminate and cleanup go on after awaits; requests are served in any order or fail | map and index agree; no unacknowledged operation is lost |
| Operational transform (`operationalTransform.ts`) | per peer and document: content, version, history | initialize, local and remote operations, transform, export, import | operations that cross, insert ties, overlapping deletes, versions counted on each side, repeated delivery | both peers end with one content, histories stay sound |
| Operation history (`operationHistoryManager.ts`, `operation_history` of `supabaseDB.ts`) | operations per room, checkpoints | record, query, revert, checkpoint, export, import, prune, load, clear | saves nobody waits for, loads that overlap each other and replace what was recorded during their awaits, a crash | in order, without doubles; only an operation whose own save failed is lost; a client that polls never goes back |
| Server (`p2pServer.ts`, `index.ts`) | phase of the process, WebSocket server, connections | start, listen or fail, signals, stop, exit | stop waits for clients nobody disconnects; the timers must go on until then | the process ends once the clients are gone, silent peers go until then |

How they interact: `signalingServer.ts` and `routes.ts` call the room manager and the token
authority directly (shared objects, synchronous calls); `memoryManager.ts` calls the room
manager from its own timer; the room manager's `peerLeft` and `roomClosed` events have no
listener. Clients meet the server through WebSocket messages, which arrive in order on a socket,
and through HTTP. `p2pServer.ts` starts and stops these parts. Token manager, session manager
and operation history share only the database; the CRDT manager and the operational transform
share nothing. No other source file calls any of the five, so their models let any caller use
them at any time; only the operational transform needs a caller that keeps a rule (section 4).

## 2. Modules

| Module | Models | State and actions |
|---|---|---|
| `RoomState` | `roomManager.ts` as operators from one room table to the next | `RoomCreated`, `RoomJoined`, `RoomLeft`, `HeartbeatUpdated`, `RoomTouched`, `CleanedUp`, `Aged` |
| `RoomManager` | the class over these operators | `rooms`, `cleanupInterval`; one action per method, the timer, the shutdown, and `Tick` |
| `RoomLease` | the abstract promise: members hold leases, a sweep takes what ran out | `open`, `members`, `fresh` |
| `AuthManager` | `authManager.ts` | `validTokens`; `GenerateToken`, `Valid`/`ValidateCredentials`, `Tick` |
| `SignalingServer` | `signalingServer.ts` and the routes that change rooms, extending `RoomManager`, over an instance of `AuthManager`, with the clients | `clients`, `socketState`, `view`; one action per handler and route, with the user and the room its message names |
| `MemoryManager` | `memoryManager.ts`, extending `RoomManager`: its state and actions over the room table | `heap`, `lastWarning`, `monitorInterval`; `Monitor`, `AggressiveCleanup` |
| `P2PServer` | `p2pServer.ts`, `index.ts`, start and stop of `signalingServer.ts`, extending `MemoryManager` | `phase`, `http`, `signaling`, `connections`; `Start`, `HttpListening`, `Listening`, `ClientConnects`, `ClientDisconnects`, `Stop`, `Stopped`, requests and messages that change rooms, the two timers |
| `LeanServer` | `lean.server.ts` with its clients | `rooms`, `peers`, `socketState`, `known`; `HandleAuth`, `HandleDisconnect` |
| `CRDTManager` | `crdtManager.ts` on every peer and the network between them | `characters`, `peerClocks`, `ops`, `applied`, `imports`; `ApplyInsert`, `ApplyDelete`, `IntegrateRemoteOperation`, `ImportState` |
| `TokenManager` | `tokenManager.ts` over the table | `validationCache`, `calls`, `auth_tokens`; a validation is cut at its await into `ValidateToken`, `DatabaseAnswers`, `FinishValidation` |
| `SessionManager` | `sessionManager.ts` over the table | `sessions`, `userSessions`, `requests`, `pending_operations`; `TerminateSession`/`Terminated` and `Cleanup`/`CleanupNext`/`DeleteExpiredSession` are cut at their awaits |
| `OperationHistory` | `operationHistoryManager.ts` over the table, one room | `operations`, `checkpoints`, `saves`, `rows`, `answers`, `backup`, `cursor`; a load is cut at its await into `LoadFromDatabase`, `GetOperations`, `LoadFinished`, and a save is made or fails any time later |
| `OperationalTransform` | `operationalTransform.ts` at two peers and the channels between them | `documents`, `channel`, `outstanding`; `ApplyLocalOperation`, `ApplyRemoteOperation`, `ImportState`, and `Redelivered` and `Acknowledged` of its caller |
| `Arrays` | `Array.filter` for `OperationHistory` and `OperationalTransform`, without recursion | `Filtered` |
| the eight `*_proofs` modules | | lemmas and theorems, section 5 |
| `MC*` | | values of the constants for TLC |

Conventions that hold throughout:

- One action is one stretch of code without an `await`, with every call it makes.
- A timestamp is kept as its *age* (`Date.now()` minus the stamp), the only thing the code
  compares. Ages stop growing where no comparison tells them apart, so `Tick` is unbounded. Only
  `OperationHistory`, which orders timestamps, keeps a clock.
- A map is a function with a value for "absent", a set of entries, or a partial function,
  whichever makes its lookups shortest. Names, messages and wording are model values.
- History variables (`admitted`, `mixed`, `restarted`, `revokedAge`, `added`, `acknowledged`,
  `failed`, `unsaved`) are written for the properties and never decide what an action does, except
  that `added` numbers the additions to a session and tells which identifiers of sessions are used
  up and which operations a client can acknowledge.
- Definitions whose comment begins with "Mutant:" are changed forms of the definition they stand
  before. No specification uses them. They show that a property notices the change.
- A lost socket (`Lose`) is one whose client is gone while the server has not seen the close.
  `Close` may come at any time after it, or never.
- In `SignalingServer`, messages in flight to an open socket are not kept apart: the list of
  peers of a client (`view`) is what the client holds when they have arrived. `auth` and the messages
  about rooms name a user and a room, any that `Named` gives to the socket, and the handlers act on
  these as the code does; heartbeat and close act on the entry of the socket. `mixed` remembers the
  rooms in which somebody acted in another name or without having authenticated for them, or a user
  was connected twice.
- In `CRDTManager` every operation is delivered once, and operations of one peer in their order;
  with `Causal` also after everything its author had seen. The character sort is defined by
  counting how many live characters precede one, which is what a stable sort gives. A peer may
  import the exported state of any peer at any time, its own included; `restarted` remembers who
  did so after having made an operation.
- In `TokenManager`, whether there is a database is decided at the start, as in the code. A query
  may fail: a failed select refuses, a failed save, update or delete changes nothing. A request with
  another user or room than the token's is refused before any state is touched and is left out. A
  token is presented as it was issued (section 6 on its expiry). `clearValidationCache` may also
  remove keys that merely contain the name.
- In `SessionManager` the ids of operations may repeat, as nothing in the code prevents it: rows are
  told apart by the number of the addition, `Array.find` marks the first entry with an id. An
  acknowledgement is for an id that was added before. A recovery is the operator `PendingRows`, what
  `getPendingOperations` reads. The `sessions` table is never read by the code and is left out. The
  cleanup visits its list in any order, and one cleanup runs at a time: the timer is five minutes,
  its queries are single requests.
- In `OperationHistory` an operation is its number and the time it was recorded at. Whether the
  table gives its rows an `id` of their own is not said in `src/`; the model takes both. Loads that
  overlap are the set of the answers they go on with.
- In `OperationalTransform` characters are numbers and a text is a sequence of them.
- In `P2PServer` the `ws` library is modelled by what the code relies on: `close()` refuses new
  connections and reports when the last one is gone. The HTTP server listens, or fails to, which
  nobody handles and which ends the process.

## 3. Properties and runs

Nine runs pass, three show a disagreement between code and document. `OperationHistory` needs no
MC module: its constants are numbers. A property that joins several facts is named once and its
parts are definitions of their own (`MembershipSound`, `RoomsSound`, `DocumentSound`, `InOrder`).

**RoomManager** (two rooms, two users). `MembershipSound`: users are listed once, counts are right,
only the creator has the host flag, and a room is never older than its youngest heartbeat;
WebSocket and HTTP may join one user twice, `leaveRoom` splices the first entry only. On the last
part rests `LivePeerKept`: no user with a fresh heartbeat disappears except by leaving or by the
shutdown, although cleanup looks at the room first. `ImplementsLease`: the table refines
`RoomLease`. `SilentPeerRemoved`, `UntouchedRoomReclaimed`: with the timer, what is dead goes,
rooms emptied by `leaveRoom` included.

**SignalingServer** (two rooms, two users, two sockets, HTTP). One client goes to two rooms and
speaks for two users, the other acts for itself and uses HTTP. The first three properties are about
the rooms that are not `mixed`, whatever happens in others; what is lost in a mixed room is in
section 6. `MembersAuthorized`: whoever is listed was issued a token for the room, or came in through
HTTP, which asks for none. `ViewsAgree`: a member's list of peers is the membership, unless a silent
change (HTTP or cleanup, which tell nobody) made it stale. `LiveMemberStays`: a user whose heartbeat
is in time is taken out only by a close or a leave of a connection of that user, or through HTTP.
`LiveTokenKept`: no attempt to use a token, by whomever, successful or not, takes a live one away.
`GhostPeerRemoved`: nobody stays listed for ever without a connection: lost sockets and rooms a
socket has left by re-authenticating are made good by the heartbeat timeout.
**SignalingServer_other_room** (violation of `OnlyAuthorizedEnter`) and
**SignalingServer_late_close** (violation of `ConnectedPeerListed`): see section 6.

**P2PServer** (the process from `start()` to its exit, one room, two users, two connections).
`ProcessDrivesRoomManager`: cleanups under memory pressure, the aggressive one included, cost no live
peer its place, whenever they fall. `PressureRemovesSilent`: the cooldown delays the next cleanup
and does not starve it, while clients keep `stop()` waiting too. `StopEnds`: once `stop()` is
called and the clients are gone the process exits, however often it is called and whether or not
the WebSocket server ever listened.

**LeanServer_safety** (two rooms, three peers, four sockets). `RoomsSound`: rooms are exactly
those with peers, and nobody is listed twice in one. `KnownMatchesRoom`: what clients were told
matches the room. `ReplacedSocketHarmless`: the close of a socket removes only entries that name it.

**CRDTManager** (three peers, causal network; a peer may import the exported state of any peer at
any time, its own included). `Converged`: peers that applied the same operations show the same text and
hold the same characters, as long as their documents hold no identifier twice. `DocumentSound`: no
text is lost or doubled, across export and import, and an identifier is in a document twice only if
its author had made operations when it imported a state and so lost its clock: what `importState`
gives away are the importing peer's identifiers and never another's. `EventuallyAgree` under
delivery, if no peer started again in that way.
**CRDTManager_out_of_order** (violation of `Converged`), see section 6.

**TokenManager** (one token, two validations of it at once, with or without a database).
`RevocationHonoured`: the cache accepts a revoked token for less than its TTL after the
revocation, and a validation about to accept began no later than the revocation. It holds because the
entry carries the time the validation *began* at; the mutant that stamps it after the await breaks it.
`ExpiryHonoured`: what the cache answers was validated by a call that began before the token
expired, so a token as issued outlives its expiry by less than the TTL. `LiveRowKept`: validation,
table check and cleanup agree on the moment of expiry. `StaleEntryReclaimed`: tokens nobody
presents again leave the cache, if there is a database.

**SessionManager** (two sessions, one or two users, operations whose ids may repeat). `IndexMatches`:
`userSessions` names exactly the sessions of each user while terminations, cleanups and resumptions
overlap at their awaits. `PendingKept`: a session holds the newest operations added to it, through
resumptions, marks only what was acknowledged, and marks all of it that was added once.
`UnacknowledgedRecoverable`: while a session lives, a recovery offers each of its unacknowledged
operations unless the insert is under way or failed. `AbandonedReclaimed`.

**OperationHistory** (one room, two operations, failing saves, loads that overlap each other and
recordings, restored backups, retention, crashes). `InOrder`: the history is in the order of time,
holds no operation twice, and the searches for the checkpoint before and after a time find the right
one. `HistoryKept`: what leaves the memory although nobody cleared, restored or pruned is in the
table or on its way, or its own save was not made. `PollsAdvance`: a client that follows the history
by its last operation never goes back in time.

**OperationalTransform** (two peers, a text of three characters, three operations). `Converged`:
when nothing is on its way both peers show one content at one version, over insert ties and
overlapping deletes, unless an operation fell strictly inside a concurrent delete (section 6).
`HistorySound`: the history is what the version counts, has no operation twice and no error
`validateOrder` would find, with operations delivered again and a peer that starts from the
exported state of the other.

Every module also has one type invariant (`TypeOK`; `RoomsTypeOK` in `RoomManager`, whose names
`SignalingServer` and `P2PServer` build on), which one of its runs checks; `ProcessTypeOK` of
`P2PServer` is proved instead.

## 4. Bounds and fairness

| Run | Bounds | Why they are enough |
|---|---|---|
| RoomManager | 2 rooms, 2 users, timeouts 1 and 2 | rooms meet only in cleanup and shutdown; ages below, at and past both timeouts occur; the proofs cover every size |
| SignalingServer | 2 rooms, 2 users, 2 sockets, each used once; `MaxTokens` = 1 token at any time, `Named` and `HttpClients`: what each client asks for; all timeouts 0, passed by one `Tick` | one client that moves rooms and takes another's name, one that watches it and comes in by HTTP; the safety proofs cover every size and every `Named` |
| P2PServer | 1 room, 2 users, 2 connections, timeouts 1 and 2, cooldown 1 | a fresh and a silent peer in one room; one connection that stays while another goes |
| LeanServer_safety | 2 rooms, 3 peers, 4 sockets | one peer replaced while two others hear of it; one socket in both rooms |
| CRDTManager | 3 peers, `MaxOps` = 3 operations in all, `MaxImports` = 1, texts of two characters, no initial text | concurrent operations reach a third peer in both orders; deletes split a text; a peer restarts between two of its operations. The proofs cover initial texts |
| TokenManager | 1 token, 2 calls, expiry 3, TTL 2 | tokens do not interact; two validations of one token do |
| SessionManager | 2 sessions, 2 users, 2 ids, `MaxAdds` = 2 additions in all, timeout 0, limit 1 | two sessions make the cleanup loop wait once; the second addition meets the limit and may repeat the first id. A timeout of 0 is passed by one `Tick` |
| OperationHistory | `MaxOps` = 2, `MaxTime` = 3, `MaxLoads` = 2 answers, 2 checkpoints, retention of 1 | order and doubles are facts about pairs of entries, and no action looks at more than one operation and a time; three instants put a checkpoint before, between and after two operations |
| OperationalTransform | `MaxOps` = 3, texts of one or two characters over three | two operations that cross and one made after either; deletes overlap from one and from two positions |

`ViewsAgree`, `MembersAuthorized` and `LiveMemberStays` are said of rooms that are not `mixed`, and
the condition is needed. A client that acts in another name or room enters without a token, takes
others out, and misses announcements (section 6). Of a user connected twice `ViewsAgree` does not
hold: one who leaves by one connection, of which the other is told, and joins again is announced
only if a peer of another name is in the room (`signalingServer.ts:287-289`), so the other
connection is not told and its list lacks the user. A room stays mixed once it was, so the
properties say nothing of what follows.

`CHECK_DEADLOCK FALSE` stands only where a run ends: sockets are used once in `LeanServer`,
`CRDTManager` stops after `MaxOps`, and in `P2PServer` the process exits.

Fairness: `RoomManager` and `SignalingServer` assume that time passes and that `setInterval` keeps
calling the cleanup; `P2PServer` that time passes, that the monitor is called, and that the
closed WebSocket server reports it, but not the room manager's timer; `TokenManager` and
`SessionManager` that the timer fires and a query ends, with success or failure; `CRDTManager` that
an operation whose delivery the network allows is delivered. No fairness is assumed of any client.

`OperationalTransform` assumes a caller that keeps one rule, because nothing in `src/` calls the
service and its versions are wrong without it: a peer sends its next operation when the last one
is acknowledged, over channels that keep the order. Without the rule two peers diverge; section 6.

## 5. Proofs

Every safety property that a passing run checks is also a theorem. All theorems hold for every set
of rooms, users, peers, sockets, tokens, sessions and calls, for every text, and for every timeout,
limit and bound of the model. They assume only what the modules assume of their constants: timeouts
and limits are natural numbers (positive in the token manager, as are the limit of the session
manager and of the checkpoints), a socket of the lean server and a token have one user each, peers
that edit are numbered, texts are sequences, the operational transform has two peers, and the values
for "absent" are not values. Two theorems (`Refinement`, `Convergence` of the CRDT) have an
assumption of their own, named below.

- `RoomManager_proofs`: each operator of `RoomState` maps a sound table to a sound table
  (`TableOK`: typed, peers unique, counts right, host flags sound, no room older than its youngest
  heartbeat). One lemma per operator, from lemmas about one room. `RoomsIInv`, the inductive
  invariant, is type correctness with `TableOK`. The properties alone are not inductive: removing a
  user by id keeps the count right only because peers are unique, and cleanup spares live peers
  only because activity covers heartbeats. `RoomsTypeCorrect`, `TableSound` follow;
  `LivePeersStay` proves the action property; `Refinement` proves that every step is a step of
  `RoomLease` or a stutter, one lemma per method, under the assumption that the heartbeat timeout
  does not exceed the room timeout, as in the defaults. With the timeouts the other way round
  cleanup does close rooms under live peers.
- `Servers_proofs`, the signaling server: `TypeCorrect`, `LiveTokensStay`; `MembersAdmitted`
  (`MembersAuthorized`), `LiveMembersStay`, and `ClientsToldTheMembers` (`ViewsAgree`), with no
  assumption on who asks for what. What each call does to the members of each room is a lemma; so is
  what each message does to each list. That nobody enters unadmitted rests on `AdmittedOnly`: every
  token of the map, every entry of `clients` and, where nobody mixes, every member is admitted. That
  live members stay rests on the bound on activity proved of the room manager, because the cleanup
  looks at the room first. `ViewsAgree` needs, in rooms where nobody mixes, that the sockets that keep
  a list are authenticated for the room (`ViewsSound`: otherwise an announcement misses a list) and
  that no other open socket belongs to the same user (`OneOpen`: a user who joins becomes a member
  on all connections, and the lists of the others are not the list the join is answered with).
- `Servers_proofs`, the process: `ProcessTypeCorrect` and `ProcessIsRoomManager`. The lemma
  `AggressiveIsOrdinary` is the core: the `leaveRoom` of the aggressive cleanup is for the host of a
  room with `peerCount` 0, who is then no peer of it, so the cleanup does what the ordinary one
  does.
- `LeanServer_proofs`: `TypeCorrect`, `TableSound`, `ClientsInformed`, `LateCloseHarmless`, all
  safety of the module. The invariant adds that an entry names the client of its socket, and none
  a socket that never connected (`EntriesSound`): what `handleDisconnect` announces is then what has
  left the room.
- `TokenManager_proofs`: `RevocationTakesEffect` and `ExpiryTakesEffect`. Neither property is
  inductive: both compare an age with the TTL, and what survives the steps is how two ages compare.
  `IInv` adds that an entry of the cache is at least as old as the revocation of its token
  (`RevokedSound`), that an entry and a validation under way began before the token expired
  (`CacheSound`, `CallsSound`), and that a row which ceased to be valid is neither saved nor found
  valid again (`RowsSound`, `RevokedSound`). Time keeps the order of ages although they stop
  growing (`OlderFacts`). `LiveRowsStay` proves the action property.
- `SessionManager_proofs`: `TypeCorrect`, `IndexSound`, `NothingLost`, `NewestKept`. `NothingLost`
  is not inductive: a deletion the cleanup waits for takes rows by session, and it must not meet a
  session that lives. The invariant says that the session it is for is gone (`DeletingGone`), and
  identifiers of sessions are not used again, so it stays gone; that the row of each single addition,
  told by its number, is there or on its way (`RowsKept`); and that a request under way is for an
  addition, or for an id that was acknowledged (`RequestsSound`). `NewestKept` goes through the window
  of a sequence (`Window`): appending an operation and dropping the oldest at the limit slides it by
  one, and marking the first entry with an id marks the only one where an id was added once.
- `OperationHistory_proofs`: `TypeCorrect`, `HistoryInOrder`, `NothingForgotten`, `ClientsAdvance`.
  That the history is in order survives a load or a restored backup only if what replaces it is in
  order as well, and polls only if what a client holds is a place in that order. The invariant
  speaks of `Known`, the operations that are in the table, on their way to it or given up: these
  are in one order of number and of time (`KnownInOrder`), and the history, the answers the loads
  wait with, a backup and the place of a client are all parts of it (`HistoriesSound`). Filters are
  defined by positions (`Arrays`), so that pruning and the searches for checkpoints need no
  induction.
- `CRDTManager_proofs`: `TypeCorrect`, `NothingLost` (`DocumentSound`), and `Convergence`
  (`Converged`). The invariant gives what a document holds as a function of the set of operations
  its peer applied, whatever the order was: the characters these inserted and no others, each once
  (`Holds`), and over a causal network deleted exactly where one of them deleted (`Buries`). That
  an identifier is issued twice only by a peer that restarted rests on the clock of any other peer
  counting its own operations (`ClocksSound`), imports included, and on its document having applied
  them (`AppliedSound`). Two peers that applied the same operations then hold the same characters, and
  the content is a function of these where no identifier is there twice. `Convergence` has the
  assumption `Causal`. It cannot be dropped: the run `CRDTManager_out_of_order` refutes it. Nor can the
  condition on identifiers: section 6. `NothingLost` does not need the assumption.
- `OperationalTransform_proofs`: the theorem `TransformationConverges` says of any text and any two
  operations of different peers on it that each, followed by the transformed other one, gives the
  same text, unless one falls strictly inside what the other deletes. It is proved character by
  character: what an insert or a delete makes of a text is given pointwise (`IsInserted`,
  `IsDeleted`), and a lemma for each relative position compares the two orders. That the documents
  agree when nothing is on its way (`Convergence`) is not inductive. The invariant says in which of
  four situations two peers can be (`Level`, `Behind`, `Crossing`, `Crossed`) and how their texts
  come from one common text. From it follows that a remote operation meets one operation its author
  did not have, or none, so that the transformation over a history, a fold, is one step, and no
  induction is needed. `HistoryCounts` (`HistorySound`) and `RepetitionHarmless` need that an
  identifier keeps one version wherever it is (`IdsSound`). `TypeCorrect` follows.

Only model-checked: liveness, that is `SilentPeerRemoved`, `UntouchedRoomReclaimed`,
`GhostPeerRemoved`, `PressureRemovesSilent`, `StopEnds`, `EventuallyAgree`, `StaleEntryReclaimed`,
`AbandonedReclaimed` (the prover has no support for `ENABLED` and fairness).

Modules with theorems declare no `RECURSIVE` operator, because the prover loses its SMT backend
there.

## 6. Where code and documents disagree

Shown by runs:

- `signalingServer.ts:88`: the late close of a replaced socket takes the reconnected user out of
  the room (`BACKEND_OVERVIEW.md:295`, "Until peer disconnects"). Run `SignalingServer_late_close`.
- `signalingServer.ts:239, 268, 307`: `createRoom`, `joinRoom` and `leaveRoom` act on the room and the
  user the message names and compare them with nothing, so an authenticated client enters rooms it
  has no token for and can act in another user's name (`CHANGES.md:211-212`, "Users cannot spoof
  identities", "Users can only join authorized rooms"; `README.md:20`; `USER_AUTHENTICATION.md:318-320`).
  Run `SignalingServer_other_room`. Such a client gets the list of the room and never its
  announcements, which go by the room it authenticated for (`:468`).
- `crdtManager.ts:211`: a delete that overtakes its insert is dropped (`crdtManager.ts:8-9`, "Works
  with out-of-order message delivery"). Run `CRDTManager_out_of_order`.

Shown by theorems:

- `memoryManager.ts:72`: the aggressive cleanup calls `leaveRoom` for the host of rooms without peers,
  which does nothing (`memoryManager.ts:67`, "Close all idle rooms", `BACKEND_OVERVIEW.md:390`).
  Lemma `AggressiveIsOrdinary` of `Servers_proofs`.
- `authManager.ts`: a token is not used up. It may be used again, on any socket, until its hour is over
  (`BACKEND_OVERVIEW.md:296`, "1 hour or until used", and `:284`, which removes it on disconnect;
  `README.md:241` and `USER_AUTHENTICATION.md:299` say one hour, but `:300` that a rejoin needs a new
  one). Theorem `LiveTokensStay`.

Found by reading and trying while modelling, without a run:

- `roomManager.ts:231` keeps a room emptied by `leaveRoom` for the whole room timeout;
  `BACKEND_OVERVIEW.md:246-248` says the next cleanup deletes rooms with `peerCount == 0`.
- `roomManager.ts:231, 239`: with a room timeout below the heartbeat timeout, which the environment may
  set, cleanup closes rooms under live peers. The properties of the rooms assume the order the
  defaults have (`TimeoutsOrdered`).
- `roomManager.ts:89` lists a creator who comes back without the host flag
  (`BACKEND_OVERVIEW.md:66`, "Is room creator?").
- `authManager.ts`: nothing clears expired tokens that are not presented again
  (`BACKEND_OVERVIEW.md:91`, "Cleared automatically").
- `signalingServer.ts:97`: a pong does not refresh the heartbeat (`BACKEND_OVERVIEW.md:581-582`).
- `signalingServer.ts:220`: authenticating does not list the peer (`USER_AUTHENTICATION.md:273`,
  "Register peer"), and re-authenticating does not leave the earlier room.
- `signalingServer.ts:289`: a user who left and joins again alone is not announced to the user's
  other open connection (section 4).
- `p2pServer.ts:117`: `start()` resolves, and `index.ts` reports the server ready, before the
  WebSocket server listens; if it fails to, the process goes on without it.
- `p2pServer.ts:91`: nobody handles that the HTTP server cannot listen. `start()` has resolved by then,
  its `catch` and that of `index.ts` see nothing, and the process ends with an unhandled event.
- `p2pServer.ts:129`: `stop()` waits for WebSocket clients that nobody disconnects, for ever if they
  stay, and the HTTP server goes on serving until the exit.
- `lean.server.ts:311`: a socket listed in two rooms is removed from one of them when it closes
  (`lean.types.ts:21`, "A connected peer in a room").
- `lean.server.ts:271`: a forwarded signal does not name its sender
  (`FRONTEND_INTEGRATION.md:147-149`).
- `crdtManager.ts:455`: the own clock does not follow remote operations (`crdtManager.ts:20`,
  "Lamport clock"); `:436`: content is ordered by identifier, the array by position, so that
  `validateConsistency` reports a mismatch and a delete may remove another character than the one
  at its position; `:381`: an exported state carries `peers`, which nothing fills, and not the
  clocks (`:394` clears them), so a peer that starts again from an export issues identifiers again,
  which `validateConsistency` (`:264`) counts as duplicates. TLC then finds peers that applied the same
  operations over a causal network and show different contents: who deletes marks both characters with
  one identifier by their positions, the others only the first they find.
- `tokenManager.ts:110`: an expired token is still answered from the cache, for as long as the TTL;
  `ExpiryHonoured` allows that and no more. `test/unit/tokenManager.test.ts:73-87` expects null right
  after expiry, of a class of the test's own (`:8-33`).
- `tokenManager.ts:300-303`: the signature covers user and room and not `expiresAt`, so that without a
  database the expiry a token names is believed whatever was issued. The model presents tokens as
  issued.
- `tokenManager.ts:215`: `revokeToken` answers true although its update failed.
- `sessionManager.ts:294`: a session connected for longer than the timeout counts as inactive;
  `:300`: a session resumed while the cleanup awaits the database is deleted; `:217`: an
  acknowledgement served before its insert finds no row; `:212`: of an id that was added again an
  acknowledgement marks one entry in memory and every row in the table.
- `operationHistoryManager.ts:517` says of a failed save "will retry later"; nothing does, and
  `saveOperation` reports its errors by its result, so that this catch is never reached.
- `operationHistoryManager.ts:535`: loaded rows carry `operation_id` and not `id`, so the operations
  are not found by their identifiers after a load, and reverted ones come back unreverted: the
  database's `revertOperation` (`supabaseDB.ts:996`) and `cleanOldOperations` (`:1046`) are never
  called, so pruned operations come back with a load too. Polling by time misses operations of the
  same millisecond.
- `operationalTransform.ts:9` says that in-order delivery is enough. It is not: an operation sent
  before the last one was acknowledged has a version from which the other side chooses the wrong
  concurrent operations, and the contents part. They part, too, when an operation falls inside the
  range of a concurrent delete (`:178`, `:183`), and two deletes of one character take two.

## 7. Not modelled

- Relays of chat, code and WebRTC messages, ping and pong: no server state changes. The handshake
  of several pairs over the room-wide relays would be a model of the clients, which are not here.
- Read-only routes, statistics, `getSummary`, `compose` and other pure reports.
- The tables of rooms, peers, documents, sessions and metrics, which nothing modelled reads, and
  with them saving and loading a CRDT document: `loadDocument` takes the text alone.
- Start and stop of `lean.server.ts`, which is not started by `index.ts`; `lean.index.ts` starts it.
- `invalidateToken` of `authManager.ts`, which nothing calls.
- Metrics, logging and declarations; the monitoring configuration.

## 8. Plan

1. Rooms: `RoomState`, `RoomManager`, `RoomLease`; invariants, refinement, proofs. *Done.*
2. Composition: `AuthManager`, `SignalingServer` and `P2PServer` with `MemoryManager`, extending
   `RoomManager`; proofs about who is listed, the clients' lists and the process. *Done.*
3. `LeanServer` and `CRDTManager` with their proofs, convergence included. *Done.*
4. `TokenManager` and `SessionManager`, cut at their awaits, with their proofs. *Done.*
5. `OperationalTransform` and `OperationHistory` with their proofs. *Done.*
6. Open: duplicated delivery to the CRDT, and a document reloaded from its saved text; the WebRTC
   handshake of several pairs; abstract specifications of the token cache (a set of tokens with a
   delay) and of the operation history (an append-only log with loads), with their refinements.
