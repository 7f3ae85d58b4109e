----------------------------- MODULE RoomState -----------------------------
(***************************************************************************)
(* The room table of the server and the operations roomManager.ts performs *)
(* on it, as pure operators from one table to the next.  RoomManager turns *)
(* them into a state machine of its own; SignalingServer and MemoryManager *)
(* call the same operators from their handlers, as the code does.          *)
(*                                                                         *)
(* A table maps every room identifier to its metadata or to NoRoom.  Every *)
(* timestamp of the code is kept as its AGE, Date.now() minus the stamp,   *)
(* which is all that any comparison reads; ages stop at Horizon, just past *)
(* both timeouts, where no comparison can tell them apart any more.        *)
(* room.peers is the set of its entries: the order of the array is read by *)
(* no decision of the code.                                                *)
(***************************************************************************)
EXTENDS Integers, FiniteSets

CONSTANTS
    RoomIds,                  \* room identifiers
    UserIds,                  \* user identifiers
    NoRoom,                   \* what rooms.get() gives for an unknown room
    PEER_HEARTBEAT_TIMEOUT,   \* both read from the environment, so neither
    ROOM_INACTIVITY_TIMEOUT   \* need be the larger one

ASSUME TimeoutsAreNat ==
    /\ PEER_HEARTBEAT_TIMEOUT \in Nat
    /\ ROOM_INACTIVITY_TIMEOUT \in Nat

Horizon == IF PEER_HEARTBEAT_TIMEOUT > ROOM_INACTIVITY_TIMEOUT
           THEN PEER_HEARTBEAT_TIMEOUT + 1
           ELSE ROOM_INACTIVITY_TIMEOUT + 1

Age == 0..Horizon
Older(age) == IF age < Horizon THEN age + 1 ELSE age

PeerInfo == [userId : UserIds, isHost : BOOLEAN, lastHeartbeat : Age]

RoomMetadata ==
    [hostId : UserIds, peers : SUBSET PeerInfo, peerCount : Nat,
     state : {"active", "idle"}, lastActivity : Age]

ASSUME NoRoomIsNotARoom == NoRoom \notin RoomMetadata

RoomTable == [RoomIds -> RoomMetadata \cup {NoRoom}]
EmptyTable == [r \in RoomIds |-> NoRoom]

----------------------------------------------------------------------------
(* Reading the table *)

HasRoom(rs, r) == rs[r] # NoRoom
OpenRooms(rs) == {r \in RoomIds : HasRoom(rs, r)}
MembersOf(room) == {p.userId : p \in room.peers}
Members(rs, r) == IF HasRoom(rs, r) THEN MembersOf(rs[r]) ELSE {}

\* A peer whose heartbeat is older than the timeout, and a room unused for too long
Silent(p) == p.lastHeartbeat > PEER_HEARTBEAT_TIMEOUT
Inactive(room) == room.lastActivity > ROOM_INACTIVITY_TIMEOUT

\* The members whose heartbeat is in time
FreshOf(room) == {p.userId : p \in {q \in room.peers : ~Silent(q)}}
FreshMembers(rs, r) == IF HasRoom(rs, r) THEN FreshOf(rs[r]) ELSE {}

----------------------------------------------------------------------------
(* Changing the table: each operator is the method of the same name *)

NewPeer(u, host) == [userId |-> u, isHost |-> host, lastHeartbeat |-> 0]

\* What push and splice leave behind: the count and the state follow the peers
WithPeers(room, peers, state) ==
    [room EXCEPT !.peers = peers, !.peerCount = Cardinality(peers),
                 !.state = state, !.lastActivity = 0]

\* Mutant: the room is left in the state it is built in.
CreatingRoom(u) ==
    [hostId |-> u, peers |-> {NewPeer(u, TRUE)}, peerCount |-> 1,
     state |-> "creating", lastActivity |-> 0]

CreatedRoom(u) ==
    [hostId |-> u, peers |-> {NewPeer(u, TRUE)}, peerCount |-> 1,
     state |-> "active", lastActivity |-> 0]

RoomCreated(rs, r, u) ==
    IF HasRoom(rs, r) THEN rs ELSE [rs EXCEPT ![r] = CreatedRoom(u)]

RoomJoined(rs, r, u) ==
    IF ~HasRoom(rs, r) \/ u \in Members(rs, r)
    THEN rs
    ELSE [rs EXCEPT ![r] =
              WithPeers(rs[r], rs[r].peers \cup {NewPeer(u, FALSE)}, "active")]

\* leaveRoom on the peers of one room: the state becomes idle with the last of them
WithoutPeers(room, gone) ==
    LET left == room.peers \ gone
    IN WithPeers(room, left, IF left = {} THEN "idle" ELSE room.state)

RoomLeft(rs, r, u) ==
    IF u \notin Members(rs, r)
    THEN rs
    ELSE [rs EXCEPT ![r] =
              WithoutPeers(rs[r], {p \in rs[r].peers : p.userId = u})]

Refreshed(p) == [p EXCEPT !.lastHeartbeat = 0]

\* Mutant: a heartbeat does not count as activity of the room.
HeartbeatOnly(rs, r, u) ==
    IF u \notin Members(rs, r)
    THEN rs
    ELSE [rs EXCEPT ![r] =
              [rs[r] EXCEPT
                  !.peers = {IF p.userId = u THEN Refreshed(p) ELSE p :
                                p \in rs[r].peers}]]

HeartbeatUpdated(rs, r, u) ==
    IF u \notin Members(rs, r)
    THEN rs
    ELSE [rs EXCEPT ![r] =
              [rs[r] EXCEPT
                  !.peers = {IF p.userId = u THEN Refreshed(p) ELSE p :
                                p \in rs[r].peers},
                  !.lastActivity = 0]]

RoomTouched(rs, r) ==
    IF HasRoom(rs, r) THEN [rs EXCEPT ![r] = [rs[r] EXCEPT !.lastActivity = 0]] ELSE rs

\* Mutant: a peer is silent as soon as the timeout is reached.
SilentAtTimeout(room) == {p \in room.peers : p.lastHeartbeat >= PEER_HEARTBEAT_TIMEOUT}

\* cleanup() on one room: drop it when it has been inactive for too long; else remove
\* the silent peers and drop the room if that emptied it
SilentPeers(room) == {p \in room.peers : Silent(p)}

\* Mutant: one silent peer closes the room.
ClosedForOne(room) ==
    IF Inactive(room) \/ SilentPeers(room) # {} THEN NoRoom ELSE room

\* Mutant: only whole rooms are looked at.
CleanedIfInactive(room) == IF Inactive(room) THEN NoRoom ELSE room

\* Mutant: only the peers are looked at.
CleanedOfPeers(room) ==
    IF SilentPeers(room) = {} THEN room
    ELSE IF SilentPeers(room) = room.peers THEN NoRoom
    ELSE WithoutPeers(room, SilentPeers(room))

CleanedRoom(room) ==
    IF Inactive(room) THEN NoRoom
    ELSE IF SilentPeers(room) = {} THEN room
    ELSE IF SilentPeers(room) = room.peers THEN NoRoom
    ELSE WithoutPeers(room, SilentPeers(room))

CleanedUp(rs) ==
    [r \in RoomIds |-> IF HasRoom(rs, r) THEN CleanedRoom(rs[r]) ELSE NoRoom]

----------------------------------------------------------------------------
(* Time passes *)

OlderPeer(p) == [p EXCEPT !.lastHeartbeat = Older(@)]

OlderRoom(room) ==
    [room EXCEPT !.peers = {OlderPeer(p) : p \in @}, !.lastActivity = Older(@)]

Aged(rs) ==
    [r \in RoomIds |-> IF HasRoom(rs, r) THEN OlderRoom(rs[r]) ELSE NoRoom]
=============================================================================
