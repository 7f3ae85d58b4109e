---------------------------- MODULE RoomManager ----------------------------
(***************************************************************************)
(* roomManager.ts as a state machine: its public methods in any order, the *)
(* cleanup timer, and the passing of time.  The methods run to completion   *)
(* one at a time (one JavaScript thread, no await in any of them).          *)
(***************************************************************************)
EXTENDS RoomState

VARIABLES
    rooms,            \* Map<roomId, RoomMetadata>
    cleanupInterval   \* is the cleanup timer set?

roomVars == <<rooms, cleanupInterval>>

RoomsInit ==
    /\ rooms = EmptyTable
    /\ cleanupInterval = TRUE

CreateRoom(r, u) ==
    /\ rooms' = RoomCreated(rooms, r, u)
    /\ UNCHANGED cleanupInterval

JoinRoom(r, u) ==
    /\ rooms' = RoomJoined(rooms, r, u)
    /\ UNCHANGED cleanupInterval

LeaveRoom(r, u) ==
    /\ rooms' = RoomLeft(rooms, r, u)
    /\ UNCHANGED cleanupInterval

UpdatePeerHeartbeat(r, u) ==
    /\ rooms' = HeartbeatUpdated(rooms, r, u)
    /\ UNCHANGED cleanupInterval

BroadcastToRoom(r) ==
    /\ rooms' = RoomTouched(rooms, r)
    /\ UNCHANGED cleanupInterval

\* Called by the timer, and by the maintenance endpoint and the memory manager too
RoomsCleanup ==
    /\ rooms' = CleanedUp(rooms)
    /\ UNCHANGED cleanupInterval

RoomsTimedCleanup == cleanupInterval /\ RoomsCleanup

Shutdown ==
    /\ rooms' = EmptyTable
    /\ cleanupInterval' = FALSE

RoomsTick ==
    /\ rooms' = Aged(rooms)
    /\ UNCHANGED cleanupInterval

RoomsNext ==
    \/ \E r \in RoomIds, u \in UserIds :
           \/ CreateRoom(r, u)
           \/ JoinRoom(r, u)
           \/ LeaveRoom(r, u)
           \/ UpdatePeerHeartbeat(r, u)
    \/ \E r \in RoomIds : BroadcastToRoom(r)
    \/ RoomsCleanup
    \/ Shutdown
    \/ RoomsTick

RoomsSpec == RoomsInit /\ [][RoomsNext]_roomVars

\* Time passes, and setInterval keeps calling cleanup() while the timer is set
RoomsFairness == WF_roomVars(RoomsTick) /\ WF_roomVars(RoomsTimedCleanup)
RoomsFairSpec == RoomsSpec /\ RoomsFairness

----------------------------------------------------------------------------
(* Invariants *)

\* The table holds well-formed rooms with finitely many peers.
RoomsTypeOK ==
    /\ rooms \in RoomTable
    /\ \A r \in OpenRooms(rooms) : IsFiniteSet(rooms[r].peers)
    /\ cleanupInterval \in BOOLEAN

\* No user is listed twice in a room, whatever order of create, join, leave, rejoin and
\* cleanup led there: joinRoom's check and leaveRoom's splice of ONE entry rely on it.
PeersUnique ==
    \A r \in OpenRooms(rooms) : \A p, q \in rooms[r].peers :
        p.userId = q.userId => p = q

\* peerCount, which cleanup and the statistics trust, is the number of peers, and a room is
\* idle exactly when it has none.
CountMatchesPeers ==
    \A r \in OpenRooms(rooms) :
        /\ rooms[r].peerCount = Cardinality(rooms[r].peers)
        /\ rooms[r].state = "idle" <=> rooms[r].peers = {}

\* Only the user who created the room carries the host flag.
HostFlagSound ==
    \A r \in OpenRooms(rooms) : \A p \in rooms[r].peers :
        p.isHost => p.userId = rooms[r].hostId

\* A room is never older than the freshest heartbeat of its peers: every method that renews
\* a peer also renews lastActivity, and cleanup of other peers never sets it back.
ActivityCoversHeartbeats ==
    \A r \in OpenRooms(rooms) : \A p \in rooms[r].peers :
        rooms[r].lastActivity <= p.lastHeartbeat

\* The records of a room agree with each other, whatever order of calls led there: the four
\* invariants above, which the methods and cleanup() take for granted of each other.
MembershipSound == PeersUnique /\ CountMatchesPeers /\ HostFlagSound /\ ActivityCoversHeartbeats

----------------------------------------------------------------------------
(* Action properties *)

TimeoutsOrdered == PEER_HEARTBEAT_TIMEOUT <= ROOM_INACTIVITY_TIMEOUT

\* A user whose heartbeat is in time disappears from a room, with it or without it, only
\* through leaveRoom for that user or the shutdown: cleanup never closes a room under a
\* live peer, although it looks at lastActivity alone before it looks at any peer.
LivePeerStep ==
    TimeoutsOrdered =>
        \A r \in RoomIds, u \in UserIds :
            u \in FreshMembers(rooms, r) /\ u \notin Members(rooms', r)
                => LeaveRoom(r, u) \/ Shutdown

LivePeerKept == [][LivePeerStep]_roomVars

----------------------------------------------------------------------------
(* Liveness *)

\* A peer that stays silent does not stay in the room while the timer runs.
SilentPeerRemoved ==
    \A r \in RoomIds, u \in UserIds :
        (cleanupInterval /\ u \in Members(rooms, r) /\ u \notin FreshMembers(rooms, r))
            ~> (u \notin Members(rooms, r) \/ u \in FreshMembers(rooms, r))

\* A room nobody touches again is reclaimed, the empty ones that lost their last peer by
\* leaveRoom included: cleanup has no test for those but the inactivity one.
UntouchedRoomReclaimed ==
    \A r \in RoomIds :
        (cleanupInterval /\ HasRoom(rooms, r))
            ~> (~HasRoom(rooms, r) \/ rooms[r].lastActivity = 0)

----------------------------------------------------------------------------
(* The abstract specification it implements *)

Lease == INSTANCE RoomLease WITH
    open    <- OpenRooms(rooms),
    members <- [r \in RoomIds |-> Members(rooms, r)],
    fresh   <- [r \in RoomIds |-> FreshMembers(rooms, r)]

\* With the timeouts in the order of their defaults, the room table is a table of leases.
ImplementsLease == Lease!Spec

=============================================================================
