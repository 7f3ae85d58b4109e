------------------------- MODULE RoomManager_proofs -------------------------
(***************************************************************************)
(* Proofs about RoomManager, for any sets of rooms and users and any       *)
(* timeouts: what every operation on the room table preserves, which the   *)
(* proofs of the servers cite too, then the theorems of the room manager.  *)
(***************************************************************************)
EXTENDS RoomManager, FiniteSetTheorems, TLAPS

RoomTyped(room) == room \in RoomMetadata /\ IsFiniteSet(room.peers)

RoomUnique(room) == \A p, q \in room.peers : p.userId = q.userId => p = q

RoomCounted(room) ==
    /\ room.peerCount = Cardinality(room.peers)
    /\ room.state = "idle" <=> room.peers = {}

RoomHosted(room) == \A p \in room.peers : p.isHost => p.userId = room.hostId

RoomCovered(room) == \A p \in room.peers : room.lastActivity <= p.lastHeartbeat

RoomOK(room) ==
    /\ RoomTyped(room)
    /\ RoomUnique(room)
    /\ RoomCounted(room)
    /\ RoomHosted(room)
    /\ RoomCovered(room)

TableOK(rs) ==
    /\ rs \in RoomTable
    /\ \A r \in OpenRooms(rs) : RoomOK(rs[r])

----------------------------------------------------------------------------
(* Ages *)

\* An age stays an age, never shrinks when time passes, and keeps its order.
LEMMA AgeFacts ==
    /\ 0 \in Age
    /\ \A a \in Age : Older(a) \in Age /\ a <= Older(a)
    /\ \A a, b \in Age : a <= b => Older(a) <= Older(b)
BY TimeoutsAreNat DEF Age, Older, Horizon

\* An age past the heartbeat timeout stays past it, with the cap at Horizon too.
LEMMA SilenceLasts ==
    ASSUME NEW p \in PeerInfo
    PROVE  /\ OlderPeer(p) \in PeerInfo
           /\ OlderPeer(p).userId = p.userId
           /\ Silent(p) => Silent(OlderPeer(p))
BY TimeoutsAreNat DEF Age, Older, Horizon, PeerInfo, OlderPeer, Silent

----------------------------------------------------------------------------
(* One room *)

\* A new room is sound, with its creator as the only peer.
LEMMA CreatedRoomOK ==
    ASSUME NEW u \in UserIds
    PROVE  RoomOK(CreatedRoom(u))
<1> DEFINE room == CreatedRoom(u)
           peer == NewPeer(u, TRUE)
<1>1. peer \in PeerInfo /\ 0 \in Age
  BY AgeFacts DEF NewPeer, PeerInfo
<1>2. room.peers = {peer} /\ room.peerCount = 1 /\ room.state = "active"
      /\ room.hostId = u /\ room.lastActivity = 0
  BY DEF CreatedRoom
<1>3. IsFiniteSet({peer}) /\ Cardinality({peer}) = 1
  BY FS_Singleton
<1>4. RoomTyped(room)
  BY <1>1, <1>3 DEF RoomTyped, RoomMetadata, CreatedRoom
<1>5. RoomUnique(room) /\ RoomCounted(room)
  BY <1>2, <1>3 DEF RoomUnique, RoomCounted
<1>6. RoomHosted(room) /\ RoomCovered(room)
  BY <1>1, <1>2 DEF RoomHosted, RoomCovered, NewPeer
<1>. QED BY <1>4, <1>5, <1>6 DEF RoomOK

\* Replacing the peers by another sound set of them keeps the room sound, if the new
\* state says whether the set is empty.
LEMMA WithPeersOK ==
    ASSUME NEW room, RoomOK(room),
           NEW peers \in SUBSET PeerInfo, IsFiniteSet(peers),
           \A p, q \in peers : p.userId = q.userId => p = q,
           \A p \in peers : p.isHost => p.userId = room.hostId,
           NEW state \in {"active", "idle"}, state = "idle" <=> peers = {}
    PROVE  RoomOK(WithPeers(room, peers, state))
<1> DEFINE new == WithPeers(room, peers, state)
<1>1. room \in RoomMetadata
  BY DEF RoomOK, RoomTyped
<1>2. Cardinality(peers) \in Nat
  BY FS_CardinalityType
<1>3. /\ new.peers = peers /\ new.peerCount = Cardinality(peers)
      /\ new.state = state /\ new.lastActivity = 0 /\ new.hostId = room.hostId
  BY <1>1 DEF WithPeers, RoomMetadata
<1>4. RoomTyped(new)
  <2>1. new \in RoomMetadata
    BY <1>1, <1>2, AgeFacts DEF WithPeers, RoomMetadata
  <2>. QED BY <2>1, <1>3 DEF RoomTyped
<1>5. RoomUnique(new) /\ RoomCounted(new) /\ RoomHosted(new)
  BY <1>3 DEF RoomUnique, RoomCounted, RoomHosted
<1>6. RoomCovered(new)
  BY <1>3, AgeFacts DEF RoomCovered, PeerInfo, Age
<1>. QED BY <1>4, <1>5, <1>6 DEF RoomOK

\* joinRoom: a user who is not a peer yet can be added.
LEMMA JoinedRoomOK ==
    ASSUME NEW room, RoomOK(room), NEW u \in UserIds, u \notin MembersOf(room)
    PROVE  RoomOK(WithPeers(room, room.peers \cup {NewPeer(u, FALSE)}, "active"))
<1> DEFINE peer == NewPeer(u, FALSE)
           peers == room.peers \cup {peer}
<1>1. room \in RoomMetadata /\ IsFiniteSet(room.peers)
  BY DEF RoomOK, RoomTyped
<1>2. peer \in PeerInfo /\ peer.userId = u /\ peer.isHost = FALSE
  BY AgeFacts DEF NewPeer, PeerInfo
<1>3. peers \in SUBSET PeerInfo /\ peers # {}
  BY <1>1, <1>2 DEF RoomMetadata
<1>4. IsFiniteSet(peers)
  BY <1>1, FS_AddElement
<1>5. \A p, q \in peers : p.userId = q.userId => p = q
  BY <1>2 DEF RoomOK, RoomUnique, MembersOf
<1>6. \A p \in peers : p.isHost => p.userId = room.hostId
  BY <1>2 DEF RoomOK, RoomHosted
<1>. QED BY <1>3, <1>4, <1>5, <1>6, WithPeersOK

\* leaveRoom, for one peer or for several: what is left is sound.
LEMMA WithoutPeersOK ==
    ASSUME NEW room, RoomOK(room), NEW gone, room.peers \cap gone # {}
    PROVE  RoomOK(WithoutPeers(room, gone))
<1> DEFINE left == room.peers \ gone
           state == IF left = {} THEN "idle" ELSE room.state
<1>1. room \in RoomMetadata /\ IsFiniteSet(room.peers)
  BY DEF RoomOK, RoomTyped
<1>2. left \in SUBSET PeerInfo /\ IsFiniteSet(left)
  BY <1>1, FS_Subset DEF RoomMetadata
<1>3. state \in {"active", "idle"} /\ (state = "idle" <=> left = {})
  BY <1>1 DEF RoomMetadata, RoomOK, RoomCounted
<1>4. \A p, q \in left : p.userId = q.userId => p = q
  BY DEF RoomOK, RoomUnique
<1>5. \A p \in left : p.isHost => p.userId = room.hostId
  BY DEF RoomOK, RoomHosted
<1>6. RoomOK(WithPeers(room, left, state))
  <2>. HIDE DEF left, state
  <2>. QED BY <1>2, <1>3, <1>4, <1>5, WithPeersOK
<1>. QED BY <1>6 DEF WithoutPeers
\* The image of a finite set under an injective function has the size of the set.
LEMMA InjectiveImage ==
    ASSUME NEW S, IsFiniteSet(S), NEW f, f = [x \in S |-> f[x]],
           \A x, y \in S : f[x] = f[y] => x = y
    PROVE  /\ IsFiniteSet({f[x] : x \in S})
           /\ Cardinality({f[x] : x \in S}) = Cardinality(S)
<1> DEFINE T == {f[x] : x \in S}
<1>1. f \in [S -> T]
  OBVIOUS
<1>2. f \in Bijection(S, T)
  BY <1>1 DEF Bijection, Injection, Surjection, IsInjective
<1>3. ExistsBijection(S, T)
  BY <1>2 DEF ExistsBijection
<1>. QED BY <1>3, FS_Bijection

\* Updating every peer in place, without touching who it is, keeps the room sound, if
\* lastActivity still covers the new heartbeats.
UpdatesPeers(f, room, act) ==
    /\ f = [p \in room.peers |-> f[p]]
    /\ \A p \in room.peers : /\ f[p] \in PeerInfo
                             /\ f[p].userId = p.userId
                             /\ f[p].isHost = p.isHost
                             /\ act <= f[p].lastHeartbeat

UpdatedRoom(room, f, act) ==
    [room EXCEPT !.peers = {f[p] : p \in room.peers}, !.lastActivity = act]

\* Rewriting every peer of a sound room one by one, and its activity, leaves it sound.
LEMMA UpdatedRoomOK ==
    ASSUME NEW room, RoomOK(room), NEW act \in Age, NEW f, UpdatesPeers(f, room, act)
    PROVE  RoomOK(UpdatedRoom(room, f, act))
<1>. USE DEF UpdatesPeers
<1> DEFINE peers == {f[p] : p \in room.peers}
           new == UpdatedRoom(room, f, act)
<1>1. room \in RoomMetadata /\ IsFiniteSet(room.peers)
  BY DEF RoomOK, RoomTyped
<1>2. \A p, q \in room.peers : f[p].userId = f[q].userId => p = q
  BY DEF RoomOK, RoomUnique
<1>3. IsFiniteSet(peers) /\ Cardinality(peers) = Cardinality(room.peers)
  BY <1>1, <1>2, InjectiveImage
<1>4. /\ new.peers = peers /\ new.lastActivity = act /\ new.hostId = room.hostId
      /\ new.state = room.state /\ new.peerCount = room.peerCount
      /\ new \in RoomMetadata
  <2>1. peers \in SUBSET PeerInfo
    OBVIOUS
  <2>2. new = [room EXCEPT !.peers = peers, !.lastActivity = act]
    BY DEF UpdatedRoom
  <2>. HIDE DEF peers, new
  <2>. QED BY <1>1, <2>1, <2>2 DEF RoomMetadata
<1>5. RoomTyped(new)
  BY <1>3, <1>4 DEF RoomTyped
<1>6. RoomUnique(new)
  BY <1>2, <1>4 DEF RoomUnique
<1>7. RoomCounted(new)
  BY <1>3, <1>4 DEF RoomCounted, RoomOK
<1>8. RoomHosted(new)
  BY <1>4 DEF RoomHosted, RoomOK
<1>9. RoomCovered(new)
  BY <1>4 DEF RoomCovered
<1>. QED BY <1>5, <1>6, <1>7, <1>8, <1>9 DEF RoomOK

\* A heartbeat of one peer.
BeatenRoom(room, u) ==
    [room EXCEPT !.peers = {IF p.userId = u THEN Refreshed(p) ELSE p : p \in room.peers},
                 !.lastActivity = 0]

\* A heartbeat (updatePeerHeartbeat) leaves its room sound.
LEMMA BeatenRoomOK ==
    ASSUME NEW room, RoomOK(room), NEW u
    PROVE  RoomOK(BeatenRoom(room, u))
<1> DEFINE f == [p \in room.peers |-> IF p.userId = u THEN Refreshed(p) ELSE p]
<1>1. room.peers \subseteq PeerInfo
  BY DEF RoomOK, RoomTyped, RoomMetadata
<1>2. \A p \in room.peers : /\ f[p] \in PeerInfo
                            /\ f[p].userId = p.userId
                            /\ f[p].isHost = p.isHost
                            /\ 0 <= f[p].lastHeartbeat
  BY <1>1, AgeFacts DEF PeerInfo, Refreshed, Age
<1>3. {f[p] : p \in room.peers}
        = {IF p.userId = u THEN Refreshed(p) ELSE p : p \in room.peers}
  OBVIOUS
<1>4. UpdatesPeers(f, room, 0)
  BY <1>2 DEF UpdatesPeers
<1>5. RoomOK(UpdatedRoom(room, f, 0))
  <2>. HIDE DEF f
  <2>. QED BY <1>4, AgeFacts, UpdatedRoomOK
<1>. QED BY <1>3, <1>5 DEF BeatenRoom, UpdatedRoom

\* Time passing over a room.
LEMMA OlderRoomOK ==
    ASSUME NEW room, RoomOK(room)
    PROVE  RoomOK(OlderRoom(room))
<1> DEFINE f == [p \in room.peers |-> OlderPeer(p)]
           act == Older(room.lastActivity)
<1>1. room.peers \subseteq PeerInfo /\ room \in RoomMetadata
  BY DEF RoomOK, RoomTyped, RoomMetadata
<1>2. act \in Age
  BY <1>1, AgeFacts DEF RoomMetadata
<1>3. \A p \in room.peers : /\ f[p] \in PeerInfo
                            /\ f[p].userId = p.userId
                            /\ f[p].isHost = p.isHost
                            /\ act <= f[p].lastHeartbeat
  BY <1>1, AgeFacts DEF PeerInfo, OlderPeer, RoomOK, RoomCovered, RoomMetadata
<1>4. UpdatesPeers(f, room, act)
  BY <1>3 DEF UpdatesPeers
<1>5. RoomOK(UpdatedRoom(room, f, act))
  <2>. HIDE DEF f, act
  <2>. QED BY <1>2, <1>4, UpdatedRoomOK
<1>6. OlderRoom(room) = UpdatedRoom(room, f, act)
  BY <1>1 DEF OlderRoom, RoomMetadata, UpdatedRoom
<1>. QED BY <1>5, <1>6

\* broadcastToRoom touches the time stamp of the room alone.
LEMMA TouchedRoomOK ==
    ASSUME NEW room, RoomOK(room)
    PROVE  RoomOK([room EXCEPT !.lastActivity = 0])
<1> DEFINE new == [room EXCEPT !.lastActivity = 0]
<1>1. room \in RoomMetadata
  BY DEF RoomOK, RoomTyped
<1>2. /\ new.peers = room.peers /\ new.hostId = room.hostId /\ new.state = room.state
      /\ new.peerCount = room.peerCount /\ new.lastActivity = 0
      /\ new \in RoomMetadata
  BY <1>1, AgeFacts DEF RoomMetadata
<1>3. RoomCovered(new)
  BY <1>1, <1>2, AgeFacts DEF RoomCovered, RoomMetadata, PeerInfo, Age
<1>4. RoomTyped(new) /\ RoomUnique(new) /\ RoomCounted(new) /\ RoomHosted(new)
  BY <1>2 DEF RoomOK, RoomTyped, RoomUnique, RoomCounted, RoomHosted
<1>. QED BY <1>3, <1>4 DEF RoomOK

\* cleanup drops a room or leaves it sound.
LEMMA CleanedRoomOK ==
    ASSUME NEW room, RoomOK(room), CleanedRoom(room) # NoRoom
    PROVE  RoomOK(CleanedRoom(room))
<1>1. CASE SilentPeers(room) = {}
  BY <1>1 DEF CleanedRoom
<1>2. CASE SilentPeers(room) # {}
  <2>1. CleanedRoom(room) = WithoutPeers(room, SilentPeers(room))
    BY <1>2 DEF CleanedRoom
  <2>2. room.peers \cap SilentPeers(room) # {}
    BY <1>2 DEF SilentPeers
  <2>. QED BY <2>1, <2>2, WithoutPeersOK
<1>. QED BY <1>1, <1>2

----------------------------------------------------------------------------
(* The table *)

\* Every operation takes a sound table to a sound table.
LEMMA RoomIsNotNoRoom ==
    ASSUME NEW room, RoomOK(room)
    PROVE  room \in RoomMetadata /\ room # NoRoom
BY NoRoomIsNotARoom DEF RoomOK, RoomTyped

\* The table the server starts with is sound.
LEMMA EmptyTableOK == TableOK(EmptyTable)
BY DEF TableOK, EmptyTable, RoomTable, OpenRooms, HasRoom

\* Replacing one room by a sound one.
LEMMA ReplacedOK ==
    ASSUME NEW rs, TableOK(rs), NEW r \in RoomIds, NEW room, RoomOK(room)
    PROVE  TableOK([rs EXCEPT ![r] = room])
BY RoomIsNotNoRoom DEF TableOK, RoomTable, OpenRooms, HasRoom

\* createRoom leaves the table sound.
LEMMA RoomCreatedOK ==
    ASSUME NEW rs, TableOK(rs), NEW r \in RoomIds, NEW u \in UserIds
    PROVE  TableOK(RoomCreated(rs, r, u))
BY CreatedRoomOK, ReplacedOK DEF RoomCreated

\* joinRoom leaves the table sound: it lists nobody who is listed already.
LEMMA RoomJoinedOK ==
    ASSUME NEW rs, TableOK(rs), NEW r \in RoomIds, NEW u \in UserIds
    PROVE  TableOK(RoomJoined(rs, r, u))
<1>1. CASE ~HasRoom(rs, r) \/ u \in Members(rs, r)
  BY <1>1 DEF RoomJoined
<1>2. CASE HasRoom(rs, r) /\ u \notin Members(rs, r)
  <2>1. RoomOK(rs[r]) /\ u \notin MembersOf(rs[r])
    BY <1>2 DEF TableOK, OpenRooms, Members
  <2>. DEFINE room == WithPeers(rs[r], rs[r].peers \cup {NewPeer(u, FALSE)}, "active")
  <2>2. RoomOK(room)
    BY <2>1, JoinedRoomOK
  <2>3. RoomJoined(rs, r, u) = [rs EXCEPT ![r] = room]
    BY <1>2 DEF RoomJoined
  <2>. HIDE DEF room
  <2>4. TableOK([rs EXCEPT ![r] = room])
    BY <2>2, ReplacedOK
  <2>. QED BY <2>3, <2>4
<1>. QED BY <1>1, <1>2

\* leaveRoom leaves the table sound.
LEMMA RoomLeftOK ==
    ASSUME NEW rs, TableOK(rs), NEW r \in RoomIds, NEW u \in UserIds
    PROVE  TableOK(RoomLeft(rs, r, u))
<1>1. CASE u \notin Members(rs, r)
  BY <1>1 DEF RoomLeft
<1>2. CASE u \in Members(rs, r)
  <2>. DEFINE gone == {p \in rs[r].peers : p.userId = u}
  <2>1. RoomOK(rs[r]) /\ rs[r].peers \cap gone # {}
    BY <1>2 DEF TableOK, OpenRooms, Members, MembersOf
  <2>2. RoomOK(WithoutPeers(rs[r], gone))
    BY <2>1, WithoutPeersOK
  <2>. QED BY <1>2, <2>2, ReplacedOK DEF RoomLeft
<1>. QED BY <1>1, <1>2

\* updatePeerHeartbeat leaves the table sound.
LEMMA HeartbeatUpdatedOK ==
    ASSUME NEW rs, TableOK(rs), NEW r \in RoomIds, NEW u \in UserIds
    PROVE  TableOK(HeartbeatUpdated(rs, r, u))
<1>1. CASE u \notin Members(rs, r)
  BY <1>1 DEF HeartbeatUpdated
<1>2. CASE u \in Members(rs, r)
  <2>1. RoomOK(rs[r])
    BY <1>2 DEF TableOK, OpenRooms, Members
  <2>. DEFINE room == BeatenRoom(rs[r], u)
  <2>2. RoomOK(room)
    BY <2>1, BeatenRoomOK
  <2>3. HeartbeatUpdated(rs, r, u) = [rs EXCEPT ![r] = room]
    BY <1>2 DEF HeartbeatUpdated, BeatenRoom
  <2>. HIDE DEF room
  <2>4. TableOK([rs EXCEPT ![r] = room])
    BY <2>2, ReplacedOK
  <2>. QED BY <2>3, <2>4
<1>. QED BY <1>1, <1>2

\* broadcastToRoom leaves the table sound.
LEMMA RoomTouchedOK ==
    ASSUME NEW rs, TableOK(rs), NEW r \in RoomIds
    PROVE  TableOK(RoomTouched(rs, r))
BY TouchedRoomOK, ReplacedOK DEF RoomTouched, TableOK, OpenRooms

\* cleanup leaves the table sound.
LEMMA CleanedUpOK ==
    ASSUME NEW rs, TableOK(rs)
    PROVE  TableOK(CleanedUp(rs))
<1>1. \A r \in RoomIds : HasRoom(CleanedUp(rs), r) =>
          /\ HasRoom(rs, r)
          /\ CleanedUp(rs)[r] = CleanedRoom(rs[r])
  BY DEF CleanedUp, HasRoom
<1>2. \A r \in OpenRooms(CleanedUp(rs)) : RoomOK(CleanedUp(rs)[r])
  BY <1>1, CleanedRoomOK DEF OpenRooms, HasRoom, TableOK
<1>3. CleanedUp(rs) = [r \in RoomIds |-> CleanedUp(rs)[r]]
  BY DEF CleanedUp
<1>4. \A r \in RoomIds : CleanedUp(rs)[r] \in RoomMetadata \cup {NoRoom}
  BY <1>2, RoomIsNotNoRoom DEF OpenRooms, HasRoom
<1>. QED BY <1>2, <1>3, <1>4 DEF TableOK, RoomTable

\* The passing of time leaves the table sound.
LEMMA AgedOK ==
    ASSUME NEW rs, TableOK(rs)
    PROVE  TableOK(Aged(rs))
<1>1. \A r \in OpenRooms(rs) : RoomOK(OlderRoom(rs[r]))
  BY OlderRoomOK DEF TableOK
<1>2. \A r \in RoomIds : Aged(rs)[r] = IF HasRoom(rs, r) THEN OlderRoom(rs[r]) ELSE NoRoom
  BY DEF Aged
<1>3. \A r \in OpenRooms(Aged(rs)) : RoomOK(Aged(rs)[r])
  BY <1>1, <1>2 DEF OpenRooms, HasRoom
<1>4. Aged(rs) = [r \in RoomIds |-> Aged(rs)[r]]
  BY DEF Aged
<1>5. \A r \in RoomIds : Aged(rs)[r] \in RoomMetadata \cup {NoRoom}
  BY <1>3, RoomIsNotNoRoom DEF OpenRooms, HasRoom
<1>. QED BY <1>3, <1>4, <1>5 DEF TableOK, RoomTable

----------------------------------------------------------------------------
(* The invariant *)

\* The inductive invariant: all the facts about the table together, because each method
\* keeps peerCount, the host flags and lastActivity right only for peers that are unique
\* and finitely many.
RoomsIInv == TableOK(rooms) /\ cleanupInterval \in BOOLEAN

\* The inductive invariant holds at the start.
LEMMA RoomsInitIInv == RoomsInit => RoomsIInv
BY EmptyTableOK DEF RoomsInit, RoomsIInv

\* Every method, the timer and the clock preserve the inductive invariant.
LEMMA RoomsNextIInv == RoomsIInv /\ [RoomsNext]_roomVars => RoomsIInv'
<1> SUFFICES ASSUME RoomsIInv, [RoomsNext]_roomVars PROVE RoomsIInv'
  OBVIOUS
<1>. USE DEF RoomsIInv
<1>1. ASSUME NEW r \in RoomIds, NEW u \in UserIds, CreateRoom(r, u) PROVE RoomsIInv'
  BY <1>1, RoomCreatedOK DEF CreateRoom
<1>2. ASSUME NEW r \in RoomIds, NEW u \in UserIds, JoinRoom(r, u) PROVE RoomsIInv'
  BY <1>2, RoomJoinedOK DEF JoinRoom
<1>3. ASSUME NEW r \in RoomIds, NEW u \in UserIds, LeaveRoom(r, u) PROVE RoomsIInv'
  BY <1>3, RoomLeftOK DEF LeaveRoom
<1>4. ASSUME NEW r \in RoomIds, NEW u \in UserIds, UpdatePeerHeartbeat(r, u) PROVE RoomsIInv'
  BY <1>4, HeartbeatUpdatedOK DEF UpdatePeerHeartbeat
<1>5. ASSUME NEW r \in RoomIds, BroadcastToRoom(r) PROVE RoomsIInv'
  BY <1>5, RoomTouchedOK DEF BroadcastToRoom
<1>6. CASE RoomsCleanup
  BY <1>6, CleanedUpOK DEF RoomsCleanup
<1>7. CASE Shutdown
  BY <1>7, EmptyTableOK DEF Shutdown
<1>8. CASE RoomsTick
  BY <1>8, AgedOK DEF RoomsTick
<1>9. CASE UNCHANGED roomVars
  BY <1>9 DEF roomVars
<1>. QED BY <1>1, <1>2, <1>3, <1>4, <1>5, <1>6, <1>7, <1>8, <1>9 DEF RoomsNext

\* The inductive invariant holds in every reachable state.
THEOREM RoomsInvariant == RoomsSpec => []RoomsIInv
BY RoomsInitIInv, RoomsNextIInv, PTL DEF RoomsSpec

\* The table is always well formed.
THEOREM RoomsTypeCorrect == RoomsSpec => []RoomsTypeOK
<1>1. RoomsIInv => RoomsTypeOK
  BY DEF RoomsIInv, TableOK, RoomOK, RoomTyped, RoomsTypeOK
<1>. QED BY <1>1, RoomsInvariant, PTL

\* No user is listed twice, the counter is the number of peers, only the creator has the
\* host flag, and no room looks older than its freshest peer.
THEOREM TableSound ==
    RoomsSpec => []MembershipSound
<1>1. RoomsIInv => PeersUnique
  BY DEF RoomsIInv, TableOK, RoomOK, RoomUnique, PeersUnique
<1>2. RoomsIInv => CountMatchesPeers
  BY DEF RoomsIInv, TableOK, RoomOK, RoomCounted, CountMatchesPeers
<1>3. RoomsIInv => HostFlagSound
  BY DEF RoomsIInv, TableOK, RoomOK, RoomHosted, HostFlagSound
<1>4. RoomsIInv => ActivityCoversHeartbeats
  BY DEF RoomsIInv, TableOK, RoomOK, RoomCovered, ActivityCoversHeartbeats
<1>5. RoomsIInv => MembershipSound
  BY <1>1, <1>2, <1>3, <1>4 DEF MembershipSound
<1>. QED BY <1>5, RoomsInvariant, PTL

----------------------------------------------------------------------------
(* Who stays in a room *)

\* An inactive room has no live peer, if the room timeout is the longer one.
LEMMA InactiveRoomIsSilent ==
    ASSUME TimeoutsOrdered, NEW room, RoomOK(room), Inactive(room)
    PROVE  \A p \in room.peers : Silent(p)
<1>1. room \in RoomMetadata
  BY DEF RoomOK, RoomTyped
<1>2. \A p \in room.peers : room.lastActivity <= p.lastHeartbeat
  BY DEF RoomOK, RoomCovered
<1>3. room.lastActivity \in Int /\ \A p \in room.peers : p.lastHeartbeat \in Int
  BY <1>1, TimeoutsAreNat DEF RoomMetadata, PeerInfo, Age
<1>. QED BY <1>2, <1>3, TimeoutsAreNat DEF Inactive, Silent, TimeoutsOrdered

\* RoomsCleanup leaves in a room exactly the users whose heartbeat is in time.
LEMMA CleanedMembers ==
    ASSUME TimeoutsOrdered, NEW rs, TableOK(rs), NEW r \in RoomIds
    PROVE  /\ Members(CleanedUp(rs), r) = FreshMembers(rs, r)
           /\ HasRoom(CleanedUp(rs), r) => HasRoom(rs, r)
           /\ HasRoom(rs, r) /\ ~HasRoom(CleanedUp(rs), r) => FreshMembers(rs, r) = {}
<1>. DEFINE room == rs[r]
            new == CleanedUp(rs)[r]
<1>1. CASE ~HasRoom(rs, r)
  BY <1>1 DEF CleanedUp, Members, FreshMembers, HasRoom
<1>2. CASE HasRoom(rs, r)
  <2>1. RoomOK(room)
    BY <1>2 DEF TableOK, OpenRooms
  <2>2. new = CleanedRoom(room)
    BY <1>2 DEF CleanedUp
  <2>3. CASE Inactive(room)
    <3>1. new = NoRoom
      BY <2>2, <2>3 DEF CleanedRoom
    <3>2. FreshMembers(rs, r) = {}
      BY <2>1, <2>3, InactiveRoomIsSilent DEF FreshMembers, FreshOf
    <3>. QED BY <1>2, <3>1, <3>2 DEF Members, HasRoom
  <2>4. CASE ~Inactive(room) /\ SilentPeers(room) = {}
    <3>1. new = room
      BY <2>2, <2>4 DEF CleanedRoom
    <3>2. FreshMembers(rs, r) = MembersOf(room)
      BY <1>2, <2>4 DEF FreshMembers, FreshOf, SilentPeers, MembersOf
    <3>. QED BY <1>2, <3>1, <3>2 DEF Members, HasRoom
  <2>5. CASE ~Inactive(room) /\ SilentPeers(room) # {} /\ SilentPeers(room) = room.peers
    <3>1. new = NoRoom
      BY <2>2, <2>5 DEF CleanedRoom
    <3>2. FreshMembers(rs, r) = {}
      BY <2>5 DEF FreshMembers, FreshOf, SilentPeers
    <3>. QED BY <1>2, <3>1, <3>2 DEF Members, HasRoom
  <2>6. CASE ~Inactive(room) /\ SilentPeers(room) # {} /\ SilentPeers(room) # room.peers
    <3>1. new = WithoutPeers(room, SilentPeers(room))
      BY <2>2, <2>6 DEF CleanedRoom
    <3>2. RoomOK(new)
      <4>1. room.peers \cap SilentPeers(room) # {}
        BY <2>6 DEF SilentPeers
      <4>. QED BY <2>1, <3>1, <4>1, WithoutPeersOK
    <3>3. new # NoRoom
      BY <3>2, RoomIsNotNoRoom
    <3>4. new.peers = room.peers \ SilentPeers(room)
      <4>1. room \in RoomMetadata
        BY <2>1 DEF RoomOK, RoomTyped
      <4>. QED BY <3>1, <4>1 DEF WithoutPeers, WithPeers, RoomMetadata
    <3>5. new.peers = {p \in room.peers : ~Silent(p)}
      BY <3>4 DEF SilentPeers
    <3>. QED BY <1>2, <3>3, <3>5 DEF Members, MembersOf, FreshMembers, FreshOf, HasRoom
  <2>. QED BY <2>3, <2>4, <2>5, <2>6
<1>. QED BY <1>1, <1>2
\* Those it leaves are as fresh as they were.
LEMMA CleanedFresh ==
    ASSUME TimeoutsOrdered, NEW rs, TableOK(rs), NEW r \in RoomIds
    PROVE  FreshMembers(CleanedUp(rs), r) = FreshMembers(rs, r)
<1>. DEFINE room == rs[r]
            new == CleanedUp(rs)[r]
<1>1. CASE ~HasRoom(CleanedUp(rs), r)
  BY <1>1, CleanedMembers DEF FreshMembers, HasRoom
<1>2. CASE HasRoom(CleanedUp(rs), r)
  <2>1. HasRoom(rs, r) /\ new = CleanedRoom(room) /\ RoomOK(room) /\ new # NoRoom
    BY <1>2 DEF CleanedUp, HasRoom, TableOK, OpenRooms
  <2>2. CASE SilentPeers(room) = {}
    BY <1>2, <2>1, <2>2 DEF CleanedRoom, FreshMembers
  <2>3. CASE SilentPeers(room) # {}
    <3>1. new = WithoutPeers(room, SilentPeers(room))
      BY <2>1, <2>3 DEF CleanedRoom
    <3>2. new.peers = {p \in room.peers : ~Silent(p)}
      BY <2>1, <3>1
         DEF WithoutPeers, WithPeers, SilentPeers, RoomOK, RoomTyped, RoomMetadata
    <3>3. FreshOf(new) = FreshOf(room)
      BY <3>2 DEF FreshOf
    <3>. QED BY <1>2, <2>1, <3>3 DEF FreshMembers
  <2>. QED BY <2>2, <2>3
<1>. QED BY <1>1, <1>2

\* The members of a sound table are users.
LEMMA FreshTyped ==
    ASSUME NEW rs, TableOK(rs), NEW r \in RoomIds
    PROVE  FreshMembers(rs, r) \in SUBSET UserIds
BY DEF FreshMembers, FreshOf, TableOK, OpenRooms, RoomOK, RoomTyped, RoomMetadata, PeerInfo

\* Who is in a room after each change of its record.
LEMMA CreatedMembers ==
    ASSUME NEW u \in UserIds
    PROVE  MembersOf(CreatedRoom(u)) = {u} /\ FreshOf(CreatedRoom(u)) = {u}
<1>1. NewPeer(u, TRUE).userId = u /\ ~Silent(NewPeer(u, TRUE))
  BY TimeoutsAreNat DEF NewPeer, Silent
<1>2. CreatedRoom(u).peers = {NewPeer(u, TRUE)}
  BY DEF CreatedRoom
<1>. QED BY <1>1, <1>2 DEF MembersOf, FreshOf

\* A peer that joins is a fresh member.
LEMMA JoinedMembers ==
    ASSUME NEW room, RoomOK(room), NEW u \in UserIds,
           NEW new, new = WithPeers(room, room.peers \cup {NewPeer(u, FALSE)}, "active")
    PROVE  /\ MembersOf(new) = MembersOf(room) \cup {u}
           /\ FreshOf(new) = FreshOf(room) \cup {u}
<1>1. NewPeer(u, FALSE).userId = u /\ ~Silent(NewPeer(u, FALSE))
  BY TimeoutsAreNat DEF NewPeer, Silent
<1>2. new.peers = room.peers \cup {NewPeer(u, FALSE)}
  BY DEF WithPeers, RoomOK, RoomTyped, RoomMetadata
<1>. QED BY <1>1, <1>2 DEF MembersOf, FreshOf

\* leaveRoom takes one user out.
LEMMA LeftMembers ==
    ASSUME NEW room, RoomOK(room), NEW u \in UserIds,
           NEW new, new = WithoutPeers(room, {p \in room.peers : p.userId = u})
    PROVE  /\ MembersOf(new) = MembersOf(room) \ {u}
           /\ FreshOf(new) = FreshOf(room) \ {u}
<1>1. new.peers = {p \in room.peers : p.userId # u}
  BY DEF WithoutPeers, WithPeers, RoomOK, RoomTyped, RoomMetadata
<1>. QED BY <1>1 DEF MembersOf, FreshOf

\* A heartbeat keeps the members and makes its sender fresh.
LEMMA BeatenMembers ==
    ASSUME NEW room, RoomOK(room), NEW u \in MembersOf(room)
    PROVE  /\ MembersOf(BeatenRoom(room, u)) = MembersOf(room)
           /\ FreshOf(BeatenRoom(room, u)) = FreshOf(room) \cup {u}
<1>. DEFINE new == BeatenRoom(room, u)
            beat(p) == IF p.userId = u THEN Refreshed(p) ELSE p
<1>1. room.peers \subseteq PeerInfo /\ room \in RoomMetadata
  BY DEF RoomOK, RoomTyped, RoomMetadata
<1>2. new.peers = {beat(p) : p \in room.peers}
  BY <1>1 DEF BeatenRoom, RoomMetadata
<1>3. \A p \in room.peers : /\ beat(p).userId = p.userId
                            /\ Silent(beat(p)) <=> Silent(p) /\ p.userId # u
  BY <1>1, TimeoutsAreNat DEF PeerInfo, Refreshed, Silent
<1>4. MembersOf(new) = MembersOf(room)
  BY <1>2, <1>3 DEF MembersOf
<1>5. FreshOf(new) = FreshOf(room) \cup {u}
  <2>. HIDE DEF new, beat
  <2>. QED BY <1>2, <1>3 DEF MembersOf, FreshOf
<1>. QED BY <1>4, <1>5

\* Time passing keeps the members and makes nobody fresh.
LEMMA OlderMembers ==
    ASSUME NEW room, RoomOK(room)
    PROVE  /\ MembersOf(OlderRoom(room)) = MembersOf(room)
           /\ FreshOf(OlderRoom(room)) \subseteq FreshOf(room)
<1>1. room.peers \subseteq PeerInfo /\ room \in RoomMetadata
  BY DEF RoomOK, RoomTyped, RoomMetadata
<1>2. OlderRoom(room).peers = {OlderPeer(p) : p \in room.peers}
  BY <1>1 DEF OlderRoom, RoomMetadata
<1>3. \A p \in room.peers : /\ OlderPeer(p).userId = p.userId
                            /\ Silent(p) => Silent(OlderPeer(p))
  BY <1>1, SilenceLasts
<1>. QED BY <1>2, <1>3 DEF MembersOf, FreshOf

----------------------------------------------------------------------------
(* The table as a table of leases *)

MembersMap(rs) == [r \in RoomIds |-> Members(rs, r)]
FreshMap(rs) == [r \in RoomIds |-> FreshMembers(rs, r)]

Replaced(rs, r, room) == [rs EXCEPT ![r] = room]

\* Replacing the record of one room changes the leases of that room alone.
LEMMA ReplacedLeases ==
    ASSUME NEW rs, TableOK(rs), NEW r \in RoomIds, NEW room, room # NoRoom,
           NEW new, new = Replaced(rs, r, room)
    PROVE  /\ OpenRooms(new) = OpenRooms(rs) \cup {r}
           /\ MembersMap(new) = Replaced(MembersMap(rs), r, MembersOf(room))
           /\ FreshMap(new) = Replaced(FreshMap(rs), r, FreshOf(room))
<1>1. new[r] = room /\ \A s \in RoomIds \ {r} : new[s] = rs[s]
  BY DEF TableOK, RoomTable, Replaced
<1>2. OpenRooms(new) = OpenRooms(rs) \cup {r}
  BY <1>1 DEF OpenRooms, HasRoom
<1>3. \A s \in RoomIds : /\ Members(new, s) = IF s = r THEN MembersOf(room) ELSE Members(rs, s)
                         /\ FreshMembers(new, s) =
                                IF s = r THEN FreshOf(room) ELSE FreshMembers(rs, s)
  BY <1>1 DEF Members, FreshMembers, HasRoom
<1>4. MembersMap(new) = Replaced(MembersMap(rs), r, MembersOf(room))
  BY <1>3 DEF MembersMap, Replaced
<1>5. FreshMap(new) = Replaced(FreshMap(rs), r, FreshOf(room))
  BY <1>3 DEF FreshMap, Replaced
<1>. QED BY <1>2, <1>4, <1>5


\* A step that leaves the leases as they are.
LeaseStutter ==
    /\ OpenRooms(rooms') = OpenRooms(rooms)
    /\ MembersMap(rooms') = MembersMap(rooms)
    /\ FreshMap(rooms') = FreshMap(rooms)

\* createRoom opens a lease.
LEMMA CreateIsOpen ==
    ASSUME RoomsIInv, NEW r \in RoomIds, NEW u \in UserIds, CreateRoom(r, u)
    PROVE  Lease!Open(r, u) \/ LeaseStutter
<1>1. CASE HasRoom(rooms, r)
  BY <1>1 DEF CreateRoom, RoomCreated, LeaseStutter
<1>2. CASE ~HasRoom(rooms, r)
  <2>. DEFINE room == CreatedRoom(u)
  <2>1. rooms' = Replaced(rooms, r, room)
    BY <1>2 DEF CreateRoom, RoomCreated, Replaced
  <2>2. room # NoRoom
    BY CreatedRoomOK, RoomIsNotNoRoom
  <2>3. MembersOf(room) = {u} /\ FreshOf(room) = {u}
    BY CreatedMembers
  <2>. HIDE DEF room
  <2>4. /\ OpenRooms(rooms') = OpenRooms(rooms) \cup {r}
        /\ MembersMap(rooms') = Replaced(MembersMap(rooms), r, {u})
        /\ FreshMap(rooms') = Replaced(FreshMap(rooms), r, {u})
    BY <2>1, <2>2, <2>3, ReplacedLeases DEF RoomsIInv
  <2>5. r \notin OpenRooms(rooms)
    BY <1>2 DEF OpenRooms
  <2>6. Lease!Open(r, u)
    BY <2>4, <2>5 DEF Lease!Open, MembersMap, FreshMap, Replaced
  <2>. QED BY <2>6
<1>. QED BY <1>1, <1>2

\* A join, a leave, a heartbeat or a broadcast replaces the record of an open room.
LEMMA ReplacedOpenRoom ==
    ASSUME RoomsIInv, NEW r \in RoomIds, HasRoom(rooms, r),
           NEW room, RoomOK(room), rooms' = Replaced(rooms, r, room)
    PROVE  /\ OpenRooms(rooms') = OpenRooms(rooms)
           /\ MembersMap(rooms') = Replaced(MembersMap(rooms), r, MembersOf(room))
           /\ FreshMap(rooms') = Replaced(FreshMap(rooms), r, FreshOf(room))
<1>1. room # NoRoom
  BY RoomIsNotNoRoom
<1>2. OpenRooms(rooms) \cup {r} = OpenRooms(rooms)
  BY DEF OpenRooms
<1>. QED BY <1>1, <1>2, ReplacedLeases DEF RoomsIInv

\* joinRoom adds a fresh member.
LEMMA JoinIsJoin ==
    ASSUME RoomsIInv, NEW r \in RoomIds, NEW u \in UserIds, JoinRoom(r, u)
    PROVE  Lease!Join(r, u) \/ LeaseStutter
<1>1. CASE ~HasRoom(rooms, r) \/ u \in Members(rooms, r)
  BY <1>1 DEF JoinRoom, RoomJoined, LeaseStutter
<1>2. CASE HasRoom(rooms, r) /\ u \notin Members(rooms, r)
  <2>. DEFINE room == WithPeers(rooms[r], rooms[r].peers \cup {NewPeer(u, FALSE)}, "active")
  <2>1. RoomOK(rooms[r]) /\ u \notin MembersOf(rooms[r])
    BY <1>2 DEF RoomsIInv, TableOK, OpenRooms, Members
  <2>2. RoomOK(room)
    BY <2>1, JoinedRoomOK
  <2>3. rooms' = Replaced(rooms, r, room)
    BY <1>2 DEF JoinRoom, RoomJoined, Replaced
  <2>4. /\ MembersOf(room) = MembersOf(rooms[r]) \cup {u}
        /\ FreshOf(room) = FreshOf(rooms[r]) \cup {u}
    BY <2>1, JoinedMembers
  <2>. HIDE DEF room
  <2>5. /\ OpenRooms(rooms') = OpenRooms(rooms)
        /\ MembersMap(rooms') = Replaced(MembersMap(rooms), r, MembersOf(room))
        /\ FreshMap(rooms') = Replaced(FreshMap(rooms), r, FreshOf(room))
    BY <1>2, <2>2, <2>3, ReplacedOpenRoom
  <2>6. Lease!Join(r, u)
    BY <1>2, <2>4, <2>5
       DEF Lease!Join, MembersMap, FreshMap, Replaced, OpenRooms, Members, FreshMembers
  <2>. QED BY <2>6
<1>. QED BY <1>1, <1>2

\* leaveRoom removes one member.
LEMMA LeaveIsLeave ==
    ASSUME RoomsIInv, NEW r \in RoomIds, NEW u \in UserIds, LeaveRoom(r, u)
    PROVE  Lease!Leave(r, u) \/ LeaseStutter
<1>1. CASE u \notin Members(rooms, r)
  BY <1>1 DEF LeaveRoom, RoomLeft, LeaseStutter
<1>2. CASE u \in Members(rooms, r)
  <2>. DEFINE gone == {p \in rooms[r].peers : p.userId = u}
              room == WithoutPeers(rooms[r], gone)
  <2>1. HasRoom(rooms, r) /\ RoomOK(rooms[r]) /\ rooms[r].peers \cap gone # {}
    BY <1>2 DEF RoomsIInv, TableOK, OpenRooms, Members, MembersOf
  <2>2. RoomOK(room)
    BY <2>1, WithoutPeersOK
  <2>3. rooms' = Replaced(rooms, r, room)
    BY <1>2 DEF LeaveRoom, RoomLeft, Replaced
  <2>4. /\ MembersOf(room) = MembersOf(rooms[r]) \ {u}
        /\ FreshOf(room) = FreshOf(rooms[r]) \ {u}
    BY <2>1, LeftMembers
  <2>. HIDE DEF room
  <2>5. /\ OpenRooms(rooms') = OpenRooms(rooms)
        /\ MembersMap(rooms') = Replaced(MembersMap(rooms), r, MembersOf(room))
        /\ FreshMap(rooms') = Replaced(FreshMap(rooms), r, FreshOf(room))
    BY <2>1, <2>2, <2>3, ReplacedOpenRoom
  <2>6. Lease!Leave(r, u)
    BY <1>2, <2>1, <2>4, <2>5
       DEF Lease!Leave, MembersMap, FreshMap, Replaced, Members, FreshMembers
  <2>. QED BY <2>6
<1>. QED BY <1>1, <1>2

\* updatePeerHeartbeat renews the lease of a member.
LEMMA BeatIsRenew ==
    ASSUME RoomsIInv, NEW r \in RoomIds, NEW u \in UserIds, UpdatePeerHeartbeat(r, u)
    PROVE  Lease!Renew(r, u) \/ LeaseStutter
<1>1. CASE u \notin Members(rooms, r)
  BY <1>1 DEF UpdatePeerHeartbeat, HeartbeatUpdated, LeaseStutter
<1>2. CASE u \in Members(rooms, r)
  <2>. DEFINE room == BeatenRoom(rooms[r], u)
  <2>1. HasRoom(rooms, r) /\ RoomOK(rooms[r]) /\ u \in MembersOf(rooms[r])
    BY <1>2 DEF RoomsIInv, TableOK, OpenRooms, Members
  <2>2. RoomOK(room)
    BY <2>1, BeatenRoomOK
  <2>3. rooms' = Replaced(rooms, r, room)
    BY <1>2 DEF UpdatePeerHeartbeat, HeartbeatUpdated, BeatenRoom, Replaced
  <2>4. /\ MembersOf(room) = MembersOf(rooms[r])
        /\ FreshOf(room) = FreshOf(rooms[r]) \cup {u}
    BY <2>1, BeatenMembers
  <2>. HIDE DEF room
  <2>5. /\ OpenRooms(rooms') = OpenRooms(rooms)
        /\ MembersMap(rooms') = Replaced(MembersMap(rooms), r, MembersOf(room))
        /\ FreshMap(rooms') = Replaced(FreshMap(rooms), r, FreshOf(room))
    BY <2>1, <2>2, <2>3, ReplacedOpenRoom
  <2>6. Lease!Renew(r, u)
    BY <1>2, <2>1, <2>4, <2>5
       DEF Lease!Renew, MembersMap, FreshMap, Replaced, Members, FreshMembers
  <2>. QED BY <2>6
<1>. QED BY <1>1, <1>2

\* broadcastToRoom changes no lease.
LEMMA TouchIsStutter ==
    ASSUME RoomsIInv, NEW r \in RoomIds, BroadcastToRoom(r)
    PROVE  LeaseStutter
<1>1. CASE ~HasRoom(rooms, r)
  BY <1>1 DEF BroadcastToRoom, RoomTouched, LeaseStutter
<1>2. CASE HasRoom(rooms, r)
  <2>. DEFINE room == [rooms[r] EXCEPT !.lastActivity = 0]
  <2>1. RoomOK(rooms[r])
    BY <1>2 DEF RoomsIInv, TableOK, OpenRooms
  <2>2. RoomOK(room)
    BY <2>1, TouchedRoomOK
  <2>3. rooms' = Replaced(rooms, r, room)
    BY <1>2 DEF BroadcastToRoom, RoomTouched, Replaced
  <2>4. MembersOf(room) = MembersOf(rooms[r]) /\ FreshOf(room) = FreshOf(rooms[r])
    BY <2>1 DEF RoomOK, RoomTyped, RoomMetadata, MembersOf, FreshOf
  <2>. HIDE DEF room
  <2>5. /\ OpenRooms(rooms') = OpenRooms(rooms)
        /\ MembersMap(rooms') = Replaced(MembersMap(rooms), r, MembersOf(room))
        /\ FreshMap(rooms') = Replaced(FreshMap(rooms), r, FreshOf(room))
    BY <1>2, <2>2, <2>3, ReplacedOpenRoom
  <2>. QED BY <1>2, <2>4, <2>5
           DEF LeaseStutter, MembersMap, FreshMap, Replaced, Members, FreshMembers
<1>. QED BY <1>1, <1>2

\* cleanup sweeps: the members whose lease has run out go, and only rooms without a fresh
\* member are closed.
LEMMA CleanupIsSweep ==
    ASSUME RoomsIInv, TimeoutsOrdered, RoomsCleanup
    PROVE  Lease!Sweep
<1>1. TableOK(rooms) /\ rooms' = CleanedUp(rooms)
  BY DEF RoomsIInv, RoomsCleanup
<1>2. \A r \in RoomIds :
          /\ Members(rooms', r) = FreshMembers(rooms, r)
          /\ HasRoom(rooms', r) => HasRoom(rooms, r)
          /\ HasRoom(rooms, r) /\ ~HasRoom(rooms', r) => FreshMembers(rooms, r) = {}
  BY <1>1, CleanedMembers
<1>3. \A r \in RoomIds : FreshMembers(rooms', r) = FreshMembers(rooms, r)
  BY <1>1, CleanedFresh
<1>4. OpenRooms(rooms') \subseteq OpenRooms(rooms)
  BY <1>2 DEF OpenRooms
<1>5. \A r \in OpenRooms(rooms) \ OpenRooms(rooms') : FreshMembers(rooms, r) = {}
  BY <1>2 DEF OpenRooms
<1>. QED BY <1>2, <1>3, <1>4, <1>5 DEF Lease!Sweep, OpenRooms

\* shutdown empties the table.
LEMMA ShutdownIsReset ==
    ASSUME Shutdown
    PROVE  Lease!Reset
BY DEF Shutdown, Lease!Reset, EmptyTable, OpenRooms, Members, FreshMembers, HasRoom

\* When time passes, leases may run out.
LEMMA TickIsRunOut ==
    ASSUME RoomsIInv, RoomsTick
    PROVE  Lease!RunOut
<1>1. \A r \in OpenRooms(rooms) :
          /\ RoomOK(rooms[r])
          /\ OlderRoom(rooms[r]) # NoRoom
          /\ MembersOf(OlderRoom(rooms[r])) = MembersOf(rooms[r])
          /\ FreshOf(OlderRoom(rooms[r])) \subseteq FreshOf(rooms[r])
  BY OlderMembers, OlderRoomOK, RoomIsNotNoRoom DEF RoomsIInv, TableOK
<1>2. \A r \in RoomIds :
          rooms'[r] = IF HasRoom(rooms, r) THEN OlderRoom(rooms[r]) ELSE NoRoom
  BY DEF RoomsTick, Aged
<1>3. \A r \in RoomIds :
          /\ HasRoom(rooms', r) <=> HasRoom(rooms, r)
          /\ Members(rooms', r) = Members(rooms, r)
          /\ FreshMembers(rooms', r) \subseteq FreshMembers(rooms, r)
  BY <1>1, <1>2 DEF HasRoom, OpenRooms, Members, FreshMembers
<1>4. \A r \in RoomIds : FreshMembers(rooms, r) \in SUBSET UserIds
  BY FreshTyped DEF RoomsIInv
<1>5. [r \in RoomIds |-> FreshMembers(rooms', r)] \in [RoomIds -> SUBSET UserIds]
  BY <1>3, <1>4
<1>. QED BY <1>3, <1>5 DEF Lease!RunOut, OpenRooms

----------------------------------------------------------------------------
(* The theorems about membership *)

\* With the timeouts in the order of their defaults, the room manager implements the lease
\* table, for any rooms, users and timeouts.
THEOREM Refinement ==
    ASSUME TimeoutsOrdered
    PROVE  RoomsSpec => ImplementsLease
<1>1. RoomsInit => Lease!Init
  BY DEF RoomsInit, Lease!Init, EmptyTable, OpenRooms, Members, FreshMembers, HasRoom
<1>2. RoomsIInv /\ [RoomsNext]_roomVars => [Lease!Next]_(Lease!vars)
  <2> SUFFICES ASSUME RoomsIInv, [RoomsNext]_roomVars PROVE [Lease!Next]_(Lease!vars)
    OBVIOUS
  <2>1. LeaseStutter => UNCHANGED Lease!vars
    BY DEF LeaseStutter, Lease!vars, MembersMap, FreshMap
  <2>2. ASSUME NEW r \in RoomIds, NEW u \in UserIds,
               CreateRoom(r, u) \/ JoinRoom(r, u) \/ LeaveRoom(r, u)
                   \/ UpdatePeerHeartbeat(r, u)
        PROVE  Lease!Next \/ LeaseStutter
    BY <2>2, CreateIsOpen, JoinIsJoin, LeaveIsLeave, BeatIsRenew DEF Lease!Next
  <2>3. ASSUME NEW r \in RoomIds, BroadcastToRoom(r) PROVE LeaseStutter
    BY <2>3, TouchIsStutter
  <2>4. CASE RoomsCleanup
    BY <2>4, CleanupIsSweep DEF Lease!Next
  <2>5. CASE Shutdown
    BY <2>5, ShutdownIsReset DEF Lease!Next
  <2>6. CASE RoomsTick
    BY <2>6, TickIsRunOut DEF Lease!Next
  <2>7. CASE UNCHANGED roomVars
    BY <2>1, <2>7 DEF roomVars, LeaseStutter
  <2>. QED BY <2>1, <2>2, <2>3, <2>4, <2>5, <2>6, <2>7 DEF RoomsNext
<1>. QED BY <1>1, <1>2, RoomsInvariant, PTL DEF RoomsSpec, Lease!Spec, ImplementsLease

\* A user with a heartbeat in time disappears from a room only by leaving it or by the
\* shutdown: no cleanup, and nobody else's departure, takes it out.
THEOREM LivePeersStay == RoomsSpec => LivePeerKept
<1>1. RoomsIInv /\ [RoomsNext]_roomVars => [LivePeerStep]_roomVars
  <2> SUFFICES ASSUME RoomsIInv, RoomsNext PROVE LivePeerStep
    OBVIOUS
  <2> SUFFICES ASSUME TimeoutsOrdered, NEW r \in RoomIds, NEW u \in UserIds,
                      u \in FreshMembers(rooms, r), u \notin Members(rooms', r)
               PROVE  LeaveRoom(r, u) \/ Shutdown
    BY DEF LivePeerStep
  <2>1. u \in Members(rooms, r)
    BY DEF FreshMembers, FreshOf, Members, MembersOf
  <2>2. ~LeaseStutter
    BY <2>1 DEF LeaseStutter, MembersMap
  <2>3. ASSUME NEW s \in RoomIds, NEW v \in UserIds,
               Lease!Open(s, v) \/ Lease!Join(s, v) \/ Lease!Renew(s, v)
        PROVE  FALSE
    BY <2>1, <2>3 DEF Lease!Open, Lease!Join, Lease!Renew, Members, OpenRooms
  <2>4. ASSUME NEW s \in RoomIds, NEW v \in UserIds, LeaveRoom(s, v)
        PROVE  s = r /\ v = u
    <3>1. Lease!Leave(s, v)
      BY <2>2, <2>4, LeaveIsLeave
    <3>. QED BY <2>1, <3>1 DEF Lease!Leave
  <2>5. ~RoomsCleanup
    BY CleanupIsSweep DEF Lease!Sweep
  <2>6. ~RoomsTick
    BY <2>1, TickIsRunOut DEF Lease!RunOut
  <2>7. ASSUME NEW s \in RoomIds, NEW v \in UserIds
        PROVE  ~(CreateRoom(s, v) \/ JoinRoom(s, v) \/ UpdatePeerHeartbeat(s, v))
    BY <2>2, <2>3, <2>7, CreateIsOpen, JoinIsJoin, BeatIsRenew
  <2>8. ASSUME NEW s \in RoomIds PROVE ~BroadcastToRoom(s)
    BY <2>2, <2>8, TouchIsStutter
  <2>. QED BY <2>4, <2>5, <2>6, <2>7, <2>8 DEF RoomsNext
<1>. QED BY <1>1, RoomsInvariant, PTL DEF RoomsSpec, LivePeerKept

=============================================================================
