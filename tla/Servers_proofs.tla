----------------------- MODULE Servers_proofs -----------------------
(***************************************************************************)
(* Proofs about the two modules that drive the room manager, for any       *)
(* rooms, users, sockets, timeouts and bounds.                             *)
(*                                                                         *)
(* SignalingServer: whatever users and rooms the messages name, the state  *)
(* is well formed and live tokens stay; and in the rooms where everybody   *)
(* acts in the name and for the room of its connection, nobody is let in   *)
(* without a token, nobody live is taken out by others, and the lists of   *)
(* peers are right.                                                        *)
(*                                                                         *)
(* P2PServer: the process drives the room manager only through its         *)
(* operations.  What needs an invariant is the aggressive cleanup: it      *)
(* calls leaveRoom for the host of every room without peers, and that does *)
(* nothing because the table is sound.                                     *)
(***************************************************************************)
EXTENDS SignalingServer, P2PServer, RoomManager_proofs

----------------------------------------------------------------------------
(* The members of a room *)

\* A room put into the table.
LEMMA MembersReplaced ==
    ASSUME NEW rs, TableOK(rs), NEW r \in RoomIds, NEW room, room # NoRoom
    PROVE  \A q \in RoomIds : Members([rs EXCEPT ![r] = room], q) =
               IF q = r THEN MembersOf(room) ELSE Members(rs, q)
BY DEF TableOK, RoomTable, Members, HasRoom

\* createRoom lists its creator in a new room and does nothing to an old one.
LEMMA MembersCreated ==
    ASSUME NEW rs, TableOK(rs), NEW r \in RoomIds, NEW u \in UserIds, NEW q \in RoomIds
    PROVE  Members(RoomCreated(rs, r, u), q) =
               IF q = r /\ ~HasRoom(rs, r) THEN {u} ELSE Members(rs, q)
<1>1. CASE HasRoom(rs, r)
  BY <1>1 DEF RoomCreated
<1>2. CASE ~HasRoom(rs, r)
  <2>1. CreatedRoom(u) # NoRoom
    BY CreatedRoomOK, RoomIsNotNoRoom
  <2>2. MembersOf(CreatedRoom(u)) = {u}
    BY DEF MembersOf, CreatedRoom, NewPeer
  <2>. QED BY <1>2, <2>1, <2>2, MembersReplaced DEF RoomCreated
<1>. QED BY <1>1, <1>2

\* joinRoom adds the user to a room that is there.
LEMMA MembersJoined ==
    ASSUME NEW rs, TableOK(rs), NEW r \in RoomIds, NEW u \in UserIds, NEW q \in RoomIds
    PROVE  Members(RoomJoined(rs, r, u), q) =
               IF q = r /\ HasRoom(rs, r) THEN Members(rs, r) \cup {u} ELSE Members(rs, q)
<1>1. CASE ~HasRoom(rs, r) \/ u \in Members(rs, r)
  BY <1>1 DEF RoomJoined
<1>2. CASE HasRoom(rs, r) /\ u \notin Members(rs, r)
  <2> DEFINE peers == rs[r].peers \cup {NewPeer(u, FALSE)}
             room == WithPeers(rs[r], peers, "active")
  <2>1. RoomOK(rs[r]) /\ rs[r] \in RoomMetadata
    BY <1>2 DEF TableOK, OpenRooms, RoomOK, RoomTyped
  <2>2. RoomOK(room)
    BY <1>2, <2>1, JoinedRoomOK DEF Members
  <2>3. room # NoRoom
    BY <2>2, RoomIsNotNoRoom
  <2>4. room.peers = peers
    BY <2>1 DEF WithPeers, RoomMetadata
  <2>5. RoomJoined(rs, r, u) = [rs EXCEPT ![r] = room]
    BY <1>2 DEF RoomJoined
  <2> HIDE DEF room
  <2>6. MembersOf(room) = {p.userId : p \in rs[r].peers} \cup {NewPeer(u, FALSE).userId}
    BY <2>4 DEF MembersOf
  <2>7. MembersOf(room) = Members(rs, r) \cup {u}
    BY <1>2, <2>6 DEF MembersOf, Members, NewPeer
  <2>8. Members([rs EXCEPT ![r] = room], q) = IF q = r THEN MembersOf(room) ELSE Members(rs, q)
    BY <2>3, MembersReplaced
  <2>. QED BY <1>2, <2>5, <2>7, <2>8
<1>. QED BY <1>1, <1>2

\* leaveRoom takes the user out, and nobody else.
LEMMA MembersLeft ==
    ASSUME NEW rs, TableOK(rs), NEW r \in RoomIds, NEW u \in UserIds, NEW q \in RoomIds
    PROVE  Members(RoomLeft(rs, r, u), q) =
               IF q = r THEN Members(rs, r) \ {u} ELSE Members(rs, q)
<1>1. CASE u \notin Members(rs, r)
  BY <1>1 DEF RoomLeft
<1>2. CASE u \in Members(rs, r)
  <2> DEFINE gone == {p \in rs[r].peers : p.userId = u}
             room == WithoutPeers(rs[r], gone)
  <2>1. HasRoom(rs, r) /\ RoomOK(rs[r]) /\ rs[r] \in RoomMetadata
    BY <1>2 DEF TableOK, OpenRooms, RoomOK, RoomTyped, Members
  <2>2. rs[r].peers \cap gone # {}
    BY <1>2 DEF Members, MembersOf
  <2>3. room # NoRoom
    BY <2>1, <2>2, WithoutPeersOK, RoomIsNotNoRoom
  <2>4. room.peers = rs[r].peers \ gone
    BY <2>1 DEF WithoutPeers, WithPeers, RoomMetadata
  <2>5. MembersOf(room) = Members(rs, r) \ {u}
    BY <2>1, <2>4 DEF MembersOf, Members
  <2>. QED BY <1>2, <2>3, <2>5, MembersReplaced DEF RoomLeft
<1>. QED BY <1>1, <1>2

\* A heartbeat changes no membership.
LEMMA MembersBeaten ==
    ASSUME NEW rs, TableOK(rs), NEW r \in RoomIds, NEW u \in UserIds, NEW q \in RoomIds
    PROVE  Members(HeartbeatUpdated(rs, r, u), q) = Members(rs, q)
<1>1. CASE u \notin Members(rs, r)
  BY <1>1 DEF HeartbeatUpdated
<1>2. CASE u \in Members(rs, r)
  <2> DEFINE peers == {IF p.userId = u THEN Refreshed(p) ELSE p : p \in rs[r].peers}
             room == [rs[r] EXCEPT !.peers = peers, !.lastActivity = 0]
  <2>1. HasRoom(rs, r) /\ rs[r] \in RoomMetadata
    BY <1>2 DEF TableOK, OpenRooms, RoomOK, RoomTyped, Members
  <2>2. room.peers = peers
    BY <2>1 DEF RoomMetadata
  <2>3. \A p \in rs[r].peers : Refreshed(p).userId = p.userId
    BY <2>1 DEF Refreshed, RoomMetadata, PeerInfo
  <2>4. MembersOf(room) = Members(rs, r)
    BY <2>1, <2>2, <2>3 DEF MembersOf, Members
  <2>5. RoomOK(BeatenRoom(rs[r], u))
    BY <2>1, BeatenRoomOK DEF TableOK, OpenRooms
  <2>6. room # NoRoom
    BY <2>5, RoomIsNotNoRoom DEF BeatenRoom
  <2>. QED BY <1>2, <2>4, <2>6, MembersReplaced DEF HeartbeatUpdated
<1>. QED BY <1>1, <1>2

\* Nor does the passing of time.
LEMMA MembersAged ==
    ASSUME NEW rs, TableOK(rs), NEW q \in RoomIds
    PROVE  Members(Aged(rs), q) = Members(rs, q)
<1>1. CASE ~HasRoom(rs, q)
  BY <1>1 DEF Aged, Members, HasRoom
<1>2. CASE HasRoom(rs, q)
  <2>1. RoomOK(rs[q]) /\ rs[q] \in RoomMetadata
    BY <1>2 DEF TableOK, OpenRooms, RoomOK, RoomTyped
  <2>2. OlderRoom(rs[q]) # NoRoom /\ Aged(rs)[q] = OlderRoom(rs[q])
    BY <1>2, <2>1, OlderRoomOK, RoomIsNotNoRoom DEF Aged
  <2>3. OlderRoom(rs[q]).peers = {OlderPeer(p) : p \in rs[q].peers}
    BY <2>1 DEF OlderRoom, RoomMetadata
  <2>4. \A p \in rs[q].peers : OlderPeer(p).userId = p.userId
    BY <2>1 DEF OlderPeer, RoomMetadata, PeerInfo
  <2>5. MembersOf(OlderRoom(rs[q])) = MembersOf(rs[q])
    BY <2>3, <2>4 DEF MembersOf
  <2>. QED BY <1>2, <2>2, <2>5 DEF Members, HasRoom
<1>. QED BY <1>1, <1>2

----------------------------------------------------------------------------
(* The table of the server *)

\* A call of the room manager, whichever the handler makes, keeps its table sound.
LEMMA CallKeepsTable ==
    ASSUME TableOK(rooms), NEW r \in RoomIds, NEW u \in UserIds,
           \/ CreateRoom(r, u) \/ JoinRoom(r, u) \/ LeaveRoom(r, u)
           \/ UpdatePeerHeartbeat(r, u) \/ RoomsCleanup \/ RoomsTick
    PROVE  TableOK(rooms') /\ UNCHANGED cleanupInterval
<1>1. CASE CreateRoom(r, u)
  BY <1>1, RoomCreatedOK DEF CreateRoom
<1>2. CASE JoinRoom(r, u)
  BY <1>2, RoomJoinedOK DEF JoinRoom
<1>3. CASE LeaveRoom(r, u)
  BY <1>3, RoomLeftOK DEF LeaveRoom
<1>4. CASE UpdatePeerHeartbeat(r, u)
  BY <1>4, HeartbeatUpdatedOK DEF UpdatePeerHeartbeat
<1>5. CASE RoomsCleanup
  BY <1>5, CleanedUpOK DEF RoomsCleanup
<1>6. CASE RoomsTick
  BY <1>6, AgedOK DEF RoomsTick
<1>. QED BY <1>1, <1>2, <1>3, <1>4, <1>5, <1>6

----------------------------------------------------------------------------
(* What holds whatever the messages name *)

\* The state is well formed, with one entry and one list for a socket at most, and a socket
\* that was never opened has no entry.
Typed ==
    /\ TableOK(rooms) /\ cleanupInterval \in BOOLEAN
    /\ validTokens \subseteq Auth!AuthToken
    /\ clients \in [Sockets -> SUBSET ClientInfo]
    /\ socketState \in [Sockets -> {"unused", "open", "lost", "closed"}]
    /\ view \in [Sockets -> SUBSET View]
    /\ admitted \subseteq UserIds \X RoomIds
    /\ mixed \subseteq RoomIds
    /\ \A s \in Sockets : \A c, d \in clients[s] : c = d
    /\ \A s \in Sockets : \A v, w \in view[s] : v = w
    /\ \A s \in Sockets : socketState[s] = "unused" => clients[s] = {}

\* It holds at the start.
LEMMA InitTyped == Init => Typed
BY EmptyTableOK DEF Init, RoomsInit, Auth!Init, EmptyTable, Typed, None

\* The members of a sound table are users.
LEMMA MembersTyped ==
    ASSUME NEW rs, TableOK(rs), NEW r \in RoomIds
    PROVE  Members(rs, r) \subseteq UserIds
BY DEF Members, MembersOf, TableOK, OpenRooms, RoomOK, RoomTyped, RoomMetadata, PeerInfo

\* A token stays one, for the same user and room, when it ages.
LEMMA OlderTokenFacts ==
    ASSUME NEW t \in Auth!AuthToken
    PROVE  /\ Auth!OlderToken(t) \in Auth!AuthToken
           /\ Auth!OlderToken(t).userId = t.userId
           /\ Auth!OlderToken(t).roomId = t.roomId
BY ExpiryIsNat DEF Auth!OlderToken, Auth!AuthToken, Auth!TokenAge

----------------------------------------------------------------------------
(* The lists of the clients after a step *)

\* Lists, at most one for a socket
ListsTyped(vs) ==
    /\ vs \in [Sockets -> SUBSET View]
    /\ \A q \in Sockets : \A v, w \in vs[q] : v = w

\* Every list of vs is one of now
OnlyForgotten(vs, now) ==
    /\ vs = [q \in Sockets |-> vs[q]]
    /\ \A q \in Sockets : vs[q] \subseteq now[q]

\* The list w comes from the list v of q when the user u leaves the room r
LeftFrom(w, v, q, r, u) ==
    /\ w \in View /\ w.roomId = v.roomId
    /\ w.peers = IF q \in Receivers(r) /\ v.roomId = r THEN v.peers \ {u} ELSE v.peers

\* PEER_LEFT: every list of vs comes from one that is there now
ListsLeft(vs, r, u) ==
    /\ ListsTyped(vs)
    /\ \A q \in Sockets : \A w \in vs[q] : \E v \in view[q] : LeftFrom(w, v, q, r, u)

\* The list w comes from the list v of q when u joins r and the others are told or not
JoinedFrom(w, v, q, r, u, told) ==
    /\ w \in View /\ w.roomId = v.roomId
    /\ w.peers = IF told /\ q \in Receivers(r) /\ v.roomId = r
                 THEN v.peers \cup {u} ELSE v.peers

\* PEER_JOINED, and the list to s: every list but that one comes from one that is there now
ListsJoined(vs, s, r, u, list, told) ==
    /\ ListsTyped(vs)
    /\ vs[s] = {list}
    /\ \A q \in Sockets : q # s =>
           \A w \in vs[q] : \E v \in view[q] : JoinedFrom(w, v, q, r, u, told)

\* Forgetting lists leaves lists.
LEMMA ForgottenTyped ==
    ASSUME Typed, NEW vs, OnlyForgotten(vs, view)
    PROVE  ListsTyped(vs)
BY DEF Typed, OnlyForgotten, ListsTyped

\* A socket forgets its list.
LEMMA NoneForgets ==
    ASSUME Typed, NEW s \in Sockets
    PROVE  OnlyForgotten([view EXCEPT ![s] = None], view)
BY DEF Typed, OnlyForgotten, None

\* PEER_LEFT reaches the receivers of the room.
LEMMA PeerLeftLists ==
    ASSUME Typed, NEW r \in RoomIds, NEW u \in UserIds
    PROVE  ListsLeft(PeerLeft(view, r, u), r, u)
<1> DEFINE vs == PeerLeft(view, r, u)
           New(v, q) == IF q \in Receivers(r) /\ v.roomId = r
                        THEN [v EXCEPT !.peers = v.peers \ {u}] ELSE v
<1>1. vs = [q \in Sockets |-> vs[q]]
  BY DEF PeerLeft, Told
<1>2. ASSUME NEW q \in Sockets
      PROVE  vs[q] = {New(v, q) : v \in view[q]}
  <2>1. CASE q \in Receivers(r)
    BY <2>1 DEF PeerLeft, Told
  <2>2. CASE q \notin Receivers(r)
    BY <2>2 DEF PeerLeft, Told
  <2>. QED BY <2>1, <2>2
<1>3. \A q \in Sockets : (\A v \in view[q] : v \in View) /\ \A v, w \in view[q] : v = w
  BY DEF Typed
<1>4. ASSUME NEW q \in Sockets, NEW v \in View
      PROVE  LeftFrom(New(v, q), v, q, r, u)
  BY <1>4 DEF LeftFrom, View
<1> HIDE DEF vs, New
<1>5. \A q \in Sockets : \A w \in vs[q] : \E v \in view[q] : LeftFrom(w, v, q, r, u)
  BY <1>2, <1>3, <1>4
<1>6. ASSUME NEW q \in Sockets, NEW v \in vs[q], NEW w \in vs[q]
      PROVE  v = w
  <2>1. PICK a \in view[q], b \in view[q] : v = New(a, q) /\ w = New(b, q)
    BY <1>2
  <2>. QED BY <1>3, <2>1
<1>7. \A q \in Sockets : \A w \in vs[q] : w \in View
  BY <1>5 DEF LeftFrom
<1>8. ListsTyped(vs)
  BY <1>1, <1>6, <1>7 DEF ListsTyped
<1>. QED BY <1>5, <1>8 DEF ListsLeft, vs

\* So it does when s also forgets its own.
LEMMA LeftAndForgotten ==
    ASSUME NEW vs, NEW r, NEW u, NEW s \in Sockets, ListsLeft(vs, r, u)
    PROVE  ListsLeft([vs EXCEPT ![s] = None], r, u)
<1> DEFINE ws == [vs EXCEPT ![s] = None]
<1>1. ws \in [Sockets -> SUBSET View] /\ \A q \in Sockets : ws[q] \subseteq vs[q]
  BY DEF ListsLeft, ListsTyped, None
<1> HIDE DEF ws
<1>2. ListsTyped(ws)
  BY <1>1 DEF ListsLeft, ListsTyped
<1>3. ListsLeft(ws, r, u)
  BY <1>1, <1>2 DEF ListsLeft
<1>. QED BY <1>3 DEF ws

\* JOIN_ROOM answers s and reaches the receivers of a room with anybody else in it.
LEMMA JoinLists ==
    ASSUME Typed, NEW s \in Sockets, NEW r \in RoomIds, NEW u \in UserIds,
           HandleJoinRoom(s, u, r), HasRoom(rooms, r), Members(rooms', r) \subseteq UserIds
    PROVE  ListsJoined(view', s, r, u, [roomId |-> r, peers |-> Members(rooms', r)],
                       Members(rooms', r) \ {u} # {})
<1> DEFINE Add(known) == known \cup {u}
           list == [roomId |-> r, peers |-> Members(rooms', r)]
           told == Members(rooms', r) \ {u} # {}
           sent == IF told THEN Told(view, r, Add) ELSE view
           New(v, q) == IF told /\ q \in Receivers(r) /\ v.roomId = r
                        THEN [v EXCEPT !.peers = v.peers \cup {u}] ELSE v
<1>1. view' = [sent EXCEPT ![s] = {list}]
  BY DEF HandleJoinRoom, Listed, Some
<1>2. view = [q \in Sockets |-> view[q]]
  BY DEF Typed
<1>3. sent = [q \in Sockets |-> sent[q]]
  BY <1>2 DEF Told
<1>4. ASSUME NEW q \in Sockets
      PROVE  sent[q] = {New(v, q) : v \in view[q]}
  <2>1. CASE told /\ q \in Receivers(r)
    BY <2>1 DEF Told
  <2>2. CASE told /\ q \notin Receivers(r)
    BY <2>2 DEF Told
  <2>3. CASE ~told
    BY <2>3
  <2>. QED BY <2>1, <2>2, <2>3
<1>5. \A q \in Sockets : (\A v \in view[q] : v \in View) /\ \A v, w \in view[q] : v = w
  BY DEF Typed
<1>6. ASSUME NEW q \in Sockets, NEW v \in View
      PROVE  JoinedFrom(New(v, q), v, q, r, u, told)
  BY <1>6 DEF JoinedFrom, View
<1>7. list \in View
  BY DEF View
<1> HIDE DEF list, told, sent, New
<1>8. /\ view' = [q \in Sockets |-> view'[q]] /\ view'[s] = {list}
      /\ \A q \in Sockets : q # s => view'[q] = {New(v, q) : v \in view[q]}
  BY <1>1, <1>3, <1>4
<1>9. \A q \in Sockets : q # s =>
          \A w \in view'[q] : \E v \in view[q] : JoinedFrom(w, v, q, r, u, told)
  BY <1>5, <1>6, <1>8
<1>10. ASSUME NEW q \in Sockets, NEW v \in view'[q], NEW w \in view'[q]
       PROVE  v = w /\ v \in View
  <2>1. CASE q = s
    BY <1>7, <1>8, <1>10, <2>1
  <2>2. CASE q # s
    <3>1. PICK a \in view[q], b \in view[q] : v = New(a, q) /\ w = New(b, q)
      BY <1>8, <1>10, <2>2
    <3>2. v \in View
      BY <1>9, <2>2 DEF JoinedFrom
    <3>. QED BY <1>5, <3>1, <3>2
  <2>. QED BY <2>1, <2>2
<1>11. ListsTyped(view')
  BY <1>8, <1>10 DEF ListsTyped
<1>12. ListsJoined(view', s, r, u, list, told)
  BY <1>8, <1>9, <1>11 DEF ListsJoined
<1>. QED BY <1>12 DEF list, told

----------------------------------------------------------------------------
(* Every step keeps the state well formed *)

\* What a step does to the members of the rooms, one way or another, keeps the table sound.
LEMMA TypedFrom ==
    ASSUME Typed, UNCHANGED <<validTokens, clients, socketState>>,
           TableOK(rooms') /\ UNCHANGED cleanupInterval, ListsTyped(view'),
           admitted' \subseteq UserIds \X RoomIds, mixed' \subseteq RoomIds
    PROVE  Typed'
BY DEF Typed, ListsTyped

\* A message about a room, whatever it names.
LEMMA MessageTyped ==
    ASSUME Typed, NEW s \in Sockets, NEW u \in UserIds, NEW r \in RoomIds, HandleMessage(s, u, r)
    PROVE  Typed'
<1>1. TableOK(rooms) /\ ListsTyped(view)
  BY DEF Typed, ListsTyped
<1>2. /\ UNCHANGED <<validTokens, clients, socketState, admitted>>
      /\ mixed' = mixed \/ mixed' = mixed \cup {r}
  BY DEF HandleMessage
<1>3. admitted' \subseteq UserIds \X RoomIds /\ mixed' \subseteq RoomIds
  BY <1>2 DEF Typed
<1>4. CASE HandleCreateRoom(s, u, r)
  <2>1. TableOK(rooms') /\ UNCHANGED cleanupInterval
    BY <1>1, <1>4, CallKeepsTable DEF HandleCreateRoom
  <2>2. view' = view \/ view' = [view EXCEPT ![s] = {[roomId |-> r, peers |-> {u}]}]
    BY <1>4 DEF HandleCreateRoom, Listed, Some
  <2>3. ListsTyped(view')
    <3> DEFINE list == [roomId |-> r, peers |-> {u}]
    <3>1. list \in View
      BY DEF View
    <3> HIDE DEF list
    <3>. QED BY <1>1, <2>2, <3>1 DEF ListsTyped, list
  <2>. QED BY <1>2, <1>3, <2>1, <2>3, TypedFrom
<1>5. CASE HandleJoinRoom(s, u, r)
  <2>1. TableOK(rooms') /\ UNCHANGED cleanupInterval
    BY <1>1, <1>5, CallKeepsTable DEF HandleJoinRoom
  <2>2. Members(rooms', r) \subseteq UserIds
    BY <2>1, MembersTyped
  <2>3. CASE HasRoom(rooms, r)
    <3>1. ListsTyped(view')
      BY <1>5, <2>2, <2>3, JoinLists DEF ListsJoined
    <3>. QED BY <1>2, <1>3, <2>1, <3>1, TypedFrom
  <2>4. CASE ~HasRoom(rooms, r)
    <3>1. view' = view
      BY <1>5, <2>4 DEF HandleJoinRoom
    <3>2. ListsTyped(view')
      BY <1>1, <3>1
    <3>. QED BY <1>2, <1>3, <2>1, <3>2, TypedFrom
  <2>. QED BY <2>3, <2>4
<1>6. CASE HandleLeaveRoom(s, u, r)
  <2>1. TableOK(rooms') /\ UNCHANGED cleanupInterval
    BY <1>1, <1>6, CallKeepsTable DEF HandleLeaveRoom
  <2>2. ListsLeft(PeerLeft(view, r, u), r, u)
    BY PeerLeftLists
  <2>3. ListsLeft([PeerLeft(view, r, u) EXCEPT ![s] = None], r, u)
    BY <2>2, LeftAndForgotten
  <2>4. ListsTyped(view')
    BY <1>6, <2>2, <2>3 DEF HandleLeaveRoom, ListsLeft
  <2>. QED BY <1>2, <1>3, <2>1, <2>4, TypedFrom
<1>. QED BY <1>4, <1>5, <1>6 DEF HandleMessage

\* Entries that a step leaves alone or forgets.
LEMMA CloseTyped ==
    ASSUME Typed, NEW s \in Sockets, Close(s)
    PROVE  Typed'
<1>1. TableOK(rooms)
  BY DEF Typed
<1>2. /\ socketState' = [socketState EXCEPT ![s] = "closed"]
      /\ clients' = [clients EXCEPT ![s] = {}]
      /\ UNCHANGED <<validTokens, admitted, mixed>>
  BY DEF Close, None, history
<1>3. TableOK(rooms') /\ UNCHANGED cleanupInterval /\ ListsTyped(view')
  <2>1. CASE ~Authenticated(s)
    <3>1. clients[s] = {}
      BY <2>1 DEF Authenticated, None
    <3>2. view' = [view EXCEPT ![s] = None] /\ UNCHANGED roomVars
      BY <3>1 DEF Close
    <3>3. ListsTyped(view')
      BY <3>2, NoneForgets, ForgottenTyped
    <3>. QED BY <1>1, <3>2, <3>3 DEF roomVars
  <2>2. CASE Authenticated(s)
    <3>1. PICK c \in clients[s] :
              /\ LeaveRoom(c.roomId, c.userId)
              /\ view' = [PeerLeft(view, c.roomId, c.userId) EXCEPT ![s] = None]
      BY <2>2 DEF Close
    <3>2. c.roomId \in RoomIds /\ c.userId \in UserIds
      BY DEF Typed, ClientInfo
    <3>3. ListsLeft(view', c.roomId, c.userId)
      BY <3>1, <3>2, PeerLeftLists, LeftAndForgotten
    <3>4. TableOK(rooms') /\ UNCHANGED cleanupInterval
      BY <1>1, <3>1, <3>2, CallKeepsTable
    <3>. QED BY <3>3, <3>4 DEF ListsLeft
  <2>. QED BY <2>1, <2>2
<1>4. /\ clients' \in [Sockets -> SUBSET ClientInfo]
      /\ socketState' \in [Sockets -> {"unused", "open", "lost", "closed"}]
      /\ \A q \in Sockets : \A c, d \in clients'[q] : c = d
      /\ \A q \in Sockets : socketState'[q] = "unused" => clients'[q] = {}
  BY <1>2 DEF Typed
<1>. QED BY <1>2, <1>3, <1>4 DEF Typed, ListsTyped

\* auth, whatever user and room it names.
LEMMA AuthTyped ==
    ASSUME Typed, NEW s \in Sockets, NEW u \in UserIds, NEW r \in RoomIds,
           NEW t \in validTokens, HandleAuth(s, u, r, t)
    PROVE  Typed'
<1>1. /\ UNCHANGED <<rooms, cleanupInterval, socketState, admitted>>
      /\ socketState[s] = "open" /\ validTokens' \subseteq validTokens
  BY DEF HandleAuth, roomVars, Auth!ValidateCredentials
<1>2. CASE UNCHANGED <<clients, view, mixed>>
  BY <1>1, <1>2 DEF Typed
<1>3. CASE /\ clients' = [clients EXCEPT ![s] = Some([userId |-> u, roomId |-> r])]
           /\ view' = IF Speaks(s, u, r) THEN view ELSE [view EXCEPT ![s] = None]
           /\ mixed' = mixed \/ mixed' = mixed \cup {r}
  <2>1. /\ clients' \in [Sockets -> SUBSET ClientInfo]
        /\ \A q \in Sockets : \A c, d \in clients'[q] : c = d
        /\ \A q \in Sockets : socketState'[q] = "unused" => clients'[q] = {}
    BY <1>1, <1>3 DEF Typed, ClientInfo, Some
  <2>2. ListsTyped(view')
    <3>1. ListsTyped(view)
      BY DEF Typed, ListsTyped
    <3>. QED BY <1>3, <3>1, NoneForgets, ForgottenTyped
  <2>3. mixed' \subseteq RoomIds
    BY <1>3 DEF Typed
  <2>. QED BY <1>1, <2>1, <2>2, <2>3 DEF Typed, ListsTyped
<1>. QED BY <1>2, <1>3 DEF HandleAuth

\* A change of members nobody is told of.
LEMMA UntoldForgets ==
    ASSUME Typed
    PROVE  OnlyForgotten(Untold(view, rooms, rooms'), view)
BY DEF OnlyForgotten, Untold

\* Every handler, route and timer keeps the state well formed.
LEMMA NextTyped == Typed /\ [Next]_vars => Typed'
<1> SUFFICES ASSUME Typed, [Next]_vars PROVE Typed'
  OBVIOUS
<1>1. TableOK(rooms) /\ ListsTyped(view)
  BY DEF Typed, ListsTyped
<1>2. ASSUME NEW s \in Sockets, Connect(s) PROVE Typed'
  BY <1>2 DEF Connect, history, roomVars, Typed
<1>3. ASSUME NEW s \in Sockets, Lose(s) PROVE Typed'
  <2>1. ListsTyped(view')
    BY <1>3, NoneForgets, ForgottenTyped DEF Lose
  <2>. QED BY <1>3, <2>1 DEF Lose, history, roomVars, Typed, ListsTyped
<1>4. ASSUME NEW s \in Sockets, HandleHeartbeat(s) PROVE Typed'
  <2>1. PICK c \in clients[s] : UpdatePeerHeartbeat(c.roomId, c.userId)
    BY <1>4 DEF HandleHeartbeat
  <2>2. c.roomId \in RoomIds /\ c.userId \in UserIds
    BY DEF Typed, ClientInfo
  <2>3. TableOK(rooms') /\ UNCHANGED cleanupInterval
    BY <1>1, <2>1, <2>2, CallKeepsTable
  <2>. QED BY <1>4, <2>3 DEF HandleHeartbeat, history, Typed
<1>5. ASSUME NEW u \in UserIds, NEW r \in RoomIds, GenerateToken(u, r) PROVE Typed'
  <2>1. Auth!NewToken(u, r) \in Auth!AuthToken
    BY ExpiryIsNat DEF Auth!NewToken, Auth!AuthToken, Auth!TokenAge
  <2>. QED BY <1>5, <2>1 DEF GenerateToken, Auth!GenerateToken, roomVars, Typed
<1>6. ASSUME NEW u \in UserIds, NEW r \in RoomIds, HttpRoom(u, r) PROVE Typed'
  <2>1. TableOK(rooms') /\ UNCHANGED cleanupInterval
    BY <1>1, <1>6, CallKeepsTable DEF HttpRoom
  <2>2. ListsTyped(view')
    BY <1>6, UntoldForgets, ForgottenTyped DEF HttpRoom
  <2>3. admitted' \subseteq UserIds \X RoomIds /\ mixed' \subseteq RoomIds
    BY <1>6 DEF HttpRoom, Typed
  <2>. QED BY <1>6, <2>1, <2>2, <2>3, TypedFrom DEF HttpRoom
<1>7. CASE Cleanup
  <2>1. TableOK(rooms') /\ UNCHANGED cleanupInterval
    BY <1>1, <1>7, CleanedUpOK DEF Cleanup, RoomsCleanup
  <2>2. ListsTyped(view')
    BY <1>7, UntoldForgets, ForgottenTyped DEF Cleanup
  <2>. QED BY <1>7, <2>1, <2>2 DEF Cleanup, history, Typed, ListsTyped
<1>8. CASE Tick
  <2>1. TableOK(rooms') /\ UNCHANGED cleanupInterval
    BY <1>1, <1>8, AgedOK DEF Tick, RoomsTick
  <2>2. validTokens' \subseteq Auth!AuthToken
    BY <1>8, OlderTokenFacts DEF Tick, Auth!Tick, Typed
  <2>. QED BY <1>8, <2>1, <2>2 DEF Tick, history, Typed
<1>9. CASE UNCHANGED vars
  BY <1>9 DEF vars, Typed
<1>. QED BY <1>2, <1>3, <1>4, <1>5, <1>6, <1>7, <1>8, <1>9, CloseTyped, AuthTyped, MessageTyped
       DEF Next

\* The state of the server and its clients is well formed, with one entry and one list for a
\* socket at most, whatever users and rooms the messages name.
THEOREM TypeCorrect == Spec => []TypeOK
<1>1. Typed => TypeOK
  <2> SUFFICES ASSUME Typed PROVE TypeOK
    OBVIOUS
  <2>1. \A S : (\A x, y \in S : x = y) => Cardinality(S) <= 1
    <3> SUFFICES ASSUME NEW S, \A x, y \in S : x = y PROVE Cardinality(S) <= 1
      OBVIOUS
    <3>1. CASE S = {}
      BY <3>1, FS_EmptySet
    <3>2. CASE S # {}
      <4>1. PICK x : S = {x}
        BY <3>2
      <4>2. Cardinality({x}) = 1
        BY FS_Singleton
      <4>. QED BY <4>1, <4>2
    <3>. QED BY <3>1, <3>2
  <2>2. \A s \in Sockets : Cardinality(clients[s]) <= 1 /\ Cardinality(view[s]) <= 1
    BY <2>1 DEF Typed
  <2>. QED BY <2>2 DEF TypeOK, Typed, TableOK
<1>2. Init => Typed
  BY InitTyped
<1>. QED BY <1>1, <1>2, NextTyped, PTL DEF Spec

\* A token whose hour is not over stays in the map, whoever presents it for whichever room.
THEOREM LiveTokensStay == Spec => LiveTokenKept
<1>1. [Next]_vars => [LiveTokenStep]_vars
  <2> SUFFICES ASSUME [Next]_vars PROVE LiveTokenStep
    OBVIOUS
  <2>. USE DEF LiveTokenStep
  <2>1. CASE UNCHANGED validTokens
    BY <2>1
  <2>2. ASSUME NEW s \in Sockets, NEW u \in UserIds, NEW r \in RoomIds, NEW q \in validTokens,
               HandleAuth(s, u, r, q)
        PROVE  LiveTokenStep
    BY <2>2 DEF HandleAuth, Auth!ValidateCredentials
  <2>3. ASSUME NEW r \in RoomIds, NEW u \in UserIds, GenerateToken(u, r) PROVE LiveTokenStep
    BY <2>3 DEF GenerateToken, Auth!GenerateToken
  <2>4. CASE Tick
    BY <2>4 DEF Tick, Auth!Tick
  <2>. QED BY <2>1, <2>2, <2>3, <2>4
         DEF Next, vars, Connect, Lose, Close, HandleMessage, HandleHeartbeat, HttpRoom, Cleanup
<1>. QED BY <1>1, PTL DEF Spec, LiveTokenKept

----------------------------------------------------------------------------
(* Who is let into a room *)

\* Tokens and entries were admitted, and so were the members of rooms where nobody acts for
\* others.
AdmittedOnly ==
    /\ \A t \in validTokens : <<t.userId, t.roomId>> \in admitted
    /\ \A s \in Sockets : \A c \in clients[s] : <<c.userId, c.roomId>> \in admitted
    /\ MembersAuthorized

\* A step that admits no token and no entry, and no member to rooms that stay unmixed.
LEMMA NobodyNew ==
    ASSUME AdmittedOnly, UNCHANGED <<validTokens, clients>>,
           admitted \subseteq admitted', mixed \subseteq mixed',
           \A r \in RoomIds : Members(rooms', r) \subseteq Members(rooms, r)
    PROVE  AdmittedOnly'
BY DEF AdmittedOnly, MembersAuthorized

\* The cleanup adds nobody, whatever the timeouts are.
LEMMA CleanedSubset ==
    ASSUME NEW rs, TableOK(rs), NEW r \in RoomIds
    PROVE  Members(CleanedUp(rs), r) \subseteq Members(rs, r)
<1> DEFINE room == rs[r]
           new == CleanedUp(rs)[r]
<1>1. CASE ~HasRoom(CleanedUp(rs), r)
  BY <1>1 DEF Members
<1>2. CASE HasRoom(CleanedUp(rs), r)
  <2>1. HasRoom(rs, r) /\ new = CleanedRoom(room) /\ room \in RoomMetadata
    BY <1>2 DEF CleanedUp, HasRoom, TableOK, OpenRooms, RoomOK, RoomTyped
  <2>2. new.peers \subseteq room.peers
    BY <1>2, <2>1
       DEF CleanedRoom, WithoutPeers, WithPeers, SilentPeers, RoomMetadata, HasRoom
  <2>. QED BY <1>2, <2>1, <2>2 DEF Members, MembersOf
<1>. QED BY <1>1, <1>2

\* What a message does to the members: the user it names enters or leaves the room it names.
LEMMA MessageMembers ==
    ASSUME Typed, NEW s \in Sockets, NEW u \in UserIds, NEW r \in RoomIds, HandleMessage(s, u, r),
           NEW q \in RoomIds
    PROVE  /\ q # r => Members(rooms', q) = Members(rooms, q)
           /\ Members(rooms', q) \subseteq Members(rooms, q) \cup {u}
           /\ Members(rooms, q) \ {u} \subseteq Members(rooms', q)
<1>1. TableOK(rooms)
  BY DEF Typed
<1>2. CASE HandleCreateRoom(s, u, r)
  <2>1. Members(rooms', q) = IF q = r /\ ~HasRoom(rooms, r) THEN {u} ELSE Members(rooms, q)
    BY <1>1, <1>2, MembersCreated DEF HandleCreateRoom, CreateRoom
  <2>. QED BY <2>1 DEF Members
<1>3. CASE HandleJoinRoom(s, u, r)
  <2>1. Members(rooms', q) =
            IF q = r /\ HasRoom(rooms, r) THEN Members(rooms, r) \cup {u} ELSE Members(rooms, q)
    BY <1>1, <1>3, MembersJoined DEF HandleJoinRoom, JoinRoom
  <2>. QED BY <2>1
<1>4. CASE HandleLeaveRoom(s, u, r)
  <2>1. Members(rooms', q) = IF q = r THEN Members(rooms, r) \ {u} ELSE Members(rooms, q)
    BY <1>1, <1>4, MembersLeft DEF HandleLeaveRoom, LeaveRoom
  <2>. QED BY <2>1
<1>. QED BY <1>2, <1>3, <1>4 DEF HandleMessage

\* What the end of a connection does to them: the user of its entry leaves the room of it.
LEMMA CloseMembers ==
    ASSUME Typed, NEW s \in Sockets, Close(s), NEW q \in RoomIds
    PROVE  /\ Members(rooms', q) \subseteq Members(rooms, q)
           /\ \A u \in Members(rooms, q) : u \in Members(rooms', q) \/ Speaks(s, u, q)
<1>1. TableOK(rooms)
  BY DEF Typed
<1>2. CASE UNCHANGED roomVars
  BY <1>2 DEF roomVars
<1>3. ASSUME NEW c \in clients[s], LeaveRoom(c.roomId, c.userId)
      PROVE  /\ Members(rooms', q) \subseteq Members(rooms, q)
             /\ \A u \in Members(rooms, q) : u \in Members(rooms', q) \/ Speaks(s, u, q)
  <2>1. c \in ClientInfo
    BY DEF Typed
  <2>2. c.roomId \in RoomIds /\ c.userId \in UserIds
        /\ c = [userId |-> c.userId, roomId |-> c.roomId]
    BY <2>1 DEF ClientInfo
  <2>3. Members(rooms', q) =
            IF q = c.roomId THEN Members(rooms, c.roomId) \ {c.userId} ELSE Members(rooms, q)
    BY <1>1, <1>3, <2>2, MembersLeft DEF LeaveRoom
  <2>. QED BY <2>2, <2>3 DEF Speaks
<1>. QED BY <1>2, <1>3 DEF Close

\* What an HTTP request does to them.
LEMMA HttpMembers ==
    ASSUME Typed, NEW u \in UserIds, NEW r \in RoomIds, HttpRoom(u, r), NEW q \in RoomIds
    PROVE  /\ q # r => Members(rooms', q) = Members(rooms, q)
           /\ Members(rooms', q) \subseteq Members(rooms, q) \cup {v \in {u} : <<u, r>> \in admitted'}
           /\ Members(rooms, q) \ {u} \subseteq Members(rooms', q)
<1>1. TableOK(rooms)
  BY DEF Typed
<1>2. CASE CreateRoom(r, u) /\ admitted' = admitted \cup {<<u, r>>}
  <2>1. Members(rooms', q) = IF q = r /\ ~HasRoom(rooms, r) THEN {u} ELSE Members(rooms, q)
    BY <1>1, <1>2, MembersCreated DEF CreateRoom
  <2>. QED BY <1>2, <2>1 DEF Members
<1>3. CASE JoinRoom(r, u) /\ admitted' = admitted \cup {<<u, r>>}
  <2>1. Members(rooms', q) =
            IF q = r /\ HasRoom(rooms, r) THEN Members(rooms, r) \cup {u} ELSE Members(rooms, q)
    BY <1>1, <1>3, MembersJoined DEF JoinRoom
  <2>. QED BY <1>3, <2>1
<1>4. CASE LeaveRoom(r, u)
  <2>1. Members(rooms', q) = IF q = r THEN Members(rooms, r) \ {u} ELSE Members(rooms, q)
    BY <1>1, <1>4, MembersLeft DEF LeaveRoom
  <2>. QED BY <2>1
<1>. QED BY <1>2, <1>3, <1>4 DEF HttpRoom

\* A heartbeat changes no membership, of whichever entry it is.
LEMMA HeartbeatMembers ==
    ASSUME Typed, NEW s \in Sockets, HandleHeartbeat(s), NEW q \in RoomIds
    PROVE  Members(rooms', q) = Members(rooms, q)
<1>1. PICK c \in clients[s] : UpdatePeerHeartbeat(c.roomId, c.userId)
  BY DEF HandleHeartbeat
<1>2. TableOK(rooms) /\ c.roomId \in RoomIds /\ c.userId \in UserIds
  BY DEF Typed, ClientInfo
<1>. QED BY <1>1, <1>2, MembersBeaten DEF UpdatePeerHeartbeat

\* Every handler, route and timer admits only users with a token, or through HTTP.
LEMMA NextAdmitted == Typed /\ AdmittedOnly /\ [Next]_vars => AdmittedOnly'
<1> SUFFICES ASSUME Typed, AdmittedOnly, [Next]_vars PROVE AdmittedOnly'
  OBVIOUS
<1>0. TableOK(rooms)
  BY DEF Typed
<1>1. ASSUME NEW s \in Sockets, Connect(s) \/ Lose(s) PROVE AdmittedOnly'
  BY <1>1, NobodyNew DEF Connect, Lose, roomVars, history
<1>2. ASSUME NEW s \in Sockets, Close(s) PROVE AdmittedOnly'
  <2>1. \A q \in RoomIds : Members(rooms', q) \subseteq Members(rooms, q)
    BY <1>2, CloseMembers
  <2>2. clients' = [clients EXCEPT ![s] = {}] /\ UNCHANGED <<validTokens, admitted, mixed>>
    BY <1>2 DEF Close, None, history
  <2>3. \A q \in Sockets : clients'[q] \subseteq clients[q]
    BY <2>2 DEF Typed
  <2>. QED BY <2>1, <2>2, <2>3 DEF AdmittedOnly, MembersAuthorized
<1>3. ASSUME NEW s \in Sockets, HandleHeartbeat(s) PROVE AdmittedOnly'
  <2>1. \A q \in RoomIds : Members(rooms', q) = Members(rooms, q)
    BY <1>3, HeartbeatMembers
  <2>. QED BY <1>3, <2>1, NobodyNew DEF HandleHeartbeat, history
<1>4. ASSUME NEW s \in Sockets, NEW u \in UserIds, NEW r \in RoomIds, NEW t \in validTokens,
             HandleAuth(s, u, r, t)
      PROVE  AdmittedOnly'
  <2>1. /\ UNCHANGED <<rooms, admitted>> /\ mixed \subseteq mixed'
        /\ validTokens' \subseteq validTokens
    BY <1>4 DEF HandleAuth, roomVars, Auth!ValidateCredentials
  <2>2. \A q \in Sockets : \A c \in clients'[q] : <<c.userId, c.roomId>> \in admitted
    <3>1. CASE UNCHANGED clients
      BY <3>1 DEF AdmittedOnly
    <3>2. CASE /\ Auth!Valid(u, r, t)
               /\ clients' = [clients EXCEPT ![s] = {[userId |-> u, roomId |-> r]}]
      <4>1. <<u, r>> \in admitted
        BY <3>2 DEF Auth!Valid, AdmittedOnly
      <4>2. \A c \in clients'[s] : c = [userId |-> u, roomId |-> r]
        BY <3>2 DEF Typed
      <4>3. \A q \in Sockets : q # s => clients'[q] = clients[q]
        BY <3>2 DEF Typed
      <4> SUFFICES ASSUME NEW q \in Sockets, NEW c \in clients'[q]
                   PROVE  <<c.userId, c.roomId>> \in admitted
        OBVIOUS
      <4>4. CASE q = s
        BY <4>1, <4>2, <4>4
      <4>5. CASE q # s
        BY <4>3, <4>5 DEF AdmittedOnly
      <4>. QED BY <4>4, <4>5
    <3>. QED BY <1>4, <3>1, <3>2 DEF HandleAuth, Some
  <2>. QED BY <2>1, <2>2 DEF AdmittedOnly, MembersAuthorized
<1>5. ASSUME NEW s \in Sockets, NEW u \in UserIds, NEW r \in RoomIds, HandleMessage(s, u, r)
      PROVE  AdmittedOnly'
  <2>1. /\ UNCHANGED <<validTokens, clients, admitted>>
        /\ mixed' = IF Speaks(s, u, r) THEN mixed ELSE mixed \cup {r}
    BY <1>5 DEF HandleMessage
  <2>2. \A q \in RoomIds : /\ q # r => Members(rooms', q) = Members(rooms, q)
                           /\ Members(rooms', q) \subseteq Members(rooms, q) \cup {u}
    BY <1>5, MessageMembers
  <2>3. Speaks(s, u, r) => <<u, r>> \in admitted
    BY DEF Speaks, AdmittedOnly
  <2>4. MembersAuthorized'
    BY <2>1, <2>2, <2>3 DEF AdmittedOnly, MembersAuthorized
  <2>. QED BY <2>1, <2>4 DEF AdmittedOnly
<1>6. ASSUME NEW u \in UserIds, NEW r \in RoomIds, GenerateToken(u, r) PROVE AdmittedOnly'
  <2>1. /\ validTokens' = validTokens \cup {Auth!NewToken(u, r)}
        /\ admitted' = admitted \cup {<<u, r>>} /\ UNCHANGED <<clients, rooms, mixed>>
    BY <1>6 DEF GenerateToken, Auth!GenerateToken, roomVars
  <2>2. Auth!NewToken(u, r).userId = u /\ Auth!NewToken(u, r).roomId = r
    BY DEF Auth!NewToken
  <2>. QED BY <2>1, <2>2 DEF AdmittedOnly, MembersAuthorized
<1>7. ASSUME NEW u \in UserIds, NEW r \in RoomIds, HttpRoom(u, r) PROVE AdmittedOnly'
  <2>1. UNCHANGED <<validTokens, clients, mixed>> /\ admitted \subseteq admitted'
    BY <1>7 DEF HttpRoom
  <2>2. \A q \in RoomIds :
            /\ q # r => Members(rooms', q) = Members(rooms, q)
            /\ Members(rooms', q) \subseteq
                   Members(rooms, q) \cup {v \in {u} : <<u, r>> \in admitted'}
    BY <1>7, HttpMembers
  <2>3. MembersAuthorized'
    BY <2>1, <2>2 DEF AdmittedOnly, MembersAuthorized
  <2>. QED BY <2>1, <2>3 DEF AdmittedOnly
<1>8. CASE Cleanup
  <2>1. \A q \in RoomIds : Members(rooms', q) \subseteq Members(rooms, q)
    BY <1>0, <1>8, CleanedSubset DEF Cleanup, RoomsCleanup
  <2>. QED BY <1>8, <2>1, NobodyNew DEF Cleanup, history
<1>9. CASE Tick
  <2>1. \A q \in RoomIds : Members(rooms', q) = Members(rooms, q)
    BY <1>0, <1>9, MembersAged DEF Tick, RoomsTick
  <2>2. /\ validTokens' = {Auth!OlderToken(t) : t \in validTokens}
        /\ UNCHANGED <<clients, admitted, mixed>>
    BY <1>9 DEF Tick, Auth!Tick, history
  <2>3. \A t \in validTokens' : <<t.userId, t.roomId>> \in admitted
    <3> SUFFICES ASSUME NEW t \in validTokens'
                 PROVE  <<t.userId, t.roomId>> \in admitted
      OBVIOUS
    <3>1. PICK x \in validTokens : t = Auth!OlderToken(x)
      BY <2>2
    <3>2. x \in Auth!AuthToken /\ <<x.userId, x.roomId>> \in admitted
      BY DEF Typed, AdmittedOnly
    <3>. QED BY <3>1, <3>2, OlderTokenFacts
  <2>. QED BY <2>1, <2>2, <2>3 DEF AdmittedOnly, MembersAuthorized
<1>10. CASE UNCHANGED vars
  BY <1>10, NobodyNew DEF vars
<1>. QED BY <1>1, <1>2, <1>3, <1>4, <1>5, <1>6, <1>7, <1>8, <1>9, <1>10 DEF Next

\* In a room where everybody acts in the name and for the room of its connection, nobody is
\* listed without a token or an HTTP request for it, through any sequence of
\* authentications, messages for other rooms and closes.
THEOREM MembersAdmitted == Spec => []MembersAuthorized
<1>1. Init => Typed /\ AdmittedOnly
  <2>1. Init => MembersAuthorized
    BY DEF Init, RoomsInit, EmptyTable, MembersAuthorized, Members, HasRoom
  <2>. QED BY <2>1, InitTyped DEF Init, Auth!Init, None, AdmittedOnly
<1>2. Typed /\ AdmittedOnly /\ [Next]_vars => (Typed /\ AdmittedOnly)'
  BY NextTyped, NextAdmitted
<1>3. AdmittedOnly => MembersAuthorized
  BY DEF AdmittedOnly
<1>. QED BY <1>1, <1>2, <1>3, PTL DEF Spec

----------------------------------------------------------------------------
(* Who is taken out of a room *)

\* In such a room, only the connections of a user and HTTP requests for it take the user
\* out while its heartbeat is in time: the cleanup does not, nor do messages for other rooms.
THEOREM LiveMembersStay == Spec => LiveMemberStays
<1>1. Typed /\ [Next]_vars => [LiveMemberStep]_vars
  <2> SUFFICES ASSUME Typed, Next, TimeoutsOrdered, NEW r \in RoomIds \ mixed', NEW u \in UserIds,
                      u \in FreshMembers(rooms, r), u \notin Members(rooms', r)
               PROVE  \/ \E s \in Sockets : Speaks(s, u, r) /\ (Close(s) \/ HandleMessage(s, u, r))
                      \/ HttpRoom(u, r)
    BY DEF LiveMemberStep
  <2>1. u \in Members(rooms, r) /\ r \in RoomIds /\ TableOK(rooms)
    BY DEF FreshMembers, FreshOf, Members, MembersOf, Typed
  <2>2. ~UNCHANGED rooms
    BY <2>1
  <2>3. ASSUME NEW s \in Sockets, Close(s) PROVE Speaks(s, u, r)
    BY <2>1, <2>3, CloseMembers
  <2>4. ASSUME NEW s \in Sockets, NEW v \in UserIds, NEW q \in RoomIds, HandleMessage(s, v, q)
        PROVE  v = u /\ q = r /\ Speaks(s, u, r)
    <3>1. v = u /\ q = r
      BY <2>1, <2>4, MessageMembers
    <3>2. mixed' = IF Speaks(s, v, q) THEN mixed ELSE mixed \cup {q}
      BY <2>4 DEF HandleMessage
    <3>. QED BY <3>1, <3>2
  <2>5. ASSUME NEW s \in Sockets PROVE ~HandleHeartbeat(s)
    BY <2>1, HeartbeatMembers
  <2>6. ASSUME NEW v \in UserIds, NEW q \in RoomIds, HttpRoom(v, q)
        PROVE  v = u /\ q = r
    BY <2>1, <2>6, HttpMembers
  <2>7. ~Cleanup
    <3>1. Members(CleanedUp(rooms), r) = FreshMembers(rooms, r)
      BY <2>1, CleanedMembers
    <3>. QED BY <3>1 DEF Cleanup, RoomsCleanup
  <2>8. ~Tick
    BY <2>1, MembersAged DEF Tick, RoomsTick
  <2>9. PICK s \in Sockets :
             \/ Connect(s) \/ Lose(s) \/ Close(s) \/ HandleHeartbeat(s)
             \/ \E v \in UserIds, q \in RoomIds :
                    \/ \E t \in validTokens : HandleAuth(s, v, q, t)
                    \/ HandleMessage(s, v, q) \/ GenerateToken(v, q) \/ HttpRoom(v, q)
    BY <2>7, <2>8 DEF Next
  <2>10. CASE Connect(s) \/ Lose(s)
    BY <2>2, <2>10 DEF Connect, Lose, roomVars
  <2>11. ASSUME NEW v \in UserIds, NEW q \in RoomIds,
                (\E t \in validTokens : HandleAuth(s, v, q, t)) \/ GenerateToken(v, q)
         PROVE  FALSE
    BY <2>2, <2>11 DEF GenerateToken, HandleAuth, roomVars
  <2>. QED BY <2>3, <2>4, <2>5, <2>6, <2>9, <2>10, <2>11
<1>2. Init => Typed
  BY InitTyped
<1>. QED BY <1>1, <1>2, NextTyped, PTL DEF Spec, LiveMemberStays

----------------------------------------------------------------------------
(* The lists of peers the clients keep *)

\* A list is kept by an open socket, and one of a room where everybody acts for itself by a
\* socket that is authenticated for that room.
ViewsSound ==
    \A s \in Sockets : \A v \in view[s] :
        /\ socketState[s] = "open"
        /\ v.roomId \notin mixed => InRoom(s, v.roomId)

\* A user has one open connection at most to such a room.
OneOpen ==
    \A r \in RoomIds \ mixed, u \in UserIds : \A s, t \in Sockets :
        /\ socketState[s] = "open" /\ Speaks(s, u, r)
        /\ socketState[t] = "open" /\ Speaks(t, u, r)
        => s = t

ListsRight == ViewsSound /\ OneOpen /\ ViewsAgree

\* An entry is known by its room when its socket is in it.
LEMMA EntryOf ==
    ASSUME Typed, NEW s \in Sockets, NEW r, InRoom(s, r), NEW c \in clients[s]
    PROVE  c.roomId = r /\ c.userId \in UserIds /\ Speaks(s, c.userId, r)
<1>1. c.roomId = r
  BY DEF Typed, InRoom
<1>2. c \in ClientInfo
  BY DEF Typed
<1>. QED BY <1>1, <1>2 DEF ClientInfo, Speaks

\* A step that opens no authenticated socket and changes no entry.
LEMMA OneOpenKept ==
    ASSUME OneOpen, mixed \subseteq mixed',
           \A s \in Sockets : \A c \in clients'[s] : c \in clients[s],
           \A s \in Sockets : socketState'[s] = "open" => socketState[s] = "open" \/ clients'[s] = {}
    PROVE  OneOpen'
<1> SUFFICES ASSUME NEW r \in RoomIds \ mixed', NEW u \in UserIds,
                    NEW s \in Sockets, NEW t \in Sockets,
                    socketState'[s] = "open", Speaks(s, u, r)',
                    socketState'[t] = "open", Speaks(t, u, r)'
             PROVE  s = t
  BY DEF OneOpen
<1>1. Speaks(s, u, r) /\ Speaks(t, u, r) /\ clients'[s] # {} /\ clients'[t] # {}
  BY DEF Speaks
<1>. QED BY <1>1 DEF OneOpen

\* A step that only forgets lists, and changes no members without forgetting their list.
LEMMA ForgettingRight ==
    ASSUME Typed, ListsRight, OnlyForgotten(view', view), mixed \subseteq mixed', OneOpen',
           \A s \in Sockets : \A v \in view'[s] :
               /\ socketState'[s] = "open" /\ clients'[s] = clients[s]
               /\ v.roomId \notin mixed' => Members(rooms', v.roomId) = Members(rooms, v.roomId)
    PROVE  ListsRight'
<1>1. \A s \in Sockets : \A v \in view'[s] : v \in view[s]
  BY DEF OnlyForgotten
<1>2. ViewsSound'
  BY <1>1 DEF ListsRight, ViewsSound, InRoom
<1>3. ViewsAgree'
  BY <1>1 DEF ListsRight, ViewsAgree
<1>. QED BY <1>2, <1>3 DEF ListsRight

\* Lists that all stay are among those that were there.
LEMMA KeptLists ==
    ASSUME Typed
    PROVE  OnlyForgotten(view, view)
BY DEF Typed, OnlyForgotten

\* A user leaves a room, by a message or with a connection.
LEMMA LeavingRight ==
    ASSUME Typed, ListsRight, NEW r \in RoomIds, NEW u \in UserIds,
           LeaveRoom(r, u), ListsLeft(view', r, u), mixed \subseteq mixed', OneOpen',
           \A s \in Sockets : \A v \in view'[s] :
               socketState'[s] = socketState[s] /\ clients'[s] = clients[s]
    PROVE  ListsRight'
<1>1. TableOK(rooms)
  BY DEF Typed
<1>2. \A q \in RoomIds : Members(rooms', q) =
          IF q = r THEN Members(rooms, r) \ {u} ELSE Members(rooms, q)
  BY <1>1, MembersLeft DEF LeaveRoom
<1>3. ASSUME NEW s \in Sockets, NEW w \in view'[s]
      PROVE  /\ socketState'[s] = "open"
             /\ w.roomId \notin mixed' => InRoom(s, w.roomId)'
             /\ \A c \in clients'[s] :
                    w.roomId \notin mixed' /\ c.userId \in Members(rooms', w.roomId)
                        => w.peers = Members(rooms', w.roomId)
  <2>1. PICK v \in view[s] : LeftFrom(w, v, s, r, u)
    BY <1>3 DEF ListsLeft
  <2>2. w.roomId = v.roomId /\ v.roomId \in RoomIds
    BY <2>1 DEF LeftFrom, View
  <2>3. socketState[s] = "open" /\ (v.roomId \notin mixed => InRoom(s, v.roomId))
    BY DEF ListsRight, ViewsSound
  <2>4. socketState'[s] = socketState[s] /\ clients'[s] = clients[s]
    BY <1>3
  <2>5. ASSUME NEW c \in clients'[s],
               w.roomId \notin mixed', c.userId \in Members(rooms', w.roomId)
        PROVE  w.peers = Members(rooms', w.roomId)
    <3>1. c \in clients[s] /\ c.userId \in Members(rooms, v.roomId) /\ v.roomId \notin mixed
      BY <1>2, <2>2, <2>4, <2>5
    <3>2. v.peers = Members(rooms, v.roomId)
      BY <3>1 DEF ListsRight, ViewsAgree
    <3>3. v.roomId = r => s \in Receivers(r)
      BY <2>3, <3>1 DEF Receivers
    <3>. QED BY <1>2, <2>1, <2>2, <3>2, <3>3 DEF LeftFrom
  <2>. QED BY <2>2, <2>3, <2>4, <2>5 DEF InRoom
<1>4. ViewsSound' /\ ViewsAgree'
  BY <1>3 DEF ViewsSound, ViewsAgree
<1>. QED BY <1>4 DEF ListsRight

\* Another socket of an unmixed room is of another user.
LEMMA OtherUser ==
    ASSUME Typed, ListsRight, NEW r \in RoomIds \ mixed, NEW u \in UserIds,
           NEW s \in Sockets, socketState[s] = "open", Speaks(s, u, r),
           NEW q \in Sockets, q # s, NEW v \in view[q], v.roomId = r, NEW c \in clients[q]
    PROVE  c.userId # u /\ c.userId \in UserIds /\ q \in Receivers(r)
<1>1. socketState[q] = "open" /\ InRoom(q, r)
  BY DEF ListsRight, ViewsSound
<1>2. c.userId \in UserIds /\ Speaks(q, c.userId, r)
  BY <1>1, EntryOf
<1>3. c.userId # u
  BY <1>1, <1>2 DEF ListsRight, OneOpen
<1>. QED BY <1>1, <1>2, <1>3 DEF Receivers

\* CREATE_ROOM: the creator of a new room is its only member, and has the list.
LEMMA CreatingRight ==
    ASSUME Typed, ListsRight, NEW s \in Sockets, NEW u \in UserIds, NEW r \in RoomIds,
           socketState[s] = "open", HandleCreateRoom(s, u, r), ~HasRoom(rooms, r),
           UNCHANGED <<clients, socketState>>, OneOpen',
           mixed' = IF Speaks(s, u, r) THEN mixed ELSE mixed \cup {r}
    PROVE  ListsRight'
<1> DEFINE list == [roomId |-> r, peers |-> {u}]
<1>1. TableOK(rooms) /\ view \in [Sockets -> SUBSET View]
  BY DEF Typed
<1>2. \A q \in RoomIds : Members(rooms', q) = IF q = r THEN {u} ELSE Members(rooms, q)
  BY <1>1, MembersCreated DEF HandleCreateRoom, CreateRoom
<1>3. view' = [view EXCEPT ![s] = {list}]
  BY DEF HandleCreateRoom, Listed, Some
<1>4. view'[s] = {list} /\ \A q \in Sockets : q # s => view'[q] = view[q]
  BY <1>1, <1>3
<1>5. list.roomId = r /\ list.peers = {u}
  OBVIOUS
<1> HIDE DEF list
<1>6. ASSUME NEW q \in Sockets, NEW w \in view'[q]
      PROVE  /\ socketState'[q] = "open"
             /\ w.roomId \notin mixed' => InRoom(q, w.roomId)'
             /\ \A c \in clients'[q] :
                    w.roomId \notin mixed' /\ c.userId \in Members(rooms', w.roomId)
                        => w.peers = Members(rooms', w.roomId)
  <2>1. CASE q = s
    <3>1. w = list
      BY <1>4, <1>6, <2>1
    <3>2. r \notin mixed' => InRoom(s, r)
      BY DEF Speaks, InRoom
    <3>. QED BY <1>2, <1>5, <2>1, <3>1, <3>2 DEF InRoom
  <2>2. CASE q # s
    <3>1. w \in view[q] /\ w.roomId \in RoomIds
      BY <1>1, <1>4, <1>6, <2>2 DEF View
    <3>2. socketState[q] = "open" /\ (w.roomId \notin mixed => InRoom(q, w.roomId))
      BY <3>1 DEF ListsRight, ViewsSound
    <3>3. ASSUME NEW c \in clients'[q],
                 w.roomId \notin mixed', c.userId \in Members(rooms', w.roomId)
          PROVE  w.peers = Members(rooms', w.roomId)
      <4>1. w.roomId # r
        <5>1. ASSUME w.roomId = r PROVE FALSE
          <6>1. r \notin mixed /\ Speaks(s, u, r)
            BY <3>3, <5>1
          <6>2. c.userId # u
            BY <2>2, <3>1, <3>3, <5>1, <6>1, OtherUser
          <6>. QED BY <1>2, <3>3, <5>1, <6>2
        <5>. QED BY <5>1
      <4>2. c \in clients[q] /\ w.roomId \notin mixed
            /\ Members(rooms', w.roomId) = Members(rooms, w.roomId)
        BY <1>2, <3>1, <3>3, <4>1
      <4>3. c.userId \in Members(rooms, w.roomId)
        BY <3>3, <4>2
      <4>. QED BY <3>1, <4>2, <4>3 DEF ListsRight, ViewsAgree
    <3>. QED BY <3>2, <3>3 DEF InRoom
  <2>. QED BY <2>1, <2>2
<1>7. ViewsSound' /\ ViewsAgree'
  BY <1>6 DEF ViewsSound, ViewsAgree
<1>. QED BY <1>7 DEF ListsRight

\* JOIN_ROOM: who is in the room is told, unless the room has nobody of another name.
LEMMA JoiningRight ==
    ASSUME Typed, ListsRight, NEW s \in Sockets, NEW u \in UserIds, NEW r \in RoomIds,
           socketState[s] = "open", HandleJoinRoom(s, u, r), HasRoom(rooms, r),
           UNCHANGED <<clients, socketState>>, OneOpen',
           mixed' = IF Speaks(s, u, r) THEN mixed ELSE mixed \cup {r}
    PROVE  ListsRight'
<1> DEFINE list == [roomId |-> r, peers |-> Members(rooms', r)]
           told == Members(rooms', r) \ {u} # {}
<1>1. TableOK(rooms) /\ view \in [Sockets -> SUBSET View]
  BY DEF Typed
<1>2. \A q \in RoomIds : Members(rooms', q) =
          IF q = r THEN Members(rooms, r) \cup {u} ELSE Members(rooms, q)
  BY <1>1, MembersJoined DEF HandleJoinRoom, JoinRoom
<1>3. Members(rooms', r) \subseteq UserIds
  BY <1>1, <1>2, MembersTyped
<1>4. ListsJoined(view', s, r, u, list, told)
  BY <1>3, JoinLists
<1>5. list.roomId = r /\ list.peers = Members(rooms', r)
  OBVIOUS
<1> HIDE DEF list
<1>6. ASSUME NEW q \in Sockets, NEW w \in view'[q]
      PROVE  /\ socketState'[q] = "open"
             /\ w.roomId \notin mixed' => InRoom(q, w.roomId)'
             /\ \A c \in clients'[q] :
                    w.roomId \notin mixed' /\ c.userId \in Members(rooms', w.roomId)
                        => w.peers = Members(rooms', w.roomId)
  <2>1. CASE q = s
    <3>1. w = list
      BY <1>4, <1>6, <2>1 DEF ListsJoined
    <3>2. r \notin mixed' => InRoom(s, r)
      BY DEF Speaks, InRoom
    <3>. QED BY <1>5, <2>1, <3>1, <3>2 DEF InRoom
  <2>2. CASE q # s
    <3>1. PICK v \in view[q] : JoinedFrom(w, v, q, r, u, told)
      BY <1>4, <1>6, <2>2 DEF ListsJoined
    <3>2. w.roomId = v.roomId /\ v.roomId \in RoomIds
      BY <3>1 DEF JoinedFrom, View
    <3>3. socketState[q] = "open" /\ (v.roomId \notin mixed => InRoom(q, v.roomId))
      BY DEF ListsRight, ViewsSound
    <3>4. ASSUME NEW c \in clients'[q],
                 w.roomId \notin mixed', c.userId \in Members(rooms', w.roomId)
          PROVE  w.peers = Members(rooms', w.roomId)
      <4>1. c \in clients[q] /\ v.roomId \notin mixed
        BY <3>2, <3>4
      <4>2. ASSUME v.roomId = r
            PROVE  c.userId # u /\ q \in Receivers(r)
        <5>1. r \notin mixed /\ Speaks(s, u, r)
          BY <3>2, <3>4, <4>2
        <5>. QED BY <2>2, <4>1, <4>2, <5>1, OtherUser
      <4>3. c.userId \in Members(rooms, v.roomId)
        BY <1>2, <3>2, <3>4, <4>2
      <4>4. v.peers = Members(rooms, v.roomId)
        BY <4>1, <4>3 DEF ListsRight, ViewsAgree
      <4>5. CASE v.roomId = r
        <5>1. told
          BY <1>2, <4>2, <4>3, <4>5
        <5>. QED BY <1>2, <3>1, <3>2, <4>2, <4>4, <4>5, <5>1 DEF JoinedFrom
      <4>6. CASE v.roomId # r
        BY <1>2, <3>1, <3>2, <4>4, <4>6 DEF JoinedFrom
      <4>. QED BY <4>5, <4>6
    <3>. QED BY <3>2, <3>3, <3>4 DEF InRoom
  <2>. QED BY <2>1, <2>2
<1>7. ViewsSound' /\ ViewsAgree'
  BY <1>6 DEF ViewsSound, ViewsAgree
<1>. QED BY <1>7 DEF ListsRight

\* auth: who becomes somebody else or goes to another room forgets the list, and a second
\* connection of a user makes the room mixed.
LEMMA AuthRight ==
    ASSUME Typed, ListsRight, NEW s \in Sockets, NEW u \in UserIds, NEW r \in RoomIds,
           NEW t \in validTokens, HandleAuth(s, u, r, t)
    PROVE  ListsRight'
<1>1. UNCHANGED <<rooms, socketState>> /\ socketState[s] = "open"
  BY DEF HandleAuth, roomVars
<1>2. CASE UNCHANGED <<clients, view, mixed>>
  <2>1. ViewsSound' /\ OneOpen' /\ ViewsAgree'
    BY <1>1, <1>2 DEF ListsRight, ViewsSound, OneOpen, ViewsAgree, InRoom, Speaks
  <2>. QED BY <2>1 DEF ListsRight
<1>3. CASE /\ clients' = [clients EXCEPT ![s] = {[userId |-> u, roomId |-> r]}]
           /\ view' = IF Speaks(s, u, r) THEN view ELSE [view EXCEPT ![s] = None]
           /\ mixed' = IF \E o \in Sockets \ {s} : socketState[o] = "open" /\ Speaks(o, u, r)
                       THEN mixed \cup {r} ELSE mixed
  <2> DEFINE entry == [userId |-> u, roomId |-> r]
  <2>1. clients'[s] = {entry} /\ \A q \in Sockets : q # s => clients'[q] = clients[q]
    BY <1>3 DEF Typed
  <2>2. OnlyForgotten(view', view)
    BY <1>3, KeptLists, NoneForgets
  <2>3. Speaks(s, u, r) => clients[s] = {entry}
    BY DEF Typed, Speaks
  <2>4. ~Speaks(s, u, r) => view'[s] = {}
    BY <1>3 DEF Typed, None
  <2>5. OneOpen'
    <3> SUFFICES ASSUME NEW q \in RoomIds \ mixed', NEW v \in UserIds,
                        NEW a \in Sockets, NEW b \in Sockets, a # b,
                        socketState[a] = "open", Speaks(a, v, q)',
                        socketState[b] = "open", Speaks(b, v, q)'
                 PROVE  FALSE
      BY <1>1 DEF OneOpen
    <3>1. \A x \in Sockets : Speaks(x, v, q)' => Speaks(x, v, q) \/ (x = s /\ v = u /\ q = r)
      <4> SUFFICES ASSUME NEW x \in Sockets, Speaks(x, v, q)', x = s
                   PROVE  v = u /\ q = r
        BY <2>1 DEF Speaks
      <4>1. [userId |-> v, roomId |-> q] = entry
        BY <2>1 DEF Speaks
      <4>. QED BY <4>1
    <3>2. q \notin mixed
      BY <1>3
    <3>3. CASE Speaks(a, v, q) /\ Speaks(b, v, q)
      BY <3>2, <3>3 DEF ListsRight, OneOpen
    <3>4. ASSUME NEW x \in Sockets, NEW o \in Sockets, x # o, x = s, v = u, q = r,
                 socketState[o] = "open", Speaks(o, v, q)'
          PROVE  FALSE
      <4>1. Speaks(o, u, r)
        BY <3>1, <3>4
      <4>2. r \in mixed'
        BY <1>3, <3>4, <4>1
      <4>. QED BY <3>4, <4>2
    <3>. QED BY <3>1, <3>3, <3>4
  <2>6. \A q \in Sockets : \A v \in view'[q] :
            /\ socketState'[q] = "open" /\ clients'[q] = clients[q]
            /\ v.roomId \notin mixed' => Members(rooms', v.roomId) = Members(rooms, v.roomId)
    <3> SUFFICES ASSUME NEW q \in Sockets, NEW v \in view'[q]
                 PROVE  socketState'[q] = "open" /\ clients'[q] = clients[q]
      BY <1>1
    <3>1. v \in view[q]
      BY <2>2 DEF OnlyForgotten
    <3>2. socketState[q] = "open"
      BY <3>1 DEF ListsRight, ViewsSound
    <3>3. clients'[q] = clients[q]
      BY <2>1, <2>3, <2>4
    <3>. QED BY <1>1, <3>2, <3>3
  <2>7. mixed \subseteq mixed'
    BY <1>3
  <2>. QED BY <2>2, <2>5, <2>6, <2>7, ForgettingRight
<1>. QED BY <1>2, <1>3 DEF HandleAuth, Some

\* A message about a room.
LEMMA MessageRight ==
    ASSUME Typed, ListsRight, NEW s \in Sockets, NEW u \in UserIds, NEW r \in RoomIds,
           HandleMessage(s, u, r)
    PROVE  ListsRight'
<1>1. /\ UNCHANGED <<clients, socketState>> /\ socketState[s] = "open"
      /\ mixed' = IF Speaks(s, u, r) THEN mixed ELSE mixed \cup {r}
      /\ mixed \subseteq mixed'
  BY DEF HandleMessage
<1>2. OneOpen'
  BY <1>1, OneOpenKept DEF ListsRight
<1>3. CASE HandleLeaveRoom(s, u, r)
  <2>1. ListsLeft(PeerLeft(view, r, u), r, u)
    BY PeerLeftLists
  <2>2. ListsLeft([PeerLeft(view, r, u) EXCEPT ![s] = None], r, u)
    BY <2>1, LeftAndForgotten
  <2>3. ListsLeft(view', r, u) /\ LeaveRoom(r, u)
    BY <1>3, <2>1, <2>2 DEF HandleLeaveRoom
  <2>. QED BY <1>1, <1>2, <2>3, LeavingRight
<1>4. CASE HandleCreateRoom(s, u, r) /\ ~HasRoom(rooms, r)
  BY <1>1, <1>2, <1>4, CreatingRight
<1>5. CASE HandleJoinRoom(s, u, r) /\ HasRoom(rooms, r)
  BY <1>1, <1>2, <1>5, JoiningRight
<1>6. CASE UNCHANGED <<rooms, view>>
  <2>1. \A q \in Sockets : \A v \in view[q] : socketState[q] = "open"
    BY DEF ListsRight, ViewsSound
  <2>. QED BY <1>1, <1>2, <1>6, <2>1, KeptLists, ForgettingRight
<1>7. HandleCreateRoom(s, u, r) /\ HasRoom(rooms, r) => UNCHANGED <<rooms, view>>
  BY DEF HandleCreateRoom, CreateRoom, RoomCreated
<1>8. HandleJoinRoom(s, u, r) /\ ~HasRoom(rooms, r) => UNCHANGED <<rooms, view>>
  BY DEF HandleJoinRoom, JoinRoom, RoomJoined
<1>. QED BY <1>3, <1>4, <1>5, <1>6, <1>7, <1>8 DEF HandleMessage

\* The end of a connection.
LEMMA CloseRight ==
    ASSUME Typed, ListsRight, NEW s \in Sockets, Close(s)
    PROVE  ListsRight'
<1>1. /\ socketState' = [socketState EXCEPT ![s] = "closed"]
      /\ clients' = [clients EXCEPT ![s] = {}] /\ mixed' = mixed
  BY DEF Close, None, history
<1>2. /\ \A q \in Sockets : q # s => socketState'[q] = socketState[q] /\ clients'[q] = clients[q]
      /\ clients'[s] = {} /\ socketState'[s] = "closed"
  BY <1>1 DEF Typed
<1>3. OneOpen'
  BY <1>1, <1>2, OneOpenKept DEF ListsRight
<1>4. CASE ~Authenticated(s)
  <2>1. clients[s] = {}
    BY <1>4 DEF Authenticated, None
  <2>2. view' = [view EXCEPT ![s] = None] /\ UNCHANGED rooms
    BY <2>1 DEF Close, roomVars
  <2>3. OnlyForgotten(view', view) /\ view'[s] = {}
    BY <2>2, NoneForgets DEF Typed, None
  <2>4. \A q \in Sockets : \A v \in view'[q] : socketState[q] = "open" /\ q # s
    BY <2>3 DEF OnlyForgotten, ListsRight, ViewsSound
  <2>. QED BY <1>1, <1>2, <1>3, <2>2, <2>3, <2>4, ForgettingRight
<1>5. CASE Authenticated(s)
  <2>1. PICK c \in clients[s] :
            /\ LeaveRoom(c.roomId, c.userId)
            /\ view' = [PeerLeft(view, c.roomId, c.userId) EXCEPT ![s] = None]
    BY <1>5 DEF Close
  <2>2. c.roomId \in RoomIds /\ c.userId \in UserIds
    BY DEF Typed, ClientInfo
  <2>3. ListsLeft(view', c.roomId, c.userId)
    BY <2>1, <2>2, PeerLeftLists, LeftAndForgotten
  <2>4. view'[s] = {}
    BY <2>1 DEF PeerLeft, Told, None
  <2>5. \A q \in Sockets : \A v \in view'[q] :
            socketState'[q] = socketState[q] /\ clients'[q] = clients[q]
    BY <1>2, <2>4
  <2>. QED BY <1>1, <1>3, <2>1, <2>2, <2>3, <2>5, LeavingRight
<1>. QED BY <1>4, <1>5

\* Every handler, route and timer keeps the lists right.
LEMMA NextRight == Typed /\ ListsRight /\ [Next]_vars => ListsRight'
<1> SUFFICES ASSUME Typed, ListsRight, [Next]_vars PROVE ListsRight'
  OBVIOUS
<1>1. \A s \in Sockets : \A v \in view[s] : socketState[s] = "open" /\ v.roomId \in RoomIds
  BY DEF Typed, View, ListsRight, ViewsSound
<1>2. ASSUME UNCHANGED <<clients, socketState, mixed>> PROVE OneOpen'
  BY <1>2 DEF ListsRight, OneOpen, Speaks
<1>3. ASSUME UNCHANGED <<clients, socketState, mixed, view>>,
             \A q \in RoomIds : Members(rooms', q) = Members(rooms, q)
      PROVE  ListsRight'
  BY <1>1, <1>2, <1>3, KeptLists, ForgettingRight
<1>4. ASSUME UNCHANGED <<clients, socketState, mixed>>, view' = Untold(view, rooms, rooms')
      PROVE  ListsRight'
  <2>1. \A s \in Sockets : \A v \in view'[s] :
            v \in view[s] /\ Members(rooms', v.roomId) = Members(rooms, v.roomId)
    BY <1>4 DEF Untold
  <2>. QED BY <1>1, <1>2, <1>4, <2>1, UntoldForgets, ForgettingRight
<1>5. ASSUME NEW s \in Sockets, Connect(s) PROVE ListsRight'
  <2>1. /\ UNCHANGED <<rooms, clients, view, mixed>> /\ clients[s] = {}
        /\ socketState' = [socketState EXCEPT ![s] = "open"]
    BY <1>5 DEF Connect, roomVars, history, Typed
  <2>2. \A q \in Sockets : socketState'[q] = "open" <=> socketState[q] = "open" \/ q = s
    BY <2>1 DEF Typed
  <2>3. OneOpen'
    BY <2>1, <2>2, OneOpenKept DEF ListsRight
  <2>. QED BY <1>1, <2>1, <2>2, <2>3, KeptLists, ForgettingRight
<1>6. ASSUME NEW s \in Sockets, Lose(s) PROVE ListsRight'
  <2>1. /\ UNCHANGED <<rooms, clients, mixed>>
        /\ socketState' = [socketState EXCEPT ![s] = "lost"]
        /\ view' = [view EXCEPT ![s] = None]
    BY <1>6 DEF Lose, roomVars, history
  <2>2. /\ \A q \in Sockets : q # s => socketState'[q] = socketState[q]
        /\ socketState'[s] = "lost" /\ view'[s] = {}
    BY <2>1 DEF Typed, None
  <2>3. OneOpen'
    BY <2>1, <2>2, OneOpenKept DEF ListsRight
  <2>4. OnlyForgotten(view', view)
    BY <2>1, NoneForgets
  <2>5. \A q \in Sockets : \A v \in view'[q] : v \in view[q] /\ q # s
    BY <2>2, <2>4 DEF OnlyForgotten
  <2>. QED BY <1>1, <2>1, <2>2, <2>3, <2>4, <2>5, ForgettingRight
<1>7. ASSUME NEW s \in Sockets, HandleHeartbeat(s) PROVE ListsRight'
  <2>1. \A q \in RoomIds : Members(rooms', q) = Members(rooms, q)
    BY <1>7, HeartbeatMembers
  <2>. QED BY <1>3, <1>7, <2>1 DEF HandleHeartbeat, history
<1>8. ASSUME NEW u \in UserIds, NEW r \in RoomIds, GenerateToken(u, r) PROVE ListsRight'
  BY <1>3, <1>8 DEF GenerateToken, roomVars
<1>9. ASSUME NEW u \in UserIds, NEW r \in RoomIds, HttpRoom(u, r) PROVE ListsRight'
  BY <1>4, <1>9 DEF HttpRoom
<1>10. CASE Cleanup
  BY <1>4, <1>10 DEF Cleanup, history
<1>11. CASE Tick
  <2>1. \A q \in RoomIds : Members(rooms', q) = Members(rooms, q)
    BY <1>11, MembersAged DEF Tick, RoomsTick, Typed
  <2>. QED BY <1>3, <1>11, <2>1 DEF Tick, history
<1>12. CASE UNCHANGED vars
  BY <1>3, <1>12 DEF vars
<1>. QED BY <1>5, <1>6, <1>7, <1>8, <1>9, <1>10, <1>11, <1>12, AuthRight, MessageRight, CloseRight
       DEF Next

\* Where everybody acts in the name and for the room of its connection, one connection each,
\* what a client was told of its room is what the room holds, through every join, leave,
\* change of room and closed or lost connection, and whatever is done to other rooms.
THEOREM ClientsToldTheMembers == Spec => []ViewsAgree
<1> DEFINE All == Typed /\ ListsRight
<1>1. Init => All
  <2>1. Init => ListsRight
    BY DEF Init, None, ListsRight, ViewsSound, OneOpen, ViewsAgree, Speaks
  <2>. QED BY <2>1, InitTyped
<1>2. All /\ [Next]_vars => All'
  BY NextTyped, NextRight
<1>3. All => ViewsAgree
  BY DEF ListsRight
<1>. QED BY <1>1, <1>2, <1>3, PTL DEF Spec

----------------------------------------------------------------------------
(* The process around the server *)

ProcessIInv ==
    /\ TableOK(rooms) /\ cleanupInterval \in BOOLEAN
    /\ MemoryTypeOK
    /\ phase \in {"booted", "running", "stopping", "exited"}
    /\ http \in {"off", "starting", "listening"}
    /\ signaling \in {"off", "starting", "listening", "failed", "closing"}
    /\ connections \in 0..MaxClients

----------------------------------------------------------------------------
(* The aggressive cleanup *)

\* The host of a room without peers is not in it, so leaveRoom leaves it as it is.
LEMMA EmptyRoomStays ==
    ASSUME NEW rs, TableOK(rs), NEW r \in RoomIds, HasRoom(rs, r), rs[r].peerCount = 0
    PROVE  RoomLeft(rs, r, rs[r].hostId) = rs
<1>1. RoomOK(rs[r])
  BY DEF TableOK, OpenRooms
<1>2. IsFiniteSet(rs[r].peers) /\ Cardinality(rs[r].peers) = 0
  BY <1>1 DEF RoomOK, RoomTyped, RoomCounted
<1>3. rs[r].peers = {}
  BY <1>2, FS_EmptySet
<1>4. Members(rs, r) = {}
  BY <1>3 DEF Members, MembersOf
<1>. QED BY <1>4 DEF RoomLeft

\* The aggressive cleanup does to a sound table what the ordinary one does.
LEMMA AggressiveIsOrdinary ==
    ASSUME NEW rs, TableOK(rs)
    PROVE  AggressiveCleanup(rs) = CleanedUp(rs)
<1> DEFINE new == CleanedUp(rs)
<1>1. TableOK(new)
  BY CleanedUpOK
<1>2. \A r \in RoomIds : HasRoom(new, r) /\ new[r].peerCount = 0 =>
          RoomLeft(new, r, new[r].hostId) = new
  BY <1>1, EmptyRoomStays
<1>3. new = [r \in RoomIds |-> new[r]]
  BY DEF CleanedUp
<1> HIDE DEF new
<1>4. EmptyRoomsLeft(new) = new
  BY <1>2, <1>3 DEF EmptyRoomsLeft
<1>. QED BY <1>4 DEF AggressiveCleanup, new

\* Whatever the heap, the monitor calls cleanup() or leaves the rooms alone.
LEMMA MonitorCleansUp ==
    ASSUME TableOK(rooms), Monitor
    PROVE  rooms' = CleanedUp(rooms) \/ UNCHANGED rooms
BY AggressiveIsOrdinary DEF Monitor

----------------------------------------------------------------------------
(* The process is a room manager *)

\* Every step of the process is a step of the room manager or leaves it alone.
LEMMA StepOfRoomManager == ProcessIInv /\ [ProcessNext]_processVars => [RoomsNext]_roomVars
<1> SUFFICES ASSUME ProcessIInv, [ProcessNext]_processVars PROVE RoomsNext \/ UNCHANGED roomVars
  OBVIOUS
<1>1. CASE Start \/ HttpListening \/ Listening \/ ClientConnects \/ Stop \/ Garbage
  BY <1>1 DEF Start, HttpListening, Listening, ClientConnects, Stop, Garbage, HeapChanges, roomVars
<1>2. CASE ClientDisconnects
  BY <1>2 DEF ClientDisconnects, RoomsNext
<1>3. CASE Stopped
  BY <1>3 DEF Stopped, RoomsNext
<1>4. CASE Request
  BY <1>4 DEF Request, RoomsNext
<1>5. CASE TimedCleanup
  BY <1>5 DEF TimedCleanup, RoomsTimedCleanup, RoomsNext
<1>6. CASE TimedMonitor
  <2>1. rooms' = CleanedUp(rooms) \/ UNCHANGED rooms
    BY <1>6, MonitorCleansUp DEF TimedMonitor, ProcessIInv
  <2>. QED BY <1>6, <2>1 DEF TimedMonitor, RoomsCleanup, RoomsNext, roomVars
<1>7. CASE ProcessTick
  BY <1>7 DEF ProcessTick, RoomsNext
<1>8. CASE UNCHANGED processVars
  BY <1>8 DEF processVars
<1>. QED BY <1>1, <1>2, <1>3, <1>4, <1>5, <1>6, <1>7, <1>8 DEF ProcessNext

----------------------------------------------------------------------------
(* The inductive invariant *)

\* It holds when the process is booted.
LEMMA ProcessInitIInv == ProcessInit => ProcessIInv
<1> SUFFICES ASSUME ProcessInit PROVE ProcessIInv
  OBVIOUS
<1>1. TableOK(rooms) /\ cleanupInterval \in BOOLEAN
  BY EmptyTableOK DEF ProcessInit, RoomsInit, EmptyTable
<1>2. MemoryTypeOK
  <2>1. MemoryInit
    BY DEF ProcessInit
  <2>2. WARNING_COOLDOWN + 1 \in 0..WARNING_COOLDOWN + 1
    BY CooldownIsNat
  <2>. QED BY <2>1, <2>2 DEF MemoryInit, MemoryTypeOK, Level, WarningAge
<1>. QED BY <1>1, <1>2, MaxClientsIsNat DEF ProcessInit, ProcessIInv

\* Every step preserves it.
LEMMA ProcessNextIInv == ProcessIInv /\ [ProcessNext]_processVars => ProcessIInv'
<1> SUFFICES ASSUME ProcessIInv, [ProcessNext]_processVars PROVE ProcessIInv'
  OBVIOUS
<1>1. TableOK(rooms') /\ cleanupInterval' \in BOOLEAN
  BY StepOfRoomManager, RoomsNextIInv DEF ProcessIInv, RoomsIInv
<1>. USE DEF ProcessIInv, MemoryTypeOK, memoryVars, lifeVars
<1>2. CASE Start \/ Listening \/ Stop
  BY <1>1, <1>2 DEF Start, Listening, Stop
<1>10. CASE HttpListening
  <2>1. 0 \in 0..MaxClients
    BY MaxClientsIsNat
  <2>. QED BY <1>1, <1>10, <2>1 DEF HttpListening
<1>3. CASE ClientConnects \/ ClientDisconnects
  BY <1>1, <1>3, MaxClientsIsNat DEF ClientConnects, ClientDisconnects
<1>4. CASE Stopped
  BY <1>1, <1>4 DEF Stopped
<1>5. CASE Request \/ TimedCleanup
  BY <1>1, <1>5 DEF Request, TimedCleanup
<1>6. CASE TimedMonitor
  BY <1>1, <1>6, CooldownIsNat DEF TimedMonitor, Monitor, WarningAge
<1>7. CASE Garbage
  BY <1>1, <1>7 DEF Garbage, HeapChanges
<1>8. CASE ProcessTick
  BY <1>1, <1>8, CooldownIsNat DEF ProcessTick, WarningAged, CooledDown, WarningAge
<1>9. CASE UNCHANGED processVars
  BY <1>1, <1>9 DEF processVars
<1>. QED BY <1>2, <1>3, <1>4, <1>5, <1>6, <1>7, <1>8, <1>9, <1>10 DEF ProcessNext

\* It holds in every reachable state.
THEOREM ProcessInvariant == ProcessSpec => []ProcessIInv
BY ProcessInitIInv, ProcessNextIInv, PTL DEF ProcessSpec

\* The state of the process is always well formed, the room table included.
THEOREM ProcessTypeCorrect == ProcessSpec => []ProcessTypeOK
<1>1. ProcessIInv => ProcessTypeOK
  BY DEF ProcessIInv, ProcessTypeOK, TableOK, RoomOK, RoomTyped, RoomsTypeOK
<1>. QED BY <1>1, ProcessInvariant, PTL

\* The process drives the room manager through its operations alone, under memory pressure
\* and while it stops too: no cleanup costs a live peer its place.
THEOREM ProcessIsRoomManager == ProcessSpec => ProcessDrivesRoomManager
<1>1. ProcessInit => RoomsInit
  BY DEF ProcessInit
<1>2. ProcessIInv /\ [ProcessNext]_processVars => [RoomsNext]_roomVars
  BY StepOfRoomManager DEF roomVars
<1>. QED BY <1>1, <1>2, ProcessInvariant, PTL DEF ProcessSpec, RoomsSpec, ProcessDrivesRoomManager
=============================================================================
