------------------------- MODULE LeanServer_proofs -------------------------
(***************************************************************************)
(* Proofs about LeanServer, for any rooms, peers and sockets.  Each of     *)
(* the three invariants leans on another: an entry taken out of a room     *)
(* takes its id along because ids are unique, the id is its client's       *)
(* because only handleAuth files entries, and with both what a client is   *)
(* told of is what has changed in the room.                                *)
(***************************************************************************)
EXTENDS LeanServer, TLAPS

\* An entry names the client of its socket, and no socket that never connected.
EntriesSound ==
    \A p \in peers : p.id = Owner[p.socket] /\ socketState[p.socket] # "unused"

IInv == TypeOK /\ EntriesSound /\ RoomsSound /\ KnownMatchesRoom

----------------------------------------------------------------------------
(* What the clients are told *)

\* handleAuth: the socket gets the list, the other listed sockets of the room the new peer.
LEMMA AuthKnown ==
    ASSUME TypeOK, NEW s \in Sockets, NEW r \in RoomIds, HandleAuth(s, r)
    PROVE  /\ known' \in [Sockets -> [RoomIds -> SUBSET PeerIds]]
           /\ known'[s][r] = Others(peers', r, Owner[s])
           /\ \A p \in peers' :
                 (p.room = r /\ p.id # Owner[s] /\ p.socket # s /\ socketState[p.socket] = "open") =>
                    known'[p.socket][r] = known[p.socket][r] \cup {Owner[s]}
           /\ \A t \in Sockets, q \in RoomIds :
                 (q # r) => known'[t][q] = known[t][q]
<1> DEFINE Add(ids) == ids \cup {Owner[s]}
           rec == {p.socket : p \in {q \in PeersIn(peers', r) : q.id # Owner[s]}}
                        \cap Reached(peers', r)
           told == [t \in Sockets |->
                       IF t \in rec THEN [known[t] EXCEPT ![r] = known[t][r] \cup {Owner[s]}]
                       ELSE known[t]]
<1>1. known' = [told EXCEPT ![s][r] = Others(peers', r, Owner[s])]
  BY DEF HandleAuth, Told
<1>2. Owner[s] \in PeerIds
  BY OwnerIsPeer
<1>3. known \in [Sockets -> [RoomIds -> SUBSET PeerIds]]
  BY DEF TypeOK
<1>4. told \in [Sockets -> [RoomIds -> SUBSET PeerIds]]
  BY <1>2, <1>3
<1>5. peers' \subseteq Peer
  <2>1. [room |-> r, id |-> Owner[s], socket |-> s] \in Peer
    BY <1>2 DEF Peer
  <2>. QED BY <2>1 DEF HandleAuth, Registered, TypeOK
<1>6. Others(peers', r, Owner[s]) \in SUBSET PeerIds
  BY <1>5 DEF Others, PeersIn, Peer
<1>7. \A p \in peers' :
         (p.room = r /\ p.id # Owner[s] /\ socketState[p.socket] = "open") => p.socket \in rec
  BY DEF PeersIn, Reached
<1>8. \A t \in Sockets, q \in RoomIds :
         told[t][q] = IF t \in rec /\ q = r THEN known[t][r] \cup {Owner[s]} ELSE known[t][q]
  BY <1>3
<1>9. \A p \in peers' : p.socket \in Sockets
  BY <1>5 DEF Peer
<1> HIDE DEF rec, told
<1>10. known' \in [Sockets -> [RoomIds -> SUBSET PeerIds]]
  BY <1>1, <1>4, <1>6
<1>11. known'[s][r] = Others(peers', r, Owner[s])
  BY <1>1, <1>4
<1>12. \A t \in Sockets, q \in RoomIds : (t # s \/ q # r) => known'[t][q] = told[t][q]
  BY <1>1, <1>4
<1>13. ASSUME NEW p \in peers', p.room = r, p.id # Owner[s], p.socket # s,
              socketState[p.socket] = "open"
       PROVE  known'[p.socket][r] = known[p.socket][r] \cup {Owner[s]}
  BY <1>7, <1>8, <1>9, <1>12, <1>13
<1>14. \A t \in Sockets, q \in RoomIds : (q # r) => known'[t][q] = known[t][q]
  BY <1>8, <1>12
<1>. QED BY <1>10, <1>11, <1>13, <1>14

\* handleDisconnect: the open sockets of the room, but for the one that closes, lose the id.
LEMMA DisconnectKnown ==
    ASSUME TypeOK, NEW s \in Sockets, HandleDisconnect(s), NEW gone \in EntriesOf(s),
           peers' = peers \ {gone},
           known' = [t \in Sockets |->
                        IF t \in {p.socket : p \in {q \in PeersIn(peers', gone.room) : q.id # NoPeer}}
                                    \cap Reached(peers', gone.room)
                        THEN [known[t] EXCEPT ![gone.room] = known[t][gone.room] \ {gone.id}]
                        ELSE known[t]]
    PROVE  /\ known' \in [Sockets -> [RoomIds -> SUBSET PeerIds]]
           /\ \A p \in peers' :
                 (p.room = gone.room /\ socketState[p.socket] = "open") =>
                    known'[p.socket][gone.room] = known[p.socket][gone.room] \ {gone.id}
           /\ \A t \in Sockets, q \in RoomIds :
                 (q # gone.room) => known'[t][q] = known[t][q]
<1> DEFINE rec == {p.socket : p \in {q \in PeersIn(peers', gone.room) : q.id # NoPeer}}
                     \cap Reached(peers', gone.room)
<1>1. known \in [Sockets -> [RoomIds -> SUBSET PeerIds]]
  BY DEF TypeOK
<1>2. gone \in Peer /\ peers' \subseteq Peer
  BY DEF TypeOK, EntriesOf
<1>3. gone.room \in RoomIds /\ \A p \in peers' : p.socket \in Sockets /\ p.id \in PeerIds
  BY <1>2 DEF Peer
<1>4. \A p \in peers' :
         (p.room = gone.room /\ socketState[p.socket] = "open") => p.socket \in rec
  BY <1>3, NoPeerIsNobody DEF PeersIn, Reached
<1>5. known' = [t \in Sockets |->
                   IF t \in rec
                   THEN [known[t] EXCEPT ![gone.room] = known[t][gone.room] \ {gone.id}]
                   ELSE known[t]]
  OBVIOUS
<1> HIDE DEF rec
<1>6. known' \in [Sockets -> [RoomIds -> SUBSET PeerIds]]
  BY <1>1, <1>3, <1>5
<1>7. \A t \in Sockets, q \in RoomIds :
         known'[t][q] = IF t \in rec /\ q = gone.room THEN known[t][q] \ {gone.id}
                        ELSE known[t][q]
  <2> TAKE t \in Sockets, q \in RoomIds
  <2>1. known[t] \in [RoomIds -> SUBSET PeerIds]
    BY <1>1
  <2>2. known'[t] = IF t \in rec
                    THEN [known[t] EXCEPT ![gone.room] = known[t][gone.room] \ {gone.id}]
                    ELSE known[t]
    BY <1>5
  <2>3. CASE t \in rec
    BY <2>1, <2>2, <2>3, <1>3
  <2>4. CASE t \notin rec
    BY <2>2, <2>4
  <2>. QED BY <2>3, <2>4
<1>. QED BY <1>3, <1>4, <1>6, <1>7

----------------------------------------------------------------------------
(* The inductive invariant *)

\* A server that has just started serves nobody.
LEMMA InitIInv == Init => IInv
BY DEF Init, IInv, TypeOK, EntriesSound, RoomsSound, RoomsMatchPeers, OneSocketPerPeer,
       KnownMatchesRoom

\* Authentication: the entry of the peer in the room is replaced, or added.
LEMMA AuthIInv ==
    ASSUME IInv, NEW s \in Sockets, NEW r \in RoomIds, HandleAuth(s, r)
    PROVE  IInv'
<1> DEFINE mine == [room |-> r, id |-> Owner[s], socket |-> s]
           kept == {p \in peers : ~(p.room = r /\ p.id = Owner[s])}
<1>1. peers' = kept \cup {mine} /\ rooms' = rooms \cup {r} /\ UNCHANGED socketState
  BY DEF HandleAuth, Registered
<1>2. Owner[s] \in PeerIds /\ mine \in Peer
  BY OwnerIsPeer DEF Peer
<1>3. mine.room = r /\ mine.id = Owner[s] /\ mine.socket = s
  OBVIOUS
<1>4. socketState[s] = "open"
  BY DEF HandleAuth
<1>5. TypeOK
  BY DEF IInv
<1> HIDE DEF mine
<1>6. TypeOK'
  BY <1>1, <1>2, <1>5, AuthKnown DEF TypeOK
<1>7. EntriesSound'
  BY <1>1, <1>3, <1>4 DEF IInv, EntriesSound
<1>8. RoomsMatchPeers'
  <2>1. \A p \in peers : p \in kept \/ p.room = r
    OBVIOUS
  <2>. QED BY <2>1, <1>1, <1>3 DEF IInv, RoomsSound, RoomsMatchPeers
<1>9. OneSocketPerPeer'
  BY <1>1, <1>3 DEF IInv, RoomsSound, OneSocketPerPeer
<1>10. KnownMatchesRoom'
  <2> SUFFICES ASSUME NEW p \in peers', socketState[p.socket] = "open"
               PROVE  known'[p.socket][p.room] = Others(peers', p.room, p.id)
    BY <1>1 DEF KnownMatchesRoom
  <2>1. p.socket \in Sockets /\ p.room \in RoomIds /\ p.id = Owner[p.socket]
    BY <1>6, <1>7 DEF TypeOK, Peer, EntriesSound
  <2>2. CASE p = mine
    BY <2>2, <1>3, <1>5, AuthKnown
  <2>3. CASE p \in kept /\ p.room = r
    <3>1. p.id # Owner[s] /\ p.socket # s
      BY <2>1, <2>3
    <3>2. known'[p.socket][r] = known[p.socket][r] \cup {Owner[s]}
      BY <2>3, <3>1, <1>5, AuthKnown
    <3>3. known[p.socket][r] = Others(peers, r, p.id)
      BY <2>3 DEF IInv, KnownMatchesRoom
    <3>4. Others(peers', r, p.id) = Others(peers, r, p.id) \cup {Owner[s]}
      BY <1>1, <1>3, <3>1 DEF Others, PeersIn
    <3>. QED BY <2>3, <3>2, <3>3, <3>4
  <2>4. CASE p \in kept /\ p.room # r
    <3>1. known'[p.socket][p.room] = known[p.socket][p.room]
      BY <2>1, <2>4, <1>5, AuthKnown
    <3>2. known[p.socket][p.room] = Others(peers, p.room, p.id)
      BY <2>4 DEF IInv, KnownMatchesRoom
    <3>3. Others(peers', p.room, p.id) = Others(peers, p.room, p.id)
      BY <1>1, <1>3, <2>4 DEF Others, PeersIn
    <3>. QED BY <3>1, <3>2, <3>3
  <2>. QED BY <1>1, <2>2, <2>3, <2>4
<1>. QED BY <1>6, <1>7, <1>8, <1>9, <1>10 DEF IInv, RoomsSound

\* A socket that is in no room closes.
LEMMA CloseIInv ==
    ASSUME IInv, NEW s \in Sockets, EntriesOf(s) = {},
           socketState' = [socketState EXCEPT ![s] = "closed"], UNCHANGED <<rooms, peers, known>>
    PROVE  IInv'
<1>1. \A p \in peers : p.socket \in Sockets /\ p.socket # s
  BY DEF IInv, TypeOK, Peer, EntriesOf
<1>2. TypeOK'
  BY DEF IInv, TypeOK
<1>3. \A p \in peers : socketState'[p.socket] = socketState[p.socket]
  BY <1>1 DEF IInv, TypeOK
<1>4. EntriesSound'
  BY <1>3 DEF IInv, EntriesSound
<1>5. RoomsSound'
  BY DEF IInv, RoomsSound, RoomsMatchPeers, OneSocketPerPeer
<1>6. KnownMatchesRoom'
  BY <1>3 DEF IInv, KnownMatchesRoom, Others, PeersIn
<1>. QED BY <1>2, <1>4, <1>5, <1>6 DEF IInv

\* Of the entries with the socket one goes, and nobody but its id leaves its room.
LEMMA GoneIInv ==
    ASSUME IInv, NEW s \in Sockets, HandleDisconnect(s), NEW gone \in EntriesOf(s),
           peers' = peers \ {gone},
           rooms' = IF PeersIn(peers', gone.room) = {} THEN rooms \ {gone.room} ELSE rooms,
           known' = [t \in Sockets |->
                        IF t \in {p.socket : p \in {q \in PeersIn(peers', gone.room) : q.id # NoPeer}}
                                    \cap Reached(peers', gone.room)
                        THEN [known[t] EXCEPT ![gone.room] = known[t][gone.room] \ {gone.id}]
                        ELSE known[t]]
    PROVE  IInv'
<1>1. TypeOK
  BY DEF IInv
<1>2. gone \in peers /\ gone.socket = s /\ gone.id = Owner[s]
  BY DEF EntriesOf, IInv, EntriesSound
<1>3. socketState' = [socketState EXCEPT ![s] = "closed"]
  BY DEF HandleDisconnect
<1>4. /\ known' \in [Sockets -> [RoomIds -> SUBSET PeerIds]]
      /\ \A p \in peers' : (p.room = gone.room /\ socketState[p.socket] = "open") =>
             known'[p.socket][gone.room] = known[p.socket][gone.room] \ {gone.id}
      /\ \A t \in Sockets, q \in RoomIds : (q # gone.room) => known'[t][q] = known[t][q]
  BY <1>1, DisconnectKnown
<1>5. TypeOK'
  <2>1. rooms' \subseteq rooms /\ peers' \subseteq peers
    OBVIOUS
  <2>. QED BY <2>1, <1>1, <1>3, <1>4 DEF TypeOK
<1>6. \A p \in peers' : p \in peers /\ p # gone /\ p \in Peer
  BY <1>1 DEF TypeOK
<1>7. \A p \in peers' : p.socket \in Sockets /\ p.room \in RoomIds
  BY <1>6 DEF Peer
<1>8. EntriesSound'
  BY <1>1, <1>3, <1>6, <1>7 DEF IInv, EntriesSound, TypeOK
<1>9. RoomsMatchPeers'
  <2>1. rooms = {p.room : p \in peers}
    BY DEF IInv, RoomsSound, RoomsMatchPeers
  <2>2. CASE PeersIn(peers', gone.room) = {}
    BY <2>1, <2>2 DEF PeersIn, RoomsMatchPeers
  <2>3. CASE PeersIn(peers', gone.room) # {}
    BY <1>2, <2>1, <2>3 DEF PeersIn, RoomsMatchPeers
  <2>. QED BY <2>2, <2>3
<1>10. OneSocketPerPeer'
  BY <1>6 DEF IInv, RoomsSound, OneSocketPerPeer
<1>11. KnownMatchesRoom'
  <2> SUFFICES ASSUME NEW p \in peers', socketState'[p.socket] = "open"
               PROVE  known'[p.socket][p.room] = Others(peers', p.room, p.id)
    BY DEF KnownMatchesRoom
  <2>1. p.socket # s /\ socketState[p.socket] = "open"
    BY <1>1, <1>3, <1>7 DEF TypeOK
  <2>2. known[p.socket][p.room] = Others(peers, p.room, p.id)
    BY <1>6, <2>1 DEF IInv, KnownMatchesRoom
  <2>3. CASE p.room = gone.room
    <3>1. known'[p.socket][p.room] = known[p.socket][p.room] \ {gone.id}
      BY <1>4, <2>1, <2>3
    <3>2. Others(peers', p.room, p.id) = Others(peers, p.room, p.id) \ {gone.id}
      BY <1>2, <1>6, <2>3 DEF Others, PeersIn, IInv, RoomsSound, OneSocketPerPeer
    <3>. QED BY <2>2, <3>1, <3>2
  <2>4. CASE p.room # gone.room
    <3>1. known'[p.socket][p.room] = known[p.socket][p.room]
      BY <1>4, <1>7, <2>4
    <3>2. Others(peers', p.room, p.id) = Others(peers, p.room, p.id)
      BY <2>4 DEF Others, PeersIn
    <3>. QED BY <2>2, <3>1, <3>2
  <2>. QED BY <2>3, <2>4
<1>. QED BY <1>5, <1>8, <1>9, <1>10, <1>11 DEF IInv, RoomsSound

\* Every step preserves the invariant.
LEMMA NextIInv == IInv /\ [Next]_vars => IInv'
<1> SUFFICES ASSUME IInv, [Next]_vars PROVE IInv'
  OBVIOUS
<1>1. ASSUME NEW s \in Sockets, Connect(s) PROVE IInv'
  <2>1. /\ \A p \in peers : p.socket \in Sockets /\ p.socket # s
        /\ socketState' = [socketState EXCEPT ![s] = "open"] /\ UNCHANGED <<rooms, peers, known>>
    BY <1>1 DEF Connect, IInv, TypeOK, Peer, EntriesSound
  <2>2. TypeOK' /\ \A p \in peers : socketState'[p.socket] = socketState[p.socket]
    BY <2>1 DEF IInv, TypeOK
  <2>. QED BY <2>1, <2>2 DEF IInv, EntriesSound, RoomsSound, RoomsMatchPeers, OneSocketPerPeer,
                             KnownMatchesRoom, Others, PeersIn
<1>2. ASSUME NEW s \in Sockets, Lose(s) PROVE IInv'
  <2>1. /\ socketState' = [socketState EXCEPT ![s] = "lost"] /\ UNCHANGED <<rooms, peers, known>>
        /\ \A p \in peers : p.socket \in Sockets
    BY <1>2 DEF Lose, IInv, TypeOK, Peer
  <2>2. TypeOK' /\ \A p \in peers : socketState'[p.socket] \in {"lost", socketState[p.socket]}
    BY <2>1 DEF IInv, TypeOK
  <2>. QED BY <2>1, <2>2 DEF IInv, EntriesSound, RoomsSound, RoomsMatchPeers, OneSocketPerPeer,
                             KnownMatchesRoom, Others, PeersIn
<1>3. ASSUME NEW s \in Sockets, HandleDisconnect(s) PROVE IInv'
  <2>1. CASE EntriesOf(s) = {}
    BY <1>3, <2>1, CloseIInv DEF HandleDisconnect
  <2>2. CASE EntriesOf(s) # {}
    BY <1>3, <2>2, GoneIInv DEF HandleDisconnect, Told
  <2>. QED BY <2>1, <2>2
<1>4. ASSUME NEW s \in Sockets, NEW r \in RoomIds, HandleAuth(s, r) PROVE IInv'
  BY <1>4, AuthIInv
<1>5. CASE UNCHANGED vars
  BY <1>5 DEF vars, IInv, TypeOK, EntriesSound, RoomsSound, RoomsMatchPeers, OneSocketPerPeer,
              KnownMatchesRoom, Others, PeersIn
<1>. QED BY <1>1, <1>2, <1>3, <1>4, <1>5 DEF Next

\* It holds in every reachable state.
THEOREM Invariant == Spec => []IInv
BY InitIInv, NextIInv, PTL DEF Spec

----------------------------------------------------------------------------
(* The properties *)

\* The state of the server is always well formed.
THEOREM TypeCorrect == Spec => []TypeOK
<1>1. IInv => TypeOK
  BY DEF IInv
<1>. QED BY <1>1, Invariant, PTL

\* No room is left behind empty, none is dropped while someone is in it, and nobody is listed
\* twice, whichever sockets replace which and whichever rooms a socket is in.
THEOREM TableSound == Spec => []RoomsSound
<1>1. IInv => RoomsSound
  BY DEF IInv
<1>. QED BY <1>1, Invariant, PTL

\* What a client was told of its room is who is in it.
THEOREM ClientsInformed == Spec => []KnownMatchesRoom
<1>1. IInv => KnownMatchesRoom
  BY DEF IInv
<1>. QED BY <1>1, Invariant, PTL

\* A peer leaves a room only when the socket it is listed with closes.
THEOREM LateCloseHarmless == Spec => ReplacedSocketHarmless
<1> DEFINE Kept == \A p \in peers :
              (p.id \notin Others(peers', p.room, NoPeer)) =>
                  socketState[p.socket] # "closed" /\ socketState'[p.socket] = "closed"
<1>1. IInv /\ [Next]_vars => [Kept]_vars
  <2> SUFFICES ASSUME IInv, Next, NEW p \in peers, p.id \notin Others(peers', p.room, NoPeer)
               PROVE  socketState[p.socket] # "closed" /\ socketState'[p.socket] = "closed"
    OBVIOUS
  <2>1. p.id # NoPeer /\ p.socket \in Sockets
    BY NoPeerIsNobody DEF IInv, TypeOK, Peer
  <2>2. \A q \in peers' : ~(q.room = p.room /\ q.id = p.id)
    BY <2>1 DEF Others, PeersIn
  <2>3. ASSUME NEW s \in Sockets, NEW r \in RoomIds, HandleAuth(s, r) PROVE FALSE
    <3>1. CASE p.room = r /\ p.id = Owner[s]
      <4>1. [room |-> r, id |-> Owner[s], socket |-> s] \in peers'
        BY <2>3 DEF HandleAuth, Registered
      <4>. QED BY <2>2, <3>1, <4>1
    <3>2. CASE ~(p.room = r /\ p.id = Owner[s])
      <4>1. p \in peers'
        BY <2>3, <3>2 DEF HandleAuth, Registered
      <4>. QED BY <2>2, <4>1
    <3>. QED BY <3>1, <3>2
  <2>4. ASSUME NEW s \in Sockets, HandleDisconnect(s)
        PROVE  socketState[p.socket] # "closed" /\ socketState'[p.socket] = "closed"
    <3>1. p.socket = s
      BY <2>2, <2>4 DEF HandleDisconnect, EntriesOf
    <3>. QED BY <2>1, <2>4, <3>1 DEF HandleDisconnect, IInv, TypeOK
  <2>. QED BY <2>2, <2>3, <2>4 DEF Next, Connect, Lose
<1>. QED BY <1>1, Invariant, PTL DEF Spec, ReplacedSocketHarmless

=============================================================================
