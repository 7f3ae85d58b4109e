----------------------------- MODULE LeanServer -----------------------------
(***************************************************************************)
(* lean.server.ts, the single-file server, with its WebSocket clients.     *)
(* There is no token and no heartbeat here: 'auth' enters a room, and a    *)
(* peer stays until the close event of the socket it is listed with.       *)
(*                                                                         *)
(* The peers of every room are one set of entries; the key of an entry in  *)
(* the code's maps is its room and its id.  Each handler runs to           *)
(* completion.  A client keeps, for each room, the peers it was told of    *)
(* by peerList, peerJoined and peerLeft, which reach an open socket in the *)
(* order they were sent.                                                   *)
(***************************************************************************)
EXTENDS Integers, FiniteSets

CONSTANTS
    RoomIds, PeerIds, Sockets,
    Owner,      \* the peer id used by the client at the other end of each socket
    NoPeer      \* broadcastToRoom is given nobody to exclude

ASSUME OwnerIsPeer == Owner \in [Sockets -> PeerIds]
ASSUME NoPeerIsNobody == NoPeer \notin PeerIds

VARIABLES
    rooms,        \* the keys of Map<roomId, Room>
    peers,        \* the entries of all the peers maps
    socketState,  \* "unused", "open", "lost" or "closed"
    known         \* the ids each client knows in each room

vars == <<rooms, peers, socketState, known>>

Peer == [room : RoomIds, id : PeerIds, socket : Sockets]

PeersIn(ps, r) == {p \in ps : p.room = r}

\* Mutant: the entries are looked up by the id of the client.
EntriesOfPeer(s) == {p \in peers : p.id = Owner[s]}

EntriesOf(s) == {p \in peers : p.socket = s}
Others(ps, r, id) == {p.id : p \in PeersIn(ps, r)} \ {id}

TypeOK ==
    /\ rooms \subseteq RoomIds
    /\ peers \subseteq Peer
    /\ socketState \in [Sockets -> {"unused", "open", "lost", "closed"}]
    /\ known \in [Sockets -> [RoomIds -> SUBSET PeerIds]]

Init ==
    /\ rooms = {}
    /\ peers = {}
    /\ socketState = [s \in Sockets |-> "unused"]
    /\ known = [s \in Sockets |-> [r \in RoomIds |-> {}]]

----------------------------------------------------------------------------

Connect(s) ==
    /\ socketState[s] = "unused"
    /\ socketState' = [socketState EXCEPT ![s] = "open"]
    /\ UNCHANGED <<rooms, peers, known>>

\* The client is gone, and the server has not been told
Lose(s) ==
    /\ socketState[s] = "open"
    /\ socketState' = [socketState EXCEPT ![s] = "lost"]
    /\ UNCHANGED <<rooms, peers, known>>

\* broadcastToRoom: the open sockets the room lists
Reached(ps, r) == {p.socket : p \in {q \in PeersIn(ps, r) : socketState[q.socket] = "open"}}

\* What becomes of the lists of the clients in room r told of a change
Told(ps, r, exclude, Change(_)) ==
    LET receivers == {p.socket : p \in {q \in PeersIn(ps, r) : q.id # exclude}}
                        \cap Reached(ps, r)
    IN [s \in Sockets |->
            IF s \in receivers THEN [known[s] EXCEPT ![r] = Change(@)] ELSE known[s]]

\* Mutant: the peer is filed under its id.
RegisteredSwapped(s, r) ==
    {p \in peers : ~(p.room = r /\ p.id = Owner[s])}
        \cup {[room |-> Owner[s], id |-> r, socket |-> s]}

\* The peer of a room and id is set to the new socket, whatever socket it had before;
\* peerList goes to the socket and peerJoined to the others
Registered(s, r) ==
    {p \in peers : ~(p.room = r /\ p.id = Owner[s])}
        \cup {[room |-> r, id |-> Owner[s], socket |-> s]}

\* Mutant: the others are not told of a new peer.
AuthUnannounced(s, r) ==
    /\ socketState[s] = "open"
    /\ rooms' = rooms \cup {r}
    /\ peers' = Registered(s, r)
    /\ known' = [known EXCEPT ![s][r] = Others(peers', r, Owner[s])]
    /\ UNCHANGED socketState

HandleAuth(s, r) ==
    /\ socketState[s] = "open"
    /\ rooms' = rooms \cup {r}
    /\ peers' = Registered(s, r)
    /\ LET Add(ids) == ids \cup {Owner[s]}
           told == Told(peers', r, Owner[s], Add)
       IN known' = [told EXCEPT ![s][r] = Others(peers', r, Owner[s])]
    /\ UNCHANGED socketState

\* Mutant: an emptied room stays.
DisconnectKeepsRoom(s) ==
    /\ socketState[s] \in {"open", "lost"}
    /\ socketState' = [socketState EXCEPT ![s] = "closed"]
    /\ \/ /\ EntriesOf(s) = {}
          /\ UNCHANGED <<peers, known>>
       \/ \E gone \in EntriesOf(s) :
              /\ peers' = peers \ {gone}
              /\ LET Remove(ids) == ids \ {gone.id}
                 IN known' = Told(peers', gone.room, NoPeer, Remove)
    /\ UNCHANGED <<rooms>>

\* handleDisconnect removes the entry it found last among those with the socket, which of
\* several the order of the maps decides, and drops a room it emptied.
HandleDisconnect(s) ==
    /\ socketState[s] \in {"open", "lost"}
    /\ socketState' = [socketState EXCEPT ![s] = "closed"]
    /\ \/ /\ EntriesOf(s) = {}
          /\ UNCHANGED <<rooms, peers, known>>
       \/ \E gone \in EntriesOf(s) :
              /\ peers' = peers \ {gone}
              /\ rooms' = IF PeersIn(peers', gone.room) = {} THEN rooms \ {gone.room}
                          ELSE rooms
              /\ LET Remove(ids) == ids \ {gone.id}
                 IN known' = Told(peers', gone.room, NoPeer, Remove)

Next ==
    \E s \in Sockets :
        \/ Connect(s)
        \/ Lose(s)
        \/ HandleDisconnect(s)
        \/ \E r \in RoomIds : HandleAuth(s, r)

Spec == Init /\ [][Next]_vars

----------------------------------------------------------------------------
(* Properties *)

\* The rooms are exactly those with a peer: none is left behind empty and none is dropped
\* while another socket of the room, or of the same peer, is still listed in it.
RoomsMatchPeers == rooms = {p.room : p \in peers}

\* Every id is listed once in a room, with the socket that came last: the map that
\* handleDisconnect searches by socket is still one by id.
OneSocketPerPeer ==
    \A p, q \in peers : p.room = q.room /\ p.id = q.id => p = q

\* Both hold, over replaced sockets and sockets that are listed in several rooms.
RoomsSound == RoomsMatchPeers /\ OneSocketPerPeer

\* Whoever is listed in a room with an open socket knows all the other peers of the room
\* and nobody else, through joins, replaced sockets and disconnections of others.
KnownMatchesRoom ==
    \A p \in peers :
        socketState[p.socket] = "open" => known[p.socket][p.room] = Others(peers, p.room, p.id)

\* A peer leaves a room only by its own socket: the late close of the socket it has replaced
\* takes nothing away.
ReplacedSocketHarmless ==
    [][\A p \in peers :
           (p.id \notin Others(peers', p.room, NoPeer)) =>
               socketState[p.socket] # "closed" /\ socketState'[p.socket] = "closed"]_vars
=============================================================================
