-------------------------- MODULE SignalingServer --------------------------
(***************************************************************************)
(* signalingServer.ts with the room manager, the token manager and the     *)
(* HTTP routes that change rooms, and the WebSocket clients around it.      *)
(*                                                                         *)
(* A handler runs to completion, so each is one action.  A socket is used  *)
(* once: it connects, may be lost (the client or the network is gone but   *)
(* the server has not been told), and closes.  A client keeps the list of  *)
(* peers it was told of; messages to an open socket arrive in order, and   *)
(* the model looks at the list once they have arrived.                     *)
(*                                                                         *)
(* A message names a user and a room of its own, and the handlers act on   *)
(* those: only the heartbeat and the close take them from the client entry *)
(* that handleAuth stored.  The relays (chat, code changes, SDP, ICE) and  *)
(* the pings change nothing on the server and are left out.                *)
(***************************************************************************)
EXTENDS RoomManager

CONSTANTS
    Sockets,
    TOKEN_EXPIRY,
    MaxTokens,      \* bound of the model: tokens at any time
    Named,          \* bound of the model: the <<user, room>> the requests of each client name
    HttpClients     \* bound of the model: the clients that also use the HTTP routes

ASSUME ExpiryIsNat == TOKEN_EXPIRY \in Nat
ASSUME NamedArePairs == Named \in [Sockets -> SUBSET (UserIds \X RoomIds)]

VARIABLES
    validTokens,  \* the auth manager's tokens
    clients,      \* Map<WebSocket, ClientInfo>: {} or one entry for each socket
    socketState,  \* "unused", "open", "lost" or "closed"
    view,         \* the peers each client was told of: {} or one record
    admitted,     \* history: <<user, room>> of every token issued and of every user
                  \* listed through HTTP, which asks for no token
    mixed         \* history: the rooms in which somebody acted for another user or without
                  \* having authenticated for them, or a user was connected twice

Auth == INSTANCE AuthManager

history == <<admitted, mixed>>
vars == <<rooms, cleanupInterval, validTokens, clients, socketState, view, admitted, mixed>>

ClientInfo == [userId : UserIds, roomId : RoomIds]

\* What a client knows of its room
View == [roomId : RoomIds, peers : SUBSET UserIds]

\* Client maps and views are sets with at most one element
Some(x) == {x}
None == {}

Authenticated(s) == clients[s] # None
InRoom(s, r) == \E c \in clients[s] : c.roomId = r
Speaks(s, u, r) == [userId |-> u, roomId |-> r] \in clients[s]
Connected(u, r) == \E s \in Sockets : socketState[s] = "open" /\ Speaks(s, u, r)

TypeOK ==
    /\ rooms \in RoomTable
    /\ cleanupInterval \in BOOLEAN
    /\ validTokens \subseteq Auth!AuthToken
    /\ clients \in [Sockets -> SUBSET ClientInfo]
    /\ socketState \in [Sockets -> {"unused", "open", "lost", "closed"}]
    /\ view \in [Sockets -> SUBSET View]
    /\ admitted \subseteq UserIds \X RoomIds
    /\ mixed \subseteq RoomIds
    /\ \A s \in Sockets : Cardinality(clients[s]) <= 1 /\ Cardinality(view[s]) <= 1

Init ==
    /\ RoomsInit
    /\ Auth!Init
    /\ clients = [s \in Sockets |-> None]
    /\ socketState = [s \in Sockets |-> "unused"]
    /\ view = [s \in Sockets |-> None]
    /\ admitted = {}
    /\ mixed = {}

----------------------------------------------------------------------------
(* Messages to the clients *)

\* broadcastToRoom and send: every authenticated socket of the room that is open
Receivers(r) == {s \in Sockets : InRoom(s, r) /\ socketState[s] = "open"}

\* A client told of a peer that joined or left its room updates its list
Told(views, r, Change(_)) ==
    [s \in Sockets |->
        IF s \in Receivers(r)
        THEN {IF v.roomId = r THEN [v EXCEPT !.peers = Change(@)] ELSE v : v \in views[s]}
        ELSE views[s]]

PeerLeft(views, r, u) == LET Remove(peers) == peers \ {u} IN Told(views, r, Remove)

\* Nobody is told that the members of some rooms changed: a list that this made wrong is
\* no longer looked at
Untold(views, rs, newRs) ==
    [s \in Sockets |-> {v \in views[s] : Members(rs, v.roomId) = Members(newRs, v.roomId)}]

\* The answer that carries the whole room
Listed(views, s, r, peers) ==
    [views EXCEPT ![s] = Some([roomId |-> r, peers |-> peers])]

----------------------------------------------------------------------------
(* Connections *)

Connect(s) ==
    /\ socketState[s] = "unused"
    /\ socketState' = [socketState EXCEPT ![s] = "open"]
    /\ UNCHANGED <<roomVars, validTokens, clients, view, history>>

\* The client is gone without a word: readyState stays OPEN on the server
Lose(s) ==
    /\ socketState[s] = "open"
    /\ socketState' = [socketState EXCEPT ![s] = "lost"]
    /\ view' = [view EXCEPT ![s] = None]
    /\ UNCHANGED <<roomVars, validTokens, clients, history>>

\* Mutant: the room goes with the host who opened it.
CloseEndsHosted(s) ==
    /\ socketState[s] \in {"open", "lost"}
    /\ socketState' = [socketState EXCEPT ![s] = "closed"]
    /\ clients' = [clients EXCEPT ![s] = None]
    /\ \/ /\ ~Authenticated(s)
          /\ view' = [view EXCEPT ![s] = None]
          /\ UNCHANGED roomVars
       \/ \E c \in clients[s] :
              /\ rooms' = IF HasRoom(rooms, c.roomId) /\ rooms[c.roomId].hostId = c.userId
                          THEN [rooms EXCEPT ![c.roomId] = NoRoom]
                          ELSE RoomLeft(rooms, c.roomId, c.userId)
              /\ UNCHANGED cleanupInterval
              /\ view' = [PeerLeft(view, c.roomId, c.userId) EXCEPT ![s] = None]
    /\ UNCHANGED <<validTokens, history>>

\* The 'close' event: handleClientDisconnect, then clients.delete
Close(s) ==
    /\ socketState[s] \in {"open", "lost"}
    /\ socketState' = [socketState EXCEPT ![s] = "closed"]
    /\ clients' = [clients EXCEPT ![s] = None]
    /\ \/ /\ ~Authenticated(s)
          /\ view' = [view EXCEPT ![s] = None]
          /\ UNCHANGED roomVars
       \/ \E c \in clients[s] :
              /\ LeaveRoom(c.roomId, c.userId)
              /\ view' = [PeerLeft(view, c.roomId, c.userId) EXCEPT ![s] = None]
    /\ UNCHANGED <<validTokens, history>>

----------------------------------------------------------------------------
(* Handlers of routeMessage *)

\* handleAuth with a token of the map, for the user and the room the message names: on
\* success the entry of the socket is replaced, and nothing else is done about an earlier
\* one.  A client that is somebody else or in another room now forgets its list.  A token
\* the map does not hold is refused and changes nothing.
HandleAuth(s, u, r, t) ==
    /\ socketState[s] = "open"
    /\ Auth!ValidateCredentials(u, r, t)
    /\ \/ /\ Auth!Valid(u, r, t)
          /\ clients' = [clients EXCEPT ![s] = Some([userId |-> u, roomId |-> r])]
          /\ view' = IF Speaks(s, u, r) THEN view ELSE [view EXCEPT ![s] = None]
          /\ mixed' = IF \E o \in Sockets \ {s} : socketState[o] = "open" /\ Speaks(o, u, r)
                      THEN mixed \cup {r} ELSE mixed
       \/ /\ ~Auth!Valid(u, r, t)
          /\ UNCHANGED <<clients, view, mixed>>
    /\ UNCHANGED <<roomVars, socketState, admitted>>

\* Mutant: the creator is told of a new room even if it was there before.
CreateAlwaysAnswered(s, u, r) ==
    /\ CreateRoom(r, u)
    /\ view' = Listed(view, s, r, {u})

HandleCreateRoom(s, u, r) ==
    /\ CreateRoom(r, u)
    /\ view' = IF HasRoom(rooms, r) THEN view ELSE Listed(view, s, r, {u})

\* The room to the new peer, and PEER_JOINED to the room if anybody else is in it
HandleJoinRoom(s, u, r) ==
    /\ JoinRoom(r, u)
    /\ LET peers == Members(rooms', r)
           Add(known) == known \cup {u}
           told == IF peers \ {u} # {} THEN Told(view, r, Add) ELSE view
       IN view' = IF HasRoom(rooms, r) THEN Listed(told, s, r, peers) ELSE view

\* A client that leaves its own room forgets the list
HandleLeaveRoom(s, u, r) ==
    /\ LeaveRoom(r, u)
    /\ LET told == PeerLeft(view, r, u)
       IN view' = IF Speaks(s, u, r) THEN [told EXCEPT ![s] = None] ELSE told

\* A message about a room, from any client that has authenticated
HandleMessage(s, u, r) ==
    /\ socketState[s] = "open" /\ Authenticated(s)
    /\ \/ HandleCreateRoom(s, u, r)
       \/ HandleJoinRoom(s, u, r)
       \/ HandleLeaveRoom(s, u, r)
    /\ mixed' = IF Speaks(s, u, r) THEN mixed ELSE mixed \cup {r}
    /\ UNCHANGED <<validTokens, clients, socketState, admitted>>

\* The one message whose user and room are those of the entry
HandleHeartbeat(s) ==
    /\ socketState[s] = "open"
    /\ \E c \in clients[s] : UpdatePeerHeartbeat(c.roomId, c.userId)
    /\ UNCHANGED <<validTokens, clients, socketState, view, history>>

----------------------------------------------------------------------------
(* HTTP routes, timers and time *)

GenerateToken(u, r) ==
    /\ Auth!GenerateToken(u, r)
    /\ admitted' = admitted \cup {<<u, r>>}
    /\ UNCHANGED <<roomVars, clients, socketState, view, mixed>>

\* POST /rooms, /rooms/:id/join and /rooms/:id/leave call the room manager and tell nobody
HttpRoom(u, r) ==
    /\ \/ (CreateRoom(r, u) \/ JoinRoom(r, u)) /\ admitted' = admitted \cup {<<u, r>>}
       \/ LeaveRoom(r, u) /\ UNCHANGED admitted
    /\ view' = Untold(view, rooms, rooms')
    /\ UNCHANGED <<validTokens, clients, socketState, mixed>>

\* The cleanup timer, and POST /maintenance/cleanup: peerLeft and roomClosed are emitted
\* but nothing listens to them
Cleanup ==
    /\ RoomsCleanup
    /\ view' = Untold(view, rooms, rooms')
    /\ UNCHANGED <<validTokens, clients, socketState, history>>

Tick ==
    /\ RoomsTick
    /\ Auth!Tick
    /\ UNCHANGED <<clients, socketState, view, history>>

Next ==
    \/ \E s \in Sockets :
           \/ Connect(s) \/ Lose(s) \/ Close(s) \/ HandleHeartbeat(s)
           \/ \E u \in UserIds, r \in RoomIds :
                  /\ <<u, r>> \in Named[s]
                  /\ \/ \E t \in validTokens : HandleAuth(s, u, r, t)
                     \/ HandleMessage(s, u, r)
                     \/ GenerateToken(u, r)
                     \/ s \in HttpClients /\ HttpRoom(u, r)
    \/ Cleanup
    \/ Tick

Spec == Init /\ [][Next]_vars

\* Time passes and the cleanup timer fires; no client need do anything
FairSpec == Spec /\ WF_vars(Tick) /\ WF_vars(Cleanup)

----------------------------------------------------------------------------
(* Properties *)

\* Nobody is listed in a room without a token for it, as long as those who act there act
\* in the name they authenticated with: whatever happens in other rooms, on re-used sockets
\* and with expired tokens, auth and joins of several clients let nobody else in.  A user
\* listed through HTTP, which asks for no token, counts as admitted.
MembersAuthorized ==
    \A r \in RoomIds \ mixed : \A u \in Members(rooms, r) : <<u, r>> \in admitted

\* A token whose hour is not over survives every use of it, by any user and for any room,
\* successful or not: only time takes it away, so a client may come back with it.
LiveTokenStep ==
    \A t \in validTokens :
        ~Auth!Expired(t) => t \in validTokens' \/ Auth!OlderToken(t) \in validTokens'

LiveTokenKept == [][LiveTokenStep]_vars

\* The list of a client is the membership of its room, if its user is a member and nobody
\* came or went without a message: joins are announced to those present, leaves and closed
\* connections to those who stay, and no announcement is missed in between.  It is said of
\* rooms in which everybody acts in the name and for the room they authenticated with, on
\* one connection each: a client that joins another room gets its list and never its
\* announcements (signalingServer.ts:468), and a join is announced only if somebody of
\* another name is there, so of a user who leaves and joins again alone the user's other
\* connection is not told.
ViewsAgree ==
    \A s \in Sockets : \A v \in view[s], c \in clients[s] :
        v.roomId \notin mixed /\ c.userId \in Members(rooms, v.roomId)
            => v.peers = Members(rooms, v.roomId)

\* In such a room, a user whose heartbeat is in time is taken out only by the close or the
\* leave of a connection that authenticated as this user for this room, or through HTTP: no
\* message about another room, no close of a socket that has moved on or of another user,
\* and no cleanup does it.
LiveMemberStep ==
    TimeoutsOrdered =>
        \A r \in RoomIds \ mixed', u \in UserIds :
            u \in FreshMembers(rooms, r) /\ u \notin Members(rooms', r)
                => \/ \E s \in Sockets : Speaks(s, u, r) /\ (Close(s) \/ HandleMessage(s, u, r))
                   \/ HttpRoom(u, r)

LiveMemberStays == [][LiveMemberStep]_vars

\* A user does not stay listed in a room for ever without an open connection for it: the
\* close event that never comes and the room a socket has changed from are made good by the
\* heartbeat timeout, whoever else keeps the room busy.
GhostPeerRemoved ==
    \A r \in RoomIds, u \in UserIds :
        []<>(u \notin Members(rooms, r) \/ Connected(u, r))

----------------------------------------------------------------------------
(* What the documentation says *)

\* BACKEND_OVERVIEW.md:295, peer info stays "Until peer disconnects": a client that was
\* listed and is still connected to its room is still listed, unless it fell silent.
ConnectedPeerListed ==
    \A s \in Sockets : \A v \in view[s], c \in clients[s] :
        v.roomId \notin mixed => c.userId \in Members(rooms, v.roomId)

\* CHANGES.md:212, "Users can only join authorized rooms": whoever is listed in a room was
\* given a token for it.
OnlyAuthorizedEnter ==
    \A r \in RoomIds : \A u \in Members(rooms, r) : <<u, r>> \in admitted
=============================================================================
