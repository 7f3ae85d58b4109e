----------------------------- MODULE P2PServer -----------------------------
(***************************************************************************)
(* p2pServer.ts and index.ts: the life of the process, from main() to      *)
(* process.exit, around the room manager and the memory manager.           *)
(*                                                                         *)
(* The WebSocket server is the one of the ws library: close() refuses new  *)
(* connections, leaves the open ones alone and reports only when the last  *)
(* of them is gone.  The HTTP server is never closed; that it cannot listen *)
(* is an event nobody handles, which ends the process.  Until the process  *)
(* exits, then, requests and messages change the rooms and the timers      *)
(* fire; the rooms' methods are called as in RoomManager.                  *)
(***************************************************************************)
EXTENDS MemoryManager

CONSTANT MaxClients   \* bound of the model: open WebSocket connections

ASSUME MaxClientsIsNat == MaxClients \in Nat

VARIABLES
    phase,             \* "booted", "running", "stopping" (stop() waits), "exited"
    http,              \* the HTTP server: "off", "starting", "listening"
    signaling,         \* the WebSocket server: "off", "starting", "listening",
                       \* "failed", "closing"
    connections        \* how many connections are open

lifeVars == <<phase, http, signaling, connections>>
processVars == <<roomVars, memoryVars, lifeVars>>

ProcessTypeOK ==
    /\ RoomsTypeOK
    /\ MemoryTypeOK
    /\ phase \in {"booted", "running", "stopping", "exited"}
    /\ http \in {"off", "starting", "listening"}
    /\ signaling \in {"off", "starting", "listening", "failed", "closing"}
    /\ connections \in 0..MaxClients

\* The room manager's timer is set when its module is loaded
ProcessInit ==
    /\ RoomsInit
    /\ MemoryInit
    /\ phase = "booted"
    /\ http = "off"
    /\ signaling = "off"
    /\ connections = 0

Alive == phase \in {"running", "stopping"}

\* start() has resolved before either server listens, or fails to
Start ==
    /\ phase = "booted"
    /\ phase' = "running"
    /\ http' = "starting"
    /\ signaling' = "starting"
    /\ monitorInterval' = TRUE
    /\ UNCHANGED <<roomVars, heap, lastWarning, connections>>

\* The HTTP server listens, or its 'error' event, which has no listener, ends the process
HttpListening ==
    /\ Alive /\ http = "starting"
    /\ \/ http' = "listening" /\ UNCHANGED <<phase, connections>>
       \/ phase' = "exited" /\ connections' = 0 /\ UNCHANGED http
    /\ UNCHANGED <<roomVars, memoryVars, signaling>>

Listening ==
    /\ Alive /\ signaling = "starting"
    /\ signaling' \in {"listening", "failed"}
    /\ UNCHANGED <<roomVars, memoryVars, phase, http, connections>>

\* Mutant: connections are accepted while the server closes.
ConnectWhileClosing ==
    /\ Alive /\ signaling \in {"listening", "closing"}
    /\ connections < MaxClients
    /\ connections' = connections + 1
    /\ UNCHANGED <<roomVars, memoryVars, phase, http, signaling>>

ClientConnects ==
    /\ Alive /\ signaling = "listening"
    /\ connections < MaxClients
    /\ connections' = connections + 1
    /\ UNCHANGED <<roomVars, memoryVars, phase, http, signaling>>

\* A connection ends; if it was authenticated its user leaves the room
ClientDisconnects ==
    /\ connections > 0
    /\ connections' = connections - 1
    /\ \/ UNCHANGED roomVars
       \/ \E r \in RoomIds, u \in UserIds : LeaveRoom(r, u)
    /\ UNCHANGED <<memoryVars, phase, http, signaling>>

\* Mutant: the timers are stopped before the wait.
StopTimersFirst ==
    /\ Alive
    /\ phase' = "stopping"
    /\ signaling' = "closing"
    /\ monitorInterval' = FALSE
    /\ UNCHANGED <<roomVars, heap, lastWarning, http, connections>>

\* SIGTERM or SIGINT, also the second of them: isRunning = false, and wss.close
Stop ==
    /\ Alive
    /\ phase' = "stopping"
    /\ signaling' = "closing"
    /\ UNCHANGED <<roomVars, memoryVars, http, connections>>

\* The WebSocket server reports that it is closed
Closed == signaling = "closing" /\ connections = 0

\* The first stop() that waits goes on to process.exit
Stopped ==
    /\ phase = "stopping" /\ Closed
    /\ monitorInterval' = FALSE
    /\ Shutdown
    /\ phase' = "exited"
    /\ UNCHANGED <<heap, lastWarning, http, signaling, connections>>

\* An HTTP request or a WebSocket message
Request ==
    /\ Alive
    /\ http = "listening" \/ connections > 0
    /\ \/ \E r \in RoomIds, u \in UserIds :
              \/ CreateRoom(r, u)
              \/ JoinRoom(r, u)
              \/ LeaveRoom(r, u)
              \/ UpdatePeerHeartbeat(r, u)
       \/ \E r \in RoomIds : BroadcastToRoom(r)
       \/ http = "listening" /\ RoomsCleanup
    /\ UNCHANGED <<memoryVars, lifeVars>>

TimedCleanup ==
    /\ phase # "exited"
    /\ RoomsTimedCleanup
    /\ UNCHANGED <<memoryVars, lifeVars>>

TimedMonitor ==
    /\ Alive
    /\ Monitor
    /\ UNCHANGED <<cleanupInterval, lifeVars>>

Garbage ==
    /\ Alive
    /\ HeapChanges
    /\ UNCHANGED <<cleanupInterval, lifeVars>>

ProcessTick ==
    /\ Alive
    /\ RoomsTick
    /\ WarningAged
    /\ UNCHANGED <<heap, monitorInterval, lifeVars>>

ProcessNext ==
    \/ Start \/ HttpListening \/ Listening \/ ClientConnects \/ ClientDisconnects \/ Stop \/ Stopped
    \/ Request \/ TimedCleanup \/ TimedMonitor \/ Garbage \/ ProcessTick

ProcessSpec == ProcessInit /\ [][ProcessNext]_processVars

\* Time passes, setInterval keeps calling monitor() and the close of the WebSocket server is
\* reported.  Nothing is assumed of clients or of the room manager's own timer.
ProcessFairSpec ==
    /\ ProcessSpec
    /\ WF_processVars(ProcessTick) /\ WF_processVars(TimedMonitor) /\ WF_processVars(Stopped)

----------------------------------------------------------------------------
(* Properties *)

\* No cleanup under memory pressure costs a live peer its place, the aggressive one with its
\* leaveRoom for hosts included, and the server adds nothing: whatever happens to the rooms
\* is a step of the room manager.
ProcessDrivesRoomManager == RoomsSpec

\* While the heap stays above a threshold no silent peer stays for ever, from start() to
\* the exit: the cooldown delays the next cleanup and does not starve it, and clients that
\* keep stop() waiting do not keep the monitor from its work.
PressureRemovesSilent ==
    \A r \in RoomIds, u \in UserIds :
        []<>(\/ ~Alive
             \/ heap = "normal"
             \/ u \notin Members(rooms, r)
             \/ u \in FreshMembers(rooms, r))

\* Once stop() is called and the clients are gone the process exits, whether the WebSocket
\* server ever listened and however often stop() is called (p2pServer.ts:112-113).
StopEnds == (phase = "stopping" /\ connections = 0) ~> (phase = "exited")
=============================================================================
