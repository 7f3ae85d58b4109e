--------------------------- MODULE MemoryManager ---------------------------
(***************************************************************************)
(* memoryManager.ts over the room table: every monitoring interval it      *)
(* reads the heap and cleans up when a threshold is passed, at once when   *)
(* it is critical, and not more often than the cooldown when it is only a  *)
(* warning.  The heap is what the process happens to use: it changes       *)
(* freely, between the three levels the thresholds tell apart.  The        *)
(* server, which starts and stops the monitor, is P2PServer.               *)
(***************************************************************************)
EXTENDS RoomManager

CONSTANT WARNING_COOLDOWN
ASSUME CooldownIsNat == WARNING_COOLDOWN \in Nat

VARIABLES
    heap,             \* heapUsed: "normal", "warning" or "critical"
    lastWarning,      \* age of lastWarningTime, one past the cooldown at most
    monitorInterval   \* is the monitoring timer set?

memoryVars == <<heap, lastWarning, monitorInterval>>

Level == {"normal", "warning", "critical"}
WarningAge == 0..WARNING_COOLDOWN + 1

\* lastWarningTime starts at 0, the beginning of the epoch
MemoryInit ==
    /\ heap = "normal"
    /\ lastWarning = WARNING_COOLDOWN + 1
    /\ monitorInterval = FALSE

MemoryTypeOK ==
    /\ heap \in Level
    /\ lastWarning \in WarningAge
    /\ monitorInterval \in BOOLEAN

\* Mutant: the host leaves every room, not only the empty ones.
EveryRoomLeft(rs) ==
    [r \in RoomIds |-> IF HasRoom(rs, r) THEN RoomLeft(rs, r, rs[r].hostId)[r] ELSE rs[r]]

\* For every empty room, leaveRoom for its host
EmptyRoomsLeft(rs) ==
    [r \in RoomIds |->
        IF HasRoom(rs, r) /\ rs[r].peerCount = 0 THEN RoomLeft(rs, r, rs[r].hostId)[r] ELSE rs[r]]

AggressiveCleanup(rs) == EmptyRoomsLeft(CleanedUp(rs))

CooledDown == lastWarning > WARNING_COOLDOWN

\* monitor(), called by the timer
Monitor ==
    /\ monitorInterval
    /\ \/ heap = "critical" /\ rooms' = AggressiveCleanup(rooms) /\ UNCHANGED lastWarning
       \/ heap = "warning" /\ CooledDown /\ rooms' = CleanedUp(rooms) /\ lastWarning' = 0
       \/ heap = "warning" /\ ~CooledDown /\ UNCHANGED <<rooms, lastWarning>>
       \/ heap = "normal" /\ UNCHANGED <<rooms, lastWarning>>
    /\ UNCHANGED <<heap, monitorInterval>>

HeapChanges ==
    /\ heap' \in Level
    /\ UNCHANGED <<rooms, lastWarning, monitorInterval>>

WarningAged == lastWarning' = IF CooledDown THEN lastWarning ELSE lastWarning + 1
=============================================================================
