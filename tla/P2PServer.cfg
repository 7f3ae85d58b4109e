SPECIFICATION ProcessFairSpec
CONSTANTS
    r1 = r1
    u1 = u1
    u2 = u2
    RoomIds = {r1}
    UserIds = {u1, u2}
    NoRoom = NoRoom
    PEER_HEARTBEAT_TIMEOUT = 1
    ROOM_INACTIVITY_TIMEOUT = 2
    WARNING_COOLDOWN = 1
    MaxClients = 2
CHECK_DEADLOCK FALSE
PROPERTIES ProcessDrivesRoomManager PressureRemovesSilent StopEnds
