SPECIFICATION RoomsFairSpec
CONSTANTS
    r1 = r1
    r2 = r2
    u1 = u1
    u2 = u2
    RoomIds = {r1, r2}
    UserIds = {u1, u2}
    NoRoom = NoRoom
    PEER_HEARTBEAT_TIMEOUT = 1
    ROOM_INACTIVITY_TIMEOUT = 2
INVARIANTS RoomsTypeOK MembershipSound
PROPERTIES LivePeerKept ImplementsLease SilentPeerRemoved UntouchedRoomReclaimed
