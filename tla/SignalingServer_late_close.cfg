SPECIFICATION Spec
CONSTANTS
    r1 = r1
    r2 = r2
    u1 = u1
    u2 = u2
    s1 = s1
    s2 = s2
    RoomIds = {r1}
    UserIds = {u1}
    Sockets = {s1, s2}
    Named <- OneUser
    HttpClients = {}
    NoRoom = NoRoom
    PEER_HEARTBEAT_TIMEOUT = 1
    ROOM_INACTIVITY_TIMEOUT = 1
    TOKEN_EXPIRY = 1
    MaxTokens = 1
INVARIANT ConnectedPeerListed
