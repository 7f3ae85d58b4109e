SPECIFICATION FairSpec
CONSTANTS
    r1 = r1
    r2 = r2
    u1 = u1
    u2 = u2
    s1 = s1
    s2 = s2
    RoomIds = {r1, r2}
    UserIds = {u1, u2}
    Sockets = {s1, s2}
    Named <- OneRoams
    HttpClients = {s2}
    NoRoom = NoRoom
    PEER_HEARTBEAT_TIMEOUT = 0
    ROOM_INACTIVITY_TIMEOUT = 0
    TOKEN_EXPIRY = 0
    MaxTokens = 1
INVARIANTS TypeOK MembersAuthorized ViewsAgree
PROPERTIES LiveTokenKept LiveMemberStays GhostPeerRemoved
