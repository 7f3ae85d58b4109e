SPECIFICATION Spec
CONSTANTS
    p1 = p1
    p2 = p2
    p3 = p3
    s1 = s1
    s2 = s2
    s3 = s3
    s4 = s4
    NoPeer = NoPeer
    RoomIds = {r1, r2}
    PeerIds = {p1, p2, p3}
    Sockets = {s1, s2, s3, s4}
    Owner <- ThreePeers
CHECK_DEADLOCK FALSE
INVARIANTS TypeOK RoomsSound KnownMatchesRoom
PROPERTY ReplacedSocketHarmless
