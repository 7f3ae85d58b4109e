SPECIFICATION FairSpec
CONSTANTS
    i1 = i1
    i2 = i2
    u1 = u1
    u2 = u2
    r1 = r1
    o1 = o1
    o2 = o2
    SessionIds = {i1, i2}
    UserIds = {u1, u2}
    RoomIds = {r1}
    Operations = {o1, o2}
    NoSession = NoSession
    SESSION_TIMEOUT = 0
    MAX_PENDING_OPERATIONS = 1
    MaxAdds = 2
INVARIANTS TypeOK IndexMatches PendingKept UnacknowledgedRecoverable
PROPERTY AbandonedReclaimed
