SPECIFICATION FairSpec
CONSTANTS
    t1 = t1
    u1 = u1
    u2 = u2
    c1 = c1
    c2 = c2
    Tokens = {t1}
    UserIds = {u1, u2}
    TokenUser <- OneToken
    Calls = {c1, c2}
    TOKEN_EXPIRY = 3
    VALIDATION_CACHE_TTL = 2
INVARIANTS TypeOK RevocationHonoured ExpiryHonoured
PROPERTIES LiveRowKept StaleEntryReclaimed
