SPECIFICATION FairSpec
CONSTANTS
    a = a
    b = b
    PeerIds = {1, 2, 3}
    Texts <- Pair
    InitialContent <- Nothing
    System = 9
    Causal = TRUE
    MaxOps = 3
    MaxImports = 1
CHECK_DEADLOCK FALSE
INVARIANTS TypeOK Converged DocumentSound
PROPERTY EventuallyAgree
