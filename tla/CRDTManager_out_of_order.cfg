SPECIFICATION Spec
CONSTANTS
    a = a
    b = b
    PeerIds = {1, 2, 3}
    Texts <- Single
    InitialContent <- Nothing
    System = 9
    Causal = FALSE
    MaxOps = 2
    MaxImports = 0
CHECK_DEADLOCK FALSE
INVARIANT Converged
