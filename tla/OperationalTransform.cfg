SPECIFICATION Spec
CONSTANTS
    PeerIds = {1, 2}
    InitialContent <- Initial
    Ack = Ack
    MaxOps = 3
INVARIANTS TypeOK Converged HistorySound
