SPECIFICATION Spec
CONSTANTS
    MAX_CHECKPOINTS = 2
    DaysToKeep = 1
    Nothing = Nothing
    MaxOps = 2
    MaxTime = 3
    MaxLoads = 2
INVARIANTS TypeOK InOrder
PROPERTIES HistoryKept PollsAdvance
