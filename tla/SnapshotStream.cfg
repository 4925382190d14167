CONSTANTS
    MaxConns = 1
    MinPlayers = 1
    SendQueueDepth = 2
    HistoryLimit = 1
    MaxTick = 2
SPECIFICATION FairSpec
INVARIANTS
    CursorSkipsNothing
    CleanClientIsExact
PROPERTIES
    DeltasInOrder
    CleanClientCatchesUp
CHECK_DEADLOCK FALSE
