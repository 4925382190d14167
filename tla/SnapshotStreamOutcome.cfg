CONSTANTS
    MaxConns = 1
    MinPlayers = 1
    SendQueueDepth = 4
    HistoryLimit = 1
    MaxTick = 1
SPECIFICATION FairSpec
PROPERTY ClientSeesOutcome
CHECK_DEADLOCK FALSE
