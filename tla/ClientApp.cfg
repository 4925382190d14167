CONSTANTS
    Bounds <- MCBounds
    Keys = {"move", "act"}
    SendQueueDepth = 1
    HistoryLimit = 2
    PendingLimit = 2
    ResultSlots = 1
    PreferredMatch = FALSE
SPECIFICATION Spec
INVARIANTS
    NoDoubleStep
    SeqsFresh
    NoSessionLeak
PROPERTIES
    ConnectingEnds
    ConnectionsKept
