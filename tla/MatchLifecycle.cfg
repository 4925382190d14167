CONSTANTS
    Players = {p1, p2, p3}
    Callers = {c1, c2}
    MinPlayers = 1
    MaxPlayers = 2
    MaxMatches = 2
    MaxTick = 1
SPECIFICATION FairSpec
INVARIANTS
    MappingExact
    NoOrphanLoop
PROPERTIES
    ServiceKept
    EndedLoopStops
    CallsReturn
CHECK_DEADLOCK FALSE
