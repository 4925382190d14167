CONSTANTS
    Players = {p1}
    Callers = {c1, c2}
    MinPlayers = 1
    MaxPlayers = 1
    MaxMatches = 1
    MaxTick = 1
SPECIFICATION Spec
INVARIANT NoPanic
CHECK_DEADLOCK FALSE
