CONSTANTS
    c1 = c1
    c2 = c2
    c3 = c3
    p1 = p1
    p2 = p2
    p3 = p3
    None = None
    Conns = {c1, c2, c3}
    Players = {p1, p2, p3}
    Requests <- MCRequests
    MinPlayers = 2
    MaxPlayers = 2
    MaxMatches = 3
    MaxJoins = 3
SYMMETRY Exchange
SPECIFICATION Spec
INVARIANTS
    BindingsAgree
    PresenceExact
    OneOpenLobby
CHECK_DEADLOCK FALSE
