CONSTANTS
    Players <- MCPlayers
    Assignment <- MCAssignment
    MaxHearts = 2
    DefaultLives = 2
    ArmorHearts = 1
    MorphineHearts = 2
    Damages = {1, 2}
    GuardDamage = 2
    DayTicks = 2
    NightTicks = 1
    MaxCycles = 2
    TickRate = 1
    StunTicks = 1
    AlarmTicks = 2
    GuardInterval = 1
    MaxCommands = 3
    MaxTick = 8
SPECIFICATION FairSpec
INVARIANTS
    OneLeader
    PhaseFollowsClock
    NoCauseOutlivesTick
PROPERTIES
    EliminationIsFinal
    MatchEnds
    SuccessionInTime
CHECK_DEADLOCK FALSE
