CONSTANTS
    Players <- MCPlayers
    Assignment <- MCAssignment
    MaxHearts = 2
    DefaultLives = 2
    ArmorHearts = 1
    MorphineHearts = 2
    Damages = {1, 2}
    GuardDamage = 2
    DayTicks = 2
    NightTicks = 1
    MaxCycles = 2
    TickRate = 1
    StunTicks = 1
    AlarmTicks = 2
    GuardInterval = 1
    MaxCommands = 2
    MaxTick = 8
SPECIFICATION Spec
INVARIANT EscapeEndsMatch
CHECK_DEADLOCK FALSE
