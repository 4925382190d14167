CONSTANTS
    Players = {p1, p2}
    MaxAcceptedCommandsPerPlayerPerTick = 1
    MaxClientSeq = 3
    MaxIngress = 3
    MaxTick = 6
SPECIFICATION FairSpec
INVARIANTS
    NoStrandedInput
    ProcessedAtMostOnce
    ReplayReproducesRun
PROPERTY AcceptedIsApplied
CHECK_DEADLOCK FALSE
