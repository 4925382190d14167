CONSTANTS
    PlayerIDs = {p1}
    MaxMatchHistory = 2
    MaxMatches = 3
    MaxRuns = 2
    MaxTime = 1
SPECIFICATION StoreSpec
INVARIANTS
    StatsFollowHistory
    FileNeverTorn
    MemoryIsDurable
CHECK_DEADLOCK FALSE
