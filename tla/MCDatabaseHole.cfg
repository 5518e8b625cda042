SPECIFICATION Spec
CONSTANTS
    Minute = 1
    CacheSize = 2
    PageLimit = 2
    Warm = 2
    Extreme = 3
    MaxDelay = 2
    Interval = 1
    Listed = 1
    Holes = {}
    FirstNow = 2
    MaxNow = 4
    MaxFeed = 1
    MaxFaults = 0
    MaxBoots = 1
INVARIANT WarmupLeavesNoHole
CHECK_DEADLOCK FALSE
