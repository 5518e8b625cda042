SPECIFICATION FairSpec
CONSTANTS
    Minute = 1
    CacheSize = 2
    PageLimit = 2
    Warm = 2
    Extreme = 3
    MaxDelay = 2
    Interval = 1
    Listed = 1
    Holes = {3}
    FirstNow = 2
    MaxNow = 4
    MaxFeed = 1
    MaxFaults = 1
    MaxBoots = 2
INVARIANTS TypeOK CacheIsOrdered CacheIsBacked LimitsCoverCache SummariesMatchHistory LightIsTrue
PROPERTIES NothingIsForgotten WarmupEnds Reconnects
CHECK_DEADLOCK FALSE
