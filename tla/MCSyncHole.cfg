SPECIFICATION FairSyncSpec
CONSTANTS
    Interval = 1
    Minute = 1
    Times <- MCTimes
    Vals = {partial, final}
    Partial = partial
    Final = final
    DiskMayFail = FALSE
    Listed = 2
    Holes = {3}
    FirstNow = 4
    MaxNow = 5
    SeedBars = 2
    Batch = 3
    PageBars = 1
    Published = 3
    MaxFeed = 1
    MaxFaults = 0
PROPERTIES BackfillEnds
