SPECIFICATION SyncSpec
CONSTANTS
    Interval = 1
    Minute = 1
    Times <- MCTimes
    Vals = {partial, final}
    Partial = partial
    Final = final
    DiskMayFail = FALSE
    Listed = 2
    Holes = {}
    FirstNow = 4
    MaxNow = 5
    SeedBars = 3
    Batch = 2
    PageBars = 1
    Published = 2
    MaxFeed = 1
    MaxFaults = 0
INVARIANTS LiveServesOlderHistory
