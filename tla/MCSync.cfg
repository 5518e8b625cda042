SPECIFICATION FairSyncSpec
CONSTANTS
    Interval = 1
    Minute = 1
    Times <- MCTimes
    Vals = {partial, final}
    Partial = partial
    Final = final
    DiskMayFail = FALSE
    Listed = 3
    Holes = {}
    FirstNow = 5
    MaxNow = 7
    SeedBars = 3
    Batch = 3
    PageBars = 1
    Published = 2
    MaxFeed = 1
    MaxFaults = 2
INVARIANTS SyncTypeOK CacheIsCurrent FinalValuesStick
PROPERTIES ChartNeverGoesBack RepairedMeansConsistent BackfillEnds StopReturns
