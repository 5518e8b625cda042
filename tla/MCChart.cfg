SPECIFICATION FairSpec
CONSTANTS
    MinBars = 2
    MaxBars = 4
    DefaultVisible = 3
    Margin = 0
    Batch = 3
    Period = 2
    PublishCandles = 3
    FetchLimit = 4
    MinDrawn = 2
    Widths <- CanvasWidths
    Stored <- StoredSeries
    MaxTime = 4
    FirstTime = 3
    MaxRev = 2
    MaxPan = 2
    MaxInputs = 1
    MaxJobs = 1
INVARIANTS TypeOK ViewInSeries DrawnIsTheView
PROPERTIES FollowsOrStays DrawnNeverGoesBack CatchesUpOnInput EmaSettles
CHECK_DEADLOCK FALSE
