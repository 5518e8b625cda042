SPECIFICATION Spec
CONSTANTS
    Interval = 2
    Minute = 1
    Times <- MCTimes
    Vals = {v1, v2}
    DiskMayFail = FALSE
INVARIANTS TypeOK SeriesContiguous OnlyTailOpen ResumePointIsDurable GapAnswerIsExact
PROPERTIES FollowedCandlesAreFinal ImplementsCandleLog
