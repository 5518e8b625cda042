SPECIFICATION Spec
CONSTANTS
    Interval = 2
    Minute = 2
    Times <- MCFaultTimes
    Vals = {v1}
    DiskMayFail = TRUE
INVARIANTS StrictlyIncreasing DiskWithinMemory
