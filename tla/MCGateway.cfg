SPECIFICATION FairSpec
CONSTANTS
    Interval = 1
    RestMaxLimit = 2
    MaxRetries = 1
    Listed = 1
    Holes = {5}
    FirstNow = 4
    MaxNow = 6
    MaxAttempts = 2
    LongOutages = FALSE
    Limits = {0, 1, 3}
    MaxFaults = 3
    Files <- MCFiles
    Numbers = {"800"}
    Narrow = {"7"}
    Switches = {"on", "off"}
    Levels = {"trace", "info"}
    ArgumentLists <- MCArgumentLists
    Environments <- MCEnvironments
INVARIANTS TypeOK AnswerIsPrefix CleanAnswerIsComplete OneChain NeverDead ConfigPrecedence
PROPERTIES FetchReturns SessionSettles
CHECK_DEADLOCK FALSE
