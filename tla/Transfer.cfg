SPECIFICATION Spec
CONSTANTS
    a = a
    b = b
    Vault = {a, b}
    Start <- MCStart
    Task <- MCTask
    SuffixNames <- MCSuffixNames
    Batch = 2
    MaxFaults = 2
    MaxCrashes = 1
    MaxJobs = 2
INVARIANTS
    TypeOK
    NothingLost
    TallyIsTrue
CHECK_DEADLOCK FALSE
