SPECIFICATION FairSpec
CONSTANTS
    t1 = t1
    t2 = t2
    outer = outer
    inner = inner
    huge = huge
    late = late
    none = none
    Task = {t1}
    JobOf <- StallJobs
    Archive = {outer, inner, huge, late}
    NoArchive = none
    Contents <- MCContents
    Kind <- MCKind
    Readable = {outer, inner, huge, late}
    Bytes <- MCBytes
    MaxDepth = 2
    MaxNested = 2
    MaxLive = 2
    MaxTotal = 5
    MaxRatio = 2
    RecordCap = 2
    LookAhead = 2
    MaxBytes = 4
    ByteRange = 16
    DrainMax = 2
    FilesPerCommit = 2
    MaxSessions = 1
    MaxControls = 1
    MaxFaults = 1
PROPERTIES
    TaskSettles
