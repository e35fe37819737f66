SPECIFICATION Spec
CONSTANTS
    s1 = s1
    s2 = s2
    s3 = s3
    Missing = Missing
    Servers = {s1, s2}
    KeepNewest = 0
    CommitWindow = TRUE
    MaxClock = 2
    MaxStarts = 2
    MaxBeats = 1
    MaxActivity = 1
SYMMETRY Symmetric
INVARIANTS
    TypeOK
    StaleMeansExpired
PROPERTIES
    HeartbeatNotUndone
CHECK_DEADLOCK FALSE
