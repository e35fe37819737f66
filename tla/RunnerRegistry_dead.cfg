SPECIFICATION FairSpec
CONSTANTS
    s1 = s1
    s2 = s2
    s3 = s3
    Missing = Missing
    Servers = {s1, s2}
    KeepNewest = 1
    CommitWindow = FALSE
    MaxClock = 2
    MaxStarts = 2
    MaxBeats = 1
    MaxActivity = 0
PROPERTIES
    DeadRunnersGoStale
CHECK_DEADLOCK FALSE
