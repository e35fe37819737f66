SPECIFICATION Spec
CONSTANTS
    NumRuns = 3
    Batch <- OneShotFirst
    Browser <- Everyone
    NumMembers = 2
    OneShotAgent = 0
    None = None
    RecoverRuns = 3
    BatchLimit = 1
    BatchRate = 2
    TenantLimit = 2
    HourLimit = 2
    Minute = 0
    Hour = 1
    MaxCrashes = 1
    MaxCancels = 1
INVARIANT BatchLimitHolds
CHECK_DEADLOCK FALSE
