SPECIFICATION FairSpec
CONSTANTS
    NumRuns = 4
    Batch <- ThreeChildren
    Browser <- Everyone
    NumMembers = 2
    OneShotAgent = 0
    None = None
    RecoverRuns = 2
    BatchLimit = 1
    BatchRate = 1
    TenantLimit = 2
    HourLimit = 3
    Minute = 0
    Hour = 1
    MaxCrashes = 1
    MaxCancels = 1
INVARIANTS TypeOK TenantLimitHolds HourLimitHolds BatchLeasesBounded BatchRateHolds BalancedDispatch
PROPERTIES EveryRunEnds ImplementsQuota
CHECK_DEADLOCK FALSE
