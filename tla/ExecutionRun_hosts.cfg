SPECIFICATION Spec
CONSTANTS
    h1 = h1
    h2 = h2
    e1 = e1
    e2 = e2
    o1 = o1
    NoLease = NoLease
    NumSteps = 2
    DependsOn <- Parallel
    Hosts = {h1, h2}
    Executors = {e1, e2}
    Operators = {o1}
    HostOf <- TwoHosts
    InitialStatuses = {"planned"}
    BrowserBacked = FALSE
    CommitWindow = FALSE
    MaxLate = 1
    MaxCrashes = 0
    MaxBeats = 0
    MaxControls = 1
    MaxRevision = 100
INVARIANTS
    TypeOK
    RunStatusHonest
    OneStepAtATime
    ChoiceStands
    NoFailureBeside
PROPERTIES
    ImplementsLifecycle
    CancelWins
    OutcomesAreFinal
    LiveLeaseIsKept
