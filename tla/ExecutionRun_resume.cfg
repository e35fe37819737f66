SPECIFICATION Spec
CONSTANTS
    h1 = h1
    h2 = h2
    e1 = e1
    e2 = e2
    o1 = o1
    NoLease = NoLease
    NumSteps = 2
    DependsOn <- Parallel
    Hosts = {h1}
    Executors = {e1}
    Operators = {o1}
    HostOf <- OneExecutor
    InitialStatuses = {"runnable", "blocked"}
    BrowserBacked = FALSE
    CommitWindow = TRUE
    MaxLate = 0
    MaxCrashes = 0
    MaxBeats = 1
    MaxControls = 2
    MaxRevision = 6
INVARIANTS
    OnlyPausedStepsResume
    SuccessIsComplete
