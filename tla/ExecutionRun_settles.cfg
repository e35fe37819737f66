SPECIFICATION FairSpec
CONSTANTS
    h1 = h1
    h2 = h2
    e1 = e1
    e2 = e2
    o1 = o1
    NoLease = NoLease
    NumSteps = 2
    DependsOn <- Chain
    Hosts = {h1}
    Executors = {e1}
    Operators = {o1}
    HostOf <- OneExecutor
    InitialStatuses = {"planned"}
    BrowserBacked = TRUE
    CommitWindow = FALSE
    MaxLate = 0
    MaxCrashes = 2
    MaxBeats = 1
    MaxControls = 2
    MaxRevision = 100
PROPERTIES
    EveryRunSettles
    NoLeaseIsStuck
    ImplementsLifecycle
    OutcomesAreFinal
