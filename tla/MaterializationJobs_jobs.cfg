SPECIFICATION Spec
CONSTANTS
    api = api
    mcp = mcp
    a = a
    b = b
    Procs = {api, mcp}
    NumJobs = 2
    Sources = {a, b}
    Serving = {api}
    Cursored = {2}
    Reader = reader
    None = None
    MaxBreadth = 3
    MaxMishaps = 2
INVARIANTS TypeOK AloneUntilTorn
PROPERTY ForgottenOnlyBy
CHECK_DEADLOCK FALSE
SYMMETRY SourceSymmetry
