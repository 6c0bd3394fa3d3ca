CONSTANTS
    r1 = r1
    r2 = r2
    r3 = r3
    Requests <- OneRequest
    Main = main
    Waker = waker
    None = none
    PoolSize = 1
    StartupChecks = {TRUE}
    BackendFails = FALSE
    MaxConcurrent = 2
    Impatient = FALSE
SPECIFICATION ServerSpec
INVARIANT
    AuthNotUsedAfterFree
