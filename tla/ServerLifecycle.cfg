CONSTANTS
    r1 = r1
    r2 = r2
    r3 = r3
    Requests <- ThreeRequests
    Main = main
    Waker = waker
    None = none
    PoolSize = 2
    StartupChecks = {TRUE}
    BackendFails = TRUE
    MaxConcurrent = 2
    Impatient = TRUE
SYMMETRY RequestSymmetry
SPECIFICATION ServerSpec
INVARIANTS
    ServerTypeOK
    ActiveCountExact
    AdapterAtRest
    NobodyWaitsForHandle
PROPERTIES
    ImplementsPool
    ImplementsExclusiveHandles
