CONSTANTS
    r1 = r1
    r2 = r2
    r3 = r3
    m = m
    none = none
    Requests <- TwoRequests
    Main <- m
    PoolSize = 2
    StartupChecks = {FALSE}
    BackendFails = FALSE
    None <- none
SPECIFICATION Spec
INVARIANT
    HandlesExclusive
