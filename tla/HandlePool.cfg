CONSTANTS
    r1 = r1
    r2 = r2
    r3 = r3
    m = m
    none = none
    Requests <- ThreeRequests
    Main <- m
    PoolSize = 2
    StartupChecks = {TRUE, FALSE}
    BackendFails = TRUE
    None <- none
SPECIFICATION FairSpec
INVARIANTS
    TypeOK
    OpenedOnce
    NoLeakedHandle
PROPERTIES
    EveryRequestReturns
    CloseEnds
