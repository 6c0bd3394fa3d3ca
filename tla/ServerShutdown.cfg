CONSTANTS
    r1 = r1
    r2 = r2
    r3 = r3
    Requests <- TwoRequests
    Main = main
    Waker = waker
    None = none
    PoolSize = 2
    StartupChecks = {TRUE, FALSE}
    BackendFails = TRUE
    MaxConcurrent = 2
    Impatient = TRUE
SPECIFICATION FairServerSpec
PROPERTIES
    ShutdownEnds
    EveryConnectionAnswered
