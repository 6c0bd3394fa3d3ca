CONSTANTS
    shell = shell
    taskA = taskA
    taskB = taskB
    Shells <- OneShell
    Tasks <- TwoTasks
    MaxCalls <- CallsEach
    Fleets <- Either
    None = None
    RefreshMargin = 1
    StaticTokens <- NoStaticToken
    MaxIssuedTokens = 1
    TokenTtl = 2
    MaxMinted = 3
    MaxClock = 3
    MaxRestarts = 1
SPECIFICATION ClientsSpec
INVARIANTS
    ClientsTypeOK
    ExecutedOnce
    RefusalExplained
    LoginsBounded
VIEW View
