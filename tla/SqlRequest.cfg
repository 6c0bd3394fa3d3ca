CONSTANTS
    BusyTimeoutMs = 3
    MaxSqlTimeoutMs = 4
    AskedTimeouts <- Asked
    None = none
    MaxTime = 5
    MaxShifts = 1
SPECIFICATION Spec
INVARIANTS
    TypeOK
    LimitWithinBudget
    StatementInTime
    NoEarlyTimeout
    StatusTellsEffect
    ReadOnlyKept
