CONSTANTS
    Volumes <- MCVolumes
    Threshold = 2
    MaxInputs = 2
    MaxLog = 4
    MaxStops = 2
    MaxTorn = 1
    MaxDamage = 1
SPECIFICATION FairSpec
INVARIANT
    DiskSuffices
PROPERTIES
    KeepsTable
    BacklogCleared
CHECK_DEADLOCK FALSE
