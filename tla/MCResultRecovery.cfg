SPECIFICATION Spec
CONSTANTS
    MaxSamples = 3
    MaxTime = 2
    CustomIds = {2}
    Limits = {0, 1}
    FlushAt = 2
    PipeBound = 2
    MaxFaults = 1
    MaxShards = 2
    MaxDamage = 1
    MaxRecoveries = 1
    MaxTasks = 2
INVARIANTS
    ReleaseAfterQuiet
PROPERTIES
    PublishedIsComplete
    VerdictIsSequential
    RecoveredIsSound
CHECK_DEADLOCK FALSE
