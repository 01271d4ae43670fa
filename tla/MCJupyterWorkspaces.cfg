CONSTANTS
    Openers = {o1, o2}
    Guards = {g1}
    Stoppers = {s1}
    Nobody = nobody
    MaxRecords = 2
SPECIFICATION Spec
INVARIANTS EveryServerHasItsAuthority GuardedWorkspaceIsQuiet ShutdownIsFinal
CHECK_DEADLOCK FALSE
