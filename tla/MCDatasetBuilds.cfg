SPECIFICATION LiveSpec
CONSTANTS
    j1 = j1 j2 = j2 w1 = w1 w2 = w2 c1 = c1 c2 = c2
    Jobs = {j1, j2}
    Workspaces = {w1, w2}
    Contents = {c1, c2}
    Writes <- Distinct
    Internal = {w1}
    MaxFaults = 1
    MaxCrashes = 1
INVARIANTS CompletedHasVersion WriterOwnsScratch IndexedIsSealed
PROPERTIES InterruptedIsDecided
CHECK_DEADLOCK FALSE
