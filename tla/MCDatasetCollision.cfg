SPECIFICATION Spec
CONSTANTS
    j1 = j1 j2 = j2 w1 = w1 w2 = w2 c1 = c1 c2 = c2
    Jobs = {j1, j2}
    Workspaces = {w1, w2}
    Contents = {c1}
    Writes <- Alike
    Internal = {w1}
    MaxFaults = 0
    MaxCrashes = 0
INVARIANTS IndexedIsSealed
CHECK_DEADLOCK FALSE
