SPECIFICATION FairSpec
CONSTANTS
    j1 = j1 j2 = j2 w1 = w1 w2 = w2 r1 = r1
    Jobs = {j1, j2}
    Enabled = {j1}
    Workers = {w1, w2}
    Refills = {r1}
    End = 2
    Overlap = 1
    MaxPages = 2
    MaxCalls = 1
    MaxExits = 1
    MaxFaults = 1
INVARIANTS EvidenceIsComplete
PROPERTIES NoRequestIsLost PauseIsHonoured RefillIsServed
