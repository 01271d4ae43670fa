SPECIFICATION SubmissionSpec
CONSTANTS
    h1 = h1 h2 = h2 s1 = s1 s2 = s2 r1 = r1 r2 = r2
    Handlers = {h1, h2}
    Sessions = {s1, s2}
    Requests = {r1, r2}
    Capacity = 1
    Lifetime = 1
    CacheLifetime = 1
    MaxTokens = 2
    MaxClock = 2
    MaxRestarts = 1
SYMMETRY MCSymmetry
INVARIANTS TokenIsOneShot ArchivedIsRefused
CHECK_DEADLOCK FALSE
