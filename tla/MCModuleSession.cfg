CONSTANTS
    Slots = {s1}
    Good = {g1, g2}
    Bad = bad
    Nothing = nothing
    MaxCalls = 4
    MaxHandles = 2
    MaxStray = 1
SPECIFICATION Spec
INVARIANTS AnswerIsItsOwn ReuseIsCurrent CloseIsHonest
CHECK_DEADLOCK FALSE
