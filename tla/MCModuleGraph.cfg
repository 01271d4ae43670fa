CONSTANTS
    Graphs <- MCGraphs
    Values = {1, 2}
    Missing = missing
    Unbound = unbound
SPECIFICATION GraphSpec
INVARIANTS CompiledNeverStarves PortsAdmitWhatTheyGet CompiledIsSealed
CHECK_DEADLOCK FALSE
