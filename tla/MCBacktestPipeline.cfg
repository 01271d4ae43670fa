SPECIFICATION Spec
CONSTANTS
    DataKeys <- MCDataKeys
    Types = {"int", "str"}
    Designs <- MCDesigns
    Temporaries <- MCTemporaries
    MaxCycles = 2
INVARIANTS
    FrozenCompositionBinds
    ComposedNeverStarves
    ResultIsAsDeclared
    StagesReadOneCycle
