SPECIFICATION Spec
CONSTANTS
    DataKeys <- MCDataKeys
    Types = {"int", "str"}
    Designs <- MCOptionalLast
    Temporaries <- MCTemporaries
    MaxCycles = 2
INVARIANT
    EntryProofHolds
