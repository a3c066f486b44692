CONSTANTS
    Inputs <- FarInputs
    IdBits = 16
    NameToSize <- MCNameToSize
    PointerBytes = 8
    FixupSilly = TRUE
    MaxDimensions = 2
SPECIFICATION Spec
INVARIANT NoCrash
CHECK_DEADLOCK FALSE
