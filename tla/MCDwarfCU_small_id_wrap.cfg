CONSTANTS
    Inputs <- WrapInputs
    IdBits = 3
    NameToSize <- MCNameToSize
    PointerBytes = 8
    FixupSilly = TRUE
    MaxDimensions = 2
SPECIFICATION Spec
INVARIANT RefsResolved
CHECK_DEADLOCK FALSE
