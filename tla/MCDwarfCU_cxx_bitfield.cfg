CONSTANTS
    Inputs <- CxxInputs
    IdBits = 16
    NameToSize <- MCNameToSize
    PointerBytes = 8
    FixupSilly = TRUE
    MaxDimensions = 2
SPECIFICATION Spec
INVARIANT BitfieldWidth
CHECK_DEADLOCK FALSE
