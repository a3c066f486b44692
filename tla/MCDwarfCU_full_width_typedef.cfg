CONSTANTS
    Inputs <- FullWidthInputs
    IdBits = 16
    NameToSize <- MCNameToSize
    PointerBytes = 8
    FixupSilly = TRUE
    MaxDimensions = 2
SPECIFICATION Spec
INVARIANT BitfieldQualifiersKept
CHECK_DEADLOCK FALSE
