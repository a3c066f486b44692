CONSTANTS
    Inputs <- UnknownInputs
    IdBits = 16
    NameToSize <- MCNameToSize
    PointerBytes = 8
    FixupSilly = TRUE
    MaxDimensions = 2
SPECIFICATION Spec
INVARIANT OnlyCatastrophicAbort
CHECK_DEADLOCK FALSE
