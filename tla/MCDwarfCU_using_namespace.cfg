CONSTANTS
    Inputs <- UsingNamespaceInputs
    IdBits = 16
    NameToSize <- MCNameToSize
    PointerBytes = 8
    FixupSilly = TRUE
    MaxDimensions = 2
SPECIFICATION Spec
INVARIANT ImportResolved
CHECK_DEADLOCK FALSE
