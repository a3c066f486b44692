CONSTANTS
    Inputs <- ResolveInputs
    IdBits = 16
    NameToSize <- MCNameToSize
    PointerBytes = 8
    FixupSilly = TRUE
    MaxDimensions = 2
SPECIFICATION Spec
INVARIANTS
    TypeOK
    RefsResolved
    BitfieldWidth
    RecodedTypesShared
    OriginTypeCopied
    InlineOriginResolved
    ArrayShape
    ImportResolved
    CachedSizes
PROPERTIES
    TypesStable
CHECK_DEADLOCK FALSE
