CONSTANTS
    NoDwarf = NoDwarf
    Files <- MCFiles
SPECIFICATION Spec
INVARIANTS
    TypeOK
PROPERTIES
    AbsSpec
CHECK_DEADLOCK FALSE
