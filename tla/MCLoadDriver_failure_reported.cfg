CONSTANTS
    NoDwarf = NoDwarf
    Files <- MCFiles
SPECIFICATION Spec
INVARIANT
    FailureReported
CHECK_DEADLOCK FALSE
