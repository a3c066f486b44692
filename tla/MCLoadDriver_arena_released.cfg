CONSTANTS
    NoDwarf = NoDwarf
    Files <- MCFiles
SPECIFICATION Spec
INVARIANT
    ArenaReleased
CHECK_DEADLOCK FALSE
