CONSTANTS
    UlebBytes = 4
    PlusUconst <- MCPlusUconst
    Constu <- MCConstu
    Exprs <- MCExprs
SPECIFICATION Spec
INVARIANT
    ExprOffsetAsSpec
