SPECIFICATION SearchSpec
CONSTANTS
    None = None
    Raised = Raised
    NaN = NaN
    Omitted = Omitted
    Width = 2
    Block = 4
    Cutoff = 2
    Depth = 0
    MaxCalls = 1
    Shapes <- MCShapes
    Exhausted <- MCExhausted
INVARIANTS
    TypeOK
    FlagsSayTheOrder
    ExtentIsTight
PROPERTIES
    ReshapeCopiesOnlyIfMust
    ResultsKeepOrder
    WritesStayInside
    ImplementsSetValues
CHECK_DEADLOCK FALSE
