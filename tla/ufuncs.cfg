SPECIFICATION SessionSpec
CONSTANTS
    Arrays <- MCArrays
    Scalars <- MCScalars
    Given <- MCGiven
    MaxChars = 1
    MaxArgs = 3
INVARIANTS
    HoldsEvery
    AgreesWithResultType
    OperatorsAgree
    ComputesInALoop
    CastsObeyTheRule
