SPECIFICATION Spec
CONSTANTS
    Half = 8
    Seeds = {1, 2}
    Period = 5
    Stream <- MCStream
    Tries = 6
    Large = 4
    Cutoff = 2
    CutoffPlain = 2
    Hrua = 10
    Objs = {1, 2}
    None = None
    Dtypes <- MCDtypes
    Ranges <- MCRanges
    Counts = {0, 3}
    Drop = 4
    DropHalf = 2
    Populations <- MCPopulations
    Weights <- MCWeights
    Urns <- MCUrns
    MaxCalls = 4
INVARIANTS ReplaysStream IntegersFollowStream Uniform SamplesAreFair WeightedAreDistinct UrnsAddUp
CHECK_DEADLOCK FALSE
