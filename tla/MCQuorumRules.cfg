SPECIFICATION Spec
CONSTANTS
    U64 = 1000000
    MaxOperators = 3
    Weights <- SmallWeights
    BpsValues <- Boundaries
INVARIANTS
    ThresholdIsExact
    EveryoneIsEnough
    RequiredIsLeast
PROPERTIES
    MetIsStable
CHECK_DEADLOCK FALSE
