SPECIFICATION FairSpec
CONSTANTS
    U64 = 1000000
    a = a
    b = b
    NoTask = NoTask
    NoResult = NoResult
    Operators <- Two
    Services = 2
    Outputs = {a, b}
    TaskThreshold <- CountTwo
    Stakes <- Unit
    WaitForThreshold = TRUE
    SubmitToChain <- Two
    FaultKinds <- AllFaults
    MaxFaults = 2
INVARIANTS
    TypeOK
    ChainResultIsAgreed
    OkMeansCompleted
PROPERTIES
    ResultReachesChain
