SPECIFICATION Spec
CONSTANTS
    p1 = p1
    p2 = p2
    p3 = p3
    a = a
    b = b
    Nobody = Nobody
    NoResult = NoResult
    Peers = {p1, p2, p3}
    Faulty = {p3}
    Messages = {a, b}
    LocalMessages <- SplitOrSame
    Aggregators <- Selected
    threshold_type = "StakeWeighted"
    threshold_bps = 7500
    operator_weights <- Uneven
    FaultyMessages <- AnyMessage
    MaxFaultyMessages = 2
INVARIANTS
    TypeOK
    ResultIsBacked
    Agreement
    AccusedWereFramed
CHECK_DEADLOCK FALSE
