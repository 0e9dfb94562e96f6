SPECIFICATION Spec
CONSTANTS
    p1 = p1
    p2 = p2
    p3 = p3
    a = a
    b = b
    Nobody = Nobody
    NoResult = NoResult
    Peers = {p1, p2, p3}
    Faulty = {}
    Messages = {a, b}
    LocalMessages <- AllSame
    Aggregators <- Selected
    threshold_type = "StakeWeighted"
    threshold_bps = 7500
    operator_weights <- Uneven
    FaultyMessages <- NoMessages
    MaxFaultyMessages = 0
INVARIANTS
    AggregatesWhenMet
CHECK_DEADLOCK FALSE
