SPECIFICATION FairSpec
CONSTANTS
    r1 = r1
    r2 = r2
    r3 = r3
    j1 = j1
    j2 = j2
    p1 = p1
    p2 = p2
    p3 = p3
    c1 = c1
    n1 = n1
    None = None
    Requests = {r1, r2, r3}
    Jobs = {j1, j2}
    Payments = {p1, p2, p3}
    Callers = {c1}
    Nonces = {n1}
    challenge_ttl_secs = 1
    quote_ttl_secs = 1
    PAYER_CACHE_TTL = 2
    Fractions = {1}
    MaxClock = 2
    Scenarios <- MC_Scenarios
CHECK_DEADLOCK FALSE
INVARIANTS
    TypeOK
    JobsArePaid
    CallersHavePaid
    NoPayerLeftBehind
    NoncesStayTaken
PROPERTY PaidRequestsEnd
