SPECIFICATION FairSpec
CONSTANTS
    s1 = s1
    s2 = s2
    b1 = b1
    b2 = b2
    v1 = v1
    v2 = v2
    None = None
    Services = {s1, s2}
    Blueprints = {b1, b2}
    BlueprintOf <- MC_BlueprintOf
    Versions = {v1, v2}
    Sha <- MC_Sha
    Attested = {v1}
    allow_unchecked = FALSE
    SIGNALS = 1
    SWAPS = 2
    Scenarios <- MC_Scenarios
INVARIANTS
    TypeOK
    NobodyWaitsForever
    SwapsAreConsented
    UnackedSwapsAreGated
    PinsFireOnce
PROPERTY OutdatedWasMissed
