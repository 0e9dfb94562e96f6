SPECIFICATION Spec
CONSTANTS
    U64 = 1000000
    c1 = c1
    c2 = c2
    NoTask = NoTask
    NoSig = NoSig
    Never = Never
    t1 = t1
    t2 = t2
    TaskId = {t1, t2}
    Contexts <- OneOfTwo
    MaxIndex = 1
    BitmapBits = 2
    Routes <- BothRoutes
    DefaultTtl = 1
    Retention = 2
    AutoCleanup = TRUE
    ManualCleanup <- AllAndSubmitted
    ValidateOutput = TRUE
    VerifyOnSubmit = TRUE
    MaxTime = 4
    MaxFaults = 2
SYMMETRY TaskSymmetry
INVARIANTS
    TypeOK
    StoreMatchesMemory
    AckedSurvives
    SubmittedIsFinal
PROPERTIES
    SubmittedStaysObservable
    MutationsAreAtomic
CHECK_DEADLOCK FALSE
