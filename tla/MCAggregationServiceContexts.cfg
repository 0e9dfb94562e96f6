SPECIFICATION FairSpec
CONSTANTS
    U64 = 1000000
    c1 = c1
    c2 = c2
    t1 = t1
    t2 = t2
    NoTask = NoTask
    NoSig = NoSig
    Never = Never
    TaskId = {t1}
    Contexts <- Results
    MaxIndex = 2
    BitmapBits = 2
    Routes <- BothRoutes
    DefaultTtl = 1
    Retention = 1
    AutoCleanup = TRUE
    ManualCleanup <- NoCalls
    ValidateOutput = FALSE
    VerifyOnSubmit = TRUE
    MaxTime = 3
    MaxFaults = 3
INVARIANTS
    BitmapMatchesSignatures
    AggregateVerifies
PROPERTIES
    ContextIsStable
    TasksEventuallyForgotten
CHECK_DEADLOCK FALSE
