SPECIFICATION Spec
CONSTANTS
    Ids = {c1, c2}
    Tasks = {t1, t2}
    AuthStep = 1
    AuthCap = 2
    LimitStep = 1
    LimitCap = 1
    MaxFactor = 2
    MaxFailures = 3
    MaxNow = 2
    NoCred = NoCred
    c1 = c1
    c2 = c2
    t1 = t1
    t2 = t2
SYMMETRY Symmetry
INVARIANTS
    TypeOK
    RetryAfterSuffices
PROPERTIES
    TakesTurns
    ImplementsPromise
    CoolingIsTold
