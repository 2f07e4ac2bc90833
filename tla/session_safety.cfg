SPECIFICATION Spec
CONSTANTS
    Keys = {k1, k2}
    Models = {m1, m2}
    Tasks = {t1, t2}
    MaxSessions = 1
    IdleHours = 1
    SplitKeys = {k2}
    RateLimits = TRUE
    MaxClock = 2
    MaxCreates = 2
    MaxLocks = 3
    NoBinding = NoBinding
    NoKey = NoKey
    k1 = k1
    k2 = k2
    m1 = m1
    m2 = m2
    t1 = t1
    t2 = t2
SYMMETRY SplitSymmetry
INVARIANTS
    TypeOK
    ThreadIsolation
    LimitedSessionGone
PROPERTY
    ImplementsOwnership
