SPECIFICATION LiveSpec
CONSTANTS
    Keys = {k1}
    Models = {m1}
    Tasks = {t1, t2}
    MaxSessions = 1
    IdleHours = 1
    SplitKeys = {}
    RateLimits = TRUE
    MaxClock = 2
    MaxCreates = 2
    MaxLocks = 3
    NoBinding = NoBinding
    NoKey = NoKey
    k1 = k1
    m1 = m1
    t1 = t1
    t2 = t2
PROPERTIES
    RequestsEnd
    IdleSessionsRemoved
