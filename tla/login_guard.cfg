SPECIFICATION Spec
CONSTANTS
    Tasks = {t1, t2}
    Window = 30
    MaxLock = 60
    TTL = 20
    MaxNow = 34
    NoEntry = NoEntry
    t1 = t1
    t2 = t2
SYMMETRY Symmetry
INVARIANTS
    TypeOK
    FailuresPerWindow
PROPERTIES
    LockKeptInWindow
