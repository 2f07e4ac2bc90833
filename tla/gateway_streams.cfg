SPECIFICATION Spec
CONSTANTS
    Tasks = {t1, t2}
    Creds = {c1}
    Slots <- OneEach
    NoCred = NoCred
    c1 = c1
    t1 = t1
    t2 = t2
    t3 = t3
INVARIANTS
    StreamsWithinSlots
