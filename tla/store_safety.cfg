SPECIFICATION Spec
CONSTANTS
    Ids = {i1, i2, i3}
    Chains = {c1, c2}
    Configured = {c1}
    Tabs = {c1}
    Workers = {w1, w2}
    Events = {"delete", "lost answer", "failed save", "disconnect", "crash"}
    MaxGen = 2
    MaxTrades = 3
    NoToken = NoToken
    NoHand = NoHand
    Torn = Torn
    i1 = i1
    i2 = i2
    i3 = i3
    c1 = c1
    c2 = c2
    w1 = w1
    w2 = w2
SYMMETRY Symmetry
INVARIANTS
    TypeOK
    TradedTokenIsNew
    QuietFileCurrent
PROPERTIES
    ChainsStayAlive
