SPECIFICATION Spec
CONSTANTS
    One = 10000
    Scores = {4, 13, 21, 2916, 3078, 5400, 5404, 10000}
    Lasts = {0, 1, 2}
    MaxLen = 3
    PaidSurfaces <- Paid
    FreeSurfaces <- Free
    SurfaceProvider <- Providers
    FreeUntil <- Windows
    Rudder = "th-rudder"
    NoProvider = NoProvider
    NoName = NoName
    NoToken = NoToken
    Undecodable = Undecodable
    Tokens = {k1, k2}
    MaxPairs = 3
INVARIANTS
    PickFromTheRightGroup
    NearlyTheHealthiest
    LongestUnusedOfEquals
    ResolvedIsServed
    NeverPaidUnasked
    SpellingsAgree
    FormsAgree
    RefreshGoesOn
CHECK_DEADLOCK FALSE
