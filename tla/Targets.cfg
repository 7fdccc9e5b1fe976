SPECIFICATION Spec
CONSTANTS
    d1 = d1
    d2 = d2
    d3 = d3
    w1 = w1
    w2 = w2
    w3 = w3
    bad = bad
    r1 = r1
    r2 = r2
    a1 = a1
    a2 = a2
    pro = pro
    team = team
    forged = forged
    none = none
    Invalid = Invalid
    NoRaw = NoRaw
    NoKey = none
    Domains <- ThreeDomains
    Raws <- Typed
    Canonical <- Canonicals
    Requests <- TwoRequests
    Admins <- OneAdmin
    Keys <- Posted
    Grants <- Granted
    MaxTargets <- Limits
SYMMETRY Alike
VIEW WithoutFileApart
INVARIANTS
    TypeOK
    RestartRestores
    LimitOvershoot
