SPECIFICATION FairSpec
CONSTANTS
    f1 = f1
    f2 = f2
    s1 = s1
    s2 = s2
    u1 = u1
    Fingerprints <- OneFinding
    Scans <- TwoScans
    Users <- OneUser
    ResolveAfter = 2
    MaxChanges = 3
    MaxEdits = 1
    MaxFaults = 1
INVARIANTS
    TypeOK
    ResolvedIsSettled
PROPERTIES
    KeepsIdentity
    EventuallyAgrees
