SPECIFICATION Spec
CONSTANTS
    f1 = f1
    f2 = f2
    s1 = s1
    s2 = s2
    u1 = u1
    Fingerprints <- OneFinding
    Scans <- TwoScans
    Users <- OneUser
    ResolveAfter = 1
    MaxChanges = 1
    MaxEdits = 0
    MaxFaults = 0
INVARIANT
    ToldIdIsStored
