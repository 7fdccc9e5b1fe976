SPECIFICATION FairSpec
CONSTANTS
    f1 = f1
    f2 = f2
    s1 = s1
    s2 = s2
    u1 = u1
    Fingerprints <- TwoFindings
    Scans <- OneScan
    Users <- OneUser
    ResolveAfter = 1
    MaxChanges = 1
    MaxEdits = 0
    MaxFaults = 1
PROPERTY
    EveryOpenIsTold
