SPECIFICATION Spec
CONSTANTS
    f1 = f1
    f2 = f2
    s1 = s1
    s2 = s2
    u1 = u1
    Fingerprints <- OneFinding
    Scans <- OneScan
    Users <- OneUser
    ResolveAfter = 1
    MaxChanges = 1
    MaxEdits = 1
    MaxFaults = 0
PROPERTY
    SuppressionKept
