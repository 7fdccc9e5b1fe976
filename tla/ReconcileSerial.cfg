SPECIFICATION SerialSpec
CONSTANTS
    f1 = f1
    f2 = f2
    s1 = s1
    s2 = s2
    u1 = u1
    Fingerprints <- TwoFindings
    Scans <- OneScan
    Users <- OneUser
    ResolveAfter = 2
    MaxChanges = 4
    MaxEdits = 2
    MaxFaults = 0
INVARIANTS
    SuppressedIsSilent
    ToldWhatIsStored
    ToldIdIsStored
    ResolvedWasMissing
PROPERTIES
    SuppressionKept
    ImplementsLedger
