SPECIFICATION FairPSpec
CONSTANTS
    f1 = f1
    s1 = s1
    s2 = s2
    Fingerprints <- OneFinding
    Channels <- OneChannel
    Settings <- AnySettings
    Scans <- TwoScans
    MaxBatch = 2
    Retries = 2
    MaxCalls = 3
\* the process ends when Close returns
CHECK_DEADLOCK FALSE
INVARIANTS
    TypeOK
    WindowIsTimed
    Conservation
    CloseDrains
    ToldAfterwards
    ReceivedFits
PROPERTIES
    StoredSettles
    ShutdownEnds
