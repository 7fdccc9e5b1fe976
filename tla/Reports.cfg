SPECIFICATION Spec
CONSTANTS
    d1 = d1
    d2 = d2
    old = old
    week = week
    again = again
    other = other
    u1 = u1
    s1 = s1
    s2 = s2
    bad = bad
    NotAReport = bad
    Domains = {d1, d2}
    Registered = {d1}
    Reports <- Mailed
    Content <- Mail
    Batches <- Posted
    Uploads = {u1}
    Scans = {s1, s2}
    Days = {397, 400}
    MaxFaults = 1
SYMMETRY TwoScans
INVARIANTS
    TypeOK
    CountedOnce
    RescanFollows
PROPERTIES
    SourceFindingsHold
    TotalsAreExact
