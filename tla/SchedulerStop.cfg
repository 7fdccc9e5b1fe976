SPECIFICATION Spec
CONSTANTS
    t1 = t1
    j1 = j1
    j2 = j2
    a1 = a1
    c1 = c1
    Targets <- OneTarget
    Jobs <- TwoJobs
    Adders <- OneAdder
    Calls <- OneCall
    Workers = 1
    RetryBase = 2
    RetryMax = 3
    MaxFailures = 2
INVARIANT
    StopWaitsForScans
