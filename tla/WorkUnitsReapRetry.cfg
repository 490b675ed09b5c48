SPECIFICATION FairSpec
CONSTANTS
    w1 = w1
    w2 = w2
    r1 = r1
    None = None
    Units = {1}
    Workers = {w1, w2}
    Reapers = {r1}
    MaxAttempts = 2
    MaxJobs = 1
    MaxReclaims = 1
    MaxScan = 1
    Mortal = {w1}
    Faults = {}
PROPERTIES FailedIsRetried
CHECK_DEADLOCK FALSE
