SPECIFICATION FairSpec
CONSTANTS
    p1 = p1
    p2 = p2
    NoLock = NoLock
    Pods = {p1, p2}
    scan_interval <- MCScanInterval
    MinTTL = 2
    RenewEvery = 4
    MaxSkew = 1
    Skew <- MCSkew
    Steady = {p2}
    MaxLate = 1
INVARIANTS TypeOK LeaseBacked MutualExclusion LeaderKeepsLock
PROPERTY LeaderReturns
