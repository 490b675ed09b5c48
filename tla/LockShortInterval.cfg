SPECIFICATION Spec
CONSTANTS
    p1 = p1
    p2 = p2
    NoLock = NoLock
    Pods = {p1, p2}
    scan_interval <- MCShortInterval
    MinTTL = 2
    RenewEvery = 4
    MaxSkew = 0
    Skew <- MCSkew
    Steady = {p2}
    MaxLate = 1
INVARIANT NoSecondScanner
