SPECIFICATION FairSpec
CONSTANTS
    Units = {u1}
    Controllers = {c1}
    Scanners = {s1}
    Finalizers = {f1}
    Clients = {k1}
    BackoffLimit = 0
    MaxFaults = 0
    Faults = {"timeout"}
    NoStatus = NoStatus
INVARIANT IndexLeads
PROPERTY BatchSettles
