SPECIFICATION Spec
CONSTANTS
    Units = {u1, u2}
    Controllers = {c1}
    Scanners = {s1}
    Finalizers = {f1}
    Clients = {k1}
    BackoffLimit = 0
    MaxFaults = 0
    Faults = {}
    NoStatus = NoStatus
PROPERTY MergeAfterAllDone
