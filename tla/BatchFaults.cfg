SPECIFICATION Spec
CONSTANTS
    Units = {u1}
    Controllers = {c1}
    Scanners = {s1}
    Finalizers = {f1}
    Clients = {k1}
    BackoffLimit = 0
    MaxFaults = 1
    Faults = {"crash", "cancel", "resubmit", "unit", "merge", "tikv"}
    NoStatus = NoStatus
INVARIANTS TypeOK CountsFit CompleteWasMerged MergedOnce
PROPERTY PhaseSteps
