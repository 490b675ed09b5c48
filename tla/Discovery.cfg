SPECIFICATION MCSpec
CONSTANTS
    s1 = s1
    s2 = s2
    c1 = c1
    a = a
    b = b
    Scanners = {s1, s2}
    Controllers = {c1}
    N = 2
    FilesOf <- MCFilesOf
    batch_size = 1
    max_batches_per_cycle = 2
    Faults = {"crash", "tikv", "source", "lease"}
    MaxFaults = 2
INVARIANTS TypeOK ScannedIsCovered Findable
PROPERTIES ProgressKept SettlesWithController
