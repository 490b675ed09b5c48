SPECIFICATION Spec
CONSTANTS
    Workers = {w1, w2, w3}
    Counts = {1, 2}
    PerChunk = 2
    U32 = 3
    MaxAttempts = 2
    NoCounter = NoCounter
SYMMETRY Symmetry
INVARIANTS TypeOK NoIndexTwice ChunksFit IInv
PROPERTY ImplementsDispenser
