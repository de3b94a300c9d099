CONSTANTS
    w1 = w1
    w2 = w2
    w3 = w3
    Waiters <- MCWaiters
    MaxBytes = 2
    LogRollTime = TRUE
    MaxOffset = 4
    MaxBatch = 2
    MaxTruncates = 1
SPECIFICATION Spec
SYMMETRY ReaderSymmetry
INVARIANT SegmentsContiguous
PROPERTY ImplementsAbstractLog
