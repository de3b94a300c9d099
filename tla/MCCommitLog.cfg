CONSTANTS
    w1 = w1
    w2 = w2
    w3 = w3
    Waiters <- MCWaiters3
    MaxBytes = 3
    LogRollTime = FALSE
    MaxOffset = 7
    MaxBatch = 2
    MaxTruncates = 0
SYMMETRY ReaderSymmetry3
SPECIFICATION Spec
INVARIANT TypeOK
INVARIANT NoLostWakeup
INVARIANT SegmentsContiguous
PROPERTY WakeMeansProgress
