CONSTANTS
    w1 = w1
    w2 = w2
    w3 = w3
    Waiters <- MCWaiters
    MaxBytes = 2
    LogRollTime = FALSE
    MaxOffset = 4
    MaxBatch = 2
    MaxTruncates = 1
SYMMETRY ReaderSymmetry
SPECIFICATION Spec
PROPERTY LEOWaitBlocks
