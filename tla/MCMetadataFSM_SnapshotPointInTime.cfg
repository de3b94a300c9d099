CONSTANTS
    s1 = s1
    r1 = r1
    r2 = r2
    Streams <- MCStreams
    PartitionIds = {0}
    PauseIds = {0, 1}
    Replicas <- MCReplicas
    InitialLeader = r1
    LogRecovery = FALSE
    MaxLog = 4
    MaxRestarts = 1
    NoSnapshot = NoSnapshot
    NoApply = NoApply

SPECIFICATION Spec


CHECK_DEADLOCK FALSE
INVARIANT SnapshotPointInTime
