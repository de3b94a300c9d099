CONSTANTS
    Bases = {0, 1}
    MaxSegs = 6
    MaxFaults = 2

SPECIFICATION Spec

INVARIANT ReplaceAllOrNothing

CHECK_DEADLOCK FALSE
