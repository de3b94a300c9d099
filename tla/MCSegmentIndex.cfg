CONSTANTS
    MaxEntries = 4
    Timestamps = {1, 2, 3}
    ClockStamped = TRUE
SPECIFICATION Spec
INVARIANT TypeOK
INVARIANT FindsFirstAtLeast
\* A lookup ends: its final state has no successor.
CHECK_DEADLOCK FALSE
