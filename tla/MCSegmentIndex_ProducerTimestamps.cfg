CONSTANTS
    MaxEntries = 4
    Timestamps = {1, 2, 3}
    ClockStamped = FALSE
SPECIFICATION Spec
INVARIANT FindsFirstAtLeast
\* A lookup ends: its final state has no successor.
CHECK_DEADLOCK FALSE
