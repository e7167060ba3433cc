\* Two threads that set up one region of three lines
SPECIFICATION Spec
CONSTANTS
    Multi = 2
    Options <- SharedRegion
    Lines = 3
    MaxWork = 1
    CpuSetSize = 6
    IntBits = 3
    LongBits = 4
    Online = {0, 1}
INVARIANT
    RingCheckHolds
CHECK_DEADLOCK FALSE
