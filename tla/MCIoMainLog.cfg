\* Two threads that write one log: two I/Os and two lengths of a line are enough.
SPECIFICATION Spec
CONSTANTS
    Commands <- Logged
    Logicores = 4
    Nodes = 2
    CpuSetSize = 8
    IntBits = 4
    LongBits = 6
    Online = {0, 1, 2, 3}
    Root = TRUE
    HaveUring = TRUE
    SizeMax = 65536
    BufSize = 4
    LineLengths = {1, 2}
    MaxIO = 2
INVARIANT
    EachActivityRecorded
CHECK_DEADLOCK FALSE
