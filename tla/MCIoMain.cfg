\* Up to two I/Os of two threads, whose lines in the log have one or two characters and
\* so have each other's remains around them, and dry runs of up to three threads and files.  A
\* cpu_set_t of eight bits, an int of four and a long of six leave the machine's CPUs
\* and nodes some way from their ends.
SPECIFICATION Spec
CONSTANTS
    Commands <- AllCommands
    Logicores = 4
    Nodes = 2
    CpuSetSize = 8
    IntBits = 4
    LongBits = 6
    Online = {0, 1, 2, 3}
    Root = TRUE
    HaveUring = TRUE
    SizeMax = 65536
    BufSize = 4
    LineLengths = {1, 2}
    MaxIO = 2
INVARIANTS
    TypeOK
    BoundAsDescribed
    NoStrayStore
    JsonWhole
    LoneLogWhole
PROPERTIES
    ImplementsForkJoin
    Terminates
\* The process ends.
CHECK_DEADLOCK FALSE
