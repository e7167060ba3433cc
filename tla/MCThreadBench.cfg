\* Two threads, with four lines each: the least number at which two lines and their
\* successors are four different lines.  A cpu_set_t of six bits, an int of three, a
\* long of four.
SPECIFICATION Spec
CONSTANTS
    Multi = 2
    Options <- AllOptions
    Lines = 4
    MaxWork = 1
    CpuSetSize = 6
    IntBits = 3
    LongBits = 4
    Online = {0, 1}
INVARIANTS
    TypeOK
    RingKept
    MeasuresWholeRings
    AffinityPrinted
PROPERTIES
    ImplementsForkJoin
    Terminates
\* The process ends, or waits at a barrier for a thread that was never made.
CHECK_DEADLOCK FALSE
