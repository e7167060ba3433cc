\* One worker and two adjacent reads, either of which may fail.
SPECIFICATION Spec
CONSTANTS
    Multi = 1
    Verbose = FALSE
    Dumps <- AdjacentReads
    TargetSize = 2048
INVARIANT
    RightPlace
\* The process ends.
CHECK_DEADLOCK FALSE
