\* Two workers, so that one can be slow while the other takes the rest; five
\* records at most.
SPECIFICATION Spec
CONSTANTS
    Multi = 2
    Verbose = TRUE
    Dumps <- SmallDumps
    TargetSize = 2048
INVARIANTS
    TypeOK
    ReplayedOnce
    StopsComeLast
    RightPlaceWithoutError
PROPERTY
    Terminates
\* The process ends.
CHECK_DEADLOCK FALSE
