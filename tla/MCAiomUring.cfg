\* The io_uring engine alone, one or two rounds.
SPECIFICATION Spec
CONSTANTS
    Options <- OnlyUring
    NrEvents = 2
    Garbage = {0}
    NULL = NULL
    ThreadId = 0
    MaxIO = 3
PROPERTY
    Terminates
\* The process ends.
CHECK_DEADLOCK FALSE
