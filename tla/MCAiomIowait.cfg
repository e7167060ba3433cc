\* The libaio engine, with what malloc may leave in a fresh AIO manager.
SPECIFICATION Spec
CONSTANTS
    Options <- OnlyLibaio
    NrEvents = 2
    Garbage = {0, 7}
    NULL = NULL
    ThreadId = 0
    MaxIO = 3
INVARIANT
    IowaitAccounted
\* The process ends.
CHECK_DEADLOCK FALSE
