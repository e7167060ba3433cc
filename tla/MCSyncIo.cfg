\* Batches of two I/Os, up to nine or ten of them: two files of three and two
\* blocks are scanned more than once.
SPECIFICATION Spec
CONSTANTS
    Options <- AllPatterns
    ThreadId = 1
    Batch = 2
    MaxIO = 9
INVARIANTS
    TypeOK
    InWindow
    NeverBeyondEnd
    FilesInTurn
    CountExact
PROPERTIES
    ScanIsWhole
    SeekIsLong
    SaneTerminates
\* The process ends.
CHECK_DEADLOCK FALSE
