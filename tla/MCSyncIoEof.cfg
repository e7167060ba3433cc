\* A sequential read that reaches the end of a file inside a block.
SPECIFICATION Spec
CONSTANTS
    Options <- Misaligned
    ThreadId = 0
    Batch = 2
    MaxIO = 5
PROPERTY
    Terminates
\* The process ends.
CHECK_DEADLOCK FALSE
