\* A ring of three cells is the smallest in which head, tail and the cell
\* between them are all different; three elements tell any two cells apart.
SPECIFICATION Spec
CONSTANTS
    Elems = {a, b, c}
    NULL = NULL
    NrElems = 3
INVARIANTS
    TypeOK
    RingInv
    CellsFreedOnce
PROPERTY
    ImplementsFifo
\* The program is free to stop using a pool.
CHECK_DEADLOCK FALSE
