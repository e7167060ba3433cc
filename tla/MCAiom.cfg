\* Three control blocks and several rounds: a round can find requests
\* still in flight, others completed but not fetched, or none left over.
SPECIFICATION Spec
CONSTANTS
    Options <- BothEngines
    NrEvents = 3
    Garbage = {0, 7}
    NULL = NULL
    ThreadId = 1
    MaxIO = 7
INVARIANTS
    TypeOK
    CbOwnership
    InFlightIntact
    PushNeverRefused
    InFlightCount
    QuietAtDestroy
    AllCounted
PROPERTY
    LibaioTerminates
\* The process ends.
CHECK_DEADLOCK FALSE
