SPECIFICATION FairSpec
CONSTANTS
    MaxChunks = 2
    Capacity = 1
    MaxTroubles = 2
INVARIANTS
    WritesAreTrue
    ReadsAccounted
    OpenOwesNothing
PROPERTIES
    OnlyEndsLose
    OperationsEnd
CHECK_DEADLOCK FALSE
