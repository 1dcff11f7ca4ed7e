SPECIFICATION FairSpec
CONSTANTS
    Items <- Failing
    MaxCalls = 5
INVARIANTS
    NeverBorrowedTwice
    ServedInOrder
    ErrorIsLast
PROPERTY
    EveryCallEnds
CHECK_DEADLOCK FALSE
