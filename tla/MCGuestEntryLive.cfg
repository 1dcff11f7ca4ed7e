SPECIFICATION FairSpec
CONSTANTS
    a = a
    b = b
    stop = stop
    Guests = {a, b}
    Signals = {stop}
    Policies <- MCCancellable
    MaxNow = 0
    Horizon = 5
    MaxFrames = 3
PROPERTIES
    DueEntriesEnd
CHECK_DEADLOCK FALSE
