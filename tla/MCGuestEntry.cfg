SPECIFICATION Spec
CONSTANTS
    a = a
    b = b
    stop = stop
    Guests = {a, b}
    Signals = {stop}
    Policies <- MCPolicies
    MaxNow = 1
    Horizon = 5
    MaxFrames = 4
SYMMETRY MCSymmetry
INVARIANTS
    ActivationsBalanced
    EngineFollowsEntries
    InterruptionHasOwner
    InterruptionIsNamed
PROPERTIES
    DeadlineIsFixed
    ClosedOnlyUnwinds
CHECK_DEADLOCK FALSE
