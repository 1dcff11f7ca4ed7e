SPECIFICATION Spec
CONSTANTS
    a = a
    b = b
    stop = stop
    Guests = {a}
    Signals = {stop}
    Policies <- MCPolicies
    MaxNow = 1
    Horizon = 5
    MaxFrames = 4
INVARIANT PolicyErrorsKeepCategory
CHECK_DEADLOCK FALSE
