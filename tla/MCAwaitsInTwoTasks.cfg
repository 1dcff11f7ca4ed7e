SPECIFICATION FairSpec
CONSTANTS
    main = main
    other = other
    plain = plain
    direct = direct
    chained = chained
    handed = handed
    inner = inner
    idler = idler
    Tasks = {main, other}
    Awaits = {direct, chained}
    Idlers = {}
    Owner <- TwoTasks
    Calls <- CallsOfAwaits
    Direct = {direct}
    HostSettled = {}
    FromPoll = {}
    MayFail = FALSE
    MaxDue = 0
    MayClose = FALSE
PROPERTY EveryWaiterEnds
CHECK_DEADLOCK FALSE
