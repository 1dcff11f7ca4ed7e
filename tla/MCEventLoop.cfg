SPECIFICATION FairSpec
CONSTANTS
    main = main
    other = other
    plain = plain
    direct = direct
    chained = chained
    handed = handed
    inner = inner
    idler = idler
    Tasks = {main}
    Awaits = {direct, handed, inner}
    Idlers = {idler}
    Owner <- OneTask
    Calls <- CallsOfAwaits
    Direct = {direct}
    HostSettled = {handed}
    FromPoll = {inner}
    MayFail = TRUE
    MayClose = TRUE
    MaxDue = 1
INVARIANTS
    CallsAccounted
    NeverSleepsOnWork
PROPERTIES
    IdleMeansSettled
    WaitersEnd
CHECK_DEADLOCK FALSE
