----------------------------- MODULE MCEventLoop -----------------------------
(* Small instances of EventLoop. *)
EXTENDS EventLoop, TLC

CONSTANTS
    main, other,             \* tasks
    plain, direct, chained,  \* awaits without a host call, of a host call, with two calls
    handed,                  \* the await of a promise host code settles
    inner,                   \* a function called while a host future is polled
    idler                    \* a run_until_idle

MCCalls == plain :> 0 @@ direct :> 1 @@ chained :> 2 @@ handed :> 0 @@ inner :> 2

\* All waiters in one task, as join! polls them.
OneTask == [w \in Waiters |-> main]

\* The task of one await is not the task of the others.
TwoTasks == [w \in Waiters |-> IF w = chained THEN other ELSE main]

\* As many calls as each await makes.
CallsOfAwaits == [a \in Awaits |-> MCCalls[a]]

=============================================================================
