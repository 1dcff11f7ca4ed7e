------------------------------ MODULE EventLoop ------------------------------
(***************************************************************************)
(* The driver of one guest: EventLoop::step polls the host futures of the  *)
(* guest's asynchronous host calls, publishes those that have settled to   *)
(* their promises and runs one job; PromiseFuture and run_until_idle call  *)
(* it whenever the executor polls their task.                              *)
(*                                                                         *)
(* A waiter is a future some task awaits: an "await" is a PromiseFuture of *)
(* a guest function's promise, an "idler" is a run_until_idle.  A function *)
(* makes its host calls one after the other, so a host call is identified  *)
(* by the await it is made for.  The executor polls the waiters of a woken *)
(* task one by one, in any order; host operations complete at any time.    *)
(* A step is two actions, the poll of the host futures and what is done    *)
(* with those that have settled: a host operation may complete between.    *)
(***************************************************************************)
EXTENDS Naturals, Sequences, FiniteSets

CONSTANTS
    Tasks,        \* the executor's tasks, each with its own waker
    Awaits,       \* the awaited promises
    Idlers,       \* the calls of run_until_idle
    Owner,        \* waiter -> the task that polls it
    Calls,        \* await -> how many host calls its function makes
    Direct,       \* the awaits of a host call's own promise
    HostSettled,  \* the awaits whose promise host code settles by an ordinary entry
    FromPoll,     \* the functions that host code calls while a host future is polled
    MaxDue,       \* bound: the waiters whose policy becomes due
    MayFail,      \* guest code may be interrupted, or a job of its own throw
    MayClose      \* the guest may be closed

Waiters == Awaits \cup Idlers

ASSUME EventLoopAssumption ==
    /\ Awaits \cap Idlers = {}
    /\ Owner \in [Waiters -> Tasks]
    /\ Calls \in [Awaits -> Nat]
    /\ Direct \subseteq Awaits /\ HostSettled \subseteq Awaits \ Direct
    /\ FromPoll \subseteq Awaits \ HostSettled
    /\ \A a \in Direct : Calls[a] = 1
    /\ MayFail \in BOOLEAN /\ MayClose \in BOOLEAN /\ MaxDue \in Nat

VARIABLES
    phase,     \* await -> where its function is
    left,      \* await -> the host calls it has still to make
    jobs,      \* the engine's job queue: the functions to continue
    inFlight,  \* PendingHostFutures.in_flight
    settled,   \* PendingHostFutures.settled
    running,   \* the calls whose host operation has not completed
    waker,     \* await -> the task its host operation wakes, an Option
    begun,     \* the waiters their tasks have started
    result,    \* waiter -> what it returned, "none" before
    due,       \* the waiters whose armed policy has become due
    closed,    \* the guest has been closed
    woken,     \* the tasks the executor has to poll
    current,   \* the task being polled, an Option
    polling,   \* the waiters it has still to poll
    stepping   \* the one of them that is in the middle of a step, an Option

guestVars == <<phase, left, jobs, inFlight, settled, waker>>
taskVars  == <<begun, woken, current, polling, stepping>>
vars == <<guestVars, running, result, due, closed, taskVars>>

Members(s) == {s[i] : i \in DOMAIN s}

\* The waiters of t that have not returned.
Pending(t) == {w \in begun : Owner[w] = t /\ result[w] = "none"}

-----------------------------------------------------------------------------
(* Guest code *)

\* FunctionDeclaration::new_async registers the future of a host call; nothing
\* polls it, so it has no waker yet.
Register(a, calls) ==
    /\ inFlight' = Append(calls, a)
    /\ running' = running \cup {a}
    /\ waker' = [waker EXCEPT ![a] = {}]

\* Host code calls the function and spawns the await of its promise.
Start(a) ==
    /\ current = {} /\ ~closed
    /\ a \notin FromPoll /\ phase[a] = "new"
    /\ IF a \in HostSettled
       THEN /\ phase' = [phase EXCEPT ![a] = "parked"]
            /\ UNCHANGED <<left, jobs, inFlight, running, waker>>
       ELSE IF Calls[a] = 0
       THEN /\ phase' = [phase EXCEPT ![a] = "queued"]
            /\ jobs' = Append(jobs, a)
            /\ UNCHANGED <<left, inFlight, running, waker>>
       ELSE /\ phase' = [phase EXCEPT ![a] = "called"]
            /\ left' = [left EXCEPT ![a] = @ - 1]
            /\ Register(a, inFlight)
            /\ UNCHANGED jobs
    /\ begun' = begun \cup {a}
    /\ woken' = woken \cup {Owner[a]}
    /\ UNCHANGED <<settled, result, due, closed, current, polling, stepping>>

\* Host code settles a promise the guest handed out, by an entry of its own.
HostSettles(a) ==
    /\ current = {} /\ ~closed
    /\ phase[a] = "parked"
    /\ phase' = [phase EXCEPT ![a] = "queued"]
    /\ jobs' = Append(jobs, a)
    /\ UNCHANGED <<left, inFlight, settled, waker, running, result, due, closed, taskVars>>

-----------------------------------------------------------------------------
(* The executor and the host's operations *)

StartIdler(w) ==
    /\ current = {} /\ w \notin begun
    /\ begun' = begun \cup {w}
    /\ woken' = woken \cup {Owner[w]}
    /\ UNCHANGED <<guestVars, running, result, due, closed, current, polling, stepping>>

RunTask(t) ==
    /\ current = {} /\ t \in woken
    /\ woken' = woken \ {t}
    /\ current' = IF Pending(t) = {} THEN {} ELSE {t}
    /\ polling' = Pending(t)
    /\ UNCHANGED <<guestVars, running, result, due, closed, begun, stepping>>

\* A host operation completes and wakes the task that polled its future last.
Complete(a) ==
    /\ a \in running
    /\ running' = running \ {a}
    /\ woken' = woken \cup waker[a]
    /\ waker' = [waker EXCEPT ![a] = {}]
    /\ UNCHANGED <<phase, left, jobs, inFlight, settled, result, due, closed, begun, current,
                   polling, stepping>>

\* A deadline passes, or the waiter's signal is cancelled.  Nothing is woken.
BecomeDue(w) ==
    /\ w \in begun /\ result[w] = "none" /\ Cardinality(due) < MaxDue
    /\ due' = due \cup {w}
    /\ UNCHANGED <<guestVars, running, result, closed, taskVars>>

Close ==
    /\ MayClose /\ current = {}
    /\ closed' = TRUE
    /\ UNCHANGED <<guestVars, running, result, due, taskVars>>

-----------------------------------------------------------------------------
(* EventLoop::step *)

\* The calls of s that are in S, in their order.
Kept(s, S) ==
    LET kept[n \in 0..Len(s)] ==
            IF n = 0 THEN <<>>
            ELSE IF s[n] \in S THEN Append(kept[n - 1], s[n])
            ELSE kept[n - 1]
    IN  kept[Len(s)]

\* PendingHostFutures::poll: the futures that stay in flight, and the settled ones.
Unfinished == Kept(inFlight, running)
SettledNow == settled \o Kept(inFlight, Awaits \ running)

\* Every future that stays in flight remembers the waker of this poll only.
Wakers(t) == [a \in Awaits |-> IF a \in Members(Unfinished) THEN {t} ELSE waker[a]]

\* While the k-th future is polled, host code calls the function b.  Its call comes
\* before the future that goes back, and this poll does not reach it.
CallsFromPoll(b, k) ==
    LET earlier == SubSeq(inFlight, 1, k - 1)
        rest    == SubSeq(inFlight, k, Len(inFlight))
    IN  /\ ~closed /\ phase[b] = "new"
        /\ IF Calls[b] = 0
           THEN /\ phase' = [phase EXCEPT ![b] = "queued"]
                /\ jobs' = Append(jobs, b) /\ inFlight' = Unfinished
                /\ UNCHANGED <<left, running>>
           ELSE /\ phase' = [phase EXCEPT ![b] = "called"]
                /\ left' = [left EXCEPT ![b] = @ - 1]
                /\ inFlight' = (Kept(earlier, running) \o <<b>>) \o Kept(rest, running)
                /\ running' = running \cup {b}
                /\ UNCHANGED jobs

\* These waiters go on to a step.
Steps(w) == w \notin due /\ (w \in Awaits => ~closed /\ phase[w] # "returned")

\* A step begins with the host futures.
PollFutures(w) ==
    /\ w \in polling /\ stepping = {} /\ Steps(w)
    /\ stepping' = {w}
    /\ settled' = SettledNow
    /\ waker' = Wakers(Owner[w])
    /\ \/ inFlight' = Unfinished /\ UNCHANGED <<phase, left, jobs, running>>
       \/ \E b \in FromPoll, k \in DOMAIN inFlight : CallsFromPoll(b, k)
    /\ UNCHANGED <<result, due, closed, begun, woken, current, polling>>

\* Settled::publish resolves the call's promise: that is the awaited promise, or
\* queues the function that awaits it.
PublishedPhase(calls) ==
    [a \in Awaits |-> IF a \notin Members(calls) THEN phase[a]
                      ELSE IF a \in Direct THEN "returned"
                      ELSE "queued"]
QueuedBy(calls) == jobs \o Kept(calls, Awaits \ Direct)

\* A slip: run_until_idle and PromiseFuture see no progress in a publication.
ProgressOfJobs(ran, published, empty) ==
    IF ran THEN "ready" ELSE IF empty THEN "idle" ELSE "waiting"

\* A slip: an empty job queue is taken for idleness.
ProgressOfQueue(ran, published, empty) ==
    IF ran \/ published THEN "ready" ELSE "idle"

Progress(ran, published, empty) ==
    IF ran \/ published THEN "ready" ELSE IF empty THEN "idle" ELSE "waiting"

\* The job continues a function: it makes its next host call or returns.
RunJob(queue, phases) ==
    LET a == Head(queue)
    IN  /\ jobs' = Tail(queue)
        /\ IF left[a] > 0
           THEN /\ phase' = [phases EXCEPT ![a] = "called"]
                /\ left' = [left EXCEPT ![a] = @ - 1]
                /\ inFlight' = Append(inFlight, a)
                /\ running' = running \cup {a}
           ELSE /\ phase' = [phases EXCEPT ![a] = "returned"]
                /\ UNCHANGED <<left, inFlight, running>>

\* At most one job runs; a call it registers is first polled by a later step.
Jobs(queue, phases) ==
    IF queue # <<>>
    THEN RunJob(queue, phases)
    ELSE /\ phase' = phases /\ jobs' = queue
         /\ UNCHANGED <<left, inFlight, running>>

Return(w, r) == result' = [result EXCEPT ![w] = r]

\* w has been polled; wakes is the set of tasks the poll woke.
Polled(w, wakes) ==
    /\ w \in polling
    /\ polling' = polling \ {w}
    /\ current' = IF polling = {w} THEN {} ELSE current
    /\ woken' = woken \cup wakes
    /\ stepping' = {}
    /\ UNCHANGED <<begun, due, closed>>

\* The armed policy is asked before anything else.
PollDue(w) ==
    /\ stepping = {} /\ Polled(w, {})
    /\ w \in due
    /\ Return(w, "due")
    /\ UNCHANGED <<guestVars, running>>

\* PromiseFuture::settled enters the guest, which refuses when it is closed.
PollClosed(a) ==
    /\ stepping = {} /\ Polled(a, {})
    /\ a \in Awaits \ due /\ closed
    /\ Return(a, "closed")
    /\ UNCHANGED <<guestVars, running>>

\* The awaited promise has been settled.
PollReturned(a) ==
    /\ stepping = {} /\ Polled(a, {})
    /\ a \in Awaits \ due /\ ~closed
    /\ phase[a] = "returned"
    /\ Return(a, "value")
    /\ UNCHANGED <<guestVars, running>>

\* A slip: what has settled is taken before the entry that would publish it.
StepRefusedTaking(w) ==
    /\ stepping = {w} /\ Polled(w, {})
    /\ closed /\ settled # <<>>
    /\ settled' = <<>>
    /\ Return(w, "closed")
    /\ UNCHANGED <<phase, left, jobs, inFlight, waker, running>>

\* What has settled stays settled when the entry that would publish it is refused.
StepRefused(w) ==
    /\ stepping = {w} /\ Polled(w, {})
    /\ closed /\ settled # <<>>
    /\ Return(w, "closed")
    /\ UNCHANGED <<guestVars, running>>

\* Publishing the i-th call fails: the calls from it on are dropped and the step
\* returns the error before it polls the job queue.
PublicationFails(w) ==
    \E i \in DOMAIN settled :
        LET published == SubSeq(settled, 1, i - 1)
            dropped   == Members(SubSeq(settled, i, Len(settled)))
        IN  /\ stepping = {w} /\ Polled(w, {})
            /\ MayFail /\ ~closed
            /\ settled' = <<>>
            /\ jobs' = QueuedBy(published)
            /\ phase' = [a \in Awaits |-> IF a \in dropped THEN "lost"
                                          ELSE PublishedPhase(published)[a]]
            /\ Return(w, "failed")
            /\ UNCHANGED <<left, inFlight, waker, running>>

\* The job is interrupted, or throws what nothing catches: poll_jobs returns the error,
\* and so does the step.  The function will neither go on nor settle its promise.
JobFails(w) ==
    LET queue == QueuedBy(settled)
    IN  /\ stepping = {w} /\ Polled(w, {})
        /\ MayFail /\ ~(closed /\ settled # <<>>) /\ queue # <<>>
        /\ settled' = <<>>
        /\ jobs' = Tail(queue)
        /\ phase' = [PublishedPhase(settled) EXCEPT ![Head(queue)] = "lost"]
        /\ Return(w, "failed")
        /\ UNCHANGED <<left, inFlight, waker, running>>

\* Only run_until_idle returns when the step was idle.
ReturnIdle(w) == IF w \in Idlers THEN Return(w, "idle") ELSE UNCHANGED result

\* A slip: a ready step does not wake its task.
WakesNever(w, progress) == {}

\* wake_by_ref
Wakes(w, progress) == IF progress = "ready" THEN {Owner[w]} ELSE {}

Step(w) ==
    LET published == settled # <<>>
        queue     == QueuedBy(settled)
        progress  == Progress(queue # <<>>, published, inFlight = <<>>)
    IN  /\ stepping = {w} /\ Polled(w, Wakes(w, progress))
        /\ ~(closed /\ published)
        /\ settled' = <<>>
        /\ UNCHANGED waker
        /\ Jobs(queue, PublishedPhase(settled))
        /\ IF progress = "idle" THEN ReturnIdle(w) ELSE UNCHANGED result

Poll(w) ==
    \/ PollDue(w)
    \/ PollClosed(w)
    \/ PollReturned(w)
    \/ PollFutures(w)
    \/ StepRefused(w)
    \/ PublicationFails(w)
    \/ JobFails(w)
    \/ Step(w)

-----------------------------------------------------------------------------

Init ==
    /\ phase = [a \in Awaits |-> "new"]
    /\ left = Calls
    /\ jobs = <<>> /\ inFlight = <<>> /\ settled = <<>>
    /\ running = {}
    /\ waker = [a \in Awaits |-> {}]
    /\ begun = {}
    /\ result = [w \in Waiters |-> "none"]
    /\ due = {}
    /\ closed = FALSE
    /\ woken = {} /\ current = {} /\ polling = {} /\ stepping = {}

Next ==
    \/ \E a \in Awaits : Start(a) \/ HostSettles(a) \/ Complete(a)
    \/ \E w \in Idlers : StartIdler(w)
    \/ \E t \in Tasks : RunTask(t)
    \/ \E w \in Waiters : BecomeDue(w) \/ Poll(w)
    \/ Close

Spec == Init /\ [][Next]_vars

(***************************************************************************)
(* The executor polls every task that was woken and, in it, every waiter;  *)
(* host operations complete, and host code settles what it handed out.     *)
(***************************************************************************)
Fairness ==
    /\ \A t \in Tasks : SF_vars(RunTask(t))
    /\ \A w \in Waiters : WF_vars(Poll(w))
    /\ \A a \in Awaits : WF_vars(Complete(a)) /\ SF_vars(HostSettles(a))

FairSpec == Spec /\ Fairness

-----------------------------------------------------------------------------
(* Properties *)

Ends == {"none", "due", "closed", "failed"}

\* The types of the state; only run_until_idle ends because the guest is idle.
TypeOK ==
    /\ phase \in [Awaits -> {"new", "parked", "called", "queued", "returned", "lost"}]
    /\ left \in [Awaits -> Nat]
    /\ jobs \in Seq(Awaits) /\ inFlight \in Seq(Awaits) /\ settled \in Seq(Awaits)
    /\ running \subseteq Awaits
    /\ waker \in [Awaits -> SUBSET Tasks]
    /\ begun \subseteq Waiters /\ due \subseteq begun /\ polling \subseteq begun
    /\ stepping \subseteq polling
    /\ \A w \in Awaits : result[w] \in Ends \cup {"value"}
    /\ \A w \in Idlers : result[w] \in Ends \cup {"idle"}
    /\ closed \in BOOLEAN
    /\ woken \subseteq Tasks /\ current \subseteq Tasks

\* Whatever the order of completions, polls, publications and refusals, a
\* function that waits for a host call has it in flight or settled, once, and
\* one that can go on is queued, once: no call is lost or published twice.
CallsAccounted ==
    LET places == inFlight \o settled \o jobs
    IN  /\ TypeOK
        /\ \A i, j \in DOMAIN places : places[i] = places[j] => i = j
        /\ \A a \in Awaits :
              /\ a \in Members(inFlight \o settled) <=> phase[a] = "called"
              /\ a \in Members(jobs) <=> phase[a] = "queued"
        /\ running \subseteq Members(inFlight)

\* A call that host code made while a future was polled, and no poll has reached.
Overlooked(a) == a \in FromPoll /\ waker[a] = {}

\* What a step that fails leaves in the job queue, and wakes nobody for: functions whose
\* calls were overlooked.
Stranded == IF \E w \in Waiters : result[w] = "failed" THEN FromPoll ELSE {}

\* While all waiters belong to one task, the executor never sleeps on work that could
\* go on, nor on a promise that has been settled, other than what an entry of the host
\* left behind: a sleeping task is one every host call in flight will wake, but a call
\* that was made while another was polled and no poll has reached.
NeverSleepsOnWork ==
    (current = {} /\ woken = {} /\ \E t \in Tasks : Pending(t) # {}) =>
        /\ settled = <<>>
        /\ Members(jobs) \subseteq HostSettled \cup Stranded
        /\ \A a \in Awaits \cap begun : phase[a] = "returned" => result[a] # "none"
        /\ \A a \in Members(inFlight) :
              (a \in running /\ \E t \in waker[a] : Pending(t) # {}) \/ Overlooked(a)

\* run_until_idle returns "idle" when there is nothing left to do: all functions that
\* had been called have returned, but those that an interruption or an error of their
\* own, in a publication or in a job, left for good.
IdleMeansSettled ==
    [][\A w \in Idlers :
          result[w] = "none" /\ result'[w] = "idle" =>
              \A a \in Awaits : phase'[a] \in {"new", "parked", "returned", "lost"}]_vars

\* While all waiters belong to one task, each await of a promise that guest code settles
\* ends, unless its function is lost; each run_until_idle ends, unless it sleeps for
\* good on a call that was made while another was polled.
WaitersEnd ==
    /\ \A a \in Awaits \ HostSettled : (a \in begun) ~> (result[a] # "none" \/ phase[a] = "lost")
    /\ \A w \in Idlers :
         (w \in begun) ~> (result[w] # "none" \/ [](\E a \in Members(inFlight) : Overlooked(a)))

\* README: awaiting a promise drives the guest and produces its value.
EveryWaiterEnds == \A w \in Waiters : (w \in begun) ~> (result[w] # "none")

=============================================================================
