------------------------------ MODULE GuestEntry ------------------------------
(***************************************************************************)
(* Guests of one runtime and the nested entries into them: the execution   *)
(* policy a guest arms for its outermost activation, the activation depth, *)
(* the engine's lock and entry depth, host callbacks, jobs, interruption,  *)
(* closing and dropping.                                                   *)
(*                                                                         *)
(* Everything runs on one thread, so the control state is one call stack.  *)
(* A host frame is a Rust closure running inside Guest::enter ("enter") or *)
(* Guest::reenter ("reenter"), a "jobs" frame is EventLoop::step polling   *)
(* the engine's job queue, and a "js" frame is guest code running in the   *)
(* JavaScript context of its guest.  Steps of the clock, of a cancelling   *)
(* thread and of the stack interleave.                                     *)
(*                                                                         *)
(* An Option is a set with at most one element: {} is None.                *)
(***************************************************************************)
EXTENDS Naturals, Sequences, FiniteSets

CONSTANTS
    Guests,     \* the guests the host may create
    Signals,    \* the cancellation signals its policies refer to
    Policies,   \* the execution policies the host may give a guest
    MaxNow,     \* bound: the last instant of the clock
    Horizon,    \* the last instant the platform can represent
    MaxFrames   \* bound: the depth of the call stack

PolicyType == [timeout : SUBSET Nat, signal : SUBSET Signals]
ArmedType  == [deadline : SUBSET Nat, signal : SUBSET Signals]

\* Guest::new builds a guest with the default policy, which is never due.
DefaultPolicy == [timeout |-> {}, signal |-> {}]

ASSUME ConstantsAssumption ==
    /\ Policies \subseteq PolicyType
    /\ MaxNow \in Nat
    /\ Horizon \in Nat
    /\ MaxFrames \in Nat

VARIABLES
    policy,     \* guest -> its ExecutionPolicy
    life,       \* guest -> "unborn", "live" or "dropped"
    held,       \* guest -> the host keeps a strong handle outside the stack
    registry,   \* the guests GuestRegistry maps from their context ids
    hooked,     \* install_policy_interrupt gave the engine its condition
    closed,     \* guest -> GuestState.closed
    depth,      \* guest -> GuestActivity.depth
    armed,      \* guest -> GuestActivity.armed, an Option
    entered,    \* Engine.depth
    locked,     \* the engine's runtime lock is held
    stack,      \* the call stack, its innermost frame last
    result,     \* what the last call from the empty stack returned; "none" during one
    now,        \* the clock
    cancelled   \* the signals that have been cancelled

guestVars  == <<policy, life, held, registry, hooked, closed>>
entryVars  == <<depth, armed, entered, locked>>
signalVars == <<now, cancelled>>
vars == <<guestVars, entryVars, stack, result, signalVars>>

-----------------------------------------------------------------------------
(* ExecutionPolicy and ArmedPolicy *)

\* A deadline beyond the platform's last instant is None: it never expires.
Arm(p) == [deadline |-> {d \in {now + t : t \in p.timeout} : d <= Horizon},
           signal   |-> p.signal]

IsExpired(a)   == \E d \in a.deadline : now >= d
IsCancelled(a) == a.signal \cap cancelled # {}

\* The deadline takes precedence over the signal.
DueError(a) == IF IsExpired(a)        THEN {"timeout"}
               ELSE IF IsCancelled(a) THEN {"cancelled"}
                                      ELSE {}

\* GuestActivity.is_due
IsDue(g) == \E a \in armed[g] : IsExpired(a) \/ IsCancelled(a)

-----------------------------------------------------------------------------
(* The call stack *)

HostKinds   == {"enter", "reenter"}
EngineKinds == {"enter", "jobs"}       \* the frames that entered the engine
Errors    == {"failed", "wrapped", "foreign", "closed",
              "timeout", "cancelled", "interrupted"}
Results   == Errors \cup {"ok"}

\* "none": the frame's code has not yet had a result from a nested call.
FrameType == [kind  : HostKinds \cup {"jobs", "js"},
              guest : Guests,
              locks : BOOLEAN,               \* the frame took the runtime lock
              last  : Results \cup {"none"}] \* what its last nested call returned

Top      == stack[Len(stack)]
Below    == SubSeq(stack, 1, Len(stack) - 1)
TopIs(K) == stack # <<>> /\ Top.kind \in K

\* Host code runs at the bottom of the stack and in a host frame on top of it.
HostRuns == stack = <<>> \/ TopIs(HostKinds)

\* The places of the frames of kinds K and guests G, and the activations of g.
Frames(s, K, G)   == {i \in DOMAIN s : s[i].kind \in K /\ s[i].guest \in G}
Activations(s, g) == Frames(s, HostKinds \cup EngineKinds, {g})

\* A host frame and a job loop own a strong handle to their guest.
OnStack(s, g) == Activations(s, g) # {}
Strong(s, h, g) == h[g] \/ OnStack(s, g)

Frame(kind, g, locks) == [kind |-> kind, guest |-> g, locks |-> locks, last |-> "none"]

\* The frames s, the innermost of which has the result r of its last nested call.
Replied(s, r) == IF s = <<>> THEN s ELSE [s EXCEPT ![Len(s)].last = r]

\* The caller forgets an earlier result when it makes the next nested call.
Push(frame) ==
    /\ Len(stack) < MaxFrames
    /\ stack' = Append(Replied(stack, "none"), frame)
    /\ result' = "none"

\* The frames s that remain receive the result r of the call that ended.
Deliver(s, r) ==
    /\ stack'  = Replied(s, r)
    /\ result' = IF s = <<>> THEN r ELSE "none"

Refuse(r) == Deliver(stack, r) /\ UNCHANGED <<guestVars, entryVars, signalVars>>

\* Dropping the last strong handle runs Drop for GuestState, which unregisters.
Reap ==
    LET gone == {g \in Guests : life[g] = "live" /\ ~Strong(stack', held', g)}
    IN  /\ life' = [g \in Guests |-> IF g \in gone THEN "dropped" ELSE life[g]]
        /\ registry' = registry \ gone

-----------------------------------------------------------------------------
(* GuestActivity *)

\* GuestActivity.begin at depth 0 arms the policy and refuses when it is due.
RefuseDue(g) ==
    /\ depth[g] = 0
    /\ \E e \in DueError(Arm(policy[g])) : Refuse(e)

\* A slip: every activation arms the policy anew.
BeginRearming(g) ==
    /\ DueError(Arm(policy[g])) = {}
    /\ armed' = [armed EXCEPT ![g] = {Arm(policy[g])}]
    /\ depth' = [depth EXCEPT ![g] = @ + 1]

Begin(g) ==
    /\ depth[g] = 0 => DueError(Arm(policy[g])) = {}
    /\ armed' = IF depth[g] = 0 THEN [armed EXCEPT ![g] = {Arm(policy[g])}] ELSE armed
    /\ depth' = [depth EXCEPT ![g] = @ + 1]

\* A slip: any ending activation disarms the policy.
FinishDisarming(g) ==
    /\ depth' = [depth EXCEPT ![g] = @ - 1]
    /\ armed' = [armed EXCEPT ![g] = {}]

\* Dropping the Activation.
Finish(g) ==
    /\ depth' = [depth EXCEPT ![g] = @ - 1]
    /\ armed' = IF depth[g] = 1 THEN [armed EXCEPT ![g] = {}] ELSE armed

\* A slip: the deadline is forgotten when an interruption is named.
NamedUnlessTimeout(g, r) ==
    IF r = "interrupted" /\ \E a \in armed[g] : IsCancelled(a) THEN "cancelled" ELSE r

\* GuestState.activate names an interruption when its own policy is due.
Named(g, r) ==
    IF r = "interrupted" /\ IsDue(g)
    THEN CHOOSE e \in {"timeout", "cancelled"} : \E a \in armed[g] : e \in DueError(a)
    ELSE r

-----------------------------------------------------------------------------
(* The engine *)

\* The engine's lock is taken by the outermost entry only; a nested one uses
\* the lock that is held.
EnterEngine ==
    /\ entered' = entered + 1
    /\ locked' = TRUE

LeaveEngine(f) ==
    /\ entered' = entered - 1
    /\ locked' = (locked /\ ~f.locks)

\* A slip: only the guest whose code runs is asked whether it is due.
ShouldInterruptCurrent == hooked /\ stack # <<>> /\ IsDue(Top.guest)

\* A slip: a guest whose signal is cancelled counts although it is not active.
ShouldInterruptInactive ==
    hooked /\ \E g \in registry : IsDue(g) \/ policy[g].signal \cap cancelled # {}

\* The condition install_policy_interrupt installs: a registered guest is due.
ShouldInterrupt == hooked /\ \E g \in registry : life[g] = "live" /\ IsDue(g)

-----------------------------------------------------------------------------
(* Creating, closing and dropping guests *)

Create(g, p, hooks) ==
    /\ HostRuns
    /\ life[g] = "unborn"
    /\ entered = 0
    /\ policy' = [policy EXCEPT ![g] = p]
    /\ life' = [life EXCEPT ![g] = "live"]
    /\ held' = [held EXCEPT ![g] = TRUE]
    /\ registry' = registry \cup {g}
    /\ hooked' = (hooked \/ hooks)
    /\ UNCHANGED <<closed, entryVars, stack, result, signalVars>>

NewGuest(g) == Create(g, DefaultPolicy, FALSE)

\* Guest::with_policy installs the interrupt condition before it builds the guest.
GuestWithPolicy(g) == \E p \in Policies : Create(g, p, TRUE)

\* A context cannot be created inside an entry.
CreateInsideEntry(g, hooks) ==
    /\ HostRuns
    /\ life[g] = "unborn"
    /\ entered > 0
    /\ hooked' = (hooked \/ hooks)
    /\ Deliver(stack, "failed")
    /\ UNCHANGED <<policy, life, held, registry, closed, entryVars, signalVars>>

\* Closing needs a handle; entries that are running go on.
Close(g) ==
    /\ HostRuns
    /\ life[g] = "live"
    /\ Strong(stack, held, g)
    /\ closed' = [closed EXCEPT ![g] = TRUE]
    /\ UNCHANGED <<policy, life, held, registry, hooked, entryVars, stack, result, signalVars>>

\* The host drops every handle it keeps outside the stack ...
Release(g) ==
    /\ HostRuns
    /\ held[g]
    /\ held' = [held EXCEPT ![g] = FALSE]
    /\ UNCHANGED <<stack, result>>
    /\ Reap
    /\ UNCHANGED <<policy, hooked, closed, entryVars, signalVars>>

\* ... or keeps a clone of the guest of the entry it runs in.
Retain ==
    /\ TopIs(HostKinds)
    /\ held' = [held EXCEPT ![Top.guest] = TRUE]
    /\ UNCHANGED <<policy, life, registry, hooked, closed, entryVars, stack, result, signalVars>>

-----------------------------------------------------------------------------
(* Entries *)

EnterClosed(g) ==
    /\ HostRuns
    /\ Strong(stack, held, g)
    /\ closed[g]
    /\ Refuse("closed")

EnterDue(g) ==
    /\ HostRuns
    /\ Strong(stack, held, g)
    /\ ~closed[g]
    /\ RefuseDue(g)

Enter(g) ==
    /\ HostRuns
    /\ Strong(stack, held, g)
    /\ ~closed[g]
    /\ Begin(g)
    /\ EnterEngine
    /\ Push(Frame("enter", g, entered = 0))
    /\ UNCHANGED <<guestVars, signalVars>>

\* The host may present the token of any entry it is inside of; it is accepted
\* by the guest whose context it is.
TokenGuests == {g \in Guests : Frames(stack, HostKinds, {g}) # {}}

ReenterRefused(g) ==
    /\ TopIs(HostKinds)
    /\ Strong(stack, held, g)
    /\ \/ closed[g] /\ Refuse("closed")
       \/ ~closed[g] /\ TokenGuests \ {g} # {} /\ Refuse("foreign")
       \/ ~closed[g] /\ g \in TokenGuests /\ RefuseDue(g)

Reenter(g) ==
    /\ TopIs(HostKinds)
    /\ g \in TokenGuests
    /\ ~closed[g]
    /\ Begin(g)
    /\ Push(Frame("reenter", g, FALSE))
    /\ UNCHANGED <<guestVars, entered, locked, signalVars>>

\* The closure of a host frame returns a value, fails on its own or passes on
\* the error of its last nested call.  Its Activation names an interruption,
\* is dropped, and with it the frame's handle.
Return(r) ==
    /\ TopIs(HostKinds)
    /\ r \in {"ok", "failed"} \cup ({Top.last} \cap Errors)
    /\ Deliver(Below, Named(Top.guest, r))
    /\ Finish(Top.guest)
    /\ IF Top.kind = "enter" THEN LeaveEngine(Top) ELSE UNCHANGED <<entered, locked>>
    /\ UNCHANGED held
    /\ Reap
    /\ UNCHANGED <<policy, hooked, closed, signalVars>>

\* A host function may ask the backend whether it should stop.
Check ==
    /\ TopIs(HostKinds)
    /\ ShouldInterrupt
    /\ Refuse("interrupted")

-----------------------------------------------------------------------------
(* Jobs *)

\* EventLoop::step activates the guest to poll the job queue, closed or not.
PollJobsDue(g) ==
    /\ HostRuns
    /\ Strong(stack, held, g)
    /\ RefuseDue(g)

\* Inside an entry the poll does nothing: the activation begins and ends.
PollJobsEntered(g) ==
    /\ HostRuns
    /\ Strong(stack, held, g)
    /\ entered > 0
    /\ depth[g] = 0 => DueError(Arm(policy[g])) = {}
    /\ Refuse("ok")

\* A slip: the poll takes the lock without its DepthGuard.
PollJobsUnguarded(g) ==
    /\ HostRuns
    /\ Strong(stack, held, g)
    /\ entered = 0
    /\ Begin(g)
    /\ locked' = TRUE
    /\ UNCHANGED entered
    /\ Push(Frame("jobs", g, TRUE))
    /\ UNCHANGED <<guestVars, signalVars>>

PollJobs(g) ==
    /\ HostRuns
    /\ Strong(stack, held, g)
    /\ entered = 0
    /\ Begin(g)
    /\ EnterEngine
    /\ Push(Frame("jobs", g, TRUE))
    /\ UNCHANGED <<guestVars, signalVars>>

\* The queue belongs to the runtime: the job may be any guest's, even a dropped
\* one's.
RunJob(c) ==
    /\ TopIs({"jobs"})
    /\ Top.last = "none"
    /\ life[c] # "unborn"
    /\ Push(Frame("js", c, FALSE))
    /\ UNCHANGED <<guestVars, entryVars, signalVars>>

\* One job at most has run; its error is the result of the poll.
FinishJobs ==
    /\ TopIs({"jobs"})
    /\ Deliver(Below, Named(Top.guest, IF Top.last = "none" THEN "ok" ELSE Top.last))
    /\ Finish(Top.guest)
    /\ LeaveEngine(Top)
    /\ UNCHANGED held
    /\ Reap
    /\ UNCHANGED <<policy, hooked, closed, signalVars>>

-----------------------------------------------------------------------------
(* Guest code *)

\* Evaluating, calling or importing through the token of an entry.
RunGuestCode ==
    /\ TopIs(HostKinds)
    /\ Push(Frame("js", Top.guest, FALSE))
    /\ UNCHANGED <<guestVars, entryVars, signalVars>>

\* An uncatchable error ends the guest code it is thrown into.
JsRuns == TopIs({"js"}) /\ Top.last # "interrupted"

\* Guest code calls a host function: raw_body upgrades its weak guest.
CallbackRefused ==
    /\ JsRuns
    /\ IF life[Top.guest] = "dropped" \/ closed[Top.guest]
       THEN Refuse("closed")
       ELSE RefuseDue(Top.guest)

\* A slip: the callback goes straight to its activation.
CallbackWhenClosed ==
    /\ JsRuns
    /\ life[Top.guest] = "live"
    /\ Begin(Top.guest)
    /\ Push(Frame("reenter", Top.guest, FALSE))
    /\ UNCHANGED <<guestVars, entered, locked, signalVars>>

Callback ==
    /\ JsRuns
    /\ life[Top.guest] = "live"
    /\ ~closed[Top.guest]
    /\ Begin(Top.guest)
    /\ Push(Frame("reenter", Top.guest, FALSE))
    /\ UNCHANGED <<guestVars, entered, locked, signalVars>>

JsEnds(r) == Deliver(Below, r) /\ UNCHANGED <<guestVars, entryVars, signalVars>>

JsReturn == JsRuns /\ \E r \in {"ok", "failed"} : JsEnds(r)

\* A host function's error is thrown into the guest code.  It stays itself only
\* when it is an interruption; any other one leaves as a guest exception.
JsThrows ==
    /\ TopIs({"js"})
    /\ \/ Top.last = "interrupted" /\ JsEnds("interrupted")
       \/ Top.last \in {"timeout", "cancelled", "wrapped"} /\ JsEnds("wrapped")
       \/ Top.last \in {"failed", "foreign", "closed"} /\ JsEnds("failed")

\* The engine polls its interrupt handler while guest code runs.
Interrupt == JsRuns /\ ShouldInterrupt /\ JsEnds("interrupted")

-----------------------------------------------------------------------------
(* The clock and the cancelling threads *)

Tick ==
    /\ now < MaxNow
    /\ now' = now + 1
    /\ UNCHANGED <<guestVars, entryVars, stack, result, cancelled>>

Cancel(s) ==
    /\ cancelled' = cancelled \cup {s}
    /\ UNCHANGED <<guestVars, entryVars, stack, result, now>>

-----------------------------------------------------------------------------

Init ==
    /\ policy = [g \in Guests |-> DefaultPolicy]
    /\ life = [g \in Guests |-> "unborn"]
    /\ held = [g \in Guests |-> FALSE]
    /\ registry = {}
    /\ hooked = FALSE
    /\ closed = [g \in Guests |-> FALSE]
    /\ depth = [g \in Guests |-> 0]
    /\ armed = [g \in Guests |-> {}]
    /\ entered = 0
    /\ locked = FALSE
    /\ stack = <<>>
    /\ result = "none"
    /\ now = 0
    /\ cancelled = {}

GuestNext(g) ==
    \/ NewGuest(g)
    \/ GuestWithPolicy(g)
    \/ \E hooks \in BOOLEAN : CreateInsideEntry(g, hooks)
    \/ Close(g)
    \/ Release(g)
    \/ EnterClosed(g)
    \/ EnterDue(g)
    \/ Enter(g)
    \/ ReenterRefused(g)
    \/ Reenter(g)
    \/ PollJobsDue(g)
    \/ PollJobsEntered(g)
    \/ PollJobs(g)
    \/ RunJob(g)

Next ==
    \/ \E g \in Guests : GuestNext(g)
    \/ \E r \in {"ok"} \cup Errors : Return(r)
    \/ Retain
    \/ Check
    \/ FinishJobs
    \/ RunGuestCode
    \/ CallbackRefused
    \/ Callback
    \/ JsReturn
    \/ JsThrows
    \/ Interrupt
    \/ Tick
    \/ \E s \in Signals : Cancel(s)

Spec == Init /\ [][Next]_vars

(***************************************************************************)
(* The engine polls its interrupt handler again and again while guest code *)
(* runs, between the host functions it calls, and a host closure and a     *)
(* poll of the job queue end: strong fairness for each frame of the stack, *)
(* since the frames above it come and go.  Guest code need never return.   *)
(***************************************************************************)
At(i, A) == Len(stack) = i /\ A

Fairness ==
    /\ WF_vars(TopIs({"js"}) /\ Top.last = "interrupted" /\ JsThrows)
    /\ \A i \in 1..MaxFrames :
           /\ SF_vars(At(i, Interrupt))
           /\ SF_vars(At(i, FinishJobs \/ \E r \in {"ok"} \cup Errors : Return(r)))

FairSpec == Spec /\ Fairness

-----------------------------------------------------------------------------
(* Properties *)

\* The types of the state: no counter is ever decremented below zero.
TypeOK ==
    /\ policy \in [Guests -> PolicyType]
    /\ life \in [Guests -> {"unborn", "live", "dropped"}]
    /\ held \in [Guests -> BOOLEAN]
    /\ registry \in SUBSET Guests
    /\ hooked \in BOOLEAN
    /\ closed \in [Guests -> BOOLEAN]
    /\ depth \in [Guests -> Nat]
    /\ armed \in [Guests -> SUBSET ArmedType]
    /\ entered \in Nat
    /\ locked \in BOOLEAN
    /\ stack \in Seq(FrameType)
    /\ result \in Results \cup {"none"}
    /\ now \in Nat
    /\ cancelled \in SUBSET Signals

\* Activations nest: however the entries, callbacks, jobs and refusals of the
\* guests interleave, a guest's depth is the number of its frames and its
\* policy is armed, once, exactly while it has one.
ActivationsBalanced ==
    \A g \in Guests :
        /\ depth[g] = Cardinality(Activations(stack, g))
        /\ IF depth[g] = 0 THEN armed[g] = {} ELSE \E a \in armed[g] : armed[g] = {a}

\* The runtime lock is held exactly while the engine is entered, by the
\* outermost engine frame, and guest code only runs under it: the three
\* expect("runtime lock is held elsewhere") never panic.  An armed policy that can
\* become due is one the interrupt handler sees, also after the host dropped its
\* last handle inside the entry.
EngineFollowsEntries ==
    /\ entered = Cardinality(Frames(stack, EngineKinds, Guests))
    /\ locked <=> entered > 0
    /\ (\E i \in DOMAIN stack : stack[i].kind = "js") => locked
    /\ \A g \in Guests : armed[g] # {} =>
         /\ life[g] = "live" /\ g \in registry
         /\ (\E a \in armed[g] : a.deadline # {} \/ a.signal # {}) => hooked

\* An interruption that is being passed on belongs to a guest that is due and
\* still active below.
InterruptionHasOwner ==
    (stack # <<>> /\ Top.last = "interrupted") =>
        \E g \in Guests : OnStack(stack, g) /\ IsDue(g)

\* The host never sees a bare interruption: by the time it leaves the outermost
\* call, the guest whose policy was due has named it timeout or cancelled.
InterruptionIsNamed == stack = <<>> => result # "interrupted"

\* Nothing that happens inside an activation extends its deadline.
DeadlineIsFixed ==
    [][\A g \in Guests :
          depth[g] > 0 /\ depth'[g] > 0 => armed'[g] = armed[g]]_vars

\* From its closing on a guest runs no further host closure or callback, however
\* its jobs and the entries still open try; they can only unwind.
ClosedOnlyUnwinds ==
    [][\A g \in Guests :
          closed[g] => Frames(stack', HostKinds, {g}) \subseteq Frames(stack, HostKinds, {g})]_vars

\* A guest that becomes due while it is active unwinds completely, even when the
\* code that never returns is that of another guest entered from it.
DueEntriesEnd ==
    \A g \in Guests : (depth[g] > 0 /\ IsDue(g)) ~> (depth[g] = 0)

\* README: a timeout or cancellation keeps its error category.
PolicyErrorsKeepCategory == result # "wrapped"

=============================================================================
