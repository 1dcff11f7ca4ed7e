----------------------------- MODULE SharedStream -----------------------------
(***************************************************************************)
(* A Rust stream lent to guest code as an async iterator or a readable     *)
(* stream: the calls of next take turns through a chain of oneshot         *)
(* channels, and the call whose turn it is polls the stream.               *)
(*                                                                         *)
(* Calls are numbered in the order they are made.  A call is a host future *)
(* of the guest: it is polled when it has been woken, and a step of the    *)
(* event loop may poll it at any other time too.  While the stream is      *)
(* polled it may run guest code, which calls next or close again.          *)
(***************************************************************************)
EXTENDS Naturals, Sequences, FiniteSets

CONSTANTS
    Items,      \* what the stream yields, each "ok" or "err"; then it ends
    MaxCalls    \* bound: the number of calls of next

ASSUME ItemsAssumption == Items \in Seq({"ok", "err"})
ASSUME MaxCallsAssumption == MaxCalls \in Nat

Calls == 1..MaxCalls
NoCall == 0

\* What a call resolves with: the number of an item, or "end".
Unserved == <<"unserved">>
Outcomes == {<<"item", i>> : i \in DOMAIN Items} \cup {<<"end">>}

VARIABLES
    made,       \* the number of calls made
    turn,       \* the call whose channel the turn cell holds, or NoCall
    previous,   \* call -> the call it waits for, or NoCall
    phase,      \* call -> "unmade", "waiting", "polling" or "ended"
    outcome,    \* call -> what it resolved with, or Unserved
    open,       \* the shared cell still holds the stream
    taken,      \* the number of items the stream has yielded
    ready,      \* the stream has its next item, or its end, at hand
    inside,     \* the calls inside Stream::poll_next, which borrow the cell
    listener,   \* the call the stream wakes when it gets ready, a set of at most one
    woken       \* the calls that will be polled

vars == <<made, turn, previous, phase, outcome, open, taken, ready, inside, listener, woken>>

Made == 1..made
InFlight == {c \in Made : phase[c] # "ended"}

-----------------------------------------------------------------------------
(* Helpers. *)

\* A slip: a call does not wait for the one before it.
HasTurnAlways(c) == phase[c] \in {"waiting", "polling"}

\* The receiver of the previous call resolves once that call dropped its sender.
HasTurn(c) ==
    \/ phase[c] = "polling"
    \/ phase[c] = "waiting" /\ (previous[c] # NoCall => phase[previous[c]] = "ended")

\* A slip: the sender of an ended call is kept.
WaitingForKept(c) == {}

\* The calls an ended call wakes by dropping its sender.
WaitingFor(c) == {d \in Made : phase[d] = "waiting" /\ previous[d] = c}

\* A slip: only the end of the stream ends it.
EndsAtEnd(step) == step = <<"end">>

\* A step other than an item drops the stream.
Ends(step) == step = <<"end">> \/ Items[step[2]] = "err"

\* What the stream yields next.
Upcoming == IF taken < Len(Items) THEN <<"item", taken + 1>> ELSE <<"end">>

\* A slip: the turn cell is emptied.
TurnAfterTaken(c) == NoCall

\* The turn cell after call c, which took what it held.
TurnAfter(c) == c

\* A slip: nobody polls the call that awaits the stream.
WokenByCloseNone == woken

\* close runs as a job of the guest; a step that ran a job is followed by another
\* step, which polls every host future.
WokenByClose == InFlight

-----------------------------------------------------------------------------
Init ==
    /\ made = 0
    /\ turn = NoCall
    /\ previous = [c \in Calls |-> NoCall]
    /\ phase = [c \in Calls |-> "unmade"]
    /\ outcome = [c \in Calls |-> Unserved]
    /\ open = TRUE
    /\ taken = 0
    /\ ready \in BOOLEAN
    /\ inside = {}
    /\ listener = {}
    /\ woken = {}

\* SharedStream::next, which makes the future that the event loop polls first in
\* its next step.
Next(c) ==
    /\ c = made + 1
    /\ made' = c
    /\ turn' = TurnAfter(c)
    /\ previous' = [previous EXCEPT ![c] = turn]
    /\ phase' = [phase EXCEPT ![c] = "waiting"]
    /\ woken' = woken \cup {c}
    /\ UNCHANGED <<outcome, open, taken, ready, inside, listener>>

\* The call resolves; its sender is dropped.
Resolve(c, step) ==
    /\ phase' = [phase EXCEPT ![c] = "ended"]
    /\ outcome' = [outcome EXCEPT ![c] = step]
    /\ woken' = (woken \ {c}) \cup WaitingFor(c)

\* Another call's turn: the poll leaves a waker in the channel.
PollWaits(c) ==
    /\ c \in InFlight
    /\ ~HasTurn(c)
    /\ woken' = woken \ {c}
    /\ UNCHANGED <<made, turn, previous, phase, outcome, open, taken, ready, inside, listener>>

\* The cell is empty: the stream ended or was closed before.
PollEnded(c) ==
    /\ c \in InFlight
    /\ HasTurn(c)
    /\ ~open
    /\ Resolve(c, <<"end">>)
    /\ UNCHANGED <<made, turn, previous, open, taken, ready, inside, listener>>

\* The poll enters the stream, with the cell borrowed.
PollBegins(c) ==
    /\ c \in InFlight \ inside
    /\ HasTurn(c)
    /\ open
    /\ phase' = [phase EXCEPT ![c] = "polling"]
    /\ inside' = inside \cup {c}
    /\ woken' = woken \ {c}
    /\ UNCHANGED <<made, turn, previous, outcome, open, taken, ready, listener>>

\* The stream is not ready and keeps the waker of this poll.
PollPends(c) ==
    /\ c \in inside
    /\ ~ready
    /\ inside' = inside \ {c}
    /\ listener' = {c}
    /\ UNCHANGED <<made, turn, previous, phase, outcome, open, taken, ready, woken>>

PollYields(c) ==
    /\ c \in inside
    /\ ready
    /\ inside' = inside \ {c}
    /\ taken' = IF taken < Len(Items) THEN taken + 1 ELSE taken
    /\ ready' \in BOOLEAN
    /\ open' = ~Ends(Upcoming)
    /\ listener' = {}
    /\ Resolve(c, Upcoming)
    /\ UNCHANGED <<made, turn, previous>>

\* The stream gets its next item.
Arrive ==
    /\ open
    /\ ~ready
    /\ ready' = TRUE
    /\ woken' = woken \cup listener
    /\ listener' = {}
    /\ UNCHANGED <<made, turn, previous, phase, outcome, open, taken, inside>>

\* SharedStream::close drops the stream, waker and all.  From inside the stream's
\* own poll the cell is borrowed: close fails with Error::Borrow and changes nothing.
Close ==
    /\ open
    /\ inside = {}
    /\ open' = FALSE
    /\ listener' = {}
    /\ woken' = WokenByClose
    /\ UNCHANGED <<made, turn, previous, phase, outcome, taken, ready, inside>>

Poll(c) == PollWaits(c) \/ PollEnded(c) \/ PollBegins(c)

PollReturns(c) == PollPends(c) \/ PollYields(c)

Step ==
    \/ \E c \in Calls : Next(c)
    \/ \E c \in Calls : PollWaits(c)
    \/ \E c \in Calls : PollEnded(c)
    \/ \E c \in Calls : PollBegins(c)
    \/ \E c \in Calls : PollPends(c)
    \/ \E c \in Calls : PollYields(c)
    \/ Arrive
    \/ Close

Spec == Init /\ [][Step]_vars

\* Woken futures are polled, a poll returns, and the stream gets ready some time.
FairSpec ==
    /\ Spec
    /\ \A c \in Calls : WF_vars(c \in woken /\ Poll(c)) /\ WF_vars(PollReturns(c))
    /\ WF_vars(Arrive)

-----------------------------------------------------------------------------
(* Properties. *)

\* The types, and calls inside the stream are those that poll it.
TypeOK ==
    /\ made \in 0..MaxCalls
    /\ turn \in 0..MaxCalls
    /\ previous \in [Calls -> 0..MaxCalls]
    /\ phase \in [Calls -> {"unmade", "waiting", "polling", "ended"}]
    /\ outcome \in [Calls -> Outcomes \cup {Unserved}]
    /\ open \in BOOLEAN
    /\ taken \in 0..Len(Items)
    /\ ready \in BOOLEAN
    /\ inside \subseteq {c \in Calls : phase[c] = "polling"}
    /\ listener \subseteq Calls
    /\ woken \subseteq Calls

\* RefCell::borrow_mut in next never finds the cell borrowed, which would panic:
\* not even when the stream's own poll runs guest code that calls next.
NeverBorrowedTwice == Cardinality(inside) <= 1

\* "Calls from the guest are served in the order they were made" (README): a call
\* resolves after all calls before it, the n-th call gets the n-th item, and after
\* an end there are only ends.
ServedInOrder ==
    \A c \in Made : phase[c] = "ended" =>
        /\ outcome[c] \in {<<"item", c>>, <<"end">>}
        /\ \A b \in 1..(c - 1) :
             /\ phase[b] = "ended"
             /\ outcome[b] = <<"end">> => outcome[c] = <<"end">>

\* "An Err rejects the guest's pending read and ends the iteration" (README): the
\* calls after it end, and the stream is not polled past it.
ErrorIsLast ==
    \A c \in Made, i \in DOMAIN Items :
        outcome[c] = <<"item", i>> /\ Items[i] = "err" =>
            /\ ~open
            /\ taken = i

\* Every call resolves, closed stream or not.
EveryCallEnds == \A c \in Calls : phase[c] # "unmade" ~> phase[c] = "ended"

===============================================================================
