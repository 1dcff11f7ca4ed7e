------------------------------- MODULE Iterators -------------------------------
(***************************************************************************)
(* An iterator of the guest as the host goes through it: handle::iter's    *)
(* Iter and AsyncIter over the next and return of any guest code.  The     *)
(* future of an asynchronous next may be dropped at any time, as poll_next *)
(* of Stream does after each poll; the promise it waits for stays with the *)
(* iterator.  An item is the number of the call of next that gave it.      *)
(***************************************************************************)
EXTENDS Naturals, Sequences

CONSTANT MaxNexts   \* bound: the calls of next that the guest answers

ASSUME MaxNextsAssumption == MaxNexts \in Nat

VARIABLES
    going,      \* "sync" or "async"
    iterator,   \* its phase, and whether it keeps the promise of a next
    future,     \* the future the application has: of "next", of "close", or "none"
    settled,    \* the promise of the guest's last next: "none", "waiting" or what it gave
    nexts,      \* how often the guest's next was called
    returns,    \* and its return
    yielded     \* what the application was given, in order

iteratorVars == <<going, iterator, future, settled, nexts, returns, yielded>>

IteratorAt(phase, pending) == [phase |-> phase, pending |-> pending]

IteratorInit ==
    /\ going \in {"sync", "async"}
    /\ iterator = IteratorAt("value", FALSE)
    /\ future = "none" /\ settled = "none"
    /\ nexts = 0 /\ returns = 0
    /\ yielded = <<>>

\* A value becomes an iterator if its method answers; without a method, or when one of
\* the two throws, the conversion fails.
BecomesIterator ==
    /\ iterator.phase = "value"
    /\ \E phase \in {"open", "failed"} : iterator' = IteratorAt(phase, FALSE)
    /\ UNCHANGED <<going, future, settled, nexts, returns, yielded>>

-----------------------------------------------------------------------------
(* What a call of next comes to, and what it leaves behind. *)

\* A property that throws, a value that does not convert and a rejection are "error".
Given == {"item", "end", "error"}

Ends(given) == given # "item"

\* The application gets what the guest's last call gave.
Finishes(given) ==
    /\ iterator' = IteratorAt(IF Ends(given) THEN "done" ELSE "open", FALSE)
    /\ yielded' = IF given = "item" THEN Append(yielded, nexts') ELSE yielded
    /\ settled' = "none"
    /\ future' = "none"

CallsNext == nexts < MaxNexts /\ nexts' = nexts + 1

\* The guest is closed or due, or its buffers are lent: its code does not run.
NotAsked == nexts' = nexts

NextSync ==
    /\ going = "sync"
    /\ iterator.phase = "open"
    /\ \/ NotAsked /\ Finishes("error")
       \/ CallsNext /\ \E given \in Given : Finishes(given)
    /\ UNCHANGED <<going, returns>>

\* An iterator that is done is not asked to return.
Returns == iterator.phase = "open"

CloseSync ==
    /\ going = "sync"
    /\ iterator.phase \in {"open", "done"}
    /\ iterator' = IteratorAt("closed", FALSE)
    /\ \/ UNCHANGED returns
       \/ Returns /\ returns' = returns + 1
    /\ UNCHANGED <<going, future, settled, nexts, yielded>>

-----------------------------------------------------------------------------
(* AsyncIter. *)

BeginNext ==
    /\ going = "async" /\ future = "none"
    /\ iterator.phase \in {"open", "done"}
    /\ future' = "next"
    /\ UNCHANGED <<going, iterator, settled, nexts, returns, yielded>>

\* Without asking the guest.
NextOfDone ==
    /\ future = "next" /\ iterator.phase = "done"
    /\ future' = "none"
    /\ UNCHANGED <<going, iterator, settled, nexts, returns, yielded>>

\* A slip: each future of next calls the guest.
StartsAlways == TRUE

StartsNext == ~iterator.pending

\* A step that is no promise is taken for one that is fulfilled.
Awaitable == {"waiting"} \cup Given

\* The first poll calls the guest's next; the promise is the iterator's from here on.
Start ==
    /\ future = "next" /\ iterator.phase = "open"
    /\ StartsNext
    /\ \/ (NotAsked \/ CallsNext) /\ Finishes("error")
       \/ /\ CallsNext
          /\ iterator' = IteratorAt("open", TRUE)
          /\ settled' \in Awaitable
          /\ UNCHANGED <<future, yielded>>
    /\ UNCHANGED <<going, returns>>

StepSettles ==
    /\ settled = "waiting"
    /\ settled' \in Given
    /\ UNCHANGED <<going, iterator, future, nexts, returns, yielded>>

\* What ends the wait for the promise: what it settled as, or a failure, as when the
\* policy is due or the value does not convert.
Answers == {settled, "error"} \ {"waiting"}

\* A poll that ends the wait takes the promise from the iterator.
PollNext ==
    /\ future = "next" /\ iterator.pending
    /\ NotAsked
    /\ \E given \in Answers : Finishes(given)
    /\ UNCHANGED <<going, returns>>

\* The iterator goes with the future that closes it.
BeginClose ==
    /\ going = "async" /\ future = "none"
    /\ iterator.phase \in {"open", "done"}
    /\ future' = "close"
    /\ UNCHANGED <<going, iterator, settled, nexts, returns, yielded>>

\* The first poll of close calls the guest's return and forgets the iterator; whether its
\* promise is waited for changes nothing more.
PollClose ==
    /\ future = "close"
    /\ future' = "none"
    /\ iterator' = IteratorAt("closed", FALSE)
    /\ \/ UNCHANGED returns
       \/ Returns /\ returns' = returns + 1
    /\ UNCHANGED <<going, settled, nexts, yielded>>

\* A next leaves the iterator as it is, a close takes it along.
DropFuture ==
    /\ future # "none"
    /\ future' = "none"
    /\ iterator' = IF future = "close" THEN IteratorAt("closed", FALSE) ELSE iterator
    /\ UNCHANGED <<going, settled, nexts, returns, yielded>>

IteratorNext ==
    \/ BecomesIterator \/ NextSync \/ CloseSync
    \/ BeginNext \/ NextOfDone \/ Start \/ StepSettles \/ PollNext
    \/ BeginClose \/ PollClose \/ DropFuture

IteratorSpec == IteratorInit /\ [][IteratorNext]_iteratorVars

-----------------------------------------------------------------------------
(* Properties. *)

\* Whatever futures of next are dropped, the application is given the items of all the
\* guest's calls of next in order, each once and none left out but that of the last call:
\* that one is kept for the next future, or the iterator has ended and neither asks nor
\* closes it again (Iter, AsyncIter).
ItemsInOrder ==
    /\ [](/\ yielded = [i \in DOMAIN yielded |-> i]
          /\ nexts <= Len(yielded) + 1
          /\ nexts = Len(yielded) \/ iterator.pending \/ iterator.phase \in {"done", "closed"}
          /\ returns <= 1)
    /\ [][iterator.phase \in {"done", "closed"} => UNCHANGED <<yielded, nexts, returns>>]_iteratorVars
=============================================================================
