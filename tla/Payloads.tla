------------------------------- MODULE Payloads -------------------------------
(***************************************************************************)
(* Host objects at work: a method borrows the payload of its receiver for  *)
(* as long as it runs (quickjs backend/classes.rs, host/receiver.rs of the *)
(* macros), Iterable::next borrows the host's iterator (host/iter.rs), and *)
(* both may run guest code that calls them again.  The frames stand on the *)
(* stack of Realisation, above whatever host code was running.             *)
(***************************************************************************)
EXTENDS Realisation

CONSTANTS
    Cells,      \* the RefCells: of payloads and of iterators
    Iterators,  \* which of them hold the iterator of an Iterable
    MaxValue    \* bound: how often a payload is changed, how many items an iterator has

ASSUME IteratorsAssumption == Iterators \subseteq Cells
ASSUME MaxValueAssumption == MaxValue \in Nat

VARIABLES
    value,      \* cell -> the payload; of an iterator, how many items it has given
    iterator,   \* cell -> "there", or "gone" once the Iterable dropped it
    ended       \* cell -> the iterator has returned None

payloadVars == <<value, iterator, ended>>

\* A frame that has borrowed a cell remembers what it saw there.
Borrower(kind, cell, mode) ==
    [kind |-> kind, of |-> cell, at |-> 0, state |-> Empty, made |-> <<>>,
     mode |-> mode, saw |-> value[cell]]

Borrowers(cell, modes) ==
    {i \in DOMAIN stack : stack[i].kind \in {"method", "next"} /\ stack[i].of = cell /\ stack[i].mode \in modes}

\* A slip: readers do not keep a writer out.
WriterLetIn(cell, mode) == Borrowers(cell, {"exclusive"}) = {}

\* RefCell: try_borrow and try_borrow_mut.  A call that may not borrow is refused with an
\* error and changes nothing.
Borrowable(cell, mode) ==
    Borrowers(cell, IF mode = "shared" THEN {"exclusive"} ELSE {"shared", "exclusive"}) = {}

-----------------------------------------------------------------------------
(* Methods, and closures of borrow_with and borrow_with_mut. *)

\* A method with a receiver borrows its payload before it converts its arguments, and
\* until it has returned.  Guest code or the application calls it.
Call(cell, mode) ==
    /\ HostRuns
    /\ cell \notin Iterators
    /\ Len(stack) < MaxFrames
    /\ Borrowable(cell, mode)
    /\ stack' = Push(Borrower("method", cell, mode))
    /\ UNCHANGED <<value, iterator, ended, hostVars>>

\* A method with an exclusive receiver changes the payload.
Change ==
    /\ TopIs("method") /\ Top.mode = "exclusive"
    /\ value[Top.of] < MaxValue
    /\ value' = [value EXCEPT ![Top.of] = @ + 1]
    /\ stack' = Replace([Top EXCEPT !.saw = value[Top.of] + 1])
    /\ UNCHANGED <<iterator, ended, hostVars>>

\* A method returns, with a result or an error.
Leave ==
    /\ TopIs("method")
    /\ stack' = Front(stack)
    /\ UNCHANGED <<value, iterator, ended, hostVars>>

-----------------------------------------------------------------------------
(* Iterable: next and return. *)

CallNext(cell) ==
    /\ HostRuns
    /\ cell \in Iterators
    /\ Len(stack) < MaxFrames
    /\ Borrowable(cell, "exclusive") /\ iterator[cell] = "there"
    /\ stack' = Push(Borrower("next", cell, "exclusive"))
    /\ UNCHANGED <<value, iterator, ended, hostVars>>

\* Iterator::next returns an item, which is converted when the borrow has ended.
NextYields ==
    /\ TopIs("next")
    /\ value[Top.of] < MaxValue
    /\ value' = [value EXCEPT ![Top.of] = @ + 1]
    /\ stack' = Front(stack)
    /\ UNCHANGED <<iterator, ended, hostVars>>

DroppedAtEnd(cell) == [iterator EXCEPT ![cell] = "gone"]

\* Iterator::next returns None, and the iterator is dropped.
NextEnds ==
    /\ TopIs("next")
    /\ iterator' = DroppedAtEnd(Top.of)
    /\ ended' = [ended EXCEPT ![Top.of] = TRUE]
    /\ stack' = Front(stack)
    /\ UNCHANGED <<value, hostVars>>

CallReturn(cell) ==
    /\ HostRuns
    /\ cell \in Iterators
    /\ Borrowable(cell, "exclusive")
    /\ iterator' = [iterator EXCEPT ![cell] = "gone"]
    /\ UNCHANGED <<stack, value, ended, hostVars>>

-----------------------------------------------------------------------------
PayloadsInit ==
    /\ value = [c \in Cells |-> 0]
    /\ iterator = [c \in Cells |-> "there"]
    /\ ended = [c \in Cells |-> FALSE]

PayloadsNext ==
    \/ \E cell \in Cells : \E mode \in {"shared", "exclusive"} : Call(cell, mode)
    \/ \E cell \in Cells : CallNext(cell) \/ CallReturn(cell)
    \/ Change \/ Leave \/ NextYields \/ NextEnds
===============================================================================
