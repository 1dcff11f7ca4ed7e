-------------------------------- MODULE Loans --------------------------------
(***************************************************************************)
(* Lending the memory of guest buffers to Rust: the table of loans an      *)
(* engine keeps, the Bytes values host functions hold, the call stack on   *)
(* which host and guest code alternate, and what guest code may do to the  *)
(* memory of a buffer while it runs.                                       *)
(*                                                                         *)
(* A host frame is the closure of Guest::enter or a host function guest    *)
(* code called; host frames are the odd positions of the stack.  A Bytes   *)
(* value borrows a value of its frame, so it is dropped no later than the  *)
(* frame returns.                                                          *)
(***************************************************************************)
EXTENDS Naturals, FiniteSets

CONSTANTS
    Borrows,            \* the Bytes values that may exist at once
    Buffers,            \* the array buffers of the guest
    Storages,           \* the addresses their memory may have
    Immutable,          \* the buffers that are immutable
    Detached,           \* the storage of a buffer whose memory was taken away
    Empty,              \* the storage of an empty Bytes, which lends nothing
    NoBorrow,           \* a Bytes value that does not exist
    Patched,            \* what guest code has replaced of what the engine reads unasked
    MaxDepth            \* bound: the depth of the call stack

\* What operations that do not ask the table of loans read, and guest code may have
\* replaced by code of its own: "errors", the name, the message, the stack and the
\* constructors of an exception; "Set", globalThis.Set (or a setter the items it is
\* made of meet); "DataView", the accessors of DataView.prototype.
Patchable == {"errors", "Set", "DataView"}

ASSUME PatchedAssumption == Patched \subseteq Patchable
ASSUME BorrowsAssumption == IsFiniteSet(Borrows)
ASSUME StoragesAssumption == Detached \notin Storages /\ Empty \notin Storages

Kinds == {"shared", "exclusive"}
LoanType == [kind : Kinds \cup {"none"}, count : Nat]
BytesType == [storage : Storages \cup {Empty}, buffer : Buffers, kind : Kinds, frame : Nat]

ASSUME ImmutableAssumption == Immutable \subseteq Buffers
ASSUME NoBorrowAssumption ==
    NoBorrow \notin BytesType \cup [storage : Storages, kind : Kinds]

\* No entry in the table.
NoLoan == [kind |-> "none", count |-> 0]

VARIABLES
    entries,    \* Loans.entries: storage -> Loan
    bytes,      \* the Bytes values of the host: borrow -> BytesType, or NoBorrow
    memory,     \* buffer -> the address of its memory, or Detached
    depth,      \* the number of frames on the call stack
    code,       \* whose frame is on top: "host" or "guest"
    answer,     \* what lend or settled last answered: "granted", or a loan's kind
    exposed     \* history: the slices the table could not protect, see Expose and Lend

vars == <<entries, bytes, memory, depth, code, answer, exposed>>

-----------------------------------------------------------------------------
(* The table. *)

\* Loans::lend: a first loan, or one more shared loan beside shared loans.
Grants(loan, kind) == loan = NoLoan \/ (loan.kind = "shared" /\ kind = "shared")

\* A slip: a second shared loan does not count.
LentOnce(loan, kind) == [kind |-> kind, count |-> 1]

Lent(loan, kind) == [kind |-> kind, count |-> loan.count + 1]

\* Slips: the first drop ends every shared loan, or the last one leaves its entry.
ReleasedAll(loan) == NoLoan
ReleasedKept(loan) ==
    IF loan.kind = "shared" THEN [loan EXCEPT !.count = @ - 1] ELSE NoLoan

\* Loans::release: one shared loan less, or no entry any more.
Released(loan) ==
    IF loan.kind = "shared" /\ loan.count > 1
      THEN [loan EXCEPT !.count = @ - 1]
      ELSE NoLoan

\* A slip: guest code may run beside readers.
SettledForReaders == \A s \in Storages : entries[s].kind # "exclusive"

\* The Bytes values that hold a loan of storage s.
Holders(s) == {g \in Borrows : bytes[g] # NoBorrow /\ bytes[g].storage = s}

\* Loans::settled: no storage is lent.
Settled == \A s \in Storages : entries[s] = NoLoan

-----------------------------------------------------------------------------
(* Bytes::new, by a host frame on top of the stack. *)

Init ==
    /\ entries = [s \in Storages |-> NoLoan]
    /\ bytes = [g \in Borrows |-> NoBorrow]
    /\ memory \in [Buffers -> Storages \cup {Detached}]
    /\ \A b \in Immutable : memory[b] \in Storages
    /\ \A b, c \in Buffers : b # c /\ memory[b] \in Storages => memory[b] # memory[c]
    /\ depth = 1
    /\ code = "host"
    /\ answer = "granted"
    /\ exposed = {}

\* The buffer has its memory and may be borrowed in this way.
Reachable(b, kind) == memory[b] \in Storages /\ ~(kind = "exclusive" /\ b \in Immutable)

New(g, b, s, kind) ==
    /\ code = "host"
    /\ bytes[g] = NoBorrow
    /\ Reachable(b, kind)
    /\ bytes' = [bytes EXCEPT
                   ![g] = [storage |-> s, buffer |-> b, kind |-> kind, frame |-> depth]]
    /\ answer' = "granted"
    /\ UNCHANGED <<depth, code>>

\* A range of no bytes is granted without a loan.
BorrowEmpty(g, b, kind) ==
    New(g, b, Empty, kind) /\ UNCHANGED <<entries, memory, exposed>>

\* The Bytes value does not keep the buffer its range is in.  A buffer an accessor of
\* DataView.prototype made up has no other owner: it is freed when this returns.
Lend(g, b, kind) ==
    /\ New(g, b, memory[b], kind)
    /\ Grants(entries[memory[b]], kind)
    /\ entries' = [entries EXCEPT ![memory[b]] = Lent(@, kind)]
    /\ \/ UNCHANGED <<memory, exposed>>
       \/ /\ "DataView" \in Patched
          /\ Holders(memory[b]) \subseteq exposed
          /\ memory' = [memory EXCEPT ![b] = Detached]
          /\ exposed' = exposed \cup {g}

\* The loan in the way is named in Error::Borrow.
RefuseLend(b, kind) ==
    /\ code = "host"
    /\ Reachable(b, kind)
    /\ ~Grants(entries[memory[b]], kind)
    /\ answer' = entries[memory[b]].kind
    /\ UNCHANGED <<entries, bytes, memory, depth, code, exposed>>

\* The host runs an operation that reads what guest code has replaced and does not
\* ask settled: guest code runs, and every slice that is lent is exposed to it.
Expose(what) ==
    /\ what \in Patched
    /\ depth < MaxDepth
    /\ depth' = depth + 1
    /\ code' = "guest"
    /\ exposed' = UNION {Holders(s) : s \in Storages}

\* The range is outside the buffer, or the buffer is immutable: an exception is
\* thrown and captured, which reads it.
ThrowNew(b, kind) ==
    /\ code = "host"
    /\ ~Reachable(b, kind)
    /\ Expose("errors") \/ UNCHANGED <<depth, code, exposed>>
    /\ UNCHANGED <<entries, bytes, memory, answer>>

\* The range of a DataView: its buffer, its offset and its length are what the
\* accessors of DataView.prototype say, before anything is lent.
AskDataView ==
    /\ code = "host"
    /\ Expose("DataView")
    /\ UNCHANGED <<entries, bytes, memory, answer>>

\* A set is what globalThis.Set constructs.
NewSet ==
    /\ code = "host"
    /\ Expose("Set")
    /\ UNCHANGED <<entries, bytes, memory, answer>>

\* LoanGuard::drop: the frame that made a Bytes value drops it.
Drop(g) ==
    /\ code = "host"
    /\ bytes[g] # NoBorrow
    /\ bytes[g].frame = depth
    /\ bytes' = [bytes EXCEPT ![g] = NoBorrow]
    /\ exposed' = exposed \ {g}
    /\ entries' = IF bytes[g].storage = Empty
                    THEN entries
                    ELSE [entries EXCEPT ![bytes[g].storage] = Released(@)]
    /\ UNCHANGED <<memory, depth, code, answer>>

-----------------------------------------------------------------------------
(* The call stack. *)

\* Calling a function, reading a property, evaluating code, resolving a promise:
\* the operations that ask settled before guest code may run.
Call ==
    /\ code = "host"
    /\ Settled
    /\ depth < MaxDepth
    /\ depth' = depth + 1
    /\ code' = "guest"
    /\ answer' = "granted"
    /\ UNCHANGED <<entries, bytes, memory, exposed>>

RefuseCall ==
    /\ code = "host"
    /\ \E s \in Storages : entries[s] # NoLoan /\ answer' = entries[s].kind
    /\ UNCHANGED <<entries, bytes, memory, depth, code, exposed>>

\* A host function returns, or unwinds: its Bytes values are dropped by then.
HostReturns ==
    /\ code = "host"
    /\ depth > 1
    /\ \A g \in Borrows : bytes[g] # NoBorrow => bytes[g].frame # depth
    /\ depth' = depth - 1
    /\ code' = "guest"
    /\ UNCHANGED <<entries, bytes, memory, answer, exposed>>

GuestReturns ==
    /\ code = "guest"
    /\ depth' = depth - 1
    /\ code' = "host"
    /\ UNCHANGED <<entries, bytes, memory, answer, exposed>>

GuestCallsHost ==
    /\ code = "guest"
    /\ depth < MaxDepth
    /\ depth' = depth + 1
    /\ code' = "host"
    /\ UNCHANGED <<entries, bytes, memory, answer, exposed>>

\* Guest code resizes a buffer or makes a new one: memory at an unused address.
Move(b, s) ==
    /\ code = "guest"
    /\ b \notin Immutable
    /\ \A c \in Buffers : memory[c] # s
    /\ memory' = [memory EXCEPT ![b] = s]
    /\ UNCHANGED <<entries, bytes, depth, code, answer, exposed>>

\* Guest code transfers a buffer: its memory is another buffer's now, or nobody's.
Detach(b) ==
    /\ code = "guest"
    /\ b \notin Immutable
    /\ memory[b] \in Storages
    /\ \/ memory' = [memory EXCEPT ![b] = Detached]
       \/ \E c \in Buffers \ Immutable :
            /\ memory[c] = Detached
            /\ memory' = [memory EXCEPT ![b] = Detached, ![c] = memory[b]]
    /\ UNCHANGED <<entries, bytes, depth, code, answer, exposed>>

-----------------------------------------------------------------------------
Next ==
    \/ \E g \in Borrows, b \in Buffers, kind \in Kinds : BorrowEmpty(g, b, kind)
    \/ \E g \in Borrows, b \in Buffers, kind \in Kinds : Lend(g, b, kind)
    \/ \E b \in Buffers, kind \in Kinds : RefuseLend(b, kind)
    \/ \E b \in Buffers, kind \in Kinds : ThrowNew(b, kind)
    \/ AskDataView
    \/ NewSet
    \/ \E g \in Borrows : Drop(g)
    \/ Call
    \/ RefuseCall
    \/ HostReturns
    \/ GuestReturns
    \/ GuestCallsHost
    \/ \E b \in Buffers, s \in Storages : Move(b, s)
    \/ \E b \in Buffers : Detach(b)

Spec == Init /\ [][Next]_vars

-----------------------------------------------------------------------------
(* Properties. *)

\* The types of the variables; host and guest frames alternate.
TypeOK ==
    /\ entries \in [Storages -> LoanType]
    /\ bytes \in [Borrows -> BytesType \cup {NoBorrow}]
    /\ memory \in [Buffers -> Storages \cup {Detached}]
    /\ depth \in Nat \ {0}
    /\ code \in {"host", "guest"}
    /\ code = "host" <=> depth % 2 = 1
    /\ answer \in Kinds \cup {"granted"}
    /\ exposed \subseteq UNION {Holders(s) : s \in Storages}

\* The table counts the Bytes values that hold each loan, whatever the order in
\* which they were made and dropped: no loan outlives its borrow (guest code would
\* be refused for ever) and none ends before it (engine.rs, Loans).
TableIsExact ==
    \A s \in Storages :
        /\ entries[s].count = Cardinality(Holders(s))
        /\ entries[s].kind = "none" <=> Holders(s) = {}
        /\ \A g \in Holders(s) : bytes[g].kind = entries[s].kind

\* Two live slices of one memory are both read-only (the slices Bytes dereferences
\* to, which Rust code takes for &[u8] and &mut [u8]).
ExclusiveIsAlone ==
    \A s \in Storages : \A g, h \in Holders(s) :
        g # h => bytes[g].kind = "shared" /\ bytes[h].kind = "shared"

\* A live slice points to the memory its buffer still has, unless it was exposed to
\* guest code by an operation that does not ask: no guest code the table was asked
\* for freed, moved or gave away the memory in between (README, "Guest code does not
\* run while a borrow is live").
SlicesStayInPlace ==
    \A s \in Storages : \A g \in Holders(s) :
        g \in exposed \/ memory[bytes[g].buffer] = s

\* Guest code runs beside no live slice but those an operation that does not ask
\* exposed to it: not after a call, and not when a host function returns to it.
RunsBesideExposed == code = "guest" => \A s \in Storages : Holders(s) \subseteq exposed

\* Guest code does not run while a borrow is live (README).
GuestRunsAlone == code = "guest" => \A s \in Storages : Holders(s) = {}

\* Lending implements the abstract specification of borrows.
LiveBorrow(g) ==
    IF bytes[g] = NoBorrow THEN NoBorrow
    ELSE IF bytes[g].storage = Empty THEN NoBorrow
    ELSE [storage |-> bytes[g].storage, kind |-> bytes[g].kind]

Abstract == INSTANCE Borrowing WITH
    live <- [g \in Borrows |-> LiveBorrow(g)],
    MayIntrude <- Patched # {}

LendsAsPromised == Abstract!Spec

=============================================================================
