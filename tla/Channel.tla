------------------------------- MODULE Channel -------------------------------
(***************************************************************************)
(* The host's channel between a Rust Sink lent to a guest as a             *)
(* WritableStream and a Rust Stream lent to it as a ReadableStream: a      *)
(* bounded queue either end of which may go away.  The sink may hold one   *)
(* chunk that is not in the queue yet, which is what flushing is for.      *)
(***************************************************************************)
EXTENDS Naturals, Sequences, FiniteSets

CONSTANTS
    MaxChunks,  \* bound: the number of chunks written
    Capacity,   \* how many chunks the channel holds
    MaxTroubles \* bound: how often something unusual happens (see Trouble)

ASSUME MaxChunksAssumption == MaxChunks \in Nat
ASSUME CapacityAssumption == Capacity \in Nat \ {0}
ASSUME MaxTroublesAssumption == MaxTroubles \in Nat

Chunks == 1..MaxChunks

VARIABLES
    buffered,   \* the chunk the sink has accepted and not passed on, a set of at most one
    passed,     \* the chunks that entered the channel, in order
    taken,      \* how many of them have left it
    sender,     \* "open", or "gone" once the sink was closed or dropped
    receiver,   \* "open", or "gone" once the stream was dropped
    troubles    \* how often something unusual has happened

channelVars == <<buffered, passed, taken, sender, receiver>>

\* What is not the plain use of a stream: a future is dropped, a lock released, a stream
\* aborted or cancelled, or a call fails for a reason outside the stream, such as a
\* policy that is due, a guest that is closed or a chunk that cannot be converted.
Trouble ==
    /\ troubles < MaxTroubles
    /\ troubles' = troubles + 1

Quietly == UNCHANGED troubles

\* A call that ends with "due" failed for a reason outside the stream.
TroubleIfDue(result) == IF result = "due" THEN Trouble ELSE Quietly

\* The elements of a sequence.
Elems(s) == {s[i] : i \in DOMAIN s}

\* Of a set of at most one element, that element.
Only(S) == CHOOSE x \in S : TRUE

ChannelInit ==
    /\ buffered = {}
    /\ passed = <<>>
    /\ taken = 0
    /\ sender = "open"
    /\ receiver = "open"
    /\ troubles = 0

ChannelTypeOK ==
    /\ buffered \subseteq Chunks
    /\ passed \in Seq(Chunks)
    /\ taken \in 0..Len(passed)
    /\ sender \in {"open", "gone"}
    /\ receiver \in {"open", "gone"}
    /\ troubles \in 0..MaxTroubles

\* The sink passes on what it has buffered; when nobody listens, it is lost.
PassOn ==
    /\ buffered # {}
    /\ receiver = "open" => Len(passed) - taken < Capacity
    /\ passed' = IF receiver = "open" THEN Append(passed, Only(buffered)) ELSE passed
    /\ buffered' = {}
    /\ UNCHANGED <<taken, sender, receiver, troubles>>

===============================================================================
