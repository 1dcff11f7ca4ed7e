------------------------------ MODULE StreamPipe ------------------------------
(***************************************************************************)
(* A host writes chunks through a WritableStream of the guest into a Rust  *)
(* channel, and reads what comes out of it through a ReadableStream of the *)
(* guest: StreamWriter and StreamReader at the two ends of one Channel.    *)
(***************************************************************************)
EXTENDS StreamWriter, StreamReader

vars == <<writerVars, readerVars, channelVars, troubles>>

Init == ChannelInit /\ WriterInit /\ ReaderInit

Next ==
    \/ WriterStep /\ UNCHANGED readerVars
    \/ SinkStep /\ UNCHANGED readerVars
    \/ PassOn /\ UNCHANGED <<writerVars, readerVars>>
    \/ ReaderStep /\ UNCHANGED writerVars
    \/ SourceStep /\ UNCHANGED writerVars

Spec == Init /\ [][Next]_vars

\* The event loop works for both streams, futures are polled, and the application
\* keeps reading.
FairSpec ==
    /\ Spec
    /\ WF_vars(PollOperation /\ UNCHANGED readerVars)
    /\ WF_vars(SinkStep /\ UNCHANGED readerVars)
    /\ WF_vars(PassOn /\ UNCHANGED <<writerVars, readerVars>>)
    /\ WF_vars((JsPulls \/ PullYields \/ PullEnds) /\ Quietly /\ UNCHANGED <<hostReader, writerVars>>)
    /\ WF_vars(BeginRead /\ UNCHANGED writerVars)
    /\ SF_vars(PollRead /\ UNCHANGED writerVars)

-----------------------------------------------------------------------------
(* Properties. *)

\* The types, and a writer holds a promise exactly while it waits for one.
TypeOK ==
    /\ ChannelTypeOK
    /\ WriterTypeOK
    /\ ReaderTypeOK
    /\ writer.phase \in {"writing", "closing"} <=> writer.pending # {}
    /\ Cardinality(writer.pending) <= 1

Increasing(s) == \A i, j \in DOMAIN s : i < j => s[i] < s[j]

\* Whatever futures are dropped, chunks pass through the stream in the order they
\* were written, none of them twice; a write returns Ok only when its own chunk went
\* through (or nobody listens any more), and an error of the stream only when it did
\* not; close returns Ok when every chunk the stream ever took has gone through, those of
\* dropped writes and of writers before this one too (abort discards what is left).
WritesAreTrue ==
    /\ TypeOK
    /\ Increasing(passed)
    /\ \A c \in Chunks :
         /\ answer[c] = "ok" => c \in Elems(passed) \/ receiver = "gone"
         /\ answer[c] = "err" => c \notin Elems(passed)
    /\ closeOk /\ promise[AbortRequest] = "none" =>
         \A c \in Chunks :
            /\ promise[c] # "pending"
            /\ promise[c] = "ok" => c \in Elems(passed) \/ receiver = "gone"

\* A writer that is open, whose flush returns Ok at once, owes nothing: whatever futures
\* were dropped, every chunk it has handed to the stream was accepted, none is pending
\* or was refused without an operation that said so.
OpenOwesNothing ==
    writer.phase = "open" =>
        \A c \in Chunks : c > before => promise[c] \in {"none", "ok"}

\* Every chunk that left the channel is returned by one read, kept for the next, or
\* lost; reads return chunks in order.  A read that returns the end has seen it: the
\* stream was cancelled or its sender is gone with nothing left, and without losses or an
\* abort everything written was read.
ReadsAccounted ==
    /\ Increasing(got)
    /\ Elems(SubSeq(passed, 1, taken)) = Elems(got) \cup lost \cup stored \cup request.chunk
    /\ Elems(got) \cap (lost \cup stored \cup request.chunk) = {}
    /\ lost \cap (stored \cup request.chunk) = {}
    /\ stored \cap request.chunk = {}
    /\ told = "end" =>
         /\ readable = "closed" /\ stored = {}
         /\ cancelled \/ (sender = "gone" /\ taken = Len(passed))
         /\ ~cancelled /\ lost = {} /\ promise[AbortRequest] = "none" =>
              \A c \in Chunks : promise[c] = "ok" => c \in Elems(got)

\* A chunk is lost only by what ends the reader or the stream: an error of its own, a
\* release, a cancellation.  Dropping the future of a read loses nothing.
OnlyEndsLose ==
    [][lost' # lost => reader'.phase # "open" \/ readable' \in {"closed", "errored"}]_vars

\* An operation of the writer ends as long as somebody reads: chunks the channel has no
\* room for wait, and nobody waits for each other.
OperationsEnd == Busy ~> (~Busy \/ reader.phase # "open")

===============================================================================
