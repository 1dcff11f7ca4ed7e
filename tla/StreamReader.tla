----------------------------- MODULE StreamReader -----------------------------
(***************************************************************************)
(* handle::stream::Reader, through which the host reads a ReadableStream   *)
(* of the guest, and host::stream::StreamSource, whose pull takes the      *)
(* items of a Rust Stream for it.                                          *)
(*                                                                         *)
(* A read is a future the application polls and may drop at any time; the  *)
(* promise it waited for stays in the reader and belongs to the next read. *)
(* The ReadableStream between the two is the library's: it pulls one chunk *)
(* at a time, and keeps at most one that nobody has asked for.             *)
(***************************************************************************)
EXTENDS Channel

VARIABLES
    reader,     \* its phase, and whether it holds the promise of a read
    holding,    \* the JavaScript reader still has the stream's lock
    reading,    \* the application has the future of a read
    got,        \* the chunks that reads have returned, in order
    lost,       \* the chunks that were taken from the channel and no read will return
    told,       \* how the reader's last read ended: "chunk", "end" or "failure"
    readable,   \* of the ReadableStream: "readable", "closing", "closed" or "errored"
    stored,     \* the chunk the stream keeps for the next read, a set of at most one
    request,    \* the promise of the last read: its state, and the chunk in it
    pulling,    \* the pull algorithm has been called and its promise is pending
    cancelled   \* the stream has been cancelled

hostReader == <<reader, holding, reading, got, told, cancelled>>
jsReadable == <<readable, stored, request, pulling>>
readerVars == <<hostReader, lost, jsReadable>>

-----------------------------------------------------------------------------
(* The ReadableStream of the guest, and StreamSource's pull. *)

Answer(state, chunks) == [state |-> state, chunk |-> chunks]
Unasked == Answer("none", {})
Waiting == Answer("waiting", {})

\* A pending read is answered; an answer that is there stays.
Answered(answer) == IF request = Waiting THEN answer ELSE request

\* The stream has room for a chunk, or somebody waits for one.
JsWantsPull == readable = "readable" /\ (stored = {} \/ request = Waiting)

JsPulls ==
    /\ ~pulling
    /\ JsWantsPull
    /\ pulling' = TRUE
    /\ UNCHANGED <<lost, readable, stored, request, channelVars>>

\* The stream yields a chunk and the controller enqueues it.
PullYields ==
    /\ pulling
    /\ receiver = "open"
    /\ taken < Len(passed)
    /\ taken' = taken + 1
    /\ pulling' = FALSE
    /\ request' = Answered(Answer("chunk", {passed[taken + 1]}))
    /\ stored' = IF request = Waiting THEN stored ELSE stored \cup {passed[taken + 1]}
    /\ UNCHANGED <<lost, readable, buffered, passed, sender, receiver>>

\* The stream ends and the controller closes; so does the pull after a cancellation,
\* whose call of close the guest refuses.
PullEnds ==
    /\ pulling
    /\ \/ receiver = "gone"
       \/ taken = Len(passed) /\ sender = "gone"
    /\ pulling' = FALSE
    /\ receiver' = "gone"
    /\ readable' = IF readable # "readable" THEN readable
                   ELSE IF stored = {} THEN "closed" ELSE "closing"
    /\ request' = Answered(Answer("end", {}))
    /\ UNCHANGED <<lost, stored, buffered, passed, taken, sender>>

\* The stream yields an error, which rejects the pull and errors the stream.
PullFails ==
    /\ pulling
    /\ receiver = "open"
    /\ pulling' = FALSE
    /\ receiver' = "gone"
    /\ readable' = "errored"
    /\ stored' = {}
    /\ lost' = lost \cup stored
    /\ request' = Answered(Answer("err", {}))
    /\ UNCHANGED <<buffered, passed, taken, sender>>

-----------------------------------------------------------------------------
(* The reader. *)

ReaderAt(phase, pending) == [phase |-> phase, pending |-> pending]

\* A slip: the promise is forgotten with the future that waited for it.
ForgetRead == ReaderAt(reader.phase, FALSE)

\* The reader after the future of a read was dropped.
AfterReadDropped == reader

\* A slip: only the end of the stream ends the reader.
EndsReaderAtEnd(result) == result = "end"

\* Every result but a chunk ends the reader.
EndsReader(result) == result # "chunk"

ReadReturns(result) ==
    /\ reading' = FALSE
    /\ told' = CASE result = "chunk" -> "chunk"
                 [] result = "end" -> "end"
                 [] OTHER -> "failure"

\* What JavaScript's read answers at once: the stored chunk, the end, a rejection,
\* or nothing yet.
JsRead ==
    IF readable = "errored" THEN Answer("err", {})
    ELSE IF stored # {} THEN Answer("chunk", stored)
    ELSE IF readable = "readable" THEN Waiting
    ELSE Answer("end", {})

\* The answer to a read reaches the application.  A chunk that cannot be converted
\* is an error like any other.
TakeAnswer(answer) ==
    /\ answer # Waiting
    /\ request' = Unasked
    /\ \E result \in {answer.state} \cup {"due"} :
         /\ reader' = ReaderAt(IF EndsReader(result) THEN "done" ELSE reader.phase, FALSE)
         /\ got' = IF result = "chunk" THEN Append(got, Only(answer.chunk)) ELSE got
         /\ lost' = IF result = "due" THEN lost \cup answer.chunk ELSE lost
         /\ TroubleIfDue(result)
         /\ ReadReturns(result)

BeginRead ==
    /\ ~reading
    /\ reading' = TRUE
    /\ Quietly
    /\ UNCHANGED <<reader, holding, got, lost, told, cancelled, jsReadable, channelVars>>

\* A read of a reader that is released or done returns without asking the guest.
ReadOfEnded ==
    /\ reading
    /\ reader.phase # "open"
    /\ reading' = FALSE
    /\ Quietly
    /\ UNCHANGED <<reader, holding, got, lost, told, cancelled, jsReadable, channelVars>>

\* The first poll of a read that finds no promise in the reader asks for one.
ReadAsks ==
    /\ reading
    /\ reader = ReaderAt("open", FALSE)
    /\ stored' = {}
    /\ readable' = IF readable = "closing" THEN "closed" ELSE readable
    /\ \/ /\ JsRead = Waiting
          /\ request' = Waiting
          /\ reader' = ReaderAt("open", TRUE)
          /\ Quietly
          /\ UNCHANGED <<reading, got, lost, told>>
       \/ TakeAnswer(JsRead)
    /\ UNCHANGED <<holding, cancelled, pulling, channelVars>>

\* Asking fails for a reason outside the stream, which ends the reader.
ReadCannotAsk ==
    /\ reading
    /\ reader = ReaderAt("open", FALSE)
    /\ Trouble
    /\ reader' = ReaderAt("done", FALSE)
    /\ ReadReturns("due")
    /\ UNCHANGED <<holding, got, lost, cancelled, jsReadable, channelVars>>

\* A later poll finds the promise settled.
ReadAnswered ==
    /\ reading
    /\ reader = ReaderAt("open", TRUE)
    /\ TakeAnswer(request)
    /\ UNCHANGED <<holding, cancelled, readable, stored, pulling, channelVars>>

\* A later poll fails while the promise is pending, which the guest may still answer.
ReadDue ==
    /\ reading
    /\ reader = ReaderAt("open", TRUE)
    /\ request = Waiting
    /\ Trouble
    /\ reader' = ReaderAt("done", FALSE)
    /\ ReadReturns("due")
    /\ UNCHANGED <<holding, got, lost, cancelled, jsReadable, channelVars>>

DropRead ==
    /\ reading
    /\ reading' = FALSE
    /\ reader' = AfterReadDropped
    /\ Trouble
    /\ UNCHANGED <<holding, got, lost, told, cancelled, jsReadable, channelVars>>

\* Reader::cancel, or the stream's own once the lock is released: what is stored is
\* discarded, pending reads end, and StreamSource's cancel drops the Rust stream.
Cancel ==
    /\ ~reading
    /\ readable \in {"readable", "closing"}
    /\ cancelled' = TRUE
    /\ readable' = "closed"
    /\ stored' = {}
    /\ lost' = lost \cup stored
    /\ request' = Answered(Answer("end", {}))
    /\ receiver' = "gone"
    /\ Trouble
    /\ UNCHANGED <<reader, holding, reading, got, told, pulling, buffered, passed, taken, sender>>

\* Reader::release_lock: the guest rejects the pending read, and an answer that
\* was not polled goes with the promise.
ReleaseReader ==
    /\ ~reading
    /\ holding
    /\ holding' = FALSE
    /\ reader' = ReaderAt("released", FALSE)
    /\ request' = Unasked
    /\ lost' = lost \cup request.chunk
    /\ Trouble
    /\ UNCHANGED <<reading, got, told, cancelled, readable, stored, pulling, channelVars>>

\* ReadableStream::get_reader, which the guest refuses while the stream is locked.
GetReader ==
    /\ ~reading
    /\ ~holding
    /\ holding' = TRUE
    /\ reader' = ReaderAt("open", FALSE)
    /\ told' = "chunk"
    /\ Quietly
    /\ UNCHANGED <<reading, got, lost, cancelled, jsReadable, channelVars>>

-----------------------------------------------------------------------------
ReaderInit ==
    /\ reader = ReaderAt("open", FALSE)
    /\ holding = TRUE
    /\ reading = FALSE
    /\ got = <<>>
    /\ lost = {}
    /\ told = "chunk"
    /\ readable = "readable"
    /\ stored = {}
    /\ request = Unasked
    /\ pulling = FALSE
    /\ cancelled = FALSE

PollRead == ReadOfEnded \/ ReadAsks \/ ReadCannotAsk \/ ReadAnswered \/ ReadDue

\* What the host does with its reader.
ReaderStep ==
    \/ BeginRead
    \/ PollRead
    \/ DropRead
    \/ Cancel
    \/ ReleaseReader
    \/ GetReader

\* What the event loop does for the stream and its source.
SourceStep ==
    /\ UNCHANGED hostReader
    /\ \/ (JsPulls \/ PullYields \/ PullEnds) /\ Quietly
       \/ PullFails /\ Trouble

ReaderTypeOK ==
    /\ reader \in [phase : {"open", "done", "released"}, pending : BOOLEAN]
    /\ holding \in BOOLEAN
    /\ reading \in BOOLEAN
    /\ got \in Seq(Chunks)
    /\ lost \subseteq Chunks
    /\ told \in {"chunk", "end", "failure"}
    /\ readable \in {"readable", "closing", "closed", "errored"}
    /\ stored \subseteq Chunks
    /\ request \in [state : {"none", "waiting", "chunk", "end", "err"}, chunk : SUBSET Chunks]
    /\ pulling \in BOOLEAN
    /\ cancelled \in BOOLEAN

===============================================================================
