----------------------------- MODULE StreamWriter -----------------------------
(***************************************************************************)
(* handle::stream::Writer, through which the host writes to a              *)
(* WritableStream of the guest, and host::stream::SharedSink, through      *)
(* which that stream writes into a Rust Sink.                              *)
(*                                                                         *)
(* An operation of the writer is a future the application polls and may    *)
(* drop at any time; what it had begun stays in the writer and belongs to  *)
(* the operation after it.  The WritableStream between the two is the      *)
(* library's: it works on one request at a time, in order.  A poll that    *)
(* finds its promise pending changes nothing here and is no action.        *)
(***************************************************************************)
EXTENDS Channel

\* What the WritableStream is asked for: a chunk, to close, to abort.
CloseRequest == 0
AbortRequest == MaxChunks + 1
Requests == 0..(MaxChunks + 1)

Idle == [kind |-> "none", stage |-> "none"]
Kinds == {"write", "feed", "flush", "close", "abort"}

VARIABLES
    writer,     \* WriterState: its phase, and the request whose promise it holds
    attached,   \* the JavaScript writer still has the stream's lock
    operation,  \* the future the application has, and how far it is
    handed,     \* the number of chunks handed to write or feed
    before,     \* how many of them were handed to writers before this one
    answer,     \* chunk -> what its write returned; "none", "fed" or "dropped"
    closeOk,    \* a close has returned Ok
    status,     \* of the WritableStream: "writable", "erroring", "errored" or "closed"
    queue,      \* the requests the stream has not begun
    current,    \* the request the sink works on, a set of at most one
    sending,    \* where SharedSink::send stands: "none", "ready" or "flush"
    promise     \* request -> "none", "pending", "ok" or "err"

hostWriter == <<writer, attached, operation, handed, before, answer, closeOk>>
jsWritable == <<status, queue, current, sending, promise>>
writerVars == <<hostWriter, jsWritable>>

Busy == operation # Idle

-----------------------------------------------------------------------------
(* The WritableStream of the guest. *)

CloseRequested == CloseRequest \in Elems(queue) \cup current \/ status = "closed"

\* write and close reject at once when the stream cannot take the request.
JsTakes == status = "writable" /\ ~CloseRequested

Settled(ok, err) ==
    [r \in Requests |-> IF r \in ok THEN "ok" ELSE IF r \in err THEN "err" ELSE promise[r]]

\* The stream is handed a request it takes, or rejects.
JsRequest(r) ==
    /\ queue' = IF JsTakes THEN Append(queue, r) ELSE queue
    /\ promise' = [promise EXCEPT ![r] = IF JsTakes THEN "pending" ELSE "err"]
    /\ UNCHANGED <<status, current, sending, channelVars>>

\* The stream fails: what it has not begun is rejected.
JsFails(ok, err) ==
    /\ status' = "errored"
    /\ queue' = <<>>
    /\ promise' = Settled(ok, err \cup Elems(queue))

\* The stream begins the next request.
JsBegins ==
    /\ status = "writable"
    /\ current = {}
    /\ queue # <<>>
    /\ current' = {Head(queue)}
    /\ queue' = Tail(queue)
    /\ sending' = "ready"
    /\ UNCHANGED <<status, promise, channelVars>>

\* SharedSink::abort takes the sink out of the cell and drops it.
DropSink ==
    /\ buffered' = {}
    /\ sender' = "gone"
    /\ UNCHANGED <<passed, taken, receiver>>

Aborting == IF status = "erroring" THEN {AbortRequest} ELSE {}

\* An abort asked for while the sink worked on a request is done now.
FinishAbort(ok, err) ==
    /\ JsFails(ok \cup {AbortRequest}, err)
    /\ DropSink

-----------------------------------------------------------------------------
(* SharedSink: the futures of send and close. *)

\* A slip: send does not wait for the sink to flush.
FlushedAtOnce == TRUE

\* Sink::poll_flush is ready once the sink has passed on what it has.
Flushed == buffered = {}

\* Sink::poll_ready, then start_send in the same poll.
SendStarts ==
    /\ current \subseteq Chunks
    /\ sending = "ready"
    /\ receiver = "open"
    /\ buffered = {}
    /\ buffered' = current
    /\ sending' = "flush"
    /\ UNCHANGED <<status, queue, current, promise, passed, taken, sender, receiver>>

SendEnds ==
    /\ sending = "flush"
    /\ Flushed
    /\ current' = {}
    /\ sending' = "none"
    /\ \/ /\ status = "writable"
          /\ promise' = Settled(current, {})
          /\ UNCHANGED <<status, queue, channelVars>>
       \/ /\ status = "erroring"
          /\ FinishAbort(current, {})

\* Sink::poll_ready fails, as nobody listens any more.
SendFails ==
    /\ current # {}
    /\ current \subseteq Chunks
    /\ sending = "ready"
    /\ receiver = "gone"
    /\ current' = {}
    /\ sending' = "none"
    /\ \/ status = "writable" /\ JsFails({}, current) /\ UNCHANGED channelVars
       \/ status = "erroring" /\ FinishAbort({}, current)

\* Sink::poll_close flushes and closes.  An abort that waited for it is content.
CloseEnds ==
    /\ current = {CloseRequest}
    /\ Flushed
    /\ current' = {}
    /\ sending' = "none"
    /\ sender' = "gone"
    /\ status' = "closed"
    /\ promise' = Settled(current \cup Aborting, {})
    /\ UNCHANGED <<queue, buffered, passed, taken, receiver>>

-----------------------------------------------------------------------------
(* The writer. *)

WriterAt(phase, pending) == [phase |-> phase, pending |-> pending]

\* Slips: what had begun is forgotten with the future that had begun it, or the future
\* takes its promise along.
KeepsNothing == WriterAt("open", {})
KeepsPhaseOnly == WriterAt(writer.phase, {})

\* The writer after its future was dropped.
AfterDrop == writer

\* What polling the pending future may return: what the promise settled with, or,
\* at any time, an error of another source.
PollResults ==
    ({promise[r] : r \in writer.pending} \ {"pending"}) \cup {"due"}

\* WriterState::poll: the phase after an operation that ended well.
PhaseAfter(phase) ==
    CASE phase = "writing" -> "open"
      [] phase = "closing" -> "closed"
      [] OTHER -> phase

Returns(result) ==
    /\ operation' = Idle
    /\ answer' = IF operation.kind \in {"write", "feed"}
                 THEN [answer EXCEPT ![handed] = IF operation.kind = "feed" /\ result = "ok"
                                                 THEN "fed" ELSE result]
                 ELSE answer
    /\ closeOk' = (closeOk \/ (operation.kind = "close" /\ result = "ok"))
    /\ UNCHANGED <<attached, handed, before>>

\* The future fails and leaves the writer in a phase.
Fails(phase, result) ==
    /\ writer' = WriterAt(phase, {})
    /\ Returns(result)
    /\ TroubleIfDue(result)
    /\ UNCHANGED <<jsWritable, channelVars>>

\* The application calls a method, which returns a future.
Begin(kind) ==
    /\ ~Busy
    /\ kind \in {"write", "feed"} => handed < MaxChunks
    /\ operation' = [kind |-> kind, stage |-> "ready"]
    /\ handed' = IF kind \in {"write", "feed"} THEN handed + 1 ELSE handed
    /\ IF kind = "abort" THEN Trouble ELSE Quietly
    /\ UNCHANGED <<writer, attached, before, answer, closeOk, jsWritable, channelVars>>

\* Sink::start_send, and for write the first poll_flush, which sees a promise that
\* was rejected at once.
StartSend ==
    \/ Fails("failed", "due")
    \/ /\ JsRequest(handed)
       /\ Quietly
       /\ \/ /\ operation.kind = "feed"
             /\ writer' = WriterAt("writing", {handed})
             /\ Returns("ok")
          \/ /\ operation.kind = "write" /\ JsTakes
             /\ writer' = WriterAt("writing", {handed})
             /\ operation' = [operation EXCEPT !.stage = "flush"]
             /\ UNCHANGED <<attached, handed, before, answer, closeOk>>
          \/ /\ operation.kind = "write" /\ ~JsTakes
             /\ writer' = WriterAt("failed", {})
             /\ Returns("err")

\* A poll of write or feed before its chunk was sent: Sink::poll_ready.
PollReady ==
    /\ operation.kind \in {"write", "feed"}
    /\ operation.stage = "ready"
    /\ CASE writer.phase = "open" -> StartSend
         [] writer.phase = "writing" ->
              \E result \in PollResults :
                  \/ result = "ok" /\ StartSend
                  \/ result # "ok" /\ Fails("failed", result)
         [] OTHER ->
              /\ Returns("err")
              /\ Quietly
              /\ UNCHANGED <<writer, jsWritable, channelVars>>

\* Sink::poll_flush, of write after its chunk was sent and of flush.
PollFlush ==
    /\ \/ operation.kind = "write" /\ operation.stage = "flush"
       \/ operation.kind = "flush"
    /\ UNCHANGED <<jsWritable, channelVars>>
    /\ IF writer.phase \in {"writing", "closing"}
       THEN \E result \in PollResults :
              /\ writer' = WriterAt(IF result = "ok" THEN PhaseAfter(writer.phase) ELSE "failed", {})
              /\ Returns(result)
              /\ TroubleIfDue(result)
       ELSE /\ Returns(IF writer.phase \in {"failed", "released"} THEN "err" ELSE "ok")
            /\ Quietly
            /\ UNCHANGED writer

\* The phases in which close first waits for what the writer has pending.
CloseWaits == {"writing"}

\* The close method is called, and its promise polled.
CallClose ==
    \/ Fails("failed", "due")
    \/ ~JsTakes /\ Fails("failed", "err")
    \/ /\ JsTakes
       /\ JsRequest(CloseRequest)
       /\ writer' = WriterAt("closing", {CloseRequest})
       /\ Quietly
       /\ UNCHANGED <<attached, operation, handed, before, answer, closeOk>>

\* Writer::poll_close_operation.
PollClose ==
    /\ operation.kind = "close"
    /\ CASE writer.phase \in {"closed", "failed", "released"} ->
              /\ Returns(IF writer.phase = "closed" THEN "ok" ELSE "err")
              /\ Quietly
              /\ UNCHANGED <<writer, jsWritable, channelVars>>
         [] writer.phase = "closing" ->
              \E result \in PollResults :
                  /\ writer' = WriterAt(IF result = "ok" THEN "closed" ELSE "failed", {})
                  /\ Returns(result)
                  /\ TroubleIfDue(result)
                  /\ UNCHANGED <<jsWritable, channelVars>>
         [] writer.phase \in CloseWaits ->
              \E result \in PollResults :
                  \/ result = "ok" /\ CallClose
                  \/ result # "ok" /\ Fails("failed", result)
         [] OTHER -> CallClose

\* Writer::abort: the first poll calls the method, and sees its promise if that is
\* settled already.
PollAbort ==
    /\ operation.kind = "abort"
    /\ operation.stage = "ready"
    /\ \/ /\ Trouble
          /\ Returns("due")
          /\ UNCHANGED <<writer, jsWritable, channelVars>>
       \/ ~attached /\ Fails("failed", "err")
       \/ /\ attached /\ status \in {"closed", "errored"}
          /\ promise' = Settled({AbortRequest}, {})
          /\ writer' = WriterAt("closed", {})
          /\ Returns("ok")
          /\ Quietly
          /\ UNCHANGED <<status, queue, current, sending, channelVars>>
       \/ /\ attached /\ status = "writable" /\ current = {}
          /\ FinishAbort({}, {})
          /\ writer' = WriterAt("closed", {})
          /\ Returns("ok")
          /\ Quietly
          /\ UNCHANGED <<current, sending>>
       \/ /\ attached /\ (status = "erroring" \/ (status = "writable" /\ current # {}))
          /\ status' = "erroring"
          /\ promise' = [promise EXCEPT ![AbortRequest] = "pending"]
          /\ writer' = WriterAt("failed", {})
          /\ operation' = [operation EXCEPT !.stage = "await"]
          /\ Quietly
          /\ UNCHANGED <<attached, handed, before, answer, closeOk, queue, current, sending, channelVars>>

PollAborted ==
    /\ operation.kind = "abort"
    /\ operation.stage = "await"
    /\ \/ /\ promise[AbortRequest] = "ok"
          /\ writer' = WriterAt("closed", {})
          /\ Returns("ok")
          /\ Quietly
          /\ UNCHANGED <<jsWritable, channelVars>>
       \/ Fails("failed", "due")

\* The application drops its future.
DropOperation ==
    /\ Busy
    /\ operation' = Idle
    /\ answer' = IF operation.kind \in {"write", "feed"}
                 THEN [answer EXCEPT ![handed] = "dropped"] ELSE answer
    /\ writer' = AfterDrop
    /\ Trouble
    /\ UNCHANGED <<attached, handed, before, closeOk, jsWritable, channelVars>>

\* Writer::release_lock.
ReleaseWriter ==
    /\ ~Busy
    /\ attached' = FALSE
    /\ writer' = WriterAt("released", {})
    /\ Trouble
    /\ UNCHANGED <<operation, handed, before, answer, closeOk, jsWritable, channelVars>>

\* WritableStream::get_writer, which the guest refuses while the stream is locked.
GetWriter ==
    /\ ~Busy
    /\ ~attached
    /\ attached' = TRUE
    /\ writer' = WriterAt("open", {})
    /\ before' = handed
    /\ Quietly
    /\ UNCHANGED <<operation, handed, answer, closeOk, jsWritable, channelVars>>

-----------------------------------------------------------------------------
WriterInit ==
    /\ writer = WriterAt("open", {})
    /\ attached = TRUE
    /\ operation = Idle
    /\ handed = 0
    /\ before = 0
    /\ answer = [c \in Chunks |-> "none"]
    /\ closeOk = FALSE
    /\ status = "writable"
    /\ queue = <<>>
    /\ current = {}
    /\ sending = "none"
    /\ promise = [r \in Requests |-> "none"]

\* A poll of the operation the application has.
PollOperation == PollReady \/ PollFlush \/ PollClose \/ PollAbort \/ PollAborted

\* What the host does with its writer.
WriterStep ==
    \/ \E kind \in Kinds : Begin(kind)
    \/ PollOperation
    \/ DropOperation
    \/ ReleaseWriter
    \/ GetWriter

\* What the event loop does for the stream and its sink.
SinkStep ==
    /\ JsBegins \/ SendStarts \/ SendEnds \/ SendFails \/ CloseEnds
    /\ UNCHANGED <<hostWriter, troubles>>

WriterTypeOK ==
    /\ writer \in [phase : {"open", "writing", "closing", "closed", "failed", "released"},
                   pending : SUBSET Requests]
    /\ attached \in BOOLEAN
    /\ operation \in {Idle} \cup [kind : Kinds, stage : {"ready", "flush", "await"}]
    /\ handed \in 0..MaxChunks
    /\ before \in 0..handed
    /\ answer \in [Chunks -> {"none", "ok", "fed", "err", "due", "dropped"}]
    /\ closeOk \in BOOLEAN
    /\ status \in {"writable", "erroring", "errored", "closed"}
    /\ queue \in Seq(Requests)
    /\ current \subseteq Requests
    /\ sending \in {"none", "ready", "flush"}
    /\ promise \in [Requests -> {"none", "pending", "ok", "err"}]

===============================================================================
