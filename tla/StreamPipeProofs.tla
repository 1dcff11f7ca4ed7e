--------------------------- MODULE StreamPipeProofs ---------------------------
(***************************************************************************)
(* Theorems of StreamPipe for every number of chunks, every capacity of    *)
(* the channel and any number of dropped futures, failures and releases.   *)
(* The invariant has a part per actor: the WritableStream with its sink    *)
(* and channel (Pipeline), the host's writer (WriterSound) and the reader  *)
(* with the ReadableStream (ReaderSound).                                  *)
(***************************************************************************)
EXTENDS StreamPipe, SequenceTheorems, FiniteSetTheorems, TLAPS

Types == ChannelTypeOK /\ WriterTypeOK /\ ReaderTypeOK

-----------------------------------------------------------------------------
(* The WritableStream, the sink and the channel. *)

\* What the sink may be asked for.
Asked == 0..MaxChunks

\* The sink works on one request at a time, a stream that has ended has none, and what
\* the sink has buffered is the chunk it works on.
SinkAtWork ==
    /\ current = {} <=> sending = "none"
    /\ current # {} => \E r \in Asked : current = {r}
    /\ sending = "flush" => current \subseteq Chunks
    /\ buffered # {} => buffered = current /\ sending = "flush"
    /\ status \in {"errored", "closed"} => current = {} /\ queue = <<>>
    /\ status = "erroring" => current # {}

\* Chunk c is accepted, and has not entered the channel.
Ahead(c) == c \in Elems(queue) \/ c \in buffered \/ (c \in current /\ sending = "ready")

\* x is asked for before y: the request to close is the last.
Before(x, y) == x # CloseRequest /\ (y = CloseRequest \/ x < y)

\* The channel, the sink and the queue hold the chunks in the order of their numbers.
InOrder ==
    /\ Increasing(passed)
    /\ \A i, j \in DOMAIN queue : i < j => Before(queue[i], queue[j])
    /\ \A r \in Elems(queue) : r \in Asked /\ \A x \in current : Before(x, r)
    /\ \A c \in Chunks : Ahead(c) => \A x \in Elems(passed) : x < c

\* A promise is pending while its request is queued or worked on; a chunk is accepted
\* when it has passed, or nobody listens.
PromisesKept ==
    /\ \A r \in Asked : promise[r] = "pending" <=> r \in Elems(queue) \cup current
    /\ \A c \in Elems(passed) : promise[c] \in {"pending", "ok"}
    /\ \A c \in Chunks : promise[c] = "ok" => c \in Elems(passed) \/ receiver = "gone"
    /\ sending = "flush" /\ buffered = {} => current \subseteq Elems(passed) \/ receiver = "gone"
    /\ promise[CloseRequest] = "ok" => status = "closed"
    /\ sender = "gone" => status = "closed" \/ promise[AbortRequest] # "none"

Pipeline == SinkAtWork /\ InOrder /\ PromisesKept

-----------------------------------------------------------------------------
(* The host's writer. *)

Sends == operation.kind \in {"write", "feed"}
Unsent == Sends /\ operation.stage = "ready"

PendingWhileWaiting ==
    /\ writer.phase = "writing" => \E c \in Chunks : writer.pending = {c}
    /\ writer.phase = "closing" => writer.pending = {CloseRequest}
    /\ writer.phase \notin {"writing", "closing"} => writer.pending = {}

\* What the stream has not been asked for has no promise, and what has not returned
\* no answer.
Untouched ==
    /\ \A c \in Chunks : c > handed => promise[c] = "none" /\ answer[c] = "none"
    /\ Sends => handed \in Chunks /\ answer[handed] = "none"
    /\ Unsent => promise[handed] = "none"
    /\ operation.kind = "write" /\ operation.stage = "flush" => writer = WriterAt("writing", {handed})

AnswersTrue ==
    \A c \in Chunks :
        /\ answer[c] = "ok" => promise[c] = "ok"
        /\ answer[c] = "err" => promise[c] \in {"none", "err"}

ClosedTrue ==
    closeOk \/ writer.phase = "closed" => status = "closed" \/ promise[AbortRequest] # "none"

\* An open writer owes nothing; one that writes owes what is pending.
Owes ==
    writer.phase \in {"open", "writing"} =>
        \A c \in Chunks : c > before /\ c \notin writer.pending => promise[c] \in {"none", "ok"}

WriterSound == PendingWhileWaiting /\ Untouched /\ AnswersTrue /\ ClosedTrue /\ Owes

-----------------------------------------------------------------------------
(* The host's reader and the ReadableStream. *)

\* Who waits for what: the promise of a read, the pull and the chunk that is stored.
ReadAtWork ==
    /\ IF request.state = "chunk" THEN \E x \in Chunks : request.chunk = {x} ELSE request.chunk = {}
    /\ stored # {} => \E x \in Chunks : stored = {x}
    /\ reader.pending => reader.phase = "open"
    /\ reader = ReaderAt("open", FALSE) => request = Unasked
    /\ ~holding => reader.phase = "released" /\ request = Unasked
    /\ request = Waiting => stored = {} /\ readable = "readable"
    /\ pulling => stored = {}

\* How a ReadableStream ends.
EndsTrue ==
    /\ receiver = "gone" <=> readable # "readable"
    /\ readable \in {"closed", "errored"} => stored = {}
    /\ request.state = "end" => readable = "closed"
    /\ told = "end" => reader.phase # "open" /\ request = Unasked /\ readable = "closed"
    /\ readable \in {"closing", "closed"} /\ ~cancelled =>
         /\ sender = "gone" /\ taken = Len(passed)
         /\ promise[AbortRequest] = "none" =>
              status = "closed" /\ \A c \in Chunks : promise[c] = "ok" => c \in Elems(passed)

\* The chunks that have left the channel.
Left == {passed[i] : i \in 1..taken}

\* Every chunk that has left the channel is in one place, and earlier ones come first.
Accounted ==
    /\ Left = Elems(got) \cup lost \cup stored \cup request.chunk
    /\ lost \cap (stored \cup request.chunk \cup Elems(got)) = {}
    /\ Increasing(got)
    /\ \A x \in Elems(got), y \in stored \cup request.chunk : x < y
    /\ \A x \in request.chunk, y \in stored : x < y

ReaderSound == ReadAtWork /\ EndsTrue /\ Accounted

IInv == Types /\ Pipeline /\ WriterSound /\ ReaderSound

-----------------------------------------------------------------------------
(* Sequences and their elements. *)

LEMMA AppendElems ==
    ASSUME NEW S, NEW s \in Seq(S), NEW x \in S
    PROVE  /\ Append(s, x) \in Seq(S)
           /\ Elems(Append(s, x)) = Elems(s) \cup {x}
           /\ Len(Append(s, x)) = Len(s) + 1
           /\ \A i \in 1..Len(s) : Append(s, x)[i] = s[i]
           /\ Append(s, x)[Len(s) + 1] = x
<1> DEFINE t == Append(s, x)
<1>1. /\ t \in Seq(S) /\ Len(t) = Len(s) + 1 /\ Len(s) \in Nat
      /\ \A i \in 1..Len(s) : t[i] = s[i]
      /\ t[Len(s) + 1] = x
  BY AppendProperties, LenProperties
<1>2. DOMAIN t = 1..(Len(s) + 1) /\ DOMAIN s = 1..Len(s)
  BY <1>1, LenProperties
<1> HIDE DEF t
<1>3. Elems(t) = Elems(s) \cup {x}
  BY <1>1, <1>2 DEF Elems
<1> QED
  BY <1>1, <1>3 DEF t

LEMMA EmptyElems == Elems(<<>>) = {} /\ \A S : <<>> \in Seq(S)
BY EmptySeq DEF Elems

LEMMA TailElems ==
    ASSUME NEW S, NEW s \in Seq(S), s # <<>>
    PROVE  /\ Head(s) \in Elems(s) /\ Head(s) \in S /\ Head(s) = s[1]
           /\ Tail(s) \in Seq(S)
           /\ Elems(s) = {Head(s)} \cup Elems(Tail(s))
           /\ \A i \in DOMAIN Tail(s) : i + 1 \in DOMAIN s /\ 1 < i + 1 /\ Tail(s)[i] = s[i + 1]
<1> DEFINE t == Tail(s)
<1>1. /\ Head(s) \in S /\ t \in Seq(S) /\ Len(t) = Len(s) - 1
      /\ \A i \in 1..Len(t) : t[i] = s[i + 1]
      /\ Len(s) \in Nat \ {0} /\ Head(s) = s[1]
  BY HeadTailProperties, EmptySeq
<1>2. DOMAIN s = 1..Len(s) /\ DOMAIN t = 1..(Len(s) - 1)
  BY <1>1, LenProperties
<1> HIDE DEF t
<1>3. \A i \in DOMAIN t : i + 1 \in DOMAIN s /\ 1 < i + 1 /\ t[i] = s[i + 1]
  BY <1>1, <1>2
<1>4. \A i \in DOMAIN s : i # 1 => i - 1 \in DOMAIN t /\ s[i] = t[i - 1]
  BY <1>1, <1>2
<1>5. 1 \in DOMAIN s
  BY <1>1, <1>2
<1>6. Elems(s) = {s[1]} \cup Elems(t)
  BY <1>3, <1>4, <1>5 DEF Elems
<1> QED
  BY <1>1, <1>3, <1>5, <1>6 DEF t, Elems

LEMMA AppendIncreasing ==
    ASSUME NEW s \in Seq(Nat), NEW x \in Nat, Increasing(s), \A y \in Elems(s) : y < x
    PROVE  Increasing(Append(s, x))
<1> DEFINE t == Append(s, x)
<1>1. /\ Len(s) \in Nat /\ Len(t) = Len(s) + 1 /\ DOMAIN s = 1..Len(s) /\ DOMAIN t = 1..(Len(s) + 1)
      /\ \A i \in 1..Len(s) : t[i] = s[i]
      /\ t[Len(s) + 1] = x
  BY AppendElems, LenProperties
<1>2. \A i \in 1..Len(s) : s[i] < x
  BY <1>1 DEF Elems
<1> HIDE DEF t
<1>3. \A i, j \in DOMAIN t : i < j => t[i] < t[j]
  BY <1>1, <1>2 DEF Increasing
<1> QED
  BY <1>3 DEF Increasing, t

-----------------------------------------------------------------------------
(* Types. *)

USE MaxChunksAssumption, CapacityAssumption, MaxTroublesAssumption

LEMMA TroubleTypes ==
    ASSUME troubles \in 0..MaxTroubles, Trouble \/ Quietly \/ \E r : TroubleIfDue(r)
    PROVE  troubles' \in 0..MaxTroubles
BY DEF Trouble, Quietly, TroubleIfDue

\* The types of jsWritable and of hostWriter.
JsTypes ==
    /\ status \in {"writable", "erroring", "errored", "closed"}
    /\ queue \in Seq(Requests)
    /\ current \subseteq Requests
    /\ sending \in {"none", "ready", "flush"}
    /\ promise \in [Requests -> {"none", "pending", "ok", "err"}]

Writers ==
    [phase : {"open", "writing", "closing", "closed", "failed", "released"}, pending : SUBSET Requests]
Operations == {Idle} \cup [kind : Kinds, stage : {"ready", "flush", "await"}]

HostTypes ==
    /\ writer \in Writers
    /\ attached \in BOOLEAN
    /\ operation \in Operations
    /\ handed \in 0..MaxChunks
    /\ before \in 0..handed
    /\ answer \in [Chunks -> {"none", "ok", "fed", "err", "due", "dropped"}]
    /\ closeOk \in BOOLEAN

LEMMA WriterTypes == WriterTypeOK <=> HostTypes /\ JsTypes
BY DEF WriterTypeOK, HostTypes, JsTypes, Writers, Operations

LEMMA RequestTypes ==
    /\ Chunks \subseteq Asked /\ Asked \subseteq Requests /\ Chunks \subseteq Nat
    /\ CloseRequest \in Asked \ Chunks /\ AbortRequest \in Requests \ Asked
    /\ Asked = Chunks \cup {CloseRequest} /\ Requests = Asked \cup {AbortRequest}
BY DEF Chunks, Asked, Requests, CloseRequest, AbortRequest

LEMMA SettledTypes ==
    ASSUME JsTypes, NEW ok, NEW err
    PROVE  /\ Settled(ok, err) \in [Requests -> {"none", "pending", "ok", "err"}]
           /\ \A r \in Requests : Settled(ok, err)[r] =
                IF r \in ok THEN "ok" ELSE IF r \in err THEN "err" ELSE promise[r]
BY DEF JsTypes, Settled

LEMMA JsRequestTypes ==
    ASSUME JsTypes, NEW r \in Requests, JsRequest(r)
    PROVE  JsTypes'
<1>1. Append(queue, r) \in Seq(Requests)
  BY AppendElems DEF JsTypes
<1> QED
  BY <1>1 DEF JsTypes, JsRequest

LEMMA JsFailsTypes ==
    ASSUME JsTypes, NEW ok, NEW err, JsFails(ok, err), UNCHANGED <<current, sending>> \/ (current' = {} /\ sending' = "none")
    PROVE  JsTypes'
BY SettledTypes, EmptyElems DEF JsTypes, JsFails

LEMMA SinkTypes ==
    ASSUME JsTypes, JsBegins \/ SendStarts \/ SendEnds \/ SendFails \/ CloseEnds
    PROVE  JsTypes'
<1>1. CASE JsBegins
  BY <1>1, TailElems DEF JsBegins, JsTypes
<1>2. CASE SendStarts
  BY <1>2 DEF SendStarts, JsTypes
<1>3. CASE SendEnds
  BY <1>3, SettledTypes, JsFailsTypes DEF SendEnds, JsTypes, FinishAbort
<1>4. CASE SendFails
  BY <1>4, SettledTypes, JsFailsTypes DEF SendFails, JsTypes, FinishAbort
<1>5. CASE CloseEnds
  BY <1>5, SettledTypes DEF CloseEnds, JsTypes
<1> QED
  BY <1>1, <1>2, <1>3, <1>4, <1>5

LEMMA SinkChannelTypes ==
    ASSUME ChannelTypeOK, JsTypes, JsBegins \/ SendStarts \/ SendEnds \/ SendFails \/ CloseEnds, UNCHANGED troubles
    PROVE  ChannelTypeOK'
BY DEF ChannelTypeOK, JsBegins, SendStarts, SendEnds, SendFails, CloseEnds, FinishAbort, DropSink, channelVars

LEMMA PassOnTypes ==
    ASSUME ChannelTypeOK, PassOn
    PROVE  ChannelTypeOK'
<1>1. Only(buffered) \in Chunks
  BY DEF PassOn, Only, ChannelTypeOK
<1>2. Append(passed, Only(buffered)) \in Seq(Chunks) /\ Len(Append(passed, Only(buffered))) = Len(passed) + 1
      /\ Len(passed) \in Nat
  BY <1>1, AppendElems, LenProperties DEF ChannelTypeOK
<1> QED
  BY <1>2 DEF PassOn, ChannelTypeOK

LEMMA OperationTypes ==
    /\ Idle \in Operations
    /\ \A kind \in Kinds, stage \in {"ready", "flush", "await"} : [kind |-> kind, stage |-> stage] \in Operations
    /\ \A op \in Operations, stage \in {"ready", "flush", "await"} :
         op.kind \in Kinds => [op EXCEPT !.stage = stage] \in Operations
    /\ \A op \in Operations : op.kind \in Kinds => op = [kind |-> op.kind, stage |-> op.stage]
    /\ Idle.kind \notin Kinds
BY DEF Operations, Idle, Kinds

LEMMA WriterAtTypes ==
    /\ \A p \in {"open", "writing", "closing", "closed", "failed", "released"}, S \in SUBSET Requests :
         WriterAt(p, S) \in Writers /\ WriterAt(p, S).phase = p /\ WriterAt(p, S).pending = S
    /\ \A w \in Writers : /\ w.phase \in {"open", "writing", "closing", "closed", "failed", "released"}
                          /\ w.pending \subseteq Requests
                          /\ w = WriterAt(w.phase, w.pending)
BY DEF WriterAt, Writers

LEMMA RestTypes ==
    ASSUME ChannelTypeOK, JsTypes, UNCHANGED <<jsWritable, channelVars>>, troubles' \in 0..MaxTroubles
    PROVE  ChannelTypeOK' /\ JsTypes'
BY DEF ChannelTypeOK, JsTypes, jsWritable, channelVars

\* What the writer does to its own state when a future returns.
LEMMA ReturnsTypes ==
    ASSUME HostTypes, NEW result \in {"none", "ok", "err", "due"}, Returns(result),
           writer' \in Writers, Sends => handed \in Chunks
    PROVE  HostTypes'
<1>1. operation' \in Operations
  BY OperationTypes DEF Returns
<1>2. answer' \in [Chunks -> {"none", "ok", "fed", "err", "due", "dropped"}]
  BY DEF HostTypes, Returns, Sends
<1> QED
  BY <1>1, <1>2 DEF HostTypes, Returns

LEMMA TroubleResultTypes ==
    ASSUME troubles \in 0..MaxTroubles, NEW result, TroubleIfDue(result)
    PROVE  troubles' \in 0..MaxTroubles
BY DEF Trouble, Quietly, TroubleIfDue

LEMMA ResultTypes ==
    ASSUME ChannelTypeOK, HostTypes, JsTypes, NEW result \in {"none", "ok", "err", "due"}, Returns(result),
           writer' \in Writers, Sends => handed \in Chunks,
           TroubleIfDue(result) \/ Quietly \/ Trouble, UNCHANGED <<jsWritable, channelVars>>
    PROVE  ChannelTypeOK' /\ HostTypes' /\ JsTypes'
<1>1. troubles' \in 0..MaxTroubles
  BY TroubleTypes, TroubleResultTypes DEF ChannelTypeOK
<1> QED
  BY <1>1, ReturnsTypes, RestTypes

LEMMA FailsTypes ==
    ASSUME ChannelTypeOK, HostTypes, JsTypes, NEW result \in {"none", "ok", "err", "due"},
           Fails("failed", result), Sends => handed \in Chunks
    PROVE  ChannelTypeOK' /\ HostTypes' /\ JsTypes'
<1>1. writer' \in Writers
  BY WriterAtTypes DEF Fails
<1>2. Returns(result) /\ TroubleIfDue(result) /\ UNCHANGED <<jsWritable, channelVars>>
  BY DEF Fails
<1> QED
  BY <1>1, <1>2, ResultTypes

LEMMA PollResultsTypes ==
    ASSUME HostTypes, JsTypes, NEW result \in PollResults
    PROVE  result \in {"none", "ok", "err", "due"}
BY DEF HostTypes, JsTypes, PollResults, Writers

LEMMA RequestedTypes ==
    ASSUME ChannelTypeOK, JsTypes, NEW r \in Requests, JsRequest(r), Quietly
    PROVE  ChannelTypeOK' /\ JsTypes'
BY JsRequestTypes, TroubleTypes DEF JsRequest, ChannelTypeOK, channelVars, Quietly

LEMMA StartSendTypes ==
    ASSUME ChannelTypeOK, HostTypes, JsTypes, StartSend, Unsent, handed \in Chunks
    PROVE  ChannelTypeOK' /\ HostTypes' /\ JsTypes'
<1>1. CASE Fails("failed", "due")
  BY <1>1, FailsTypes DEF Unsent
<1>2. CASE JsRequest(handed) /\ Quietly /\ ~Fails("failed", "due")
  <2>1. JsTypes' /\ ChannelTypeOK'
    BY <1>2, RequestedTypes, RequestTypes
  <2>2. WriterAt("writing", {handed}) \in Writers /\ WriterAt("failed", {}) \in Writers
    BY RequestTypes, WriterAtTypes
  <2>3. CASE \E result \in {"ok", "err"} : Returns(result) /\ writer' \in {WriterAt("writing", {handed}), WriterAt("failed", {})}
    <3>1. PICK result \in {"ok", "err"} : Returns(result) /\ writer' \in {WriterAt("writing", {handed}), WriterAt("failed", {})}
      BY <2>3
    <3>2. HostTypes'
      BY <2>2, <3>1, ReturnsTypes
    <3> QED
      BY <2>1, <3>2
  <2>4. CASE /\ operation.kind = "write"
             /\ writer' = WriterAt("writing", {handed})
             /\ operation' = [operation EXCEPT !.stage = "flush"]
             /\ UNCHANGED <<attached, handed, before, answer, closeOk>>
    <3>1. operation' \in Operations
      BY <2>4, OperationTypes DEF HostTypes, Kinds
    <3>2. HostTypes'
      BY <2>2, <2>4, <3>1 DEF HostTypes
    <3> QED
      BY <2>1, <3>2
  <2> QED
    BY <1>2, <2>3, <2>4 DEF StartSend
<1> QED
  BY <1>1, <1>2 DEF StartSend

\* The alternatives of PollClose, one phase at a time.
LEMMA PollCloseCases ==
    ASSUME PollClose
    PROVE  /\ writer.phase \in {"closed", "failed", "released"} =>
                /\ Returns(IF writer.phase = "closed" THEN "ok" ELSE "err")
                /\ Quietly
                /\ UNCHANGED <<writer, jsWritable, channelVars>>
           /\ writer.phase = "closing" =>
                \E result \in PollResults :
                    /\ writer' = WriterAt(IF result = "ok" THEN "closed" ELSE "failed", {})
                    /\ Returns(result)
                    /\ TroubleIfDue(result)
                    /\ UNCHANGED <<jsWritable, channelVars>>
           /\ writer.phase = "writing" =>
                \E result \in PollResults :
                    \/ result = "ok" /\ CallClose
                    \/ result # "ok" /\ Fails("failed", result)
           /\ writer.phase = "open" => CallClose
<1>1. CASE writer.phase \in {"closed", "failed", "released"}
  <2>1. /\ Returns(IF writer.phase = "closed" THEN "ok" ELSE "err")
        /\ Quietly
        /\ UNCHANGED <<writer, jsWritable, channelVars>>
    BY <1>1 DEF PollClose, CloseWaits
  <2> QED
    BY <1>1, <2>1
<1>2. CASE writer.phase = "closing"
  <2>1. writer.phase \notin {"closed", "failed", "released"}
    BY <1>2
  <2>2. \E result \in PollResults :
              /\ writer' = WriterAt(IF result = "ok" THEN "closed" ELSE "failed", {})
              /\ Returns(result)
              /\ TroubleIfDue(result)
              /\ UNCHANGED <<jsWritable, channelVars>>
    BY <1>2, <2>1 DEF PollClose, CloseWaits
  <2> QED
    BY <1>2, <2>2
<1>3. CASE writer.phase = "writing"
  BY <1>3 DEF PollClose, CloseWaits
<1>4. CASE writer.phase = "open"
  BY <1>4 DEF PollClose, CloseWaits
<1> QED
  BY <1>1, <1>2, <1>3, <1>4

LEMMA PollTypes ==
    ASSUME ChannelTypeOK, HostTypes, JsTypes, Sends => handed \in Chunks, PollReady \/ PollFlush \/ PollClose
    PROVE  ChannelTypeOK' /\ HostTypes' /\ JsTypes'
<1>1. ASSUME Fails("failed", "due") \/ Fails("failed", "err") \/ \E result \in PollResults : Fails("failed", result)
      PROVE  ChannelTypeOK' /\ HostTypes' /\ JsTypes'
  <2>1. PICK result \in {"none", "ok", "err", "due"} : Fails("failed", result)
    BY <1>1, PollResultsTypes
  <2> QED
    BY <2>1, FailsTypes
<1>3. writer \in Writers /\ \A p \in {"open", "writing", "closing", "closed", "failed", "released"} : WriterAt(p, {}) \in Writers
  BY WriterAtTypes DEF HostTypes
<1>3a. writer.phase \in {"open", "writing", "closing", "closed", "failed", "released"}
  BY WriterAtTypes DEF HostTypes
<1>4. CASE PollReady
  <2>1. CASE StartSend
    BY <1>4, <2>1, StartSendTypes DEF PollReady, Unsent, Sends
  <2>2. CASE Returns("err") /\ Quietly /\ UNCHANGED <<writer, jsWritable, channelVars>>
    BY <1>3, <2>2, ResultTypes
  <2> QED
    BY <1>1, <1>4, <2>1, <2>2 DEF PollReady
<1>5. CASE PollFlush
  <2>1. CASE writer.phase \in {"writing", "closing"}
    <3>1. PICK result \in PollResults :
              /\ writer' = WriterAt(IF result = "ok" THEN PhaseAfter(writer.phase) ELSE "failed", {})
              /\ Returns(result)
              /\ TroubleIfDue(result)
      BY <1>5, <2>1 DEF PollFlush
    <3>2. result \in {"none", "ok", "err", "due"}
      BY PollResultsTypes
    <3>3. writer' \in Writers
      BY <1>3, <2>1, <3>1 DEF PhaseAfter
    <3>4. UNCHANGED <<jsWritable, channelVars>>
      BY <1>5 DEF PollFlush
    <3> QED
      BY <3>1, <3>2, <3>3, <3>4, ResultTypes
  <2>2. CASE writer.phase \notin {"writing", "closing"}
    <3>1. PICK result \in {"err", "ok"} : Returns(result) /\ Quietly /\ writer' = writer
      BY <1>5, <2>2 DEF PollFlush
    <3>2. UNCHANGED <<jsWritable, channelVars>>
      BY <1>5 DEF PollFlush
    <3> QED
      BY <1>3, <3>1, <3>2, ResultTypes
  <2> QED
    BY <2>1, <2>2
<1>6. ASSUME CallClose
      PROVE  ChannelTypeOK' /\ HostTypes' /\ JsTypes'
  <2>1. CASE /\ JsRequest(CloseRequest)
             /\ writer' = WriterAt("closing", {CloseRequest})
             /\ Quietly
             /\ UNCHANGED <<attached, operation, handed, before, answer, closeOk>>
    <3>1. JsTypes' /\ ChannelTypeOK'
      BY <2>1, RequestedTypes, RequestTypes
    <3>2. writer' \in Writers
      BY <2>1, RequestTypes, WriterAtTypes
    <3>3. HostTypes'
      BY <2>1, <3>2 DEF HostTypes
    <3> QED
      BY <3>1, <3>3
  <2> QED
    BY <1>1, <1>6, <2>1 DEF CallClose
<1>7. CASE PollClose
  <2>1. CASE writer.phase \in {"closed", "failed", "released"}
    <3>1. PICK result \in {"err", "ok"} : Returns(result) /\ Quietly /\ UNCHANGED <<writer, jsWritable, channelVars>>
      BY <1>7, <2>1, PollCloseCases
    <3> QED
      BY <1>3, <3>1, ResultTypes
  <2>2. CASE writer.phase = "closing"
    <3>1. PICK result \in PollResults :
              /\ writer' = WriterAt(IF result = "ok" THEN "closed" ELSE "failed", {})
              /\ Returns(result)
              /\ TroubleIfDue(result)
              /\ UNCHANGED <<jsWritable, channelVars>>
      BY <1>7, <2>2, PollCloseCases
    <3>2. result \in {"none", "ok", "err", "due"}
      BY PollResultsTypes
    <3> QED
      BY <1>3, <3>1, <3>2, ResultTypes
  <2>3. CASE writer.phase \in {"open", "writing"}
    BY <1>1, <1>6, <1>7, <2>3, PollCloseCases
  <2> QED
    BY <1>3a, <2>1, <2>2, <2>3
<1> QED
  BY <1>4, <1>5, <1>7

LEMMA PollAbortTypes ==
    ASSUME ChannelTypeOK, HostTypes, JsTypes, PollAbort \/ PollAborted
    PROVE  ChannelTypeOK' /\ HostTypes' /\ JsTypes'
<1>1. /\ operation.kind = "abort" /\ ~Sends
      /\ writer \in Writers /\ WriterAt("closed", {}) \in Writers /\ WriterAt("failed", {}) \in Writers
  BY WriterAtTypes DEF PollAbort, PollAborted, Sends, HostTypes
<1>2. HostTypes'
  <2>1. CASE \E result \in {"due", "err", "ok"} : Returns(result) /\ writer' \in {writer, WriterAt("closed", {}), WriterAt("failed", {})}
    BY <1>1, <2>1, ReturnsTypes
  <2>2. CASE /\ writer' = WriterAt("failed", {})
             /\ operation' = [operation EXCEPT !.stage = "await"]
             /\ UNCHANGED <<attached, handed, before, answer, closeOk>>
    <3>1. operation' \in Operations
      BY <1>1, <2>2, OperationTypes DEF HostTypes, Kinds
    <3> QED
      BY <1>1, <2>2, <3>1 DEF HostTypes
  <2> QED
    BY <2>1, <2>2 DEF PollAbort, PollAborted, Fails
<1>3. troubles' \in 0..MaxTroubles
  BY TroubleTypes, TroubleResultTypes DEF PollAbort, PollAborted, Fails, ChannelTypeOK
<1>4. ChannelTypeOK'
  BY <1>3 DEF PollAbort, PollAborted, Fails, ChannelTypeOK, FinishAbort, DropSink, channelVars
<1>5. JsTypes'
  BY SettledTypes, JsFailsTypes, RequestTypes DEF PollAbort, PollAborted, Fails, FinishAbort, JsTypes, jsWritable
<1> QED
  BY <1>2, <1>4, <1>5

LEMMA WriterStepTypes ==
    ASSUME ChannelTypeOK, HostTypes, JsTypes, Sends => handed \in Chunks, WriterStep
    PROVE  ChannelTypeOK' /\ HostTypes' /\ JsTypes'
<1>1. ASSUME NEW kind \in Kinds, Begin(kind)
      PROVE  ChannelTypeOK' /\ HostTypes' /\ JsTypes'
  <2>1. handed' \in 0..MaxChunks /\ handed' >= handed
    BY <1>1 DEF Begin, HostTypes
  <2>2. operation' \in Operations
    BY <1>1, OperationTypes DEF Begin
  <2>3. HostTypes'
    BY <1>1, <2>1, <2>2 DEF Begin, HostTypes
  <2>4. troubles' \in 0..MaxTroubles
    BY <1>1, TroubleTypes DEF Begin, ChannelTypeOK
  <2> QED
    BY <1>1, <2>3, <2>4, RestTypes DEF Begin
<1>2. CASE DropOperation
  <2>1. operation' \in Operations
    BY <1>2, OperationTypes DEF DropOperation
  <2>2. answer' \in [Chunks -> {"none", "ok", "fed", "err", "due", "dropped"}]
    BY <1>2 DEF DropOperation, HostTypes, Sends
  <2>3. HostTypes'
    BY <1>2, <2>1, <2>2 DEF DropOperation, HostTypes, AfterDrop
  <2>4. troubles' \in 0..MaxTroubles
    BY <1>2, TroubleTypes DEF DropOperation, ChannelTypeOK
  <2> QED
    BY <1>2, <2>3, <2>4, RestTypes DEF DropOperation
<1>3. CASE ReleaseWriter \/ GetWriter
  <2>1. writer' \in Writers
    BY <1>3, WriterAtTypes DEF ReleaseWriter, GetWriter
  <2>2. before' \in 0..handed'
    BY <1>3 DEF ReleaseWriter, GetWriter, HostTypes
  <2>3. attached' \in BOOLEAN
    BY <1>3 DEF ReleaseWriter, GetWriter
  <2>4. HostTypes'
    BY <1>3, <2>1, <2>2, <2>3 DEF ReleaseWriter, GetWriter, HostTypes
  <2>5. troubles' \in 0..MaxTroubles
    BY <1>3, TroubleTypes DEF ReleaseWriter, GetWriter, ChannelTypeOK
  <2> QED
    BY <1>3, <2>4, <2>5, RestTypes DEF ReleaseWriter, GetWriter
<1> QED
  BY <1>1, <1>2, <1>3, PollTypes, PollAbortTypes DEF WriterStep, PollOperation

-----------------------------------------------------------------------------
(* Types of the reader. *)

Answers == [state : {"none", "waiting", "chunk", "end", "err"}, chunk : SUBSET Chunks]
Readers == [phase : {"open", "done", "released"}, pending : BOOLEAN]

LEMMA AnswerTypes ==
    /\ \A s \in {"none", "waiting", "chunk", "end", "err"}, S \in SUBSET Chunks :
         Answer(s, S) \in Answers /\ Answer(s, S).state = s /\ Answer(s, S).chunk = S
    /\ \A a \in Answers : /\ a.state \in {"none", "waiting", "chunk", "end", "err"}
                          /\ a.chunk \subseteq Chunks
                          /\ a = Answer(a.state, a.chunk)
    /\ Unasked \in Answers /\ Unasked.state = "none" /\ Unasked.chunk = {}
    /\ Waiting \in Answers /\ Waiting.state = "waiting" /\ Waiting.chunk = {}
BY DEF Answer, Answers, Unasked, Waiting

LEMMA ReaderAtTypes ==
    /\ \A p \in {"open", "done", "released"}, b \in BOOLEAN :
         ReaderAt(p, b) \in Readers /\ ReaderAt(p, b).phase = p /\ ReaderAt(p, b).pending = b
    /\ \A r \in Readers : /\ r.phase \in {"open", "done", "released"}
                          /\ r.pending \in BOOLEAN
                          /\ r = ReaderAt(r.phase, r.pending)
BY DEF ReaderAt, Readers

ReadTypes ==
    /\ reader \in Readers
    /\ holding \in BOOLEAN
    /\ reading \in BOOLEAN
    /\ got \in Seq(Chunks)
    /\ lost \subseteq Chunks
    /\ told \in {"chunk", "end", "failure"}
    /\ readable \in {"readable", "closing", "closed", "errored"}
    /\ stored \subseteq Chunks
    /\ request \in Answers
    /\ pulling \in BOOLEAN
    /\ cancelled \in BOOLEAN

LEMMA ReadTypesSame == ReaderTypeOK <=> ReadTypes
BY DEF ReaderTypeOK, ReadTypes, Answers, Readers

LEMMA AnsweredTypes ==
    ASSUME ReadTypes, NEW a \in Answers
    PROVE  Answered(a) \in Answers
BY DEF Answered, ReadTypes

LEMMA OnlyElement ==
    ASSUME NEW x
    PROVE  Only({x}) = x
BY DEF Only

\* The chunk that is at the head of the channel.
LEMMA NextTypes ==
    ASSUME ChannelTypeOK, taken < Len(passed)
    PROVE  /\ passed[taken + 1] \in Chunks /\ taken + 1 \in 1..Len(passed) /\ taken \in Nat
           /\ DOMAIN passed = 1..Len(passed) /\ Len(passed) \in Nat
BY LenProperties, ElementOfSeq DEF ChannelTypeOK

LEMMA SourceTypes ==
    ASSUME ChannelTypeOK, ReadTypes, SourceStep
    PROVE  ReadTypes' /\ ChannelTypeOK'
<1>1. troubles' \in 0..MaxTroubles
  BY TroubleTypes DEF SourceStep, ChannelTypeOK
<1>2. UNCHANGED <<reader, holding, reading, got, told, cancelled>>
  BY DEF SourceStep, hostReader
<1>3. CASE JsPulls
  <2>1. UNCHANGED <<buffered, passed, taken, sender, receiver>> /\ UNCHANGED <<lost, readable, stored, request>> /\ pulling' \in BOOLEAN
    BY <1>3 DEF JsPulls, channelVars
  <2> QED
    BY <1>1, <1>2, <2>1 DEF ReadTypes, ChannelTypeOK
<1>4. CASE PullYields
  <2>1. passed[taken + 1] \in Chunks /\ taken + 1 \in 0..Len(passed)
    BY <1>4, NextTypes DEF PullYields
  <2>2. Answer("chunk", {passed[taken + 1]}) \in Answers
    BY <2>1, AnswerTypes
  <2>3. request' \in Answers
    BY <1>4, <2>2, AnsweredTypes DEF PullYields
  <2>4. stored' \subseteq Chunks /\ pulling' \in BOOLEAN
    BY <1>4, <2>1 DEF PullYields, ReadTypes
  <2>5. ReadTypes'
    BY <1>2, <1>4, <2>3, <2>4 DEF PullYields, ReadTypes
  <2>6. ChannelTypeOK'
    BY <1>1, <1>4, <2>1 DEF PullYields, ChannelTypeOK
  <2> QED
    BY <2>5, <2>6
<1>5. CASE PullEnds
  <2>1. request' \in Answers
    BY <1>5, AnswerTypes, AnsweredTypes DEF PullEnds
  <2>2. readable' \in {"readable", "closing", "closed", "errored"}
    BY <1>5 DEF PullEnds, ReadTypes
  <2> QED
    BY <1>1, <1>2, <1>5, <2>1, <2>2 DEF PullEnds, ReadTypes, ChannelTypeOK
<1>6. CASE PullFails
  <2>1. request' \in Answers
    BY <1>6, AnswerTypes, AnsweredTypes DEF PullFails
  <2> QED
    BY <1>1, <1>2, <1>6, <2>1 DEF PullFails, ReadTypes, ChannelTypeOK
<1> QED
  BY <1>3, <1>4, <1>5, <1>6 DEF SourceStep

LEMMA JsReadTypes ==
    ASSUME ReadTypes, ReadAtWork
    PROVE  /\ JsRead \in Answers
           /\ JsRead.state = "chunk" => \E x \in Chunks : JsRead.chunk = {x}
           /\ JsRead.state # "chunk" => JsRead.chunk = {}
<1>1. CASE readable = "errored"
  BY <1>1, AnswerTypes DEF JsRead
<1>2. CASE readable # "errored" /\ stored # {}
  <2>1. JsRead = Answer("chunk", stored)
    BY <1>2 DEF JsRead, ReadTypes
  <2> QED
    BY <1>2, <2>1, AnswerTypes DEF ReadTypes, ReadAtWork
<1>3. CASE readable # "errored" /\ stored = {}
  BY <1>3, AnswerTypes DEF JsRead
<1> QED
  BY <1>1, <1>2, <1>3

LEMMA TakeAnswerTypes ==
    ASSUME ReadTypes, NEW a \in Answers, a.state = "chunk" => \E x \in Chunks : a.chunk = {x},
           TakeAnswer(a), troubles \in 0..MaxTroubles
    PROVE  /\ reader' \in Readers /\ reading' \in BOOLEAN /\ got' \in Seq(Chunks) /\ lost' \subseteq Chunks
           /\ told' \in {"chunk", "end", "failure"} /\ request' \in Answers /\ troubles' \in 0..MaxTroubles
<1>1. PICK result \in {a.state} \cup {"due"} :
         /\ reader' = ReaderAt(IF EndsReader(result) THEN "done" ELSE reader.phase, FALSE)
         /\ got' = IF result = "chunk" THEN Append(got, Only(a.chunk)) ELSE got
         /\ lost' = IF result = "due" THEN lost \cup a.chunk ELSE lost
         /\ TroubleIfDue(result)
         /\ ReadReturns(result)
  BY DEF TakeAnswer
<1>2. reader' \in Readers
  BY <1>1, ReaderAtTypes DEF ReadTypes
<1>3. got' \in Seq(Chunks)
  <2>1. result = "chunk" => Only(a.chunk) \in Chunks
    BY <1>1, OnlyElement
  <2> QED
    BY <1>1, <2>1, AppendElems DEF ReadTypes
<1>4. troubles' \in 0..MaxTroubles
  BY <1>1, TroubleResultTypes
<1>5. lost' \subseteq Chunks
  BY <1>1, AnswerTypes DEF ReadTypes
<1>6. reading' \in BOOLEAN /\ told' \in {"chunk", "end", "failure"}
  BY <1>1 DEF ReadReturns
<1>7. request' \in Answers
  BY AnswerTypes DEF TakeAnswer
<1> QED
  BY <1>2, <1>3, <1>4, <1>5, <1>6, <1>7

LEMMA ReadAsksCases ==
    ASSUME ReadAsks, ReadTypes, ReadAtWork, troubles \in 0..MaxTroubles
    PROVE  /\ reader' \in Readers /\ reading' \in BOOLEAN /\ got' \in Seq(Chunks) /\ lost' \subseteq Chunks
           /\ told' \in {"chunk", "end", "failure"} /\ request' \in Answers /\ troubles' \in 0..MaxTroubles
<1>1. CASE TakeAnswer(JsRead)
  BY <1>1, TakeAnswerTypes, JsReadTypes
<1>2. CASE ~TakeAnswer(JsRead)
  <2>1. request' = Waiting /\ reader' = ReaderAt("open", TRUE) /\ Quietly /\ UNCHANGED <<reading, got, lost, told>>
    BY <1>2 DEF ReadAsks
  <2> QED
    BY <2>1, AnswerTypes, ReaderAtTypes DEF ReadTypes, Quietly
<1> QED
  BY <1>1, <1>2

LEMMA ReaderStepTypes ==
    ASSUME ChannelTypeOK, ReadTypes, ReadAtWork, ReaderStep
    PROVE  ReadTypes' /\ ChannelTypeOK'
<1>0. troubles \in 0..MaxTroubles
  BY DEF ChannelTypeOK
<1>1. ASSUME troubles' \in 0..MaxTroubles, UNCHANGED channelVars
      PROVE  ChannelTypeOK'
  BY <1>1 DEF ChannelTypeOK, channelVars
<1>2. CASE BeginRead \/ ReadOfEnded \/ DropRead \/ ReadCannotAsk \/ ReadDue
  <2>1. troubles' \in 0..MaxTroubles
    BY <1>0, <1>2, TroubleTypes DEF BeginRead, ReadOfEnded, DropRead, ReadCannotAsk, ReadDue
  <2>2. UNCHANGED channelVars /\ UNCHANGED <<holding, got, lost, cancelled, jsReadable>>
    BY <1>2 DEF BeginRead, ReadOfEnded, DropRead, ReadCannotAsk, ReadDue
  <2>3. reading' \in BOOLEAN /\ told' \in {"chunk", "end", "failure"}
    BY <1>2 DEF BeginRead, ReadOfEnded, DropRead, ReadCannotAsk, ReadDue, ReadReturns, ReadTypes
  <2>4. reader' \in Readers
    BY <1>2, ReaderAtTypes DEF BeginRead, ReadOfEnded, DropRead, ReadCannotAsk, ReadDue, AfterReadDropped, ReadTypes
  <2> QED
    BY <1>1, <2>1, <2>2, <2>3, <2>4 DEF ReadTypes, jsReadable
<1>3. CASE ReadAsks
  <2>1. /\ reader' \in Readers /\ reading' \in BOOLEAN /\ got' \in Seq(Chunks) /\ lost' \subseteq Chunks
        /\ told' \in {"chunk", "end", "failure"} /\ request' \in Answers /\ troubles' \in 0..MaxTroubles
    BY <1>0, <1>3, ReadAsksCases
  <2>2. UNCHANGED <<holding, cancelled, pulling, channelVars>> /\ stored' = {} /\ readable' \in {"closed", readable}
    BY <1>3 DEF ReadAsks
  <2> QED
    BY <1>1, <2>1, <2>2 DEF ReadTypes
<1>4. CASE ReadAnswered
  <2>1. /\ reader' \in Readers /\ reading' \in BOOLEAN /\ got' \in Seq(Chunks) /\ lost' \subseteq Chunks
        /\ told' \in {"chunk", "end", "failure"} /\ request' \in Answers /\ troubles' \in 0..MaxTroubles
    BY <1>0, <1>4, TakeAnswerTypes DEF ReadAnswered, ReadTypes, ReadAtWork
  <2>2. UNCHANGED <<holding, cancelled, readable, stored, pulling, channelVars>>
    BY <1>4 DEF ReadAnswered
  <2> QED
    BY <1>1, <2>1, <2>2 DEF ReadTypes
<1>5. CASE Cancel
  <2>1. request' \in Answers
    BY <1>5, AnswerTypes, AnsweredTypes DEF Cancel
  <2>2. troubles' \in 0..MaxTroubles
    BY <1>0, <1>5, TroubleTypes DEF Cancel
  <2> QED
    BY <1>5, <2>1, <2>2 DEF Cancel, ReadTypes, ChannelTypeOK
<1>6. CASE ReleaseReader
  <2>1. troubles' \in 0..MaxTroubles
    BY <1>0, <1>6, TroubleTypes DEF ReleaseReader
  <2>2. request' \in Answers /\ reader' \in Readers /\ lost' \subseteq Chunks /\ holding' \in BOOLEAN
    BY <1>6, AnswerTypes, ReaderAtTypes DEF ReleaseReader, ReadTypes
  <2>3. UNCHANGED <<reading, got, told, cancelled, readable, stored, pulling, channelVars>>
    BY <1>6 DEF ReleaseReader
  <2> QED
    BY <1>1, <2>1, <2>2, <2>3 DEF ReadTypes
<1>7. CASE GetReader
  <2>1. troubles' \in 0..MaxTroubles
    BY <1>0, <1>7, TroubleTypes DEF GetReader
  <2>2. reader' \in Readers /\ holding' \in BOOLEAN /\ told' \in {"chunk", "end", "failure"}
    BY <1>7, ReaderAtTypes DEF GetReader
  <2>3. UNCHANGED <<reading, got, lost, cancelled, jsReadable, channelVars>>
    BY <1>7 DEF GetReader
  <2> QED
    BY <1>1, <2>1, <2>2, <2>3 DEF ReadTypes, jsReadable
<1> QED
  BY <1>2, <1>3, <1>4, <1>5, <1>6, <1>7 DEF ReaderStep, PollRead

-----------------------------------------------------------------------------
(* The WritableStream, the sink and the channel: Pipeline is kept. *)

LEMMA ElemsTypes ==
    ASSUME NEW S, NEW s \in Seq(S)
    PROVE  /\ Elems(s) \subseteq S
           /\ Elems(s) = {} => s = <<>>
<1>1. DOMAIN s = 1..Len(s) /\ Len(s) \in Nat /\ \A i \in 1..Len(s) : s[i] \in S
  BY LenProperties, ElementOfSeq
<1>2. Elems(s) \subseteq S
  BY <1>1 DEF Elems
<1>3. ASSUME Elems(s) = {}
      PROVE  s = <<>>
  <2>1. Len(s) = 0
    <3>1. 1 \in DOMAIN s => s[1] \in Elems(s)
      BY DEF Elems
    <3> QED
      BY <1>1, <1>3, <3>1
  <2> QED
    BY <2>1, EmptySeq
<1> QED
  BY <1>2, <1>3

LEMMA SeqOfNat ==
    ASSUME NEW s \in Seq(Chunks)
    PROVE  s \in Seq(Nat)
<1>1. Len(s) \in Nat /\ \A i \in 1..Len(s) : s[i] \in Nat
  BY ElementOfSeq, LenProperties, RequestTypes
<1>2. s = [i \in 1..Len(s) |-> s[i]]
  BY LenProperties
<1>3. [i \in 1..Len(s) |-> s[i]] \in Seq(Nat)
  BY <1>1, IsASeq
<1> QED
  BY <1>2, <1>3

\* What Pipeline says about who is where.
LEMMA Places ==
    ASSUME ChannelTypeOK, JsTypes, Pipeline
    PROVE  /\ Elems(queue) \subseteq Asked /\ current \subseteq Asked /\ Elems(passed) \subseteq Chunks
           /\ Elems(queue) \cap current = {}
           /\ \A c \in Chunks : Ahead(c) => c \notin Elems(passed)
           /\ CloseRequest \in current => queue = <<>>
           /\ current = {} => buffered = {}
           /\ buffered \subseteq current
           /\ Elems(<<>>) = {}
<1>1. Elems(passed) \subseteq Chunks
  BY ElemsTypes DEF ChannelTypeOK
<1>2. current \subseteq Asked /\ Elems(queue) \subseteq Asked
  BY DEF Pipeline, SinkAtWork, InOrder
<1>3. \A x \in Asked : ~Before(x, x)
  BY RequestTypes DEF Before, Asked
<1>4. Elems(queue) \cap current = {}
  BY <1>3, <1>2 DEF Pipeline, InOrder
<1>5. \A c \in Chunks : Ahead(c) => c \notin Elems(passed)
  BY DEF Pipeline, InOrder, Chunks
<1>6. ASSUME CloseRequest \in current
      PROVE  queue = <<>>
  <2>1. Elems(queue) = {}
    BY <1>6 DEF Pipeline, InOrder, Before
  <2> QED
    BY <2>1, ElemsTypes DEF JsTypes
<1>7. (current = {} => buffered = {}) /\ buffered \subseteq current
  BY DEF Pipeline, SinkAtWork
<1> QED
  BY <1>1, <1>2, <1>4, <1>5, <1>6, <1>7, EmptyElems

\* The reader's side only lets the receiver go.
Drains ==
    /\ UNCHANGED <<jsWritable, buffered, passed, sender>>
    /\ receiver' \in {receiver, "gone"}

LEMMA DrainsKeeps ==
    ASSUME Pipeline, Drains
    PROVE  Pipeline'
<1>1. UNCHANGED <<status, queue, current, sending, promise, buffered, passed, sender>>
  BY DEF Drains, jsWritable
<1>2. SinkAtWork'
  BY <1>1 DEF Pipeline, SinkAtWork
<1>3. InOrder'
  BY <1>1 DEF Pipeline, InOrder, Ahead
<1>4. PromisesKept'
  BY <1>1 DEF Pipeline, PromisesKept, Drains
<1> QED
  BY <1>2, <1>3, <1>4 DEF Pipeline

LEMMA RestsKeeps ==
    ASSUME Pipeline, UNCHANGED <<jsWritable, channelVars>>
    PROVE  Pipeline'
BY DrainsKeeps DEF Drains, channelVars

\* The stream is asked for a chunk later than all it was asked for, or to close.
Asks(r) ==
    /\ JsRequest(r)
    /\ \/ r = CloseRequest /\ JsTakes
       \/ r \in Chunks /\ \A c \in Chunks : c >= r => promise[c] = "none"

LEMMA AsksKeeps ==
    ASSUME ChannelTypeOK, JsTypes, Pipeline, NEW r \in Asked, Asks(r)
    PROVE  Pipeline'
<1>1. UNCHANGED <<status, current, sending, buffered, passed, sender, receiver>>
  BY DEF Asks, JsRequest, channelVars
<1>2. /\ promise'[r] = IF JsTakes THEN "pending" ELSE "err"
      /\ \A x \in Requests : x # r => promise'[x] = promise[x]
  BY RequestTypes DEF Asks, JsRequest, JsTypes
<1>3. r \in Requests /\ r \notin Elems(queue) \cup current /\ r \notin Elems(passed)
  BY RequestTypes, Places DEF Asks, JsTakes, CloseRequested, Pipeline, PromisesKept, Chunks
<1>4. CASE ~JsTakes
  <2>1. queue' = queue /\ r \in Chunks /\ promise'[r] = "err"
    BY <1>2, <1>4 DEF Asks, JsRequest
  <2>2. SinkAtWork' /\ InOrder'
    BY <1>1, <2>1 DEF Pipeline, SinkAtWork, InOrder, Ahead
  <2>3. PromisesKept'
    BY <1>1, <1>2, <1>3, <2>1, RequestTypes, Places DEF Pipeline, PromisesKept
  <2> QED
    BY <2>2, <2>3 DEF Pipeline
<1>5. CASE JsTakes
  <2>1. queue' = Append(queue, r) /\ status = "writable" /\ CloseRequest \notin Elems(queue) \cup current
    BY <1>5 DEF Asks, JsRequest, JsTakes, CloseRequested
  <2>2. /\ Elems(queue') = Elems(queue) \cup {r}
        /\ Len(queue') = Len(queue) + 1 /\ Len(queue) \in Nat
        /\ \A i \in 1..Len(queue) : queue'[i] = queue[i]
        /\ queue'[Len(queue) + 1] = r
        /\ DOMAIN queue = 1..Len(queue) /\ DOMAIN queue' = 1..(Len(queue) + 1)
    BY <1>3, <2>1, AppendElems, LenProperties DEF JsTypes
  <2>3. \A x \in Elems(queue) \cup current : Before(x, r)
    <3>1. \A x \in Elems(queue) \cup current : x \in Chunks /\ promise[x] = "pending"
      BY <2>1, Places, RequestTypes DEF Pipeline, PromisesKept
    <3> QED
      BY <3>1, <2>1 DEF Asks, Before, Chunks
  <2>4. SinkAtWork'
    BY <1>1, <2>1 DEF Pipeline, SinkAtWork
  <2>5. InOrder'
    <3>1. \A i, j \in DOMAIN queue' : i < j => Before(queue'[i], queue'[j])
      <4>1. \A i \in 1..Len(queue) : queue[i] \in Elems(queue)
        BY <2>2 DEF Elems
      <4>2. \A i, j \in DOMAIN queue : i < j => Before(queue[i], queue[j])
        BY DEF Pipeline, InOrder
      <4> QED
        BY <4>1, <4>2, <2>2, <2>3
    <3>2. \A x \in Elems(queue') : x \in Asked /\ \A y \in current' : Before(y, x)
      BY <1>1, <2>2, <2>3 DEF Pipeline, InOrder
    <3>3. r \in Chunks => \A x \in Elems(passed) : x < r
      BY Places, RequestTypes DEF Asks, Pipeline, PromisesKept, Chunks, CloseRequest
    <3>4. \A c \in Chunks : Ahead(c)' => Ahead(c) \/ c = r
      BY <1>1, <2>2 DEF Ahead
    <3> QED
      BY <1>1, <3>1, <3>2, <3>3, <3>4 DEF Pipeline, InOrder
  <2>6. PromisesKept'
    BY <1>1, <1>2, <1>3, <1>5, <2>1, <2>2, RequestTypes, Places DEF Pipeline, PromisesKept
  <2> QED
    BY <2>4, <2>5, <2>6 DEF Pipeline
<1> QED
  BY <1>4, <1>5

LEMMA BeginsKeeps ==
    ASSUME ChannelTypeOK, JsTypes, Pipeline, JsBegins
    PROVE  Pipeline'
<1>1. /\ UNCHANGED <<status, promise, buffered, passed, sender, receiver>>
      /\ current = {} /\ queue # <<>> /\ status = "writable"
      /\ current' = {Head(queue)} /\ queue' = Tail(queue) /\ sending' = "ready"
  BY DEF JsBegins, channelVars
<1>2. /\ Head(queue) \in Elems(queue) /\ Head(queue) = queue[1]
      /\ Elems(queue) = {Head(queue)} \cup Elems(queue')
      /\ \A i \in DOMAIN queue' : i + 1 \in DOMAIN queue /\ 1 < i + 1 /\ queue'[i] = queue[i + 1]
      /\ DOMAIN queue = 1..Len(queue) /\ DOMAIN queue' = 1..Len(queue') /\ Len(queue) \in Nat \ {0} /\ Len(queue') \in Nat
  BY <1>1, TailElems, LenProperties, EmptySeq DEF JsTypes
<1>3. buffered = {}
  BY <1>1, Places
<1>4. SinkAtWork'
  BY <1>1, <1>2, <1>3, Places DEF Pipeline, SinkAtWork
<1>5. InOrder'
  <2>1. \A i, j \in DOMAIN queue' : i < j => Before(queue'[i], queue'[j])
    BY <1>2 DEF Pipeline, InOrder
  <2>2. \A x \in Elems(queue') : Before(Head(queue), x)
    BY <1>2 DEF Pipeline, InOrder, Elems
  <2>3. \A c \in Chunks : Ahead(c)' => Ahead(c)
    BY <1>1, <1>2 DEF Ahead
  <2> QED
    BY <1>1, <1>2, <2>1, <2>2, <2>3 DEF Pipeline, InOrder
<1>6. PromisesKept'
  BY <1>1, <1>2 DEF Pipeline, PromisesKept
<1> QED
  BY <1>4, <1>5, <1>6 DEF Pipeline

LEMMA StartsKeeps ==
    ASSUME ChannelTypeOK, JsTypes, Pipeline, SendStarts
    PROVE  Pipeline'
<1>1. /\ UNCHANGED <<status, queue, current, promise, passed, sender, receiver>>
      /\ current \subseteq Chunks /\ sending = "ready" /\ buffered = {} /\ buffered' = current /\ sending' = "flush"
  BY DEF SendStarts
<1>2. SinkAtWork'
  BY <1>1 DEF Pipeline, SinkAtWork
<1>3. InOrder'
  <2>1. \A c \in Chunks : Ahead(c)' => Ahead(c)
    BY <1>1 DEF Ahead
  <2> QED
    BY <1>1, <2>1 DEF Pipeline, InOrder
<1>4. PromisesKept'
  BY <1>1 DEF Pipeline, PromisesKept, SinkAtWork
<1> QED
  BY <1>2, <1>3, <1>4 DEF Pipeline

\* The stream fails while its sink has nothing that entered the channel half.
LEMMA FailureKeeps ==
    ASSUME ChannelTypeOK, JsTypes, Pipeline, NEW ok, NEW err, JsFails(ok, err),
           status # "closed", current' = {}, sending' = "none", buffered' = {}, UNCHANGED <<passed, receiver>>,
           sender' = "gone" => sender = "gone" \/ AbortRequest \in ok,
           current \subseteq ok \cup err, ok \cap Asked \subseteq current \cap Chunks, err \subseteq current,
           ok \cap err = {}, ok \cap Chunks \subseteq Elems(passed) \/ receiver = "gone",
           err \cap Elems(passed) = {}
    PROVE  Pipeline'
<1>1. /\ status' = "errored" /\ queue' = <<>>
      /\ \A r \in Requests : promise'[r] =
           IF r \in ok THEN "ok" ELSE IF r \in err \cup Elems(queue) THEN "err" ELSE promise[r]
  BY SettledTypes DEF JsFails
<1>2. Elems(queue') = {}
  BY <1>1, EmptyElems
<1>3. SinkAtWork'
  BY <1>1 DEF SinkAtWork
<1>4. InOrder'
  <2>1. DOMAIN queue' = {}
    BY <1>2 DEF Elems
  <2> QED
    BY <1>2, <2>1 DEF Pipeline, InOrder, Ahead
<1>5. PromisesKept'
  <2>1. \A r \in Asked : r \in Requests /\ promise'[r] # "pending"
    BY <1>1, RequestTypes DEF Pipeline, PromisesKept
  <2>2. \A c \in Elems(passed) : c \in Chunks /\ c \in Requests /\ c \notin Elems(queue) /\ c \notin err
    BY Places, RequestTypes DEF Ahead
  <2>3. \A c \in Elems(passed) : promise'[c] \in {"pending", "ok"}
    BY <1>1, <2>2 DEF Pipeline, PromisesKept
  <2>4. ASSUME NEW c \in Chunks, promise'[c] = "ok"
        PROVE  c \in Elems(passed) \/ receiver = "gone"
    <3>1. c \in Requests
      BY RequestTypes
    <3>2. c \in ok \/ promise[c] = "ok"
      BY <1>1, <2>4, <3>1
    <3> QED
      BY <3>2 DEF Pipeline, PromisesKept
  <2>5. promise'[CloseRequest] # "ok"
    <3>1. CloseRequest \in Requests /\ CloseRequest \notin ok
      BY RequestTypes
    <3> QED
      BY <1>1, <3>1 DEF Pipeline, PromisesKept
  <2>6. sender' = "gone" => promise'[AbortRequest] # "none"
    BY <1>1, RequestTypes DEF Pipeline, PromisesKept
  <2> QED
    BY <1>1, <1>2, <2>1, <2>3, <2>4, <2>5, <2>6 DEF PromisesKept
<1> QED
  BY <1>3, <1>4, <1>5 DEF Pipeline

LEMMA EndsKeeps ==
    ASSUME ChannelTypeOK, JsTypes, Pipeline, SendEnds
    PROVE  Pipeline'
<1>1. /\ sending = "flush" /\ buffered = {} /\ current' = {} /\ sending' = "none"
      /\ current \subseteq Chunks /\ (current \subseteq Elems(passed) \/ receiver = "gone")
  BY DEF SendEnds, Flushed, Pipeline, SinkAtWork, PromisesKept
<1>2. CASE status = "writable" /\ promise' = Settled(current, {}) /\ UNCHANGED <<status, queue, channelVars>>
  <2>1. UNCHANGED <<status, queue, buffered, passed, sender, receiver>>
    BY <1>2 DEF channelVars
  <2>2. \A r \in Requests : promise'[r] = IF r \in current THEN "ok" ELSE promise[r]
    BY <1>2, SettledTypes
  <2>3. SinkAtWork'
    BY <1>1, <1>2, <2>1 DEF Pipeline, SinkAtWork
  <2>4. InOrder'
    <3>1. \A c \in Chunks : Ahead(c)' => Ahead(c)
      BY <1>1, <2>1 DEF Ahead
    <3> QED
      BY <1>1, <2>1, <3>1 DEF Pipeline, InOrder
  <2>5. PromisesKept'
    <3>1. \A r \in Asked : promise'[r] = "pending" <=> r \in Elems(queue) \cup current'
      BY <1>1, <2>2, RequestTypes, Places DEF Pipeline, PromisesKept
    <3>2. \A c \in Elems(passed) : promise'[c] \in {"pending", "ok"}
      BY <2>2, RequestTypes, Places DEF Pipeline, PromisesKept
    <3>3. ASSUME NEW c \in Chunks, promise'[c] = "ok"
          PROVE  c \in Elems(passed) \/ receiver = "gone"
      <4>1. c \in Requests
        BY RequestTypes
      <4>2. c \in current \/ promise[c] = "ok"
        BY <2>2, <3>3, <4>1
      <4> QED
        BY <1>1, <4>2 DEF Pipeline, PromisesKept
    <3>4. promise'[CloseRequest] = promise[CloseRequest] /\ promise'[AbortRequest] = promise[AbortRequest]
      BY <1>1, <2>2, RequestTypes
    <3> QED
      BY <1>1, <2>1, <3>1, <3>2, <3>3, <3>4 DEF Pipeline, PromisesKept
  <2> QED
    BY <2>3, <2>4, <2>5 DEF Pipeline
<1>3. CASE status = "erroring" /\ FinishAbort(current, {})
  <2>1. /\ JsFails(current \cup {AbortRequest}, {}) /\ buffered' = {} /\ UNCHANGED <<passed, receiver>>
        /\ status # "closed"
    BY <1>3 DEF FinishAbort, DropSink
  <2>2. (current \cup {AbortRequest}) \cap Asked \subseteq current \cap Chunks /\ AbortRequest \notin Chunks
    BY <1>1, RequestTypes
  <2> QED
    BY <1>1, <2>1, <2>2, FailureKeeps
<1> QED
  BY <1>2, <1>3 DEF SendEnds

LEMMA SendFailsKeeps ==
    ASSUME ChannelTypeOK, JsTypes, Pipeline, SendFails
    PROVE  Pipeline'
<1>1. /\ sending = "ready" /\ current \subseteq Chunks /\ current' = {} /\ sending' = "none" /\ status # "closed"
      /\ current # {}
  BY DEF SendFails
<1>2. buffered = {} /\ current \cap Elems(passed) = {}
  BY <1>1, Places DEF Pipeline, SinkAtWork, Ahead
<1>3. CASE JsFails({}, current) /\ UNCHANGED channelVars
  <2>1. UNCHANGED <<buffered, passed, sender, receiver>>
    BY <1>3 DEF channelVars
  <2> QED
    BY <1>1, <1>2, <1>3, <2>1, FailureKeeps
<1>4. CASE FinishAbort({}, current)
  <2>1. JsFails({} \cup {AbortRequest}, current) /\ buffered' = {} /\ UNCHANGED <<passed, receiver>>
    BY <1>4 DEF FinishAbort, DropSink
  <2>2. ({} \cup {AbortRequest}) \cap Asked \subseteq current \cap Chunks /\ AbortRequest \notin current /\ AbortRequest \notin Chunks
    BY <1>1, RequestTypes
  <2> QED
    BY <1>1, <1>2, <2>1, <2>2, FailureKeeps
<1> QED
  BY <1>3, <1>4 DEF SendFails

LEMMA CloseEndsKeeps ==
    ASSUME ChannelTypeOK, JsTypes, Pipeline, CloseEnds
    PROVE  Pipeline'
<1>1. /\ current = {CloseRequest} /\ current' = {} /\ sending' = "none" /\ sender' = "gone" /\ status' = "closed"
      /\ buffered = {} /\ queue = <<>> /\ UNCHANGED <<queue, buffered, passed, receiver>>
  BY Places DEF CloseEnds, Flushed
<1>2. \A r \in Requests : promise'[r] = IF r \in {CloseRequest} \cup Aborting THEN "ok" ELSE promise[r]
  BY SettledTypes DEF CloseEnds
<1>3. Elems(queue) = {} /\ DOMAIN queue = {}
  BY <1>1, EmptyElems, EmptySeq
<1>4. SinkAtWork' /\ InOrder'
  BY <1>1, <1>3 DEF Pipeline, SinkAtWork, InOrder, Ahead
<1>5. PromisesKept'
  <2>1. \A c \in Chunks : promise'[c] = promise[c]
    BY <1>2, RequestTypes DEF Aborting
  <2>2. \A r \in Asked : promise'[r] # "pending"
    BY <1>1, <1>2, <1>3, RequestTypes DEF Pipeline, PromisesKept
  <2> QED
    BY <1>1, <1>3, <2>1, <2>2, Places DEF Pipeline, PromisesKept
<1> QED
  BY <1>4, <1>5 DEF Pipeline

\* What an abort does to the stream: nothing more when it has ended, its failure when
\* it is idle, and otherwise the failure waits for the request the sink works on.
AbortDoes ==
    /\ UNCHANGED <<current, sending>>
    /\ \/ /\ status \in {"closed", "errored"} /\ promise' = Settled({AbortRequest}, {})
          /\ UNCHANGED <<status, queue, channelVars>>
       \/ status = "writable" /\ current = {} /\ FinishAbort({}, {})
       \/ /\ status \in {"writable", "erroring"} /\ current # {} /\ status' = "erroring"
          /\ promise' = [promise EXCEPT ![AbortRequest] = "pending"]
          /\ UNCHANGED <<queue, channelVars>>

LEMMA AbortsKeeps ==
    ASSUME ChannelTypeOK, JsTypes, Pipeline, AbortDoes
    PROVE  Pipeline'
<1>1. CASE status = "writable" /\ current = {} /\ FinishAbort({}, {})
  <2>1. JsFails({} \cup {AbortRequest}, {}) /\ buffered' = {} /\ UNCHANGED <<passed, receiver>>
    BY <1>1 DEF FinishAbort, DropSink
  <2>2. ({} \cup {AbortRequest}) \cap Asked \subseteq current \cap Chunks /\ AbortRequest \notin Chunks
    BY RequestTypes
  <2>3. current' = {} /\ sending' = "none" /\ status # "closed"
    BY <1>1 DEF AbortDoes, Pipeline, SinkAtWork
  <2> QED
    BY <1>1, <2>1, <2>2, <2>3, FailureKeeps
<1>2. CASE /\ status \in {"closed", "errored"} /\ promise' = Settled({AbortRequest}, {})
           /\ UNCHANGED <<status, queue, channelVars>>
  <2>1. UNCHANGED <<status, queue, current, sending, buffered, passed, sender, receiver>>
    BY <1>2 DEF channelVars, AbortDoes
  <2>2. \A r \in Asked : promise'[r] = promise[r]
    BY <1>2, SettledTypes, RequestTypes
  <2>3. SinkAtWork' /\ InOrder'
    BY <2>1 DEF Pipeline, SinkAtWork, InOrder, Ahead
  <2>4. promise'[AbortRequest] # "none"
    BY <1>2, SettledTypes, RequestTypes
  <2>5. PromisesKept'
    BY <2>1, <2>2, <2>4, RequestTypes, Places DEF Pipeline, PromisesKept
  <2> QED
    BY <2>3, <2>5 DEF Pipeline
<1>3. CASE /\ status \in {"writable", "erroring"} /\ current # {} /\ status' = "erroring"
           /\ promise' = [promise EXCEPT ![AbortRequest] = "pending"]
           /\ UNCHANGED <<queue, channelVars>>
  <2>1. UNCHANGED <<queue, current, sending, buffered, passed, sender, receiver>>
    BY <1>3 DEF channelVars, AbortDoes
  <2>2. /\ \A r \in Asked : promise'[r] = promise[r]
        /\ promise'[AbortRequest] = "pending"
    BY <1>3, RequestTypes DEF JsTypes
  <2>3. SinkAtWork' /\ InOrder'
    BY <1>3, <2>1 DEF Pipeline, SinkAtWork, InOrder, Ahead
  <2>5. PromisesKept'
    BY <1>3, <2>1, <2>2, RequestTypes, Places DEF Pipeline, PromisesKept
  <2> QED
    BY <2>3, <2>5 DEF Pipeline
<1> QED
  BY <1>1, <1>2, <1>3 DEF AbortDoes

LEMMA PassOnKeeps ==
    ASSUME ChannelTypeOK, JsTypes, Pipeline, PassOn, UNCHANGED jsWritable
    PROVE  Pipeline'
<1>1. UNCHANGED <<taken, sender, receiver>> /\ buffered # {} /\ buffered' = {}
  BY DEF PassOn
<1>2. UNCHANGED <<status, queue, current, sending, promise>>
  BY DEF jsWritable
<1>3. PICK b \in Chunks : current = {b} /\ buffered = {b}
  BY <1>1 DEF Pipeline, SinkAtWork
<1>4. sending = "flush" /\ Only(buffered) = b
  BY <1>1, <1>3, OnlyElement DEF Pipeline, SinkAtWork
<1>5. SinkAtWork'
  BY <1>1, <1>2 DEF Pipeline, SinkAtWork
<1>6. CASE receiver = "gone"
  <2>1. passed' = passed
    BY <1>6 DEF PassOn
  <2>2. InOrder'
    BY <1>1, <1>2, <2>1 DEF Pipeline, InOrder, Ahead
  <2>3. PromisesKept'
    BY <1>1, <1>2, <1>6, <2>1 DEF Pipeline, PromisesKept
  <2> QED
    BY <1>5, <2>2, <2>3 DEF Pipeline
<1>7. CASE receiver = "open"
  <2>1. passed' = Append(passed, b)
    BY <1>4, <1>7 DEF PassOn
  <2>2. Elems(passed') = Elems(passed) \cup {b} /\ passed \in Seq(Nat)
    <3>1. passed \in Seq(Chunks)
      BY DEF ChannelTypeOK
    <3>2. passed \in Seq(Nat)
      BY <3>1, SeqOfNat
    <3> QED
      BY <2>1, <3>1, <3>2, AppendElems
  <2>3. \A x \in Elems(passed) : x < b
    BY <1>3 DEF Pipeline, InOrder, Ahead
  <2>4. Increasing(passed')
    BY <2>1, <2>2, <2>3, AppendIncreasing, RequestTypes DEF Pipeline, InOrder
  <2>5. ASSUME NEW c \in Chunks, Ahead(c)'
        PROVE  Ahead(c) /\ b < c
    <3>1. c \in Elems(queue)
      BY <1>1, <1>2, <1>4, <2>5 DEF Ahead
    <3>2. Before(b, c)
      BY <1>3, <3>1 DEF Pipeline, InOrder
    <3> QED
      BY <3>1, <3>2, RequestTypes DEF Ahead, Before
  <2>6. InOrder'
    BY <1>2, <2>2, <2>4, <2>5 DEF Pipeline, InOrder
  <2>7. promise[b] = "pending"
    BY <1>3, RequestTypes DEF Pipeline, PromisesKept
  <2>8. PromisesKept'
    BY <1>1, <1>2, <1>3, <1>7, <2>2, <2>7 DEF Pipeline, PromisesKept
  <2> QED
    BY <1>5, <2>6, <2>8 DEF Pipeline
<1> QED
  BY <1>6, <1>7 DEF ChannelTypeOK

-----------------------------------------------------------------------------
(* The host's writer: WriterSound is kept. *)

\* The stream settles promises that were pending and does not come back to life.
Settles ==
    /\ \A c \in Chunks : promise'[c] = promise[c] \/ promise[c] = "pending"
    /\ \A c \in Chunks : promise'[c] = "none" <=> promise[c] = "none"
    /\ promise[AbortRequest] # "none" => promise'[AbortRequest] # "none"
    /\ status = "closed" => status' = "closed"

LEMMA SettlesKeeps ==
    ASSUME HostTypes, WriterSound, Settles, UNCHANGED hostWriter
    PROVE  WriterSound'
<1>1. UNCHANGED <<writer, attached, operation, handed, before, answer, closeOk>>
  BY DEF hostWriter
<1>2. UNCHANGED <<Sends, Unsent>>
  BY <1>1 DEF Sends, Unsent
<1>3. PendingWhileWaiting'
  BY <1>1 DEF WriterSound, PendingWhileWaiting
<1>4. Untouched'
  <2>1. Sends' => handed' \in Chunks /\ answer'[handed'] = "none"
    BY <1>1 DEF WriterSound, Untouched, Sends
  <2>2. Unsent' => promise'[handed'] = "none"
    BY <1>1 DEF WriterSound, Untouched, Sends, Unsent, Settles
  <2>3. \A c \in Chunks : c > handed' => promise'[c] = "none" /\ answer'[c] = "none"
    BY <1>1 DEF WriterSound, Untouched, Settles
  <2>4. operation'.kind = "write" /\ operation'.stage = "flush" => writer' = WriterAt("writing", {handed'})
    BY <1>1 DEF WriterSound, Untouched
  <2> QED
    BY <2>1, <2>2, <2>3, <2>4 DEF Untouched, WriterAt
<1>5. AnswersTrue'
  BY <1>1 DEF WriterSound, AnswersTrue, Settles
<1>6. ClosedTrue'
  BY <1>1 DEF WriterSound, ClosedTrue, Settles
<1>7. Owes'
  BY <1>1 DEF WriterSound, Owes, Settles
<1> QED
  BY <1>3, <1>4, <1>5, <1>6, <1>7 DEF WriterSound

LEMMA RestSettles ==
    ASSUME UNCHANGED jsWritable
    PROVE  Settles
BY DEF Settles, jsWritable

LEMMA FailureSettles ==
    ASSUME ChannelTypeOK, JsTypes, Pipeline, NEW ok, NEW err, JsFails(ok, err), status # "closed",
           ok \cap Chunks \subseteq current, err \cap Chunks \subseteq current, AbortRequest \in ok \/ err \subseteq Chunks
    PROVE  Settles /\ (AbortRequest \in ok => promise'[AbortRequest] = "ok")
<1>1. \A r \in Requests : promise'[r] =
           IF r \in ok THEN "ok" ELSE IF r \in err \cup Elems(queue) THEN "err" ELSE promise[r]
  BY SettledTypes DEF JsFails
<1>2. \A c \in Chunks : c \in ok \cup err \cup Elems(queue) => promise[c] = "pending"
  BY RequestTypes DEF Pipeline, PromisesKept
<1>3. Chunks \subseteq Requests /\ AbortRequest \in Requests
  BY RequestTypes
<1>4. \A c \in Chunks : promise'[c] = promise[c] \/ (promise[c] = "pending" /\ promise'[c] \in {"ok", "err"})
  BY <1>1, <1>2, <1>3
<1>5. promise[AbortRequest] # "none" => promise'[AbortRequest] # "none"
  BY <1>1, <1>3
<1>6. AbortRequest \in ok => promise'[AbortRequest] = "ok"
  BY <1>1, <1>3
<1> QED
  BY <1>4, <1>5, <1>6 DEF Settles

LEMMA SinkSettles ==
    ASSUME ChannelTypeOK, JsTypes, Pipeline, JsBegins \/ SendStarts \/ SendEnds \/ SendFails \/ CloseEnds
    PROVE  Settles
<1>1. CASE JsBegins \/ SendStarts
  BY <1>1 DEF JsBegins, SendStarts, Settles
<1>2. CASE SendEnds
  <2>1. CASE status = "writable" /\ promise' = Settled(current, {}) /\ status' = status
    <3>1. \A r \in Requests : promise'[r] = IF r \in current THEN "ok" ELSE promise[r]
      BY <2>1, SettledTypes
    <3>2. \A c \in Chunks : c \in current => promise[c] = "pending"
      BY RequestTypes DEF Pipeline, PromisesKept
    <3>3. Chunks \subseteq Requests /\ AbortRequest \in Requests
      BY RequestTypes
    <3> QED
      BY <2>1, <3>1, <3>2, <3>3 DEF Settles
  <2>2. CASE status = "erroring" /\ FinishAbort(current, {})
    <3>1. (current \cup {AbortRequest}) \cap Chunks \subseteq current
      BY RequestTypes
    <3>2. JsFails(current \cup {AbortRequest}, {}) /\ status # "closed"
      BY <2>2 DEF FinishAbort
    <3> QED
      BY <3>1, <3>2, FailureSettles
  <2> QED
    BY <1>2, <2>1, <2>2 DEF SendEnds
<1>3. CASE SendFails
  <2>1. status # "closed" /\ current \subseteq Chunks
    BY <1>3 DEF SendFails
  <2>2. CASE JsFails({}, current)
    BY <2>1, <2>2, FailureSettles
  <2>3. CASE FinishAbort({}, current)
    <3>1. ({} \cup {AbortRequest}) \cap Chunks \subseteq current /\ JsFails({} \cup {AbortRequest}, current)
      BY <2>3, RequestTypes DEF FinishAbort
    <3> QED
      BY <2>1, <3>1, FailureSettles
  <2> QED
    BY <1>3, <2>2, <2>3 DEF SendFails
<1>4. CASE CloseEnds
  <2>1. \A r \in Requests : promise'[r] = IF r \in {CloseRequest} \cup Aborting THEN "ok" ELSE promise[r]
    BY <1>4, SettledTypes DEF CloseEnds
  <2>2. status' = "closed"
    BY <1>4 DEF CloseEnds
  <2>3. \A c \in Chunks : promise'[c] = promise[c]
    BY <2>1, RequestTypes DEF Aborting
  <2>4. promise[AbortRequest] # "none" => promise'[AbortRequest] # "none"
    BY <2>1, RequestTypes
  <2> QED
    BY <2>2, <2>3, <2>4 DEF Settles
<1> QED
  BY <1>1, <1>2, <1>3, <1>4

LEMMA AbortSettles ==
    ASSUME ChannelTypeOK, JsTypes, Pipeline, AbortDoes
    PROVE  Settles /\ promise'[AbortRequest] # "none"
<1>1. CASE status = "writable" /\ current = {} /\ FinishAbort({}, {})
  <2>1. ({} \cup {AbortRequest}) \cap Chunks \subseteq current /\ JsFails({} \cup {AbortRequest}, {})
    BY <1>1, RequestTypes DEF FinishAbort
  <2>2. Settles /\ promise'[AbortRequest] = "ok"
    BY <1>1, <2>1, FailureSettles
  <2> QED
    BY <2>2
<1>2. CASE status' = status /\ promise' = Settled({AbortRequest}, {})
  <2>1. \A r \in Requests : promise'[r] = IF r = AbortRequest THEN "ok" ELSE promise[r]
    BY <1>2, SettledTypes
  <2> QED
    BY <1>2, <2>1, RequestTypes DEF Settles
<1>3. CASE status # "closed" /\ promise' = [promise EXCEPT ![AbortRequest] = "pending"]
  BY <1>3, RequestTypes DEF Settles, JsTypes
<1> QED
  BY <1>1, <1>2, <1>3 DEF AbortDoes

-----------------------------------------------------------------------------

\* What a call that returns leaves of the answers.
LEMMA ReturnsKeeps ==
    ASSUME HostTypes, JsTypes, WriterSound, NEW result, Returns(result),
           \A c \in Chunks : \/ promise'[c] = promise[c]
                             \/ promise[c] = "pending" /\ promise'[c] # "none"
                             \/ Sends /\ c = handed,
           Sends /\ operation.kind = "write" /\ result = "ok" => promise'[handed] = "ok",
           Sends /\ result = "err" => promise'[handed] \in {"none", "err"}
    PROVE  Untouched' /\ AnswersTrue'
<1>1. operation' = Idle /\ handed' = handed /\ ~Sends' /\ operation'.kind # "write"
  BY DEF Returns, Idle, Sends
<1>2. /\ \A c \in Chunks : answer'[c] = answer[c] \/ (Sends /\ c = handed)
      /\ Sends => answer'[handed] \in {IF operation.kind = "feed" /\ result = "ok" THEN "fed" ELSE result}
  BY DEF Returns, HostTypes, Sends, WriterSound, Untouched
<1>3. \A c \in Chunks : c > handed => promise'[c] = "none" /\ answer'[c] = "none"
  BY <1>2 DEF HostTypes, WriterSound, Untouched, Chunks
<1>4. Untouched'
  BY <1>1, <1>3 DEF Untouched, Unsent
<1>5. ASSUME NEW c \in Chunks
      PROVE  /\ answer'[c] = "ok" => promise'[c] = "ok"
             /\ answer'[c] = "err" => promise'[c] \in {"none", "err"}
  <2>1. CASE Sends /\ c = handed
    <3>1. operation.kind # "feed" => operation.kind = "write"
      BY <2>1 DEF Sends
    <3> QED
      BY <1>2, <2>1, <3>1
  <2>2. CASE ~(Sends /\ c = handed)
    BY <1>2, <2>2 DEF WriterSound, AnswersTrue
  <2> QED
    BY <2>1, <2>2
<1> QED
  BY <1>4, <1>5 DEF AnswersTrue


LEMMA EndedKeeps ==
    ASSUME NEW phase \in {"closed", "failed", "released"}, writer' = WriterAt(phase, {})
    PROVE  PendingWhileWaiting' /\ Owes'
BY DEF WriterAt, PendingWhileWaiting, Owes

LEMMA SameWriterKeeps ==
    ASSUME WriterSound, UNCHANGED <<writer, before, status, promise>>
    PROVE  PendingWhileWaiting' /\ Owes'
BY DEF WriterSound, PendingWhileWaiting, Owes

LEMMA FailsKeeps ==
    ASSUME HostTypes, JsTypes, WriterSound, NEW result, Fails("failed", result), result # "ok",
           Sends /\ result = "err" => promise[handed] \in {"none", "err"}
    PROVE  WriterSound'
<1>1. /\ writer' = WriterAt("failed", {}) /\ Returns(result) /\ UNCHANGED <<status, promise>>
  BY DEF Fails, jsWritable
<1>2. PendingWhileWaiting' /\ Owes'
  BY <1>1, EndedKeeps
<1>3. Untouched' /\ AnswersTrue'
  BY <1>1, ReturnsKeeps
<1>4. ClosedTrue'
  BY <1>1 DEF Returns, WriterSound, ClosedTrue, WriterAt
<1> QED
  BY <1>2, <1>3, <1>4 DEF WriterSound

\* What a poll of a pending future may return tells of the promise.
LEMMA PollResultsTell ==
    ASSUME NEW r, writer.pending = {r}, NEW result \in PollResults
    PROVE  result = promise[r] \/ result = "due"
BY DEF PollResults

LEMMA StartSendKeeps ==
    ASSUME HostTypes, JsTypes, WriterSound, Unsent, StartSend,
           writer.phase \in {"open", "writing"}, \A c \in writer.pending : promise[c] = "ok"
    PROVE  WriterSound'
<1>1. handed \in Chunks /\ promise[handed] = "none" /\ Sends /\ answer[handed] = "none"
  BY DEF WriterSound, Untouched, Unsent
<1>2. CASE Fails("failed", "due")
  BY <1>2, FailsKeeps
<1>3. CASE JsRequest(handed)
  <2>1. /\ status' = status
        /\ promise'[handed] = IF JsTakes THEN "pending" ELSE "err"
        /\ \A r \in Requests : r # handed => promise'[r] = promise[r]
    BY <1>1, <1>3, RequestTypes DEF JsRequest, JsTypes
  <2>2. \A c \in Chunks : promise'[c] = promise[c] \/ c = handed
    BY <2>1, RequestTypes
  <2>3. promise'[AbortRequest] = promise[AbortRequest]
    BY <1>1, <2>1, RequestTypes
  <2>4. ASSUME writer' = WriterAt("writing", {handed}), before' = before, closeOk' = closeOk
        PROVE  PendingWhileWaiting' /\ Owes' /\ ClosedTrue'
    <3>1. writer'.phase = "writing" /\ writer'.pending = {handed}
      BY <2>4 DEF WriterAt
    <3>2. PendingWhileWaiting'
      BY <1>1, <3>1 DEF PendingWhileWaiting
    <3>3. Owes'
      BY <2>2, <2>4, <3>1 DEF Owes, WriterSound
    <3>4. ClosedTrue'
      BY <2>1, <2>3, <2>4, <3>1 DEF ClosedTrue, WriterSound
    <3> QED
      BY <3>2, <3>3, <3>4
  <2>5. CASE operation.kind = "feed" /\ writer' = WriterAt("writing", {handed}) /\ Returns("ok")
    <3>1. Untouched' /\ AnswersTrue'
      BY <1>1, <2>2, <2>5, ReturnsKeeps
    <3>2. before' = before /\ closeOk' = closeOk
      BY <2>5 DEF Returns, HostTypes
    <3> QED
      BY <2>4, <2>5, <3>1, <3>2 DEF WriterSound
  <2>6. CASE /\ operation.kind = "write" /\ JsTakes
             /\ writer' = WriterAt("writing", {handed})
             /\ operation' = [operation EXCEPT !.stage = "flush"]
             /\ UNCHANGED <<attached, handed, before, answer, closeOk>>
    <3>1. operation'.kind = "write" /\ operation'.stage = "flush"
      BY <2>6 DEF HostTypes, Operations, Idle
    <3>2. Untouched'
      BY <1>1, <2>2, <2>6, <3>1 DEF Untouched, Unsent, Sends, WriterSound, Chunks, WriterAt
    <3>3. AnswersTrue'
      BY <1>1, <2>2, <2>6 DEF AnswersTrue, WriterSound
    <3> QED
      BY <2>4, <2>6, <3>2, <3>3 DEF WriterSound
  <2>7. CASE operation.kind = "write" /\ ~JsTakes /\ writer' = WriterAt("failed", {}) /\ Returns("err")
    <3>1. Untouched' /\ AnswersTrue'
      BY <1>1, <2>1, <2>2, <2>7, ReturnsKeeps
    <3>2. PendingWhileWaiting' /\ Owes'
      BY <2>7, EndedKeeps
    <3>3. ClosedTrue'
      BY <2>1, <2>3, <2>7 DEF Returns, WriterSound, ClosedTrue, WriterAt
    <3> QED
      BY <3>1, <3>2, <3>3 DEF WriterSound
  <2> QED
    BY <1>2, <1>3, <2>5, <2>6, <2>7 DEF StartSend
<1> QED
  BY <1>2, <1>3 DEF StartSend

\* The alternatives of PollAbort, by what they do to the stream.
LEMMA PollAbortCases ==
    ASSUME PollAbort, Pipeline
    PROVE  \/ Returns("due") /\ UNCHANGED <<writer, jsWritable, channelVars>>
           \/ Fails("failed", "err")
           \/ AbortDoes /\ writer' = WriterAt("closed", {}) /\ Returns("ok")
           \/ /\ AbortDoes /\ writer' = WriterAt("failed", {})
              /\ operation' = [operation EXCEPT !.stage = "await"]
              /\ UNCHANGED <<attached, handed, before, answer, closeOk>>
BY DEF PollAbort, AbortDoes, Pipeline, SinkAtWork

\* What a step of the writer asks of the stream.
LEMMA WriterShapes ==
    ASSUME HostTypes, JsTypes, Pipeline, WriterSound, WriterStep
    PROVE  \/ UNCHANGED <<jsWritable, channelVars>>
           \/ \E r \in Asked : Asks(r)
           \/ AbortDoes
<1> DEFINE Shaped == \/ UNCHANGED <<jsWritable, channelVars>>
                     \/ \E r \in Asked : Asks(r)
                     \/ AbortDoes
<1>1. ASSUME StartSend, Unsent
      PROVE  Shaped
  <2>1. CASE JsRequest(handed)
    <3>1. handed \in Chunks /\ \A c \in Chunks : c >= handed => promise[c] = "none"
      BY <1>1 DEF WriterSound, Untouched, Unsent, Chunks
    <3>2. Asks(handed) /\ handed \in Asked
      BY <2>1, <3>1, RequestTypes DEF Asks
    <3> QED
      BY <3>2
  <2> QED
    BY <1>1, <2>1 DEF StartSend, Fails
<1>2. ASSUME CallClose
      PROVE  Shaped
  <2>1. CASE JsTakes /\ JsRequest(CloseRequest)
    <3>1. Asks(CloseRequest) /\ CloseRequest \in Asked
      BY <2>1, RequestTypes DEF Asks
    <3> QED
      BY <3>1
  <2> QED
    BY <1>2, <2>1 DEF CallClose, Fails
<1>3. CASE PollReady
  <2>1. Unsent
    BY <1>3 DEF PollReady, Unsent, Sends
  <2>2. \/ StartSend
        \/ \E result \in PollResults : Fails("failed", result)
        \/ UNCHANGED <<jsWritable, channelVars>>
    BY <1>3 DEF PollReady
  <2> QED
    BY <1>1, <2>1, <2>2 DEF Fails
<1>4. CASE PollClose
  <2>1. \/ CallClose
        \/ \E result \in PollResults : Fails("failed", result)
        \/ UNCHANGED <<jsWritable, channelVars>>
    <3>1. writer.phase \in {"open", "writing", "closing", "closed", "failed", "released"}
      BY WriterAtTypes DEF HostTypes
    <3> QED
      BY <1>4, <3>1, PollCloseCases
  <2> QED
    BY <1>2, <2>1 DEF Fails
<1>5. CASE PollAbort
  BY <1>5, PollAbortCases DEF Fails
<1>6. CASE PollFlush \/ PollAborted \/ DropOperation \/ ReleaseWriter \/ GetWriter \/ \E kind \in Kinds : Begin(kind)
  BY <1>6 DEF PollFlush, PollAborted, DropOperation, ReleaseWriter, GetWriter, Begin, Fails
<1> QED
  BY <1>3, <1>4, <1>5, <1>6 DEF WriterStep, PollOperation

LEMMA PollReadyKeeps ==
    ASSUME HostTypes, JsTypes, WriterSound, PollReady
    PROVE  WriterSound'
<1>1. Unsent /\ handed \in Chunks /\ promise[handed] = "none" /\ Sends
  BY DEF PollReady, Unsent, Sends, WriterSound, Untouched
<1>2. CASE writer.phase = "open"
  <2>1. StartSend /\ writer.pending = {}
    BY <1>2 DEF PollReady, WriterSound, PendingWhileWaiting
  <2> QED
    BY <1>1, <1>2, <2>1, StartSendKeeps
<1>3. CASE writer.phase = "writing"
  <2>1. PICK p \in Chunks : writer.pending = {p}
    BY <1>3 DEF WriterSound, PendingWhileWaiting
  <2>2. PICK result \in PollResults :
              \/ result = "ok" /\ StartSend
              \/ result # "ok" /\ Fails("failed", result)
    BY <1>3 DEF PollReady
  <2>3. CASE result = "ok" /\ StartSend
    <3>1. promise[p] = "ok"
      BY <2>1, <2>3, PollResultsTell
    <3> QED
      BY <1>1, <1>3, <2>1, <2>3, <3>1, StartSendKeeps
  <2>4. CASE result # "ok" /\ Fails("failed", result)
    BY <1>1, <2>4, FailsKeeps
  <2> QED
    BY <2>2, <2>3, <2>4
<1>4. CASE writer.phase \notin {"open", "writing"}
  <2>1. Returns("err") /\ UNCHANGED <<writer, jsWritable>>
    BY <1>4 DEF PollReady
  <2>2. Untouched' /\ AnswersTrue'
    BY <1>1, <2>1, ReturnsKeeps DEF jsWritable
  <2>3. PendingWhileWaiting' /\ Owes'
    BY <2>1, SameWriterKeeps DEF Returns, jsWritable
  <2>4. ClosedTrue'
    BY <2>1 DEF Returns, WriterSound, ClosedTrue, jsWritable
  <2> QED
    BY <2>2, <2>3, <2>4 DEF WriterSound
<1> QED
  BY <1>2, <1>3, <1>4

LEMMA PollFlushKeeps ==
    ASSUME HostTypes, JsTypes, Pipeline, WriterSound, PollFlush
    PROVE  WriterSound'
<1>1. /\ UNCHANGED <<status, promise>>
      /\ operation.kind # "close" /\ operation.kind # "feed"
      /\ Sends => /\ operation.kind = "write" /\ handed \in Chunks
                  /\ writer.phase = "writing" /\ writer.pending = {handed}
  BY DEF PollFlush, jsWritable, WriterSound, Untouched, Sends, WriterAt
<1>2. CASE writer.phase \in {"writing", "closing"}
  <2>1. PICK r \in Asked : writer.pending = {r} /\ (writer.phase = "closing" => r = CloseRequest)
    BY <1>2, RequestTypes DEF WriterSound, PendingWhileWaiting
  <2>2. PICK result \in PollResults :
              /\ writer' = WriterAt(IF result = "ok" THEN PhaseAfter(writer.phase) ELSE "failed", {})
              /\ Returns(result)
              /\ TroubleIfDue(result)
    BY <1>2 DEF PollFlush
  <2>3. result = promise[r] \/ result = "due"
    BY <2>1, PollResultsTell
  <2>4. Untouched' /\ AnswersTrue'
    <3>1. Sends => r = handed
      BY <1>1, <2>1
    <3> QED
      BY <1>1, <2>2, <2>3, <3>1, ReturnsKeeps
  <2>5. closeOk' = closeOk /\ before' = before /\ handed' = handed
    BY <1>1, <2>2 DEF Returns, HostTypes
  <2>6. CASE result # "ok"
    <3>1. writer' = WriterAt("failed", {})
      BY <2>2, <2>6
    <3>2. PendingWhileWaiting' /\ Owes'
      BY <3>1, EndedKeeps
    <3>3. ClosedTrue'
      BY <1>1, <2>5, <3>1 DEF WriterSound, ClosedTrue, WriterAt
    <3> QED
      BY <2>4, <3>2, <3>3 DEF WriterSound
  <2>7. CASE result = "ok" /\ writer.phase = "writing"
    <3>1. writer'.phase = "open" /\ writer'.pending = {} /\ promise[r] = "ok"
      BY <2>2, <2>3, <2>7 DEF PhaseAfter, WriterAt
    <3>2. PendingWhileWaiting'
      BY <3>1 DEF PendingWhileWaiting
    <3>3. Owes'
      BY <1>1, <2>1, <2>5, <2>7, <3>1 DEF WriterSound, Owes
    <3>4. ClosedTrue'
      BY <1>1, <2>5, <3>1 DEF WriterSound, ClosedTrue
    <3> QED
      BY <2>4, <3>2, <3>3, <3>4 DEF WriterSound
  <2>8. CASE result = "ok" /\ writer.phase = "closing"
    <3>1. writer' = WriterAt("closed", {}) /\ promise[CloseRequest] = "ok"
      BY <2>1, <2>2, <2>3, <2>8 DEF PhaseAfter
    <3>2. status = "closed"
      BY <3>1 DEF Pipeline, PromisesKept
    <3>3. PendingWhileWaiting' /\ Owes'
      BY <3>1, EndedKeeps
    <3>4. ClosedTrue'
      BY <1>1, <3>2 DEF ClosedTrue
    <3> QED
      BY <2>4, <3>3, <3>4 DEF WriterSound
  <2> QED
    BY <1>2, <2>6, <2>7, <2>8
<1>3. CASE writer.phase \notin {"writing", "closing"}
  <2>1. ~Sends
    BY <1>1, <1>3
  <2>2. PICK result \in {"err", "ok"} : Returns(result) /\ writer' = writer
    BY <1>3 DEF PollFlush
  <2>3. Untouched' /\ AnswersTrue'
    BY <1>1, <2>1, <2>2, ReturnsKeeps
  <2>4. before' = before /\ closeOk' = closeOk
    BY <1>1, <2>2 DEF Returns, HostTypes
  <2>5. PendingWhileWaiting' /\ Owes'
    BY <1>1, <2>2, <2>4, SameWriterKeeps
  <2>6. ClosedTrue'
    BY <1>1, <2>2, <2>4 DEF WriterSound, ClosedTrue
  <2> QED
    BY <2>3, <2>5, <2>6 DEF WriterSound
<1> QED
  BY <1>2, <1>3

LEMMA CallCloseKeeps ==
    ASSUME HostTypes, JsTypes, WriterSound, CallClose, operation.kind = "close"
    PROVE  WriterSound'
<1>1. ~Sends
  BY DEF Sends
<1>2. CASE Fails("failed", "due") \/ Fails("failed", "err")
  BY <1>1, <1>2, FailsKeeps
<1>3. CASE /\ JsRequest(CloseRequest)
           /\ writer' = WriterAt("closing", {CloseRequest})
           /\ UNCHANGED <<attached, operation, handed, before, answer, closeOk>>
  <2>1. /\ status' = status
        /\ \A r \in Requests : r # CloseRequest => promise'[r] = promise[r]
    BY <1>3 DEF JsRequest, JsTypes
  <2>2. (\A c \in Chunks : promise'[c] = promise[c]) /\ promise'[AbortRequest] = promise[AbortRequest]
    BY <2>1, RequestTypes
  <2>3. writer'.phase = "closing" /\ writer'.pending = {CloseRequest} /\ ~Sends' /\ operation'.kind = "close"
    BY <1>1, <1>3 DEF WriterAt, Sends
  <2>4. PendingWhileWaiting' /\ Owes'
    BY <2>3 DEF PendingWhileWaiting, Owes
  <2>5. Untouched'
    BY <1>3, <2>2, <2>3 DEF WriterSound, Untouched, Unsent
  <2>6. AnswersTrue'
    BY <1>3, <2>2 DEF WriterSound, AnswersTrue
  <2>7. ClosedTrue'
    BY <1>3, <2>1, <2>2, <2>3 DEF WriterSound, ClosedTrue
  <2> QED
    BY <2>4, <2>5, <2>6, <2>7 DEF WriterSound
<1> QED
  BY <1>2, <1>3 DEF CallClose

LEMMA PollCloseKeeps ==
    ASSUME HostTypes, JsTypes, Pipeline, WriterSound, PollClose
    PROVE  WriterSound'
<1>1. operation.kind = "close" /\ ~Sends
  BY DEF PollClose, Sends
<1>2. CASE writer.phase \in {"closed", "failed", "released"}
  <2>1. /\ Returns(IF writer.phase = "closed" THEN "ok" ELSE "err")
        /\ UNCHANGED <<writer, status, promise>>
    BY <1>2, PollCloseCases DEF jsWritable
  <2>2. Untouched' /\ AnswersTrue'
    BY <1>1, <2>1, ReturnsKeeps
  <2>3. before' = before /\ (closeOk' => closeOk \/ writer.phase = "closed")
    BY <2>1 DEF Returns
  <2>4. PendingWhileWaiting' /\ Owes'
    BY <2>1, <2>3, SameWriterKeeps
  <2>5. ClosedTrue'
    BY <2>1, <2>3 DEF WriterSound, ClosedTrue
  <2> QED
    BY <2>2, <2>4, <2>5 DEF WriterSound
<1>3. CASE writer.phase = "closing"
  <2>1. PICK result \in PollResults :
              /\ writer' = WriterAt(IF result = "ok" THEN "closed" ELSE "failed", {})
              /\ Returns(result)
              /\ UNCHANGED <<status, promise>>
    BY <1>3, PollCloseCases DEF jsWritable
  <2>2. result = promise[CloseRequest] \/ result = "due"
    BY <1>3, PollResultsTell DEF WriterSound, PendingWhileWaiting
  <2>3. Untouched' /\ AnswersTrue'
    BY <1>1, <2>1, ReturnsKeeps
  <2>4. PendingWhileWaiting' /\ Owes'
    <3>1. PICK phase \in {"closed", "failed", "released"} : writer' = WriterAt(phase, {})
      BY <2>1
    <3> QED
      BY <3>1, EndedKeeps
  <2>5. ClosedTrue'
    <3>1. CASE result = "ok"
      BY <2>1, <2>2, <3>1 DEF ClosedTrue, Pipeline, PromisesKept
    <3>2. CASE result # "ok"
      BY <2>1, <3>2 DEF ClosedTrue, WriterSound, Returns, WriterAt
    <3> QED
      BY <3>1, <3>2
  <2> QED
    BY <2>3, <2>4, <2>5 DEF WriterSound
<1>4. CASE writer.phase \in {"writing", "open"}
  <2>1. CASE CallClose
    BY <1>1, <2>1, CallCloseKeeps
  <2>2. CASE \E result \in PollResults : result # "ok" /\ Fails("failed", result)
    BY <1>1, <2>2, FailsKeeps
  <2> QED
    BY <1>4, <2>1, <2>2, PollCloseCases
<1> QED
  BY <1>2, <1>3, <1>4, WriterAtTypes DEF HostTypes

LEMMA PollAbortKeeps ==
    ASSUME ChannelTypeOK, HostTypes, JsTypes, Pipeline, WriterSound, PollAbort
    PROVE  WriterSound'
<1>1. operation.kind = "abort" /\ ~Sends
  BY DEF PollAbort, Sends
<1>2. CASE Returns("due") /\ UNCHANGED <<writer, jsWritable>>
  <2>1. UNCHANGED <<status, promise>> /\ before' = before /\ closeOk' = closeOk
    BY <1>1, <1>2 DEF jsWritable, Returns, HostTypes
  <2>2. Untouched' /\ AnswersTrue'
    BY <1>1, <1>2, <2>1, ReturnsKeeps
  <2>3. PendingWhileWaiting' /\ Owes'
    BY <1>2, <2>1, SameWriterKeeps
  <2>4. ClosedTrue'
    BY <1>2, <2>1 DEF WriterSound, ClosedTrue
  <2> QED
    BY <2>2, <2>3, <2>4 DEF WriterSound
<1>3. CASE Fails("failed", "err")
  BY <1>1, <1>3, FailsKeeps
<1>4. CASE AbortDoes /\ writer' = WriterAt("closed", {}) /\ Returns("ok")
  <2>1. Settles /\ promise'[AbortRequest] # "none"
    BY <1>4, AbortSettles
  <2>2. Untouched' /\ AnswersTrue'
    BY <1>1, <1>4, <2>1, ReturnsKeeps DEF Settles
  <2>3. PendingWhileWaiting' /\ Owes'
    BY <1>4, EndedKeeps
  <2>4. ClosedTrue'
    BY <2>1 DEF ClosedTrue
  <2> QED
    BY <2>2, <2>3, <2>4 DEF WriterSound
<1>5. CASE /\ AbortDoes /\ writer' = WriterAt("failed", {})
           /\ operation' = [operation EXCEPT !.stage = "await"]
           /\ UNCHANGED <<attached, handed, before, answer, closeOk>>
  <2>1. Settles /\ promise'[AbortRequest] # "none"
    BY <1>5, AbortSettles
  <2>2. operation'.kind = "abort" /\ ~Sends'
    BY <1>1, <1>5 DEF HostTypes, Operations, Idle, Sends
  <2>3. Untouched'
    BY <1>5, <2>1, <2>2 DEF WriterSound, Untouched, Settles, Unsent
  <2>4. AnswersTrue'
    BY <1>5, <2>1 DEF WriterSound, AnswersTrue, Settles
  <2>5. PendingWhileWaiting' /\ Owes'
    BY <1>5, EndedKeeps
  <2>6. ClosedTrue'
    BY <2>1 DEF ClosedTrue
  <2> QED
    BY <2>3, <2>4, <2>5, <2>6 DEF WriterSound
<1> QED
  BY <1>2, <1>3, <1>4, <1>5, PollAbortCases

LEMMA PollAbortedKeeps ==
    ASSUME HostTypes, JsTypes, WriterSound, PollAborted
    PROVE  WriterSound'
<1>1. operation.kind = "abort" /\ ~Sends
  BY DEF PollAborted, Sends
<1>2. CASE Fails("failed", "due")
  BY <1>1, <1>2, FailsKeeps
<1>3. CASE promise[AbortRequest] = "ok" /\ writer' = WriterAt("closed", {}) /\ Returns("ok") /\ UNCHANGED jsWritable
  <2>1. Untouched' /\ AnswersTrue'
    BY <1>1, <1>3, ReturnsKeeps DEF jsWritable
  <2>2. PendingWhileWaiting' /\ Owes'
    BY <1>3, EndedKeeps
  <2>3. ClosedTrue'
    BY <1>3 DEF ClosedTrue, jsWritable
  <2> QED
    BY <2>1, <2>2, <2>3 DEF WriterSound
<1> QED
  BY <1>2, <1>3 DEF PollAborted

LEMMA HostOnlyKeeps ==
    ASSUME HostTypes, JsTypes, WriterSound,
           (\E kind \in Kinds : Begin(kind)) \/ DropOperation \/ ReleaseWriter \/ GetWriter
    PROVE  WriterSound'
<1>1. UNCHANGED <<status, promise, closeOk>>
  BY DEF Begin, DropOperation, ReleaseWriter, GetWriter, jsWritable
<1>2. ASSUME NEW kind \in Kinds, Begin(kind)
      PROVE  WriterSound'
  <2>1. /\ UNCHANGED <<writer, before, answer>> /\ operation'.kind = kind /\ operation'.stage = "ready"
        /\ Sends' => handed < MaxChunks /\ handed' = handed + 1
        /\ handed' \in {handed, handed + 1} /\ handed \in Nat
    BY <1>2 DEF Begin, Sends, HostTypes
  <2>2. PendingWhileWaiting' /\ Owes'
    BY <1>1, <2>1, SameWriterKeeps
  <2>3. Untouched'
    BY <1>1, <2>1 DEF Untouched, WriterSound, Unsent, Chunks
  <2>4. AnswersTrue' /\ ClosedTrue'
    BY <1>1, <2>1 DEF WriterSound, AnswersTrue, ClosedTrue
  <2> QED
    BY <2>2, <2>3, <2>4 DEF WriterSound
<1>3. CASE DropOperation
  <2>1. UNCHANGED <<writer, before, handed>> /\ operation' = Idle /\ ~Sends' /\ operation'.kind # "write"
    BY <1>3 DEF DropOperation, AfterDrop, Idle, Sends
  <2>2. \A c \in Chunks : answer'[c] = answer[c] \/ (Sends /\ c = handed /\ answer'[c] = "dropped")
    BY <1>3 DEF DropOperation, HostTypes, Sends
  <2>3. PendingWhileWaiting' /\ Owes'
    BY <1>1, <2>1, SameWriterKeeps
  <2>4. Untouched'
    BY <1>1, <2>1, <2>2 DEF Untouched, WriterSound, Unsent, Chunks, HostTypes
  <2>5. AnswersTrue' /\ ClosedTrue'
    BY <1>1, <2>1, <2>2 DEF WriterSound, AnswersTrue, ClosedTrue
  <2> QED
    BY <2>3, <2>4, <2>5 DEF WriterSound
<1>4. CASE ReleaseWriter
  <2>1. UNCHANGED <<operation, before, answer, handed>> /\ writer' = WriterAt("released", {}) /\ operation = Idle
    BY <1>4 DEF ReleaseWriter, Busy
  <2>2. PendingWhileWaiting' /\ Owes'
    BY <2>1, EndedKeeps
  <2>3. Untouched' /\ AnswersTrue'
    BY <1>1, <2>1 DEF WriterSound, Untouched, AnswersTrue, Sends, Unsent, Idle
  <2>4. ClosedTrue'
    BY <1>1, <2>1 DEF WriterSound, ClosedTrue, WriterAt
  <2> QED
    BY <2>2, <2>3, <2>4 DEF WriterSound
<1>5. CASE GetWriter
  <2>1. UNCHANGED <<operation, answer, handed>> /\ writer' = WriterAt("open", {}) /\ operation = Idle /\ before' = handed
    BY <1>5 DEF GetWriter, Busy
  <2>2. writer'.phase = "open" /\ writer'.pending = {}
    BY <2>1 DEF WriterAt
  <2>3. PendingWhileWaiting'
    BY <2>2 DEF PendingWhileWaiting
  <2>4. Owes'
    BY <1>1, <2>1, <2>2 DEF Owes, WriterSound, Untouched
  <2>5. Untouched' /\ AnswersTrue'
    BY <1>1, <2>1 DEF WriterSound, Untouched, AnswersTrue, Sends, Unsent, Idle
  <2>6. ClosedTrue'
    BY <1>1, <2>1, <2>2 DEF WriterSound, ClosedTrue
  <2> QED
    BY <2>3, <2>4, <2>5, <2>6 DEF WriterSound
<1> QED
  BY <1>2, <1>3, <1>4, <1>5

LEMMA WriterStepKeeps ==
    ASSUME ChannelTypeOK, HostTypes, JsTypes, Pipeline, WriterSound, WriterStep
    PROVE  Pipeline' /\ WriterSound'
<1>1. WriterSound'
  BY HostOnlyKeeps, PollReadyKeeps, PollFlushKeeps, PollCloseKeeps, PollAbortKeeps, PollAbortedKeeps
     DEF WriterStep, PollOperation
<1>2. \/ UNCHANGED <<jsWritable, channelVars>>
      \/ \E r \in Asked : Asks(r)
      \/ AbortDoes
  BY WriterShapes
<1>3. Pipeline'
  BY <1>2, RestsKeeps, AsksKeeps, AbortsKeeps
<1> QED
  BY <1>1, <1>3

-----------------------------------------------------------------------------
(* The reader: ReaderSound is kept. *)

\* A step of the writer's side: nothing leaves the channel, nothing enters it when nobody
\* listens, and a stream that is closed takes no more.
Elsewhere ==
    /\ UNCHANGED <<readerVars, taken, receiver>>
    /\ sender = "gone" => sender' = "gone"
    /\ passed' = passed \/ (receiver = "open" /\ \E b \in Chunks : passed' = Append(passed, b))
    /\ status = "closed" =>
         status' = "closed" /\ \A c \in Chunks : promise'[c] = "ok" => promise[c] = "ok"
    /\ promise[AbortRequest] # "none" => promise'[AbortRequest] # "none"

LEMMA ElsewhereKeeps ==
    ASSUME ChannelTypeOK, ReaderSound, Elsewhere
    PROVE  ReaderSound'
<1>1. UNCHANGED <<reader, holding, reading, got, told, cancelled, lost, readable, stored, request, pulling,
                  taken, receiver>>
  BY DEF Elsewhere, readerVars, hostReader, jsReadable
<1>2. ReadAtWork'
  BY <1>1 DEF ReaderSound, ReadAtWork, ReaderAt, Unasked, Waiting
<1>3. EndsTrue'
  <2>1. receiver = "gone" => passed' = passed
    BY DEF Elsewhere
  <2>2. ASSUME readable \in {"closing", "closed"}, ~cancelled
        PROVE  /\ sender' = "gone" /\ taken = Len(passed')
               /\ promise'[AbortRequest] = "none" =>
                    status' = "closed" /\ \A c \in Chunks : promise'[c] = "ok" => c \in Elems(passed')
    <3>1. receiver = "gone" /\ sender = "gone" /\ taken = Len(passed)
      BY <2>2 DEF ReaderSound, EndsTrue
    <3>2. passed' = passed /\ sender' = "gone"
      BY <2>1, <3>1 DEF Elsewhere
    <3>3. ASSUME promise'[AbortRequest] = "none"
          PROVE  status' = "closed" /\ \A c \in Chunks : promise'[c] = "ok" => c \in Elems(passed')
      BY <2>2, <3>2, <3>3 DEF Elsewhere, ReaderSound, EndsTrue
    <3> QED
      BY <3>1, <3>2, <3>3
  <2> QED
    BY <1>1, <2>2 DEF ReaderSound, EndsTrue, Unasked
<1>4. Accounted'
  <2>1. \A i \in 1..taken : passed'[i] = passed[i]
    <3>1. CASE passed' = passed
      BY <3>1
    <3>2. ASSUME NEW b \in Chunks, passed' = Append(passed, b)
          PROVE  \A i \in 1..taken : passed'[i] = passed[i]
      BY <3>2, AppendElems, LenProperties DEF ChannelTypeOK
    <3> QED
      BY <3>1, <3>2 DEF Elsewhere
  <2>2. Left' = Left
    BY <1>1, <2>1 DEF Left
  <2> QED
    BY <1>1, <2>2 DEF ReaderSound, Accounted
<1> QED
  BY <1>2, <1>3, <1>4 DEF ReaderSound

\* What has left the channel comes before what is next.
LEMMA LeftFacts ==
    ASSUME ChannelTypeOK, Increasing(passed)
    PROVE  /\ Left \subseteq Chunks
           /\ taken < Len(passed) => \A x \in Left : x < passed[taken + 1]
           /\ taken = Len(passed) => Left = Elems(passed)
<1>1. /\ Len(passed) \in Nat /\ DOMAIN passed = 1..Len(passed) /\ taken \in 0..Len(passed)
      /\ \A i \in 1..Len(passed) : passed[i] \in Chunks
  BY LenProperties, ElementOfSeq DEF ChannelTypeOK
<1>2. \A i \in 1..taken : i \in DOMAIN passed
  BY <1>1
<1>3. Left \subseteq Chunks
  BY <1>1, <1>2 DEF Left
<1>4. ASSUME taken < Len(passed), NEW i \in 1..taken
      PROVE  passed[i] < passed[taken + 1]
  BY <1>1, <1>4 DEF Increasing
<1>5. taken = Len(passed) => Left = Elems(passed)
  BY <1>1 DEF Left, Elems
<1> QED
  BY <1>3, <1>4, <1>5 DEF Left

\* Places of chunks, from ReaderSound.
LEMMA ChunkPlaces ==
    ASSUME ChannelTypeOK, ReadTypes, ReaderSound, Increasing(passed)
    PROVE  /\ Elems(got) \subseteq Chunks /\ lost \subseteq Chunks /\ stored \subseteq Chunks /\ request.chunk \subseteq Chunks
           /\ Left = Elems(got) \cup lost \cup stored \cup request.chunk
           /\ stored \cap request.chunk = {} /\ Elems(got) \cap (stored \cup request.chunk) = {}
           /\ request = Waiting => request.chunk = {} /\ stored = {} /\ request # Unasked
           /\ Unasked.chunk = {} /\ Unasked.state = "none" /\ Unasked # Waiting
<1>1. Elems(got) \subseteq Chunks /\ lost \subseteq Chunks /\ stored \subseteq Chunks /\ request.chunk \subseteq Chunks
  BY ElemsTypes, AnswerTypes DEF ReadTypes
<1>2. /\ \A x \in Elems(got), y \in stored \cup request.chunk : x < y
      /\ \A x \in request.chunk, y \in stored : x < y
      /\ Left = Elems(got) \cup lost \cup stored \cup request.chunk
  BY DEF ReaderSound, Accounted
<1>3. \A x \in Chunks : ~(x < x)
  BY DEF Chunks
<1>4. stored \cap request.chunk = {} /\ Elems(got) \cap (stored \cup request.chunk) = {}
  BY <1>1, <1>2, <1>3
<1> QED
  BY <1>1, <1>2, <1>4, AnswerTypes DEF ReaderSound, ReadAtWork

LEMMA AnsweredFacts ==
    ASSUME NEW a, request' = Answered(a)
    PROVE  /\ request = Waiting => request' = a
           /\ request # Waiting => request' = request
BY DEF Answered

LEMMA PullYieldsKeeps ==
    ASSUME ChannelTypeOK, ReadTypes, ReaderSound, Increasing(passed), PullYields, UNCHANGED <<hostReader, writerVars>>
    PROVE  ReaderSound'
<1> DEFINE x == passed[taken + 1]
<1>1. /\ UNCHANGED <<reader, holding, got, told, cancelled, lost, readable, passed, receiver>>
      /\ taken' = taken + 1 /\ taken < Len(passed) /\ taken \in Nat
      /\ pulling' = FALSE /\ readable = "readable" /\ stored = {} /\ receiver = "open"
  BY NextTypes DEF PullYields, hostReader, ReaderSound, ReadAtWork, EndsTrue, ReadTypes
<1>2. x \in Chunks /\ \A y \in Left : y < x
  BY <1>1, NextTypes, LeftFacts
<1>3. Left' = Left \cup {x}
  <2>1. 1..(taken + 1) = (1..taken) \cup {taken + 1}
    BY <1>1
  <2> QED
    BY <1>1, <2>1 DEF Left
<1>4. request' = Answered(Answer("chunk", {x})) /\ stored' = IF request = Waiting THEN stored ELSE stored \cup {x}
  BY DEF PullYields
<1> HIDE DEF x
<1>5. x \notin Left
  BY <1>2 DEF Chunks
<1>6. CASE request = Waiting
  <2>1. request'.state = "chunk" /\ request'.chunk = {x} /\ stored' = {} /\ request' # Waiting
    <3>1. request' = Answer("chunk", {x}) /\ stored' = {}
      BY <1>1, <1>4, <1>6 DEF Answered
    <3>2. {x} \in SUBSET Chunks
      BY <1>2
    <3> QED
      BY <3>1, <3>2, AnswerTypes
  <2>2. reader # ReaderAt("open", FALSE) /\ holding /\ told # "end" /\ request.chunk = {}
    BY <1>6, ChunkPlaces DEF ReaderSound, ReadAtWork, EndsTrue
  <2>3. ReadAtWork'
    BY <1>1, <1>2, <2>1, <2>2 DEF ReaderSound, ReadAtWork, ReaderAt
  <2>4. EndsTrue'
    BY <1>1, <2>1, <2>2 DEF ReaderSound, EndsTrue
  <2>5. Accounted'
    BY <1>1, <1>2, <1>3, <1>5, <2>1, <2>2, ChunkPlaces DEF ReaderSound, Accounted
  <2> QED
    BY <2>3, <2>4, <2>5 DEF ReaderSound
<1>7. CASE request # Waiting
  <2>1. request' = request /\ stored' = {x}
    BY <1>1, <1>4, <1>7, AnsweredFacts
  <2>3. ReadAtWork'
    BY <1>1, <1>2, <1>7, <2>1 DEF ReaderSound, ReadAtWork, ReaderAt, Unasked, Waiting
  <2>4. EndsTrue'
    BY <1>1, <2>1 DEF ReaderSound, EndsTrue, Unasked
  <2>5. Accounted'
    BY <1>1, <1>2, <1>3, <1>5, <2>1, ChunkPlaces DEF ReaderSound, Accounted
  <2> QED
    BY <2>3, <2>4, <2>5 DEF ReaderSound
<1> QED
  BY <1>6, <1>7

\* The pull ends, or the stream is cancelled or fails: what is stored goes, a pending read
\* is answered without a chunk.
LEMMA AnsweredKeeps ==
    ASSUME ChannelTypeOK, ReadTypes, ReaderSound, Increasing(passed), NEW state \in {"end", "err"},
           request' = Answered(Answer(state, {})),
           UNCHANGED <<reader, holding, got, told, passed, taken>>,
           \/ stored' = stored /\ lost' = lost
           \/ stored' = {} /\ lost' = lost \cup stored,
           pulling' => stored' = {}
    PROVE  ReadAtWork' /\ Accounted'
<1>1. /\ request = Waiting => request'.state = state /\ request'.chunk = {} /\ request' # Waiting
      /\ request # Waiting => request' = request
  BY AnsweredFacts, AnswerTypes
<1>2. request'.chunk = request.chunk /\ request' # Waiting
  BY <1>1, ChunkPlaces
<1>3. ReadAtWork'
  <2>1. /\ reader = ReaderAt("open", FALSE) => request' = Unasked
        /\ ~holding => reader.phase = "released" /\ request' = Unasked
    BY <1>1, ChunkPlaces DEF ReaderSound, ReadAtWork
  <2>2. stored' # {} => \E y \in Chunks : stored' = {y}
    BY DEF ReaderSound, ReadAtWork
  <2>3. IF request'.state = "chunk" THEN \E y \in Chunks : request'.chunk = {y} ELSE request'.chunk = {}
    BY <1>1 DEF ReaderSound, ReadAtWork
  <2> QED
    BY <1>2, <2>1, <2>2, <2>3 DEF ReaderSound, ReadAtWork, ReaderAt, Unasked, Waiting
<1>4. Accounted'
  <2>1. Left' = Left
    BY DEF Left
  <2> QED
    BY <1>2, <2>1, ChunkPlaces DEF ReaderSound, Accounted
<1> QED
  BY <1>3, <1>4

\* What EndsTrue says of a stream that is closed or about to be.
EndedWhole ==
    /\ sender = "gone" /\ taken = Len(passed)
    /\ promise[AbortRequest] = "none" =>
         status = "closed" /\ \A c \in Chunks : promise[c] = "ok" => c \in Elems(passed)

LEMMA SourceKeeps ==
    ASSUME ChannelTypeOK, ReadTypes, Pipeline, ReaderSound, SourceStep, UNCHANGED writerVars
    PROVE  ReaderSound'
<1>1. /\ UNCHANGED <<reader, holding, reading, got, told, cancelled, status, promise>>
      /\ Increasing(passed) /\ UNCHANGED hostReader
  BY DEF SourceStep, hostReader, writerVars, jsWritable, Pipeline, InOrder
<1>2. CASE JsPulls
  <2>1. UNCHANGED <<lost, readable, stored, request, passed, taken, sender, receiver>>
    BY <1>2 DEF JsPulls, channelVars
  <2>2. stored = {}
    BY <1>2, ChunkPlaces, <1>1 DEF JsPulls, JsWantsPull
  <2>3. ReadAtWork'
    BY <1>1, <2>1, <2>2 DEF ReaderSound, ReadAtWork, ReaderAt, Unasked, Waiting
  <2>4. EndsTrue'
    BY <1>1, <2>1 DEF ReaderSound, EndsTrue, Unasked
  <2>5. Accounted'
    BY <1>1, <2>1 DEF ReaderSound, Accounted, Left
  <2> QED
    BY <2>3, <2>4, <2>5 DEF ReaderSound
<1>3. CASE PullYields
  BY <1>1, <1>3, PullYieldsKeeps
<1>4. CASE PullEnds
  <2>1. /\ pulling' = FALSE /\ receiver' = "gone" /\ request' = Answered(Answer("end", {}))
        /\ UNCHANGED <<lost, stored, passed, taken, sender>> /\ stored = {}
        /\ readable' = IF readable # "readable" THEN readable ELSE "closed"
        /\ receiver = "gone" \/ (taken = Len(passed) /\ sender = "gone")
    BY <1>4 DEF PullEnds, ReaderSound, ReadAtWork
  <2>2. ReadAtWork' /\ Accounted'
    BY <1>1, <2>1, AnsweredKeeps
  <2>3. request = Waiting => readable = "readable" /\ request' # Unasked
    BY <2>1, AnswerTypes DEF ReaderSound, ReadAtWork, Answered
  <2>4. request # Waiting => request' = request
    BY <2>1, AnsweredFacts
  <2>5. ASSUME readable' \in {"closing", "closed"}, ~cancelled
        PROVE  EndedWhole
    <3>1. CASE readable # "readable"
      BY <2>1, <2>5, <3>1 DEF EndedWhole, ReaderSound, EndsTrue
    <3>2. CASE readable = "readable"
      <4>1. receiver # "gone" /\ taken = Len(passed) /\ sender = "gone"
        BY <2>1, <3>2 DEF ReaderSound, EndsTrue
      <4> QED
        BY <4>1 DEF EndedWhole, Pipeline, PromisesKept
    <3> QED
      BY <3>1, <3>2
  <2>6. request'.state = "end" => readable' = "closed"
    BY <2>1, <2>3, <2>4 DEF ReaderSound, EndsTrue
  <2>7. told = "end" => reader.phase # "open" /\ request' = Unasked /\ readable' = "closed"
    BY <2>1, <2>4, ChunkPlaces, <1>1 DEF ReaderSound, EndsTrue
  <2>8. readable' # "readable"
    BY <2>1
  <2>9. EndsTrue'
    BY <1>1, <2>1, <2>5, <2>6, <2>7, <2>8 DEF EndsTrue, EndedWhole, Unasked
  <2> QED
    BY <2>2, <2>9 DEF ReaderSound
<1>5. CASE PullFails
  <2>1. /\ pulling' = FALSE /\ receiver' = "gone" /\ request' = Answered(Answer("err", {}))
        /\ UNCHANGED <<passed, taken, sender>> /\ stored' = {} /\ lost' = lost \cup stored
        /\ readable' = "errored" /\ readable = "readable"
    BY <1>5 DEF PullFails, ReaderSound, EndsTrue, ReadTypes
  <2>2. ReadAtWork' /\ Accounted'
    BY <1>1, <2>1, AnsweredKeeps
  <2>3. told # "end" /\ request'.state # "end"
    <3>1. request = Waiting => request' = Answer("err", {})
      BY <2>1 DEF Answered
    <3> QED
      BY <2>1, <3>1, AnswerTypes, AnsweredFacts DEF ReaderSound, EndsTrue
  <2>4. EndsTrue'
    BY <1>1, <2>1, <2>3 DEF EndsTrue
  <2> QED
    BY <2>2, <2>4 DEF ReaderSound
<1> QED
  BY <1>2, <1>3, <1>4, <1>5 DEF SourceStep

\* What JavaScript's read answers.
LEMMA JsReadCases ==
    ASSUME ReadTypes, ReaderSound
    PROVE  /\ JsRead = Waiting => readable = "readable" /\ stored = {}
           /\ JsRead.state = "chunk" => JsRead.chunk = stored /\ stored # {}
           /\ JsRead.state # "chunk" => stored = {} /\ JsRead.chunk = {}
           /\ JsRead.state = "end" => readable \in {"closing", "closed"}
<1>1. CASE readable = "errored"
  BY <1>1, AnswerTypes DEF JsRead, ReaderSound, EndsTrue
<1>2. CASE readable # "errored" /\ stored # {}
  <2>1. JsRead = Answer("chunk", stored)
    BY <1>2 DEF JsRead
  <2>2. JsRead.state = "chunk" /\ JsRead.chunk = stored
    BY <2>1, AnswerTypes DEF ReadTypes
  <2> QED
    BY <1>2, <2>2, AnswerTypes
<1>3. CASE readable = "readable" /\ stored = {}
  BY <1>3, AnswerTypes DEF JsRead
<1>4. CASE readable \in {"closing", "closed"} /\ stored = {}
  <2>1. JsRead = Answer("end", {})
    BY <1>4 DEF JsRead
  <2> QED
    BY <1>4, <2>1, AnswerTypes
<1> QED
  BY <1>1, <1>2, <1>3, <1>4 DEF ReadTypes

\* What becomes of an answer: its chunk is returned or lost, its end is told.
LEMMA TakeAnswerCases ==
    ASSUME ReadTypes, NEW a \in Answers, TakeAnswer(a),
           a.state = "chunk" => \E x \in Chunks : a.chunk = {x}, a.state # "chunk" => a.chunk = {}
    PROVE  /\ request' = Unasked
           /\ \/ /\ a.state = "chunk" /\ reader' = ReaderAt(reader.phase, FALSE) /\ told' = "chunk" /\ lost' = lost
                 /\ \E x \in Chunks : a.chunk = {x} /\ got' = Append(got, x)
              \/ /\ reader' = ReaderAt("done", FALSE) /\ got' = got /\ lost' = lost \cup a.chunk
                 /\ told' \in {"end", "failure"} /\ (told' = "end" => a.state = "end")
<1>1. PICK result \in {a.state} \cup {"due"} :
         /\ reader' = ReaderAt(IF EndsReader(result) THEN "done" ELSE reader.phase, FALSE)
         /\ got' = IF result = "chunk" THEN Append(got, Only(a.chunk)) ELSE got
         /\ lost' = IF result = "due" THEN lost \cup a.chunk ELSE lost
         /\ ReadReturns(result)
  BY DEF TakeAnswer
<1>2. CASE result = "chunk"
  <2>1. a.state = "chunk"
    BY <1>1, <1>2
  <2>2. PICK x \in Chunks : a.chunk = {x}
    BY <2>1
  <2>3. got' = Append(got, x)
    BY <1>1, <1>2, <2>2, OnlyElement
  <2>4. reader' = ReaderAt(reader.phase, FALSE) /\ told' = "chunk" /\ lost' = lost
    BY <1>1, <1>2 DEF EndsReader, ReadReturns
  <2> QED
    BY <2>1, <2>2, <2>3, <2>4 DEF TakeAnswer
<1>3. CASE result # "chunk"
  <2>1. reader' = ReaderAt("done", FALSE) /\ got' = got
    BY <1>1, <1>3 DEF EndsReader
  <2>2. told' \in {"end", "failure"} /\ (told' = "end" => result = "end")
    BY <1>1, <1>3 DEF ReadReturns
  <2>3. lost' = lost \cup a.chunk
    BY <1>1, <1>3
  <2>4. told' = "end" => a.state = "end"
    BY <1>1, <2>2
  <2> QED
    BY <2>1, <2>2, <2>3, <2>4 DEF TakeAnswer
<1> QED
  BY <1>2, <1>3

\* An answer is taken out of what is stored or promised, and the rest stays.
LEMMA TakenKeeps ==
    ASSUME ChannelTypeOK, ReadTypes, ReaderSound, Increasing(passed), NEW a \in Answers, TakeAnswer(a),
           a.state = "chunk" => \E x \in Chunks : a.chunk = {x}, a.state # "chunk" => a.chunk = {},
           \/ a = request /\ stored' = stored
           \/ request = Unasked /\ a.chunk = stored /\ stored' = {},
           a.state = "end" => readable' = "closed",
           reader.phase = "open", UNCHANGED <<holding, cancelled, pulling, passed, taken, receiver>>
    PROVE  /\ ReadAtWork' /\ Accounted'
           /\ request' = Unasked /\ (told' = "end" => reader'.phase # "open" /\ readable' = "closed")
<1>0. Left' = Left
  BY DEF Left
<1>1. request' = Unasked /\ Unasked.chunk = {} /\ Unasked.state = "none" /\ Unasked # Waiting
  BY TakeAnswerCases, AnswerTypes
<1>2. holding /\ holding'
  BY DEF ReaderSound, ReadAtWork, ReadTypes
<1>3. a.chunk \subseteq stored \cup request.chunk /\ stored \cup request.chunk = a.chunk \cup stored'
      /\ a.chunk \cap stored' = {} /\ \A x \in a.chunk, y \in stored' : x < y
  BY <1>1, ChunkPlaces DEF ReaderSound, Accounted
<1>4. ASSUME reader'.pending = FALSE
      PROVE  ReadAtWork'
  <2>1. stored' # {} => \E y \in Chunks : stored' = {y}
    BY DEF ReaderSound, ReadAtWork
  <2>2. pulling' => stored' = {}
    BY DEF ReaderSound, ReadAtWork
  <2> QED
    BY <1>1, <1>2, <1>4, <2>1, <2>2 DEF ReadAtWork, Unasked, Waiting
<1>5. CASE /\ a.state = "chunk" /\ reader' = ReaderAt(reader.phase, FALSE) /\ told' = "chunk" /\ lost' = lost
           /\ \E x \in Chunks : a.chunk = {x} /\ got' = Append(got, x)
  <2>1. PICK x \in Chunks : a.chunk = {x} /\ got' = Append(got, x)
    BY <1>5
  <2>2. got \in Seq(Chunks) /\ got \in Seq(Nat) /\ x \in Nat
    BY SeqOfNat, RequestTypes DEF ReadTypes
  <2>3. Elems(got') = Elems(got) \cup {x}
    BY <2>1, <2>2, AppendElems
  <2>4. \A y \in Elems(got) : y < x
    BY <1>3, <2>1 DEF ReaderSound, Accounted
  <2>5. Increasing(got')
    BY <2>1, <2>2, <2>4, AppendIncreasing DEF ReaderSound, Accounted
  <2>6. Accounted'
    <3>1. Left' = Elems(got') \cup lost' \cup stored' \cup request'.chunk
      BY <1>0, <1>1, <1>3, <1>5, <2>1, <2>3, ChunkPlaces
    <3>2. lost' \cap (stored' \cup request'.chunk \cup Elems(got')) = {}
      BY <1>1, <1>3, <1>5, <2>1, <2>3 DEF ReaderSound, Accounted
    <3>3. \A y \in Elems(got'), z \in stored' \cup request'.chunk : y < z
      BY <1>1, <1>3, <2>1, <2>3 DEF ReaderSound, Accounted
    <3> QED
      BY <1>1, <2>5, <3>1, <3>2, <3>3 DEF Accounted
  <2>7. reader'.pending = FALSE
    BY <1>5, ReaderAtTypes
  <2> QED
    BY <1>1, <1>4, <1>5, <2>6, <2>7
<1>6. CASE /\ reader' = ReaderAt("done", FALSE) /\ got' = got /\ lost' = lost \cup a.chunk
           /\ told' \in {"end", "failure"} /\ (told' = "end" => a.state = "end")
  <2>1. Accounted'
    <3>1. Left' = Elems(got') \cup lost' \cup stored' \cup request'.chunk
      BY <1>0, <1>1, <1>3, <1>6, ChunkPlaces
    <3>2. lost' \cap (stored' \cup request'.chunk \cup Elems(got')) = {}
      BY <1>1, <1>3, <1>6, ChunkPlaces DEF ReaderSound, Accounted
    <3>3. \A y \in Elems(got'), z \in stored' \cup request'.chunk : y < z
      BY <1>1, <1>3, <1>6 DEF ReaderSound, Accounted
    <3> QED
      BY <1>1, <1>6, <3>1, <3>2, <3>3 DEF ReaderSound, Accounted
  <2>2. reader'.pending = FALSE /\ reader'.phase = "done"
    BY <1>6, ReaderAtTypes
  <2> QED
    BY <1>1, <1>4, <1>6, <2>1, <2>2
<1> QED
  BY <1>5, <1>6, TakeAnswerCases

LEMMA ReaderStepKeeps ==
    ASSUME ChannelTypeOK, ReadTypes, Pipeline, ReaderSound, ReaderStep, UNCHANGED writerVars
    PROVE  ReaderSound'
<1>1. UNCHANGED <<status, promise>> /\ Increasing(passed)
  BY DEF writerVars, jsWritable, Pipeline, InOrder
<1>2. ASSUME UNCHANGED <<got, lost, stored, request, passed, taken>>
      PROVE  Accounted'
  BY <1>2 DEF ReaderSound, Accounted, Left
<1>3. CASE BeginRead \/ ReadOfEnded \/ DropRead
  <2>1. UNCHANGED <<reader, holding, got, lost, told, cancelled, readable, stored, request, pulling,
                    passed, taken, sender, receiver>>
    BY <1>3 DEF BeginRead, ReadOfEnded, DropRead, AfterReadDropped, jsReadable, channelVars
  <2>2. ReadAtWork' /\ EndsTrue'
    BY <1>1, <2>1 DEF ReaderSound, ReadAtWork, EndsTrue, ReaderAt, Unasked, Waiting
  <2> QED
    BY <1>2, <2>1, <2>2 DEF ReaderSound
<1>4. CASE ReadCannotAsk \/ ReadDue
  <2>1. /\ UNCHANGED <<holding, got, lost, cancelled, readable, stored, request, pulling,
                       passed, taken, sender, receiver>>
        /\ reader' = ReaderAt("done", FALSE) /\ told' = "failure" /\ reader.phase = "open"
    BY <1>4, ReaderAtTypes DEF ReadCannotAsk, ReadDue, ReadReturns, jsReadable, channelVars
  <2>2. reader'.pending = FALSE /\ reader'.phase = "done" /\ holding /\ reader' # ReaderAt("open", FALSE)
    BY <2>1, ReaderAtTypes DEF ReaderSound, ReadAtWork, ReadTypes
  <2>3. ReadAtWork'
    BY <2>1, <2>2 DEF ReaderSound, ReadAtWork, ReaderAt, Unasked, Waiting
  <2>4. EndsTrue'
    BY <1>1, <2>1 DEF ReaderSound, EndsTrue
  <2> QED
    BY <1>2, <2>1, <2>3, <2>4 DEF ReaderSound
<1>5. CASE ReadAsks
  <2>1. /\ UNCHANGED <<holding, cancelled, pulling, passed, taken, sender, receiver>> /\ stored' = {}
        /\ reader = ReaderAt("open", FALSE) /\ reader.phase = "open" /\ request = Unasked
        /\ readable' = IF readable = "closing" THEN "closed" ELSE readable
    BY <1>5, ReaderAtTypes DEF ReadAsks, channelVars, ReaderSound, ReadAtWork
  <2>2. told # "end"
    BY <2>1 DEF ReaderSound, EndsTrue
  <2>3. ASSUME request' \in {Unasked, Waiting}, told' = "end" => reader'.phase # "open" /\ request' = Unasked /\ readable' = "closed"
        PROVE  EndsTrue'
    <3>1. request'.state # "end"
      BY <2>3, AnswerTypes
    <3>2. receiver = "gone" <=> readable' # "readable"
      BY <2>1 DEF ReaderSound, EndsTrue
    <3>3. readable' \in {"closing", "closed"} => readable \in {"closing", "closed"}
      BY <2>1
    <3> QED
      BY <1>1, <2>1, <2>3, <3>1, <3>2, <3>3 DEF ReaderSound, EndsTrue, Unasked
  <2>4. CASE TakeAnswer(JsRead)
    <3>1. JsRead \in Answers /\ (JsRead.state = "chunk" => \E x \in Chunks : JsRead.chunk = {x})
          /\ (JsRead.state # "chunk" => JsRead.chunk = {})
      BY JsReadTypes DEF ReaderSound
    <3>2. JsRead.chunk = stored /\ (JsRead.state = "end" => readable' = "closed")
      BY <2>1, JsReadCases
    <3>3. /\ ReadAtWork' /\ Accounted'
          /\ request' = Unasked /\ (told' = "end" => reader'.phase # "open" /\ readable' = "closed")
      BY <1>1, <2>1, <2>4, <3>1, <3>2, TakenKeeps
    <3> QED
      BY <2>3, <3>3 DEF ReaderSound
  <2>5. CASE /\ JsRead = Waiting /\ request' = Waiting /\ reader' = ReaderAt("open", TRUE)
             /\ UNCHANGED <<reading, got, lost, told>>
    <3>1. readable = "readable" /\ stored = {} /\ readable' = "readable"
      BY <2>1, <2>5, JsReadCases
    <3>2. /\ reader'.pending = TRUE /\ reader'.phase = "open" /\ request'.chunk = {} /\ request'.state = "waiting"
          /\ request.chunk = {} /\ holding /\ holding' /\ reader' # ReaderAt("open", FALSE)
      <4>1. holding /\ request.chunk = {}
        BY <2>1, AnswerTypes DEF ReaderSound, ReadAtWork, ReadTypes
      <4> QED
        BY <2>1, <2>5, <4>1, ReaderAtTypes, AnswerTypes
    <3>3. ReadAtWork'
      BY <2>1, <3>1, <3>2 DEF ReadAtWork, ReaderAt
    <3>4. Accounted'
      BY <2>1, <2>5, <3>1, <3>2 DEF ReaderSound, Accounted, Left
    <3>5. EndsTrue'
      BY <2>2, <2>3, <2>5
    <3> QED
      BY <3>3, <3>4, <3>5 DEF ReaderSound
  <2> QED
    BY <1>5, <2>4, <2>5 DEF ReadAsks
<1>6. CASE ReadAnswered
  <2>1. /\ UNCHANGED <<holding, cancelled, readable, stored, pulling, passed, taken, sender, receiver>>
        /\ reader = ReaderAt("open", TRUE) /\ reader.phase = "open" /\ TakeAnswer(request)
    BY <1>6, ReaderAtTypes DEF ReadAnswered, channelVars
  <2>2. /\ request \in Answers /\ (request.state = "chunk" => \E x \in Chunks : request.chunk = {x})
        /\ (request.state # "chunk" => request.chunk = {}) /\ (request.state = "end" => readable' = "closed")
    BY <2>1 DEF ReaderSound, ReadAtWork, EndsTrue, ReadTypes
  <2>3. /\ ReadAtWork' /\ Accounted'
        /\ request' = Unasked /\ (told' = "end" => reader'.phase # "open" /\ readable' = "closed")
    BY <1>1, <2>1, <2>2, TakenKeeps
  <2>4. request'.state # "end"
    BY <2>3, AnswerTypes
  <2>5. EndsTrue'
    BY <1>1, <2>1, <2>3, <2>4 DEF ReaderSound, EndsTrue, Unasked
  <2> QED
    BY <2>3, <2>5 DEF ReaderSound
<1>7. CASE Cancel
  <2>1. /\ cancelled' = TRUE /\ readable' = "closed" /\ stored' = {} /\ lost' = lost \cup stored
        /\ request' = Answered(Answer("end", {})) /\ receiver' = "gone" /\ readable # "closed"
        /\ UNCHANGED <<reader, holding, got, told, passed, taken>>
    BY <1>7 DEF Cancel
  <2>2. ReadAtWork' /\ Accounted'
    BY <1>1, <2>1, AnsweredKeeps
  <2>3. EndsTrue'
    BY <2>1 DEF ReaderSound, EndsTrue
  <2> QED
    BY <2>2, <2>3 DEF ReaderSound
<1>8. CASE ReleaseReader
  <2>1. /\ holding' = FALSE /\ reader' = ReaderAt("released", FALSE) /\ request' = Unasked
        /\ lost' = lost \cup request.chunk
        /\ UNCHANGED <<got, told, cancelled, readable, stored, pulling, passed, taken, sender, receiver>>
    BY <1>8 DEF ReleaseReader, channelVars
  <2>2. /\ reader'.pending = FALSE /\ reader'.phase = "released" /\ request'.chunk = {} /\ request'.state = "none"
        /\ request' # Waiting /\ reader' # ReaderAt("open", FALSE)
    BY <2>1, ReaderAtTypes, AnswerTypes
  <2>3. ReadAtWork'
    BY <2>1, <2>2 DEF ReaderSound, ReadAtWork, ReaderAt, Unasked, Waiting
  <2>4. EndsTrue'
    BY <1>1, <2>1, <2>2 DEF ReaderSound, EndsTrue, Unasked
  <2>5. Left' = Left
    BY <2>1 DEF Left
  <2>6. Accounted'
    BY <1>1, <2>1, <2>2, <2>5, ChunkPlaces DEF ReaderSound, Accounted
  <2> QED
    BY <2>3, <2>4, <2>6 DEF ReaderSound
<1>9. CASE GetReader
  <2>1. /\ holding' = TRUE /\ reader' = ReaderAt("open", FALSE) /\ told' = "chunk" /\ request = Unasked
        /\ UNCHANGED <<got, lost, cancelled, readable, stored, request, pulling, passed, taken, sender, receiver>>
    BY <1>9 DEF GetReader, jsReadable, channelVars, ReaderSound, ReadAtWork
  <2>2. reader'.pending = FALSE
    BY <2>1, ReaderAtTypes
  <2>3. ReadAtWork'
    BY <2>1, <2>2 DEF ReaderSound, ReadAtWork, ReaderAt, Unasked, Waiting
  <2>4. EndsTrue'
    BY <1>1, <2>1 DEF ReaderSound, EndsTrue
  <2> QED
    BY <1>2, <2>1, <2>3, <2>4 DEF ReaderSound
<1> QED
  BY <1>3, <1>4, <1>5, <1>6, <1>7, <1>8, <1>9 DEF ReaderStep, PollRead

-----------------------------------------------------------------------------
(* The steps of the pipe. *)

\* A stream that is closed has nothing pending.
LEMMA ClosedRests ==
    ASSUME ChannelTypeOK, JsTypes, Pipeline, status = "closed", Settles \/ \E r \in Asked : Asks(r)
    PROVE  /\ status' = "closed" /\ \A c \in Chunks : promise'[c] = "ok" => promise[c] = "ok"
<1>1. \A c \in Chunks : promise[c] # "pending" /\ c \in Requests
  BY RequestTypes, EmptyElems DEF Pipeline, PromisesKept, SinkAtWork
<1>2. CASE Settles
  BY <1>1, <1>2 DEF Settles
<1>3. ASSUME NEW r \in Asked, Asks(r)
      PROVE  /\ status' = "closed" /\ \A c \in Chunks : promise'[c] = "ok" => promise[c] = "ok"
  <2>1. status' = status /\ promise' = [promise EXCEPT ![r] = "err"]
    BY <1>3 DEF Asks, JsRequest, JsTakes
  <2> QED
    BY <1>1, <2>1 DEF JsTypes
<1> QED
  BY <1>2, <1>3

LEMMA WriterElsewhere ==
    ASSUME ChannelTypeOK, HostTypes, JsTypes, Pipeline, WriterSound, WriterStep, UNCHANGED readerVars
    PROVE  Elsewhere
<1>1. CASE UNCHANGED <<jsWritable, channelVars>>
  BY <1>1 DEF Elsewhere, jsWritable, channelVars
<1>2. ASSUME NEW r \in Asked, Asks(r)
      PROVE  Elsewhere
  <2>1. UNCHANGED <<taken, receiver, sender, passed>> /\ promise'[AbortRequest] = promise[AbortRequest]
    BY <1>2, RequestTypes DEF Asks, JsRequest, channelVars, JsTypes
  <2> QED
    BY <1>2, <2>1, ClosedRests DEF Elsewhere
<1>3. CASE AbortDoes
  <2>1. Settles /\ promise'[AbortRequest] # "none"
    BY <1>3, AbortSettles
  <2>2. UNCHANGED <<taken, receiver, passed>> /\ sender' \in {sender, "gone"}
    BY <1>3 DEF AbortDoes, FinishAbort, DropSink, channelVars
  <2> QED
    BY <2>1, <2>2, ClosedRests DEF Elsewhere
<1> QED
  BY <1>1, <1>2, <1>3, WriterShapes

LEMMA SinkStepKeeps ==
    ASSUME ChannelTypeOK, HostTypes, JsTypes, Pipeline, WriterSound, SinkStep, UNCHANGED readerVars
    PROVE  Pipeline' /\ WriterSound' /\ Elsewhere
<1>1. Settles
  BY SinkSettles DEF SinkStep
<1>2. Pipeline'
  BY BeginsKeeps, StartsKeeps, EndsKeeps, SendFailsKeeps, CloseEndsKeeps DEF SinkStep
<1>3. WriterSound'
  BY <1>1, SettlesKeeps DEF SinkStep
<1>4. UNCHANGED <<taken, receiver, passed>> /\ sender' \in {sender, "gone"}
  BY DEF SinkStep, JsBegins, SendStarts, SendEnds, SendFails, CloseEnds, FinishAbort, DropSink, channelVars
<1>5. Elsewhere
  BY <1>1, <1>4, ClosedRests DEF Elsewhere, Settles
<1> QED
  BY <1>2, <1>3, <1>5

LEMMA PassOnElsewhere ==
    ASSUME ChannelTypeOK, PassOn, UNCHANGED <<writerVars, readerVars>>
    PROVE  Elsewhere
<1>1. UNCHANGED <<taken, sender, receiver, status, promise>>
  BY DEF PassOn, writerVars, jsWritable
<1>2. Only(buffered) \in Chunks
  BY DEF PassOn, Only, ChannelTypeOK
<1>3. passed' = passed \/ (receiver = "open" /\ \E b \in Chunks : passed' = Append(passed, b))
  BY <1>2 DEF PassOn
<1> QED
  BY <1>1, <1>3 DEF Elsewhere

LEMMA ReaderDrains ==
    ASSUME ReaderStep \/ SourceStep, UNCHANGED jsWritable
    PROVE  Drains
<1>1. CASE JsPulls \/ PullYields \/ PullEnds \/ PullFails
  BY <1>1 DEF JsPulls, PullYields, PullEnds, PullFails, Drains, channelVars
<1>2. CASE ReaderStep
  BY <1>2 DEF ReaderStep, PollRead, BeginRead, ReadOfEnded, ReadAsks, ReadCannotAsk, ReadAnswered, ReadDue, DropRead,
              Cancel, ReleaseReader, GetReader, Drains, channelVars
<1> QED
  BY <1>1, <1>2 DEF SourceStep

LEMMA TypesSame == Types <=> ChannelTypeOK /\ HostTypes /\ JsTypes /\ ReadTypes
BY WriterTypes, ReadTypesSame DEF Types

LEMMA TypesSamePrimed == Types' <=> ChannelTypeOK' /\ HostTypes' /\ JsTypes' /\ ReadTypes'
BY DEF Types, WriterTypeOK, ReaderTypeOK, HostTypes, JsTypes, ReadTypes, Writers, Operations, Answers, Readers

LEMMA WriterVarsSame ==
    ASSUME HostTypes, JsTypes, UNCHANGED writerVars
    PROVE  HostTypes' /\ JsTypes' /\ UNCHANGED <<jsWritable, hostWriter>>
BY DEF HostTypes, JsTypes, writerVars, hostWriter, jsWritable

LEMMA ReaderVarsSame ==
    ASSUME ReadTypes, UNCHANGED readerVars
    PROVE  ReadTypes'
BY DEF ReadTypes, readerVars, hostReader, jsReadable

\* Initially, every part of the invariant holds.
LEMMA InitSound == Init => IInv
<1> SUFFICES ASSUME Init
             PROVE  IInv
  OBVIOUS
<1> USE DEF Init, ChannelInit, WriterInit, ReaderInit
<1>0. /\ Elems(<<>>) = {} /\ Len(<<>>) = 0
      /\ DOMAIN queue = {} /\ DOMAIN passed = {} /\ DOMAIN got = {}
      /\ Elems(queue) = {} /\ Elems(passed) = {} /\ Elems(got) = {}
  <2>1. <<>> \in Seq(Nat) /\ Len(<<>>) = 0 /\ Elems(<<>>) = {}
    BY EmptyElems, EmptySeq
  <2>2. DOMAIN <<>> = {}
    <3>1. DOMAIN <<>> = 1..Len(<<>>)
      BY <2>1, LenProperties
    <3>2. 1..0 = {}
      OBVIOUS
    <3> QED
      BY <2>1, <3>1, <3>2
  <2>3. queue = <<>> /\ passed = <<>> /\ got = <<>>
    OBVIOUS
  <2> QED
    BY <2>1, <2>2, <2>3
<1>1. HostTypes
  <2>1. writer \in Writers
    BY WriterAtTypes
  <2>2. operation \in Operations
    BY OperationTypes
  <2>3. answer \in [Chunks -> {"none", "ok", "fed", "err", "due", "dropped"}]
    OBVIOUS
  <2>4. handed \in 0..MaxChunks /\ before \in 0..handed
    OBVIOUS
  <2> QED
    BY <2>1, <2>2, <2>3, <2>4 DEF HostTypes
<1>2. JsTypes
  BY EmptyElems DEF JsTypes
<1>3. ChannelTypeOK
  BY EmptyElems, <1>0 DEF ChannelTypeOK
<1>4. ReadTypes
  BY EmptyElems, AnswerTypes, ReaderAtTypes DEF ReadTypes
<1>5. Pipeline
  BY <1>0, RequestTypes DEF Pipeline, SinkAtWork, InOrder, PromisesKept, Increasing, Ahead
<1>6. WriterSound
  <2>1. writer.phase = "open" /\ writer.pending = {} /\ ~Sends /\ operation.kind # "write"
    BY DEF WriterAt, Idle, Sends
  <2> QED
    BY <2>1, RequestTypes DEF WriterSound, PendingWhileWaiting, Untouched, AnswersTrue, ClosedTrue, Owes, Unsent
<1>7. ReaderSound
  <2>1. /\ reader.phase = "open" /\ reader.pending = FALSE /\ request.state = "none" /\ request.chunk = {}
        /\ request # Waiting
    BY AnswerTypes, ReaderAtTypes
  <2>2. Left = {}
    BY DEF Left
  <2> QED
    BY <1>0, <2>1, <2>2 DEF ReaderSound, ReadAtWork, EndsTrue, Accounted, Increasing
<1> QED
  BY <1>1, <1>2, <1>3, <1>4, <1>5, <1>6, <1>7, TypesSame DEF IInv

LEMMA StepSound == IInv /\ [Next]_vars => IInv'
<1> SUFFICES ASSUME IInv, [Next]_vars
             PROVE  IInv'
  OBVIOUS
<1>1. ChannelTypeOK /\ HostTypes /\ JsTypes /\ ReadTypes /\ Pipeline /\ WriterSound /\ ReaderSound
  BY TypesSame DEF IInv
<1>2. Sends => handed \in Chunks
  BY <1>1 DEF WriterSound, Untouched
<1>3. CASE WriterStep /\ UNCHANGED readerVars
  <2>1. ChannelTypeOK' /\ HostTypes' /\ JsTypes' /\ ReadTypes'
    BY <1>1, <1>2, <1>3, WriterStepTypes, ReaderVarsSame
  <2>2. Pipeline' /\ WriterSound'
    BY <1>1, <1>3, WriterStepKeeps
  <2>3. ReaderSound'
    BY <1>1, <1>3, WriterElsewhere, ElsewhereKeeps
  <2> QED
    BY <2>1, <2>2, <2>3, TypesSamePrimed DEF IInv
<1>4. CASE SinkStep /\ UNCHANGED readerVars
  <2>1. UNCHANGED hostWriter /\ UNCHANGED troubles
    BY <1>4 DEF SinkStep
  <2>2. HostTypes'
    BY <1>1, <2>1 DEF HostTypes, hostWriter
  <2>3. ChannelTypeOK' /\ JsTypes' /\ ReadTypes'
    BY <1>1, <1>4, <2>1, SinkTypes, SinkChannelTypes, ReaderVarsSame DEF SinkStep
  <2>4. Pipeline' /\ WriterSound' /\ ReaderSound'
    BY <1>1, <1>4, SinkStepKeeps, ElsewhereKeeps
  <2> QED
    BY <2>2, <2>3, <2>4, TypesSamePrimed DEF IInv
<1>5. CASE PassOn /\ UNCHANGED <<writerVars, readerVars>>
  <2>1. UNCHANGED writerVars /\ UNCHANGED readerVars
    BY <1>5
  <2>2. HostTypes' /\ JsTypes' /\ ReadTypes' /\ UNCHANGED <<jsWritable, hostWriter>>
    BY <1>1, <2>1, WriterVarsSame, ReaderVarsSame
  <2>3. ChannelTypeOK'
    BY <1>1, <1>5, PassOnTypes
  <2>4. Pipeline'
    BY <1>1, <1>5, <2>2, PassOnKeeps
  <2>5. WriterSound'
    BY <1>1, <2>2, RestSettles, SettlesKeeps
  <2>6. ReaderSound'
    BY <1>1, <1>5, PassOnElsewhere, ElsewhereKeeps
  <2> QED
    BY <2>2, <2>3, <2>4, <2>5, <2>6, TypesSamePrimed DEF IInv
<1>6. ASSUME ReaderStep \/ SourceStep, UNCHANGED writerVars
      PROVE  IInv'
  <2>1. HostTypes' /\ JsTypes' /\ UNCHANGED <<jsWritable, hostWriter>>
    BY <1>1, <1>6, WriterVarsSame
  <2>2. ChannelTypeOK' /\ ReadTypes'
    BY <1>1, <1>6, ReaderStepTypes, SourceTypes DEF ReaderSound
  <2>3. WriterSound'
    BY <1>1, <2>1, RestSettles, SettlesKeeps
  <2>4. ReaderSound'
    BY <1>1, <1>6, ReaderStepKeeps, SourceKeeps
  <2>5. Drains
    BY <1>6, <2>1, ReaderDrains
  <2>6. Pipeline'
    BY <1>1, <2>5, DrainsKeeps
  <2> QED
    BY <2>1, <2>2, <2>3, <2>4, <2>6, TypesSamePrimed DEF IInv
<1>7. CASE UNCHANGED vars
  <2>1. UNCHANGED writerVars /\ UNCHANGED readerVars /\ UNCHANGED channelVars /\ UNCHANGED troubles
    BY <1>7 DEF vars
  <2>2. HostTypes' /\ JsTypes' /\ ReadTypes' /\ UNCHANGED <<jsWritable, hostWriter>>
    BY <1>1, <2>1, WriterVarsSame, ReaderVarsSame
  <2>3. ChannelTypeOK'
    BY <1>1, <2>1 DEF ChannelTypeOK, channelVars
  <2>4. Elsewhere
    BY <2>1, <2>2 DEF Elsewhere, channelVars, jsWritable
  <2>5. Pipeline' /\ WriterSound' /\ ReaderSound'
    BY <1>1, <2>1, <2>2, <2>4, RestsKeeps, RestSettles, SettlesKeeps, ElsewhereKeeps
  <2> QED
    BY <2>2, <2>3, <2>5, TypesSamePrimed DEF IInv
<1> QED
  BY <1>3, <1>4, <1>5, <1>6, <1>7 DEF Next

-----------------------------------------------------------------------------
(* The theorems. *)

LEMMA AlwaysSound == Spec => []IInv
BY InitSound, StepSound, PTL DEF Spec

\* A writer waits for at most one promise, and in the two phases that wait for one.
LEMMA TypesHold == IInv => TypeOK
<1> SUFFICES ASSUME IInv
             PROVE  TypeOK
  OBVIOUS
<1>1. ChannelTypeOK /\ WriterTypeOK /\ ReaderTypeOK /\ PendingWhileWaiting
  BY DEF IInv, Types, WriterSound
<1>2. writer.phase \in {"writing", "closing"} => \E r : writer.pending = {r}
  BY <1>1 DEF PendingWhileWaiting
<1>3. writer.phase \notin {"writing", "closing"} => writer.pending = {}
  BY <1>1 DEF PendingWhileWaiting
<1>4. Cardinality(writer.pending) <= 1
  <2>1. CASE writer.pending = {}
    BY <2>1, FS_EmptySet
  <2>2. ASSUME NEW r, writer.pending = {r}
        PROVE  Cardinality(writer.pending) <= 1
    BY <2>2, FS_Singleton
  <2> QED
    BY <1>2, <1>3, <2>1, <2>2
<1> QED
  BY <1>1, <1>2, <1>3, <1>4 DEF TypeOK

LEMMA WritesHold == IInv => WritesAreTrue
<1> SUFFICES ASSUME IInv
             PROVE  WritesAreTrue
  OBVIOUS
<1>1. ChannelTypeOK /\ JsTypes /\ Pipeline /\ WriterSound
  BY TypesSame DEF IInv
<1>2. Increasing(passed)
  BY <1>1 DEF Pipeline, InOrder
<1>3. ASSUME NEW c \in Chunks
      PROVE  /\ answer[c] = "ok" => c \in Elems(passed) \/ receiver = "gone"
             /\ answer[c] = "err" => c \notin Elems(passed)
  BY <1>1 DEF WriterSound, AnswersTrue, Pipeline, PromisesKept
<1>4. ASSUME closeOk, promise[AbortRequest] = "none", NEW c \in Chunks
      PROVE  /\ promise[c] # "pending"
             /\ promise[c] = "ok" => c \in Elems(passed) \/ receiver = "gone"
  <2>1. status = "closed"
    BY <1>1, <1>4 DEF WriterSound, ClosedTrue
  <2>2. promise[c] # "pending"
    BY <1>1, <2>1, RequestTypes, EmptyElems DEF Pipeline, SinkAtWork, PromisesKept
  <2> QED
    BY <1>1, <2>2 DEF Pipeline, PromisesKept
<1> QED
  BY <1>2, <1>3, <1>4, TypesHold DEF WritesAreTrue

LEMMA OwesHold == IInv => OpenOwesNothing
BY DEF IInv, WriterSound, Owes, PendingWhileWaiting, OpenOwesNothing

LEMMA LeftSame ==
    ASSUME ChannelTypeOK
    PROVE  Elems(SubSeq(passed, 1, taken)) = Left
<1> DEFINE s == SubSeq(passed, 1, taken)
<1>1. passed \in Seq(Chunks) /\ taken \in 0..Len(passed) /\ Len(passed) \in Nat
  BY LenProperties DEF ChannelTypeOK
<1>2. s = [i \in 1..taken |-> passed[i]]
  BY <1>1
<1> HIDE DEF s
<1>3. DOMAIN s = 1..taken /\ \A i \in 1..taken : s[i] = passed[i]
  BY <1>2
<1>4. Elems(s) = Left
  BY <1>3 DEF Elems, Left
<1> QED
  BY <1>4 DEF s

LEMMA ReadsHold == IInv => ReadsAccounted
<1> SUFFICES ASSUME IInv
             PROVE  ReadsAccounted
  OBVIOUS
<1>1. ChannelTypeOK /\ ReadTypes /\ Pipeline /\ ReaderSound /\ Increasing(passed)
  BY TypesSame DEF IInv, Pipeline, InOrder
<1>2. /\ Increasing(got)
      /\ Elems(SubSeq(passed, 1, taken)) = Elems(got) \cup lost \cup stored \cup request.chunk
      /\ Elems(got) \cap (lost \cup stored \cup request.chunk) = {}
      /\ lost \cap (stored \cup request.chunk) = {}
      /\ stored \cap request.chunk = {}
  BY <1>1, LeftSame, ChunkPlaces DEF ReaderSound, Accounted
<1>3. ASSUME told = "end"
      PROVE  /\ readable = "closed" /\ stored = {}
             /\ cancelled \/ (sender = "gone" /\ taken = Len(passed))
             /\ ~cancelled /\ lost = {} /\ promise[AbortRequest] = "none" =>
                  \A c \in Chunks : promise[c] = "ok" => c \in Elems(got)
  <2>1. readable = "closed" /\ request = Unasked /\ stored = {}
    BY <1>1, <1>3 DEF ReaderSound, EndsTrue
  <2>2. ~cancelled =>
            /\ sender = "gone" /\ taken = Len(passed)
            /\ promise[AbortRequest] = "none" => \A c \in Chunks : promise[c] = "ok" => c \in Elems(passed)
    BY <1>1, <2>1 DEF ReaderSound, EndsTrue
  <2>3. request.chunk = {}
    BY <2>1, AnswerTypes
  <2>4. taken = Len(passed) /\ lost = {} => Elems(got) = Elems(passed)
    BY <1>1, <1>2, <2>1, <2>3, LeftFacts, LeftSame
  <2> QED
    BY <2>1, <2>2, <2>4
<1> QED
  BY <1>2, <1>3 DEF ReadsAccounted

\* The writer never lies, whatever futures are dropped, however the stream fails and
\* however small the channel is: chunks pass in order and once, write and close return Ok
\* only for what went through, and write returns an error of the stream only for what did not.
THEOREM WritesAlwaysTrue == Spec => []WritesAreTrue
BY AlwaysSound, WritesHold, PTL

\* Writer::poll_flush of an open writer returns at once and is right to: no chunk the
\* writer has handed to the stream is pending or was refused.
THEOREM OpenAlwaysOwesNothing == Spec => []OpenOwesNothing
BY AlwaysSound, OwesHold, PTL

\* Every chunk the source took from the Rust stream is returned by one read, kept for the
\* next or lost, and a read that returns None has seen the end of everything written.
THEOREM ReadsAlwaysAccounted == Spec => []ReadsAccounted
BY AlwaysSound, ReadsHold, PTL

\* Only the end of the reader or of the stream loses a chunk; dropping the future of a
\* read, or polling it again, never does.
THEOREM OnlyEndsEverLose == Spec => OnlyEndsLose
<1> DEFINE Loses == lost' # lost => reader'.phase # "open" \/ readable' \in {"closed", "errored"}
<1>1. [Next]_vars => [Loses]_vars
  <2> SUFFICES ASSUME Next, lost' # lost
               PROVE  reader'.phase # "open" \/ readable' \in {"closed", "errored"}
    BY DEF Loses
  <2>1. ReaderStep \/ SourceStep
    BY DEF Next, readerVars
  <2>2. CASE SourceStep
    BY <2>2 DEF SourceStep, JsPulls, PullYields, PullEnds, PullFails
  <2>3. ASSUME NEW a, TakeAnswer(a)
        PROVE  reader'.phase # "open"
    <3>1. PICK result : /\ reader' = ReaderAt(IF EndsReader(result) THEN "done" ELSE reader.phase, FALSE)
                        /\ lost' = IF result = "due" THEN lost \cup a.chunk ELSE lost
      BY <2>3 DEF TakeAnswer
    <3>2. result = "due"
      BY <3>1
    <3>3. reader' = ReaderAt("done", FALSE)
      BY <3>1, <3>2 DEF EndsReader
    <3> QED
      BY <3>3 DEF ReaderAt
  <2>4. CASE Cancel \/ ReleaseReader
    BY <2>4 DEF Cancel, ReleaseReader, ReaderAt
  <2>5. CASE ReadAsks \/ ReadAnswered
    BY <2>3, <2>5 DEF ReadAsks, ReadAnswered
  <2>6. CASE BeginRead \/ ReadOfEnded \/ ReadCannotAsk \/ ReadDue \/ DropRead \/ GetReader
    BY <2>6 DEF BeginRead, ReadOfEnded, ReadCannotAsk, ReadDue, DropRead, GetReader
  <2> QED
    BY <2>1, <2>2, <2>4, <2>5, <2>6 DEF ReaderStep, PollRead
<1>2. OnlyEndsLose <=> [][Loses]_vars
  BY DEF OnlyEndsLose
<1> QED
  BY <1>1, <1>2, PTL DEF Spec
=============================================================================
