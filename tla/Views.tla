--------------------------------- MODULE Views ---------------------------------
(***************************************************************************)
(* Array buffers and the views of them, as the host reads and writes them  *)
(* (handle/buffer.rs and handle/protocol.rs of core, buffers.rs of the     *)
(* backend).  A buffer is [bytes, shared, immutable, detached]; a view is  *)
(* [kind, of, buffer, at, length], its place and length in bytes.  Guest   *)
(* code resizes, freezes and takes away buffers under their views, and     *)
(* what a DataView says of itself is what the accessors say that are found *)
(* on DataView.prototype at the time: guest code replaces them, or takes   *)
(* them away.  To ask is therefore to run guest code, and comes to one of  *)
(* several outcomes [is, world]: a result, and the world it leaves.        *)
(***************************************************************************)
EXTENDS Conversions, FiniteSets

CONSTANTS
    MaxSize,        \* the greatest usize
    Longest,        \* the most bytes that memory can have in a piece, isize::MAX
    Worlds,         \* [buffers, views, accessors, strict]: buffers and views of them, in an engine
    Sizes,          \* the sizes that guest code gives a buffer
    Indices,        \* where the host writes
    Slices,         \* what it writes
    Numbers,        \* what guest code's accessors say of a place or a length
    MaxPatched,     \* bound: the accessors of DataView.prototype that guest code changes
    MaxAccesses     \* bound: the steps of the host and of guest code

ASSUME SizesAssumption ==
    /\ MaxSize \in Nat /\ Longest \in Nat /\ Longest < MaxSize
    /\ Sizes \subseteq 0..Longest /\ Indices \subseteq 0..MaxSize
    /\ Slices \subseteq {bytes \in Seq(0..255) : Len(bytes) <= Longest}
    /\ Numbers \subseteq Nat /\ MaxPatched \in Nat /\ MaxAccesses \in Nat

Intrinsics == {"buffer", "byteOffset", "byteLength"}

Memories == [bytes : Seq(0..255), shared : BOOLEAN, immutable : BOOLEAN, detached : BOOLEAN]
Describing == [kind : Buffers \cup {"object"}, of : DOMAIN ByteWidth, buffer : Nat, at : Nat, length : Nat]

Engines == [buffers : Seq(Memories), views : Seq(Describing),
            accessors : [Intrinsics -> {"own", "replaced", "missing"}], strict : BOOLEAN]

\* Nothing is left of a buffer that is detached.
SoundBuffer(buffer) == Len(buffer.bytes) <= Longest /\ (buffer.detached => buffer.bytes = <<>>)

\* A typed array has whole elements, at a multiple of their size.
SoundView(view, buffers) ==
    /\ view.buffer \in DOMAIN buffers
    /\ view.kind = "typed array" =>
         view.at % ByteWidth[view.of] = 0 /\ view.length % ByteWidth[view.of] = 0

SoundWorld(w) ==
    /\ w \in Engines
    /\ \A b \in DOMAIN w.buffers : SoundBuffer(w.buffers[b])
    /\ \A v \in DOMAIN w.views : SoundView(w.views[v], w.buffers)

ASSUME WorldsAssumption == \A w \in Worlds : SoundWorld(w)

VARIABLES
    world,          \* the buffers and views there are
    access,         \* what was done last: [do, view, index, written], and what accessors left
    reply,          \* and what came of it
    accesses        \* how often something was done

viewsVars == <<world, access, reply, accesses>>

\* A view reaches beyond a buffer that has shrunk, or is gone.
OutOfBounds(buffer, view) == buffer.detached \/ view.at + view.length > Len(buffer.bytes)

-----------------------------------------------------------------------------
(* What guest code does: to a buffer that is neither immutable nor shared, and to the
   accessors of DataViews. *)

Resized(bytes, length) == [i \in 1..length |-> IF i \in DOMAIN bytes THEN bytes[i] ELSE 0]

Resize(buffer, length) == [buffer EXCEPT !.bytes = Resized(@, length)]

Detach(buffer) == [buffer EXCEPT !.bytes = <<>>, !.detached = TRUE]

Freeze(buffer) == [buffer EXCEPT !.immutable = TRUE]

Mutable(w) == {b \in DOMAIN w.buffers : ~w.buffers[b].immutable /\ ~w.buffers[b].shared}

Patch(w, name, how) == [w EXCEPT !.accessors[name] = how]

Patchable(w) ==
    LET changed == {name \in Intrinsics : w.accessors[name] # "own"}
    IN  {name \in Intrinsics : Cardinality(changed \cup {name}) <= MaxPatched}

\* The worlds after one such change.
Changes(w) ==
    {[w EXCEPT !.buffers[b] = Detach(@)] : b \in Mutable(w)} \cup
    {[w EXCEPT !.buffers[b] = Freeze(@)] : b \in Mutable(w)} \cup
    {[w EXCEPT !.buffers[b] = Resize(@, length)] :
        b \in {b \in Mutable(w) : ~w.buffers[b].detached}, length \in Sizes} \cup
    {Patch(w, name, how) : name \in Patchable(w), how \in {"own", "replaced", "missing"}}

-----------------------------------------------------------------------------
(* The backend. *)

Outcome(result, w) == [is |-> result, world |-> w]

\* The ? of Rust: what succeeds goes on in the world that it left.
Bind(outcomes, Next(_, _)) ==
    UNION {IF Succeeds(o.is) THEN Next(o.is.ok, o.world) ELSE {o} : o \in outcomes}

\* ArrayBufferData::array_buffer: the whole of a buffer that is not shared, and not gone.
ArrayBuffer(buffer) == IF buffer.shared \/ buffer.detached THEN Thrown ELSE Ok(Len(buffer.bytes))

\* An engine that is strict refuses to describe a view that is out of bounds.
Described(w, view, result) ==
    IF w.strict /\ OutOfBounds(w.buffers[view.buffer], view) THEN Thrown ELSE Ok(result)

\* IntrinsicAccessor::intrinsic: the accessor of DataView.prototype that is there now.  One
\* of the guest's own says what it likes, or throws, and makes at most one change, a bound.
Intrinsic(w, name, own, given) ==
    CASE w.accessors[name] = "own" -> {Outcome(own, w)}
      [] w.accessors[name] = "missing" -> {Outcome(Thrown, w)}
      [] w.accessors[name] = "replaced" ->
            {Outcome(answer, after) : answer \in given \cup {Thrown}, after \in {w} \cup Changes(w)}

\* A number of bytes that a u32 holds, or something else.
BytesGiven == {Ok(n) : n \in Numbers} \cup {Mismatch(<<"u32">>, "value")}

\* Some buffer, or 0, what is none.
BuffersGiven(w) == {Ok(b) : b \in 0..Len(w.buffers)}

ByteLength(w, view) ==
    CASE view.kind = "ArrayBuffer" -> {Outcome(ArrayBuffer(w.buffers[view.buffer]), w)}
      [] view.kind = "typed array" -> {Outcome(Described(w, view, view.length), w)}
      [] view.kind = "DataView" -> Intrinsic(w, "byteLength", Described(w, view, view.length), BytesGiven)
      [] OTHER -> {Outcome(Thrown, w)}

ByteOffset(w, view) ==
    CASE view.kind = "typed array" -> {Outcome(Described(w, view, view.at), w)}
      [] view.kind = "DataView" -> Intrinsic(w, "byteOffset", Described(w, view, view.at), BytesGiven)
      [] OTHER -> {Outcome(Thrown, w)}

\* The accessor of a DataView names its buffer whatever became of it.
BufferOf(w, view) ==
    CASE view.kind = "typed array" -> {Outcome(Described(w, view, view.buffer), w)}
      [] view.kind = "DataView" -> Intrinsic(w, "buffer", Ok(view.buffer), BuffersGiven(w))
      [] OTHER -> {Outcome(Thrown, w)}

IsArrayBuffer(w, b) == b \in DOMAIN w.buffers /\ ~w.buffers[b].shared

\* buffer_range: [buffer, from, length], in bytes.
BufferRange(w, view) ==
    IF view.kind = "ArrayBuffer"
    THEN Bind(ByteLength(w, view), LAMBDA length, left :
           {Outcome(Ok([buffer |-> view.buffer, from |-> 0, length |-> length]), left)})
    ELSE Bind(BufferOf(w, view), LAMBDA b, named :
           IF ~IsArrayBuffer(named, b)
           THEN {Outcome(Mismatch(<<"view of an ArrayBuffer">>, "view of a SharedArrayBuffer"), named)}
           ELSE Bind(ByteOffset(named, view), LAMBDA from, placed :
                  Bind(ByteLength(placed, view), LAMBDA length, left :
                    {Outcome(Ok([buffer |-> b, from |-> from, length |-> length]), left)})))

\* What is lent of a range, in the world in which it is asked for.
Lent(w, range, exclusive) ==
    Then(ArrayBuffer(w.buffers[range.buffer]), LAMBDA size :
        IF range.from + range.length > size \/ (exclusive /\ w.buffers[range.buffer].immutable)
        THEN Thrown ELSE Ok(range))

\* Bytes::new; which loans there are meanwhile is in Loans.
Bytes(w, view, exclusive) ==
    Bind(BufferRange(w, view), LAMBDA range, left : {Outcome(Lent(left, range, exclusive), left)})

-----------------------------------------------------------------------------
(* The host. *)

\* FromGuestRef and FromGuestMut of a slice.
BorrowAs(w, of, view, exclusive) ==
    IF view.kind \notin Buffers THEN {Outcome(Mismatch(DescribeSlice, view.kind), w)}
    ELSE Bind(Bytes(w, view, exclusive), LAMBDA range, left :
           {Outcome(IF AlignedAt(of, range.from, range.length) THEN Ok(range)
                    ELSE Mismatch(<<"aligned bytes">>, "bytes"), left)})

\* Elements of an ArrayBuffer and of a DataView are bytes.
ElementOf(view) == IF view.kind = "typed array" THEN view.of ELSE "u8"

\* TypedArray::len, from its length in bytes.
LengthOf(w, view) ==
    Bind(ByteLength(w, view), LAMBDA length, left : {Outcome(Ok(length \div ByteWidth[ElementOf(view)]), left)})

\* to_vec of a typed array, bytes of the others.
Contents(w, view) ==
    Bind(BorrowAs(w, ElementOf(view), view, FALSE), LAMBDA range, left :
        {Outcome(Ok(SubSeq(left.buffers[range.buffer].bytes, range.from + 1, range.from + range.length)), left)})

\* A slip: the product overflows.
WrappedOffset(view, index) == (index * ByteWidth[ElementOf(view)]) % (MaxSize + 1)

\* TypedArray::write saturates.
OffsetOf(view, index) ==
    LET product == index * ByteWidth[ElementOf(view)] IN IF product > MaxSize THEN MaxSize ELSE product

\* write_bytes: all of the bytes or none; the end of what is written may overflow.
FitsAt(offset, count, length) == offset + count <= MaxSize /\ offset + count <= length

Overwritten(bytes, from, written) ==
    [i \in DOMAIN bytes |-> IF i - from \in DOMAIN written THEN written[i - from] ELSE bytes[i]]

\* ViewProtocol::buffer: as an ArrayBuffer, which one that is shared is not.
BufferHandle(w, view) ==
    Bind(BufferOf(w, view), LAMBDA b, left :
        {Outcome(IF IsArrayBuffer(left, b) THEN Ok(b) ELSE Mismatch(<<"ArrayBuffer">>, "object"), left)})

-----------------------------------------------------------------------------
(* The steps of the host. *)

Does(what, comes) ==
    /\ accesses' = accesses + 1
    /\ access' = what /\ reply' = comes

Looks(do, v, outcomes) == \E o \in outcomes : Does([do |-> do, view |-> v], o.is) /\ world' = o.world

ReadView(v) == Looks("read", v, Contents(world, world.views[v]))

AsksLength(v) == Looks("length", v, LengthOf(world, world.views[v]))

AsksBuffer(v) == Looks("buffer", v, BufferHandle(world, world.views[v]))

\* write_bytes; of a typed array by way of write.
WriteView(v, index, written) ==
    LET view == world.views[v]
        offset == OffsetOf(view, index)
    IN  \E borrowed \in BorrowAs(world, "u8", view, TRUE) :
          LET range == borrowed.is.ok
              Writes(comes) == Does([do |-> "write", view |-> v, index |-> index, written |-> written,
                                     left |-> borrowed.world], comes)
          IN  \/ /\ ~Succeeds(borrowed.is)
                 /\ Writes(borrowed.is) /\ world' = borrowed.world
              \/ /\ Succeeds(borrowed.is) /\ ~FitsAt(offset, Len(written), range.length)
                 /\ Writes(Mismatch(<<"at most so many bytes">>, "bytes")) /\ world' = borrowed.world
              \/ /\ Succeeds(borrowed.is) /\ FitsAt(offset, Len(written), range.length)
                 /\ Writes(Ok({}))
                 /\ world' = [borrowed.world EXCEPT !.buffers[range.buffer].bytes =
                                 Overwritten(@, range.from + offset, written)]

\* TypedArray::from_values: a view of the whole of a buffer of its own.
FromValues(of, bytes) ==
    LET buffer == [bytes |-> bytes, shared |-> FALSE, immutable |-> FALSE, detached |-> FALSE]
        view == [kind |-> "typed array", of |-> of, buffer |-> Len(world.buffers) + 1, at |-> 0, length |-> Len(bytes)]
    IN  /\ Len(bytes) % ByteWidth[of] = 0
        /\ Does([do |-> "new"], Ok(view))
        /\ world' = [world EXCEPT !.buffers = Append(@, buffer), !.views = Append(@, view)]

\* Guest code runs of its own.
GuestChanges ==
    /\ world' \in Changes(world)
    /\ Does([do |-> "guest"], Ok({}))

-----------------------------------------------------------------------------
ViewsInit ==
    /\ world \in Worlds
    /\ access = [do |-> "guest"] /\ reply = Ok({}) /\ accesses = 0

\* No more than MaxAccesses steps.
ViewsNext ==
    /\ accesses < MaxAccesses
    /\ \/ \E v \in DOMAIN world.views :
            \/ ReadView(v) \/ AsksLength(v) \/ AsksBuffer(v)
            \/ \E index \in Indices, written \in Slices : WriteView(v, index, written)
       \/ \E of \in DOMAIN ByteWidth, written \in Slices : FromValues(of, written)
       \/ GuestChanges

ViewsSpec == ViewsInit /\ [][ViewsNext]_viewsVars

-----------------------------------------------------------------------------
(* The bytes that a view shows. *)

From(view) == IF view.kind = "ArrayBuffer" THEN 0 ELSE view.at

\* How many: all of an ArrayBuffer, or those of its own part of one.
Extent(w, view) == IF view.kind = "ArrayBuffer" THEN Len(w.buffers[view.buffer].bytes) ELSE view.length

OwnWindow(w, view) == [buffer |-> view.buffer, from |-> From(view), length |-> Extent(w, view)]

\* A window of a buffer that is there, of one guest alone, and reaches as far.
Inside(w, window) ==
    LET buffer == w.buffers[window.buffer]
    IN  ~buffer.shared /\ ~buffer.detached /\ window.from + window.length <= Len(buffer.bytes)

\* Even if it shows no bytes.
Shown(w, view) == view.kind \in Buffers /\ Inside(w, OwnWindow(w, view))

\* Guest code has no say in what is found out about a view.
Straight(w, view) == view.kind = "DataView" => \A name \in Intrinsics : w.accessors[name] = "own"

\* Where a view may lead: to its own window, or wherever guest code's accessors say.
Windows(w, view) ==
    IF Straight(w, view) THEN {OwnWindow(w, view)}
    ELSE [buffer : DOMAIN w.buffers, from : 0..Longest, length : 0..Longest]

\* Where the index-th element of a view is, however large the index.
Before(view, window, index) == window.from + index * ByteWidth[ElementOf(view)]

ReadsWindow(view) ==
    /\ Straight(world, view) => UNCHANGED world /\ (Succeeds(reply') <=> Shown(world, view))
    /\ Succeeds(reply') => \E window \in Windows(world, view) :
         /\ Inside(world', window)
         /\ reply'.ok = [i \in 1..window.length |-> world'.buffers[window.buffer].bytes[window.from + i]]

\* Bytes none of which is outside the window, even if there are none.
WritesTarget(view, index, written, left) ==
    /\ Straight(world, view) =>
         /\ left = world
         /\ Succeeds(reply') <=>
              /\ Shown(world, view) /\ ~world.buffers[view.buffer].immutable
              /\ Before(view, OwnWindow(world, view), index) + Len(written) <= From(view) + Extent(world, view)
    /\ ~Succeeds(reply') => world' = left
    /\ Succeeds(reply') => \E window \in Windows(world, view) :
         LET before == Before(view, window, index)
             target == (before + 1)..(before + Len(written))
             bytes == left.buffers[window.buffer].bytes
         IN  /\ Inside(left, window) /\ ~left.buffers[window.buffer].immutable
             /\ before + Len(written) <= window.from + window.length
             /\ world' = [left EXCEPT !.buffers[window.buffer].bytes =
                            [i \in DOMAIN bytes |-> IF i \in target THEN written[i - before] ELSE bytes[i]]]

Kept ==
    LET view == world.views[access'.view] IN
    CASE access'.do = "read" -> ReadsWindow(view)
      [] access'.do = "write" -> WritesTarget(view, access'.index, access'.written, access'.left)
      [] access'.do = "length" -> Straight(world, view) =>
           /\ UNCHANGED world
           /\ Shown(world, view) => Succeeds(reply') /\ reply'.ok * ByteWidth[ElementOf(view)] = Extent(world, view)
      [] access'.do = "buffer" ->
           /\ Succeeds(reply') => IsArrayBuffer(world', reply'.ok)
           /\ Straight(world, view) => UNCHANGED world /\ (Succeeds(reply') => reply'.ok = view.buffer)
      [] OTHER -> TRUE

\* A view reads and writes the bytes that it shows and no others, wherever and however
\* much is written, and whatever became of its buffer meanwhile.  Where guest code answers
\* for a DataView the bytes are some others, but of one buffer that is there and may be
\* written, and within it, even if the answering changed the buffers.  A write that fails
\* writes nothing, and reading changes nothing but what guest code changes (Bytes::new,
\* Element::check, write_bytes, IntrinsicAccessor).
ViewsKeepToBounds == [][Kept]_viewsVars
===============================================================================
