------------------------------ MODULE Conversions ------------------------------
(***************************************************************************)
(* What all conversions between Rust and a guest share: the kinds of a     *)
(* guest's values, how a conversion ends, strings and elements of memory.  *)
(***************************************************************************)
EXTENDS Integers, Sequences

CONSTANTS
    Unpaired,       \* the strings of a guest that are not UTF-8
    ByteWidth       \* element type of a typed array -> its bytes

ASSUME ByteWidthAssumption ==
    /\ \A of \in DOMAIN ByteWidth : ByteWidth[of] \in Nat \ {0}
    /\ "u8" \in DOMAIN ByteWidth /\ ByteWidth["u8"] = 1

\* B::kind of a value; the form of a type.
Kind(x) == CHOOSE k \in DOMAIN x : TRUE
Is(x, kinds) == Kind(x) \in kinds

Nullish == {"undefined", "null"}
Buffers == {"ArrayBuffer", "typed array", "DataView"}
Primitives == Nullish \cup {"boolean", "number", "bigint", "string", "symbol"}

Undefined == [undefined |-> 0]
Null == [null |-> 0]

\* Results: a value, a conversion error, or what guest code threw.
Ok(v) == [ok |-> v]
Mismatch(expected, found) == [mismatch |-> [expected |-> expected, found |-> found]]
Thrown == [thrown |-> 0]

Succeeds(r) == Is(r, {"ok"})
Then(r, Next(_)) == IF Succeeds(r) THEN Next(r.ok) ELSE r

\* B::borrow_str.
ReadString(g) ==
    IF g.string \in Unpaired THEN Mismatch(<<"UTF-8 string">>, "string") ELSE Ok([string |-> g.string])

\* A slice is read from any buffer or view of one.
DescribeSlice == <<"ArrayBuffer", "typed array", "DataView">>

\* Element::check: the bytes are aligned for the element and none is left over.
AlignedAt(of, at, length) == length = 0 \/ (at % ByteWidth[of] = 0 /\ length % ByteWidth[of] = 0)
===============================================================================
