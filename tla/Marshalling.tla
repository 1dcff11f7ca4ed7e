------------------------------ MODULE Marshalling ------------------------------
(***************************************************************************)
(* How values cross between Rust and a guest (marshal/ of core, values.rs  *)
(* of the backend, the union derive).  Types, values of the host and       *)
(* values of a guest are records of one field, whose name says what they   *)
(* are: [option |-> [bool |-> 0]] is a type, [some |-> [bool |-> TRUE]] a  *)
(* value of it, [boolean |-> TRUE] what a guest sees.  A guest's number is *)
(* the double of what it stands for, so that odd ones have a fraction.     *)
(*                                                                         *)
(* What is [throws |-> 0] cannot be read: a getter, a trap of a proxy or   *)
(* the next of an iterator throws.  An array is [length, items], where a   *)
(* proxy says its length and an item has an accessor; a set is its         *)
(* [members], or what guest code made of its iterator: it [yields] a       *)
(* sequence, is [missing], or is [broken], not a function or not giving    *)
(* objects.  A buffer or a view of one is [of, at, bytes].                 *)
(***************************************************************************)
EXTENDS Conversions, SequencesExt, FiniteSets, FiniteSetsExt, TLC

CONSTANTS
    Widths,         \* integer type -> [least, most]; "i64" is one of them
    Wide,           \* the integer types that hold more than a number does
    SafeInteger,    \* MAX_SAFE_INTEGER
    Chars,          \* the strings of one character
    Inherited       \* name -> "takes" or "throws": what Object.prototype does of an object's set

ASSUME WidthsAssumption == {"i64", "usize"} \subseteq Wide /\ Wide \subseteq DOMAIN Widths
ASSUME SafeAssumption == \A w \in DOMAIN Widths \ Wide :
    -SafeInteger <= Widths[w].least /\ Widths[w].most <= SafeInteger
\* Guest code left the two names of a step's result alone.
ASSUME InheritedAssumption == Inherited \in [DOMAIN Inherited \ {"value", "done"} -> {"takes", "throws"}]

\* Iterator::collect of results: all the values, or the first error.
Collected(rs) ==
    IF \A i \in DOMAIN rs : Succeeds(rs[i])
    THEN Ok([i \in DOMAIN rs |-> rs[i].ok])
    ELSE rs[Min({i \in DOMAIN rs : ~Succeeds(rs[i])})]

-----------------------------------------------------------------------------
(* Expected: what a type says it reads. *)

\* Expected::push drops a name that is there already.
Named(lists) == FoldLeft(LAMBDA names, name : IF Contains(names, name) THEN names ELSE Append(names, name),
                         <<>>, FlattenSeq(lists))

RECURSIVE Describe(_)
Describe(T) ==
    LET form == Kind(T) IN
    CASE form = "unit" -> <<"undefined">>
      [] form = "bool" -> <<"boolean">>
      [] form = "int" -> <<"number", "bigint">>
      [] form = "float" -> <<"number">>
      [] form \in {"string", "char"} -> <<"string">>
      [] form \in {"option", "nullish"} -> Named(<<Describe(T[form]), <<"undefined", "null">>>>)
      [] form \in {"vec", "fixed", "tuple"} -> <<"array">>
      [] form = "map" -> <<"object">>
      [] form = "hashset" -> <<"set">>
      [] form \in {"bytes", "slice"} -> DescribeSlice
      [] form = "item" -> <<"iter item">>
      [] form = "handle" -> <<IF T.handle.is = "typed array" THEN T.handle.of ELSE T.handle.is>>
      [] form = "union" -> Named([i \in DOMAIN T.union |-> Describe(T.union[i])])

Refuse(T, g) == Mismatch(Describe(T), Kind(g))

-----------------------------------------------------------------------------
(* ToGuest. *)

Within(width, n) == Widths[width].least <= n /\ n <= Widths[width].most

\* A slip: an integer is written however large it is.
WriteAnyInteger(width, n) == Ok([number |-> 2 * n])

WriteInteger(width, n) ==
    IF width \in Wide /\ ~(-SafeInteger <= n /\ n <= SafeInteger)
    THEN Mismatch(<<"safe integer">>, "integer")
    ELSE Ok([number |-> 2 * n])

\* B::set takes any value for a key: it becomes the name of a property.
PropertyKey(g) ==
    CASE Is(g, {"string"}) -> g.string
      [] Is(g, {"number"}) -> ToString(g.number \div 2)
      [] Is(g, {"boolean"}) -> IF g.boolean THEN "true" ELSE "false"

\* B::set of a key and a value, once both are written.  It is an assignment: a property of
\* Object.prototype that is read-only refuses it.
SetEntry(key, value) ==
    Then(key, LAMBDA k : Then(value, LAMBDA v :
        IF PropertyKey(k) \in DOMAIN Inherited /\ Inherited[PropertyKey(k)] = "throws" THEN Thrown
        ELSE Ok(<<PropertyKey(k), v>>)))

\* A new object after its assignments: what a setter of Object.prototype took, as that of
\* "__proto__" does, is no property of the object.
NewObject(assignments) ==
    Then(Collected(assignments), LAMBDA entries :
        LET own == {i \in DOMAIN entries : entries[i][1] \notin DOMAIN Inherited}
        IN  Ok([object |-> [name \in {entries[i][1] : i \in own} |->
                                entries[Max({i \in own : entries[i][1] = name})][2]]]))

StepResult(value, done) ==
    NewObject(<<SetEntry(Ok([string |-> "value"]), Ok(value)), SetEntry(Ok([string |-> "done"]), Ok([boolean |-> done]))>>)

\* B::new_array, B::new_set with the engine's own Set.
NewArray(gs) == [array |-> [length |-> [number |-> 2 * Len(gs)], items |-> gs]]
NewSet(gs) == [set |-> [members |-> ToSet(gs)]]

RECURSIVE ToGuest(_, _)

ToGuestArgs(T, vs) == Collected([i \in DOMAIN vs |-> ToGuest(T, vs[i])])

WriteMap(T, pairs) ==
    LET all == SetToSeq(pairs)
    IN  NewObject([i \in DOMAIN all |-> SetEntry(ToGuest(T.map.key, all[i][1]), ToGuest(T.map.value, all[i][2]))])

WriteOption(T, v) == IF Is(v, {"none"}) THEN Ok(Null) ELSE ToGuest(T.option, v.some)

WriteNullish(T, v) == IF Is(v, {"some"}) THEN ToGuest(T.nullish, v.some) ELSE Ok(v)

WriteSet(T, members) == Then(ToGuestArgs(T.hashset, SetToSeq(members)), LAMBDA gs : Ok(NewSet(gs)))

\* A typed array over a buffer of its own.
WriteSlice(of, bytes) == Ok([x \in {"typed array"} |-> [of |-> of, at |-> 0, bytes |-> bytes]])

WriteItem(T, v) ==
    IF Is(v, {"none"}) THEN StepResult(Undefined, TRUE)
    ELSE Then(ToGuest(T.item, v.some), LAMBDA g : StepResult(g, FALSE))

\* Handle::attach: a handle names a value of one guest, and no other takes it.
WriteHandle(handle) == IF handle.home THEN Ok(handle.of) ELSE [foreign |-> 0]

WriteArray(r) == Then(r, LAMBDA gs : Ok(NewArray(gs)))

ToGuest(T, v) ==
    LET form == Kind(T) IN
    CASE form = "unit" -> Ok(Undefined)
      [] form = "bool" -> Ok([boolean |-> v.bool])
      [] form = "int" -> WriteInteger(T.int, v.int)
      [] form = "float" -> Ok([number |-> v.float])
      [] form \in {"string", "char"} -> Ok([string |-> v.string])
      [] form = "option" -> WriteOption(T, v)
      [] form = "nullish" -> WriteNullish(T, v)
      [] form = "vec" -> WriteArray(ToGuestArgs(T.vec, v.list))
      [] form = "fixed" -> WriteArray(ToGuestArgs(T.fixed.of, v.list))
      [] form = "tuple" -> WriteArray(Collected([i \in DOMAIN v.list |-> ToGuest(T.tuple[i], v.list[i])]))
      [] form = "map" -> WriteMap(T, v.pairs)
      [] form = "hashset" -> WriteSet(T, v.members)
      [] form = "bytes" -> WriteSlice("u8", v.bytes)
      [] form = "slice" -> WriteSlice(T.slice, v.bytes)
      [] form = "item" -> WriteItem(T, v)
      [] form = "handle" -> WriteHandle(v.handle)
      [] form = "union" -> ToGuest(T.union[v.variant], v.of)

-----------------------------------------------------------------------------
(* FromGuest. *)

Integral(number) == number % 2 = 0

\* B::as_i64: a number without a fraction, or a bigint, that an i64 holds.
ReadI64(g) ==
    LET n == IF Is(g, {"number"}) THEN g.number \div 2 ELSE g.bigint
    IN  IF (Is(g, {"number"}) => Integral(g.number)) /\ Within("i64", n) THEN Ok(n)
        ELSE Mismatch(<<"i64">>, Kind(g))

ReadInteger(width, g) ==
    Then(ReadI64(g), LAMBDA n : IF Within(width, n) THEN Ok([int |-> n]) ELSE Mismatch(<<width>>, "integer"))

\* B::get: an object that has no such property gives undefined.
Property(g, name) ==
    IF Is(g, {"object"}) /\ name \in DOMAIN g.object THEN g.object[name] ELSE Undefined

Got(found) == IF Is(found, {"throws"}) THEN Thrown ELSE Ok(found)

Get(g, name) == Got(Property(g, name))

\* The one symbol among the keys here.
SymbolKey == "Symbol.toStringTag"

\* Entries::read: every own key, a symbol too, and what is under it.
Entries(g) ==
    LET names == SetToSeq(DOMAIN g.object)
    IN  Collected([i \in DOMAIN names |->
            Then(Get(g, names[i]),
                 LAMBDA value : Ok(<<IF names[i] = SymbolKey THEN [symbol |-> 0] ELSE [string |-> names[i]], value>>))])

\* B::truthy.
Truthy(g) ==
    CASE Is(g, Nullish) -> FALSE
      [] Is(g, {"boolean"}) -> g.boolean
      [] Is(g, {"number"}) -> g.number # 0
      [] Is(g, {"bigint"}) -> g.bigint # 0
      [] Is(g, {"string"}) -> g.string # ""
      [] OTHER -> TRUE

\* B::step of what an iterator's next returned: [value], or nothing at its end.
Step(g) ==
    Then(Get(g, "done"), LAMBDA done :
        IF Truthy(done) THEN Ok({}) ELSE Then(Get(g, "value"), LAMBDA value : Ok({value})))

Aligned(of, buffer) == AlignedAt(of, buffer.at, Len(buffer.bytes))

\* Bytes::new, which module Views has step by step: guest code may be in the way.
Slice(g) == IF g[Kind(g)] = [throws |-> 0] THEN Thrown ELSE Ok(g[Kind(g)])

\* FromGuestRef of a slice.
ReadSlice(T, of, g) ==
    IF ~Is(g, Buffers) THEN Refuse(T, g)
    ELSE Then(Slice(g), LAMBDA buffer :
            IF Aligned(of, buffer) THEN Ok([bytes |-> buffer.bytes]) ELSE Mismatch(<<"aligned bytes">>, Kind(g)))

RECURSIVE FromGuest(_, _)

ItemAt(array, i) == IF i \in DOMAIN array.items THEN array.items[i] ELSE Undefined

\* Elements::read: the length as a usize, then the items one after the other, none of
\* them converted before all are read.
Elements(g) ==
    Then(Got(g.array.length), LAMBDA length :
        Then(FromGuest([int |-> "usize"], length), LAMBDA count :
            Collected([i \in 1..count.int |-> Got(ItemAt(g.array, i))])))

\* Members::read: what the iterator of the set gives, which guest code may have replaced.
Members(g) ==
    CASE Is(g.set, {"members"}) -> Ok(SetToSeq(g.set.members))
      [] Is(g.set, {"yields"}) -> Collected([i \in DOMAIN g.set.yields |-> Got(g.set.yields[i])])
      [] Is(g.set, {"missing"}) -> Mismatch(<<"set">>, "set")
      [] Is(g.set, {"broken"}) -> Mismatch(<<"iterator">>, "set")

ReadEach(T, gs) == Collected([i \in DOMAIN gs |-> FromGuest(T, gs[i])])

Listed(r) == Then(r, LAMBDA vs : Ok([list |-> vs]))

\* A slip: of an array that is too long the first elements are read.
TakesAtLeast(count, gs) == Len(gs) >= count

\* Elements::exact.
TakesExactly(count, gs) == Len(gs) = count

ReadTuple(Ts, gs) ==
    IF TakesExactly(Len(Ts), gs)
    THEN Listed(Collected([i \in DOMAIN Ts |-> FromGuest(Ts[i], gs[i])]))
    ELSE Mismatch(<<"array of length">>, "array")

ReadMap(T, g) ==
    Then(Entries(g), LAMBDA entries :
        Then(Collected([i \in DOMAIN entries |->
                Then(FromGuest(T.map.key, entries[i][1]), LAMBDA key :
                    Then(FromGuest(T.map.value, entries[i][2]), LAMBDA value : Ok(<<key, value>>)))]),
             LAMBDA pairs : Ok([pairs |-> ToSet(pairs)])))

\* A union tries the next variant after a conversion error only.
Passes(r) == Is(r, {"mismatch"})

\* The variants in order, up to the first whose conversion does not merely mismatch.
ReadUnion(T, g) ==
    LET tried == [i \in DOMAIN T.union |-> FromGuest(T.union[i], g)]
        decided == {i \in DOMAIN tried : Succeeds(tried[i]) \/ ~Passes(tried[i])}
    IN  IF decided = {} THEN Refuse(T, g)
        ELSE Then(tried[Min(decided)], LAMBDA v : Ok([variant |-> Min(decided), of |-> v]))

ReadChar(g) ==
    Then(ReadString(g), LAMBDA s :
        IF s.string \in Chars THEN Ok(s) ELSE Mismatch(<<"single-character string">>, "string"))

ReadOption(T, g) ==
    IF Is(g, Nullish) THEN Ok([none |-> 0]) ELSE Then(FromGuest(T.option, g), LAMBDA v : Ok([some |-> v]))

ReadNullish(T, g) ==
    IF Is(g, Nullish) THEN Ok(g) ELSE Then(FromGuest(T.nullish, g), LAMBDA v : Ok([some |-> v]))

\* All are converted before they are counted.
ReadFixed(T, gs) ==
    Then(ReadEach(T.fixed.of, gs), LAMBDA vs :
        IF TakesExactly(T.fixed.count, vs) THEN Ok([list |-> vs]) ELSE Mismatch(<<"array of length">>, "array"))

ReadSet(T, gs) == Then(ReadEach(T.hashset, gs), LAMBDA vs : Ok([members |-> ToSet(vs)]))

\* IterItem: what next returned, as what it yields.
ReadItem(T, g) ==
    Then(Step(g), LAMBDA step :
        IF step = {} THEN Ok([none |-> 0])
        ELSE Then(FromGuest(T.item, CHOOSE value \in step : TRUE), LAMBDA v : Ok([some |-> v])))

Held(g) == Ok([handle |-> [of |-> g, home |-> TRUE]])

\* A handle of an array, a function, a promise or a buffer is of that kind alone.
HoldsKind(is, g) ==
    CASE is = "value" -> TRUE
      [] is = "object" -> ~Is(g, Primitives)
      [] is = "class" -> Is(g, {"function"})
      [] OTHER -> Is(g, {is})

\* A module is known by its tag.
ReadModule(T, g) ==
    Then(Get(g, SymbolKey), LAMBDA tag :
        Then(FromGuest([option |-> [string |-> 0]], tag), LAMBDA v :
            IF v = [some |-> [string |-> "Module"]] THEN Held(g) ELSE Refuse(T, g)))

ReadHandle(T, g) ==
    LET is == T.handle.is IN
    CASE is = "module" /\ Is(g, {"object"}) -> ReadModule(T, g)
      [] is = "typed array" /\ Is(g, {is}) /\ g[is].of # T.handle.of -> Mismatch(<<T.handle.of>>, g[is].of)
      [] is # "module" /\ HoldsKind(is, g) -> Held(g)
      [] OTHER -> Refuse(T, g)

FromGuest(T, g) ==
    LET form == Kind(T) IN
    CASE form = "unit" /\ Is(g, {"undefined"}) -> Ok([unit |-> 0])
      [] form = "bool" /\ Is(g, {"boolean"}) -> Ok([bool |-> g.boolean])
      [] form = "int" /\ Is(g, {"number", "bigint"}) -> ReadInteger(T.int, g)
      [] form = "float" /\ Is(g, {"number"}) -> Ok([float |-> g.number])
      [] form = "string" /\ Is(g, {"string"}) -> ReadString(g)
      [] form = "char" /\ Is(g, {"string"}) -> ReadChar(g)
      [] form = "option" -> ReadOption(T, g)
      [] form = "nullish" -> ReadNullish(T, g)
      [] form = "vec" /\ Is(g, {"array"}) -> Then(Elements(g), LAMBDA gs : Listed(ReadEach(T.vec, gs)))
      [] form = "fixed" /\ Is(g, {"array"}) -> Then(Elements(g), LAMBDA gs : ReadFixed(T, gs))
      [] form = "tuple" /\ Is(g, {"array"}) -> Then(Elements(g), LAMBDA gs : ReadTuple(T.tuple, gs))
      [] form = "map" /\ Is(g, {"object"}) -> ReadMap(T, g)
      [] form = "hashset" /\ Is(g, {"set"}) -> Then(Members(g), LAMBDA gs : ReadSet(T, gs))
      [] form = "bytes" -> ReadSlice(T, "u8", g)
      [] form = "slice" -> ReadSlice(T, T.slice, g)
      [] form = "item" /\ ~Is(g, Primitives) -> ReadItem(T, g)
      [] form = "handle" -> ReadHandle(T, g)
      [] form = "union" -> ReadUnion(T, g)
      [] OTHER -> Refuse(T, g)
===============================================================================
