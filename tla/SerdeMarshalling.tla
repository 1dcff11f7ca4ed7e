--------------------------- MODULE SerdeMarshalling ---------------------------
(***************************************************************************)
(* Values that cross by way of serde (marshal/serde.rs): the Serializer    *)
(* builds guest values, the Deserializer offers what it finds to serde's   *)
(* visitors.  To the types of Marshalling come structs, a sequence of      *)
(* fields [name, type], and enums, a sequence of variants [name, of] whose *)
(* "of" is a unit, a newtype, a tuple or a struct.                         *)
(***************************************************************************)
EXTENDS Marshalling

CONSTANT Utf8       \* the bytes that are UTF-8 -> the string they are

\* An error without a category, which is what serde's own errors become.
Failed == [failed |-> 0]

StringOf(name) == [string |-> name]

RECURSIVE Serialize(_, _)

SerializeEach(S, vs) == Collected([i \in DOMAIN vs |-> Serialize(S, vs[i])])

\* SerializeTuple: each element by its own type.
SerializeTuple(Ss, vs) == Collected([i \in DOMAIN vs |-> Serialize(Ss[i], vs[i])])

\* SerializeStruct.
SerializeFields(fields, vs) ==
    NewObject([i \in DOMAIN fields |-> SetEntry(Ok(StringOf(fields[i].name)), Serialize(fields[i].type, vs[i]))])

\* SerializeMap: a value goes under the key before it.
SerializeMap(S, pairs) ==
    LET all == SetToSeq(pairs)
    IN  NewObject([i \in DOMAIN all |-> SetEntry(Serialize(S.map.key, all[i][1]), Serialize(S.map.value, all[i][2]))])

\* Serializer::variant: an object with one property.
Tagged(name, r) == NewObject(<<SetEntry(Ok(StringOf(name)), r)>>)

SerializeVariant(variant, v) ==
    CASE Is(variant.of, {"unit"}) -> Ok(StringOf(variant.name))
      [] Is(variant.of, {"newtype"}) -> Tagged(variant.name, Serialize(variant.of.newtype, v))
      [] Is(variant.of, {"tuple"}) -> Tagged(variant.name, WriteArray(SerializeTuple(variant.of.tuple, v.list)))
      [] Is(variant.of, {"struct"}) -> Tagged(variant.name, SerializeFields(variant.of.struct, v.fields))

Serialize(S, v) ==
    LET form == Kind(S) IN
    CASE form = "option" -> IF Is(v, {"none"}) THEN Ok(Null) ELSE Serialize(S.option, v.some)
      [] form = "vec" -> WriteArray(SerializeEach(S.vec, v.list))
      [] form = "tuple" -> WriteArray(SerializeTuple(S.tuple, v.list))
      [] form = "map" -> SerializeMap(S, v.pairs)
      [] form = "struct" -> SerializeFields(S.struct, v.fields)
      [] form = "enum" -> SerializeVariant(S.enum[v.variant], v.of)
      [] OTHER -> ToGuest(S, v)

-----------------------------------------------------------------------------
\* What deserialize_any shows a visitor.  Only a safe integer is shown as one.
Visited(g) ==
    CASE Is(g, Nullish) -> Ok([unit |-> 0])
      [] Is(g, {"boolean"}) -> Ok([bool |-> g.boolean])
      [] Is(g, {"number"}) ->
            IF Integral(g.number) /\ -SafeInteger <= g.number \div 2 /\ g.number \div 2 <= SafeInteger
            THEN Ok([i64 |-> g.number \div 2]) ELSE Ok([f64 |-> g.number])
      [] Is(g, {"bigint"}) -> Then(ReadI64(g), LAMBDA n : Ok([i64 |-> n]))
      [] Is(g, {"string"}) -> Then(ReadString(g), LAMBDA s : Ok([str |-> s.string]))
      [] Is(g, {"array"}) -> Then(Elements(g), LAMBDA gs : Ok([seq |-> gs]))
      [] Is(g, Buffers) -> Then(Slice(g), LAMBDA buffer : Ok([bytes |-> buffer.bytes]))
      [] Is(g, {"object"}) -> Then(Entries(g), LAMBDA entries : Ok([entries |-> entries]))
      [] OTHER -> Mismatch(<<"undefined", "null", "boolean", "number", "bigint", "string", "array",
                             "ArrayBuffer", "typed array", "DataView", "object">>, Kind(g))

\* IgnoredAny reads what it ignores, so a value nothing can be read from is an error.
RECURSIVE Ignored(_)
Ignored(g) ==
    Then(Visited(g), LAMBDA shown :
        CASE Is(shown, {"seq"}) -> Collected([i \in DOMAIN shown.seq |-> Ignored(shown.seq[i])])
          [] Is(shown, {"entries"}) ->
                Collected([i \in DOMAIN shown.entries |->
                    Then(Ignored(shown.entries[i][1]), LAMBDA key : Ignored(shown.entries[i][2]))])
          [] OTHER -> Ok({}))

RECURSIVE Deserialize(_, _)

\* serde's visitors of values without parts.
VisitPlain(S, shown, g) ==
    LET form == Kind(S) IN
    CASE form = "unit" /\ Is(shown, {"unit"}) -> Ok([unit |-> 0])
      [] form = "bool" /\ Is(shown, {"bool"}) -> Ok([bool |-> shown.bool])
      [] form = "int" /\ Is(shown, {"i64"}) /\ Within(S.int, shown.i64) -> Ok([int |-> shown.i64])
      [] form = "float" /\ Is(shown, {"i64"}) -> Ok([float |-> 2 * shown.i64])
      [] form = "float" /\ Is(shown, {"f64"}) -> Ok([float |-> shown.f64])
      [] form = "string" /\ Is(shown, {"str"}) -> Ok([string |-> shown.str])
      [] form = "string" /\ Is(shown, {"bytes"}) /\ shown.bytes \in DOMAIN Utf8 -> Ok([string |-> Utf8[shown.bytes]])
      [] form = "char" /\ Is(shown, {"str"}) /\ shown.str \in Chars -> Ok([string |-> shown.str])
      [] form = "bytes" /\ Is(shown, {"bytes"}) -> Ok([bytes |-> shown.bytes])
      [] OTHER -> Mismatch(<<form>>, Kind(g))

\* serde's visitor of a tuple takes its elements, and leaves the rest of the sequence.
VisitTuple(Ss, gs) ==
    LET read == Collected([i \in 1..Min({Len(Ss), Len(gs)}) |-> Deserialize(Ss[i], gs[i])])
    IN  Then(read, LAMBDA vs : IF Len(vs) = Len(Ss) THEN Ok([list |-> vs]) ELSE Failed)

VisitMap(S, entries) ==
    Then(Collected([i \in DOMAIN entries |->
            Then(Deserialize(S.map.key, entries[i][1]), LAMBDA key :
                Then(Deserialize(S.map.value, entries[i][2]), LAMBDA value : Ok(<<key, value>>)))]),
         LAMBDA pairs : Ok([pairs |-> ToSet(pairs)]))

\* A derived struct's visitor: a key that names no field is ignored with its value, a
\* field that is missing is an error unless it is optional.
FieldAt(fields, name) == {i \in DOMAIN fields : fields[i].name = name}

VisitEntry(fields, entry) ==
    IF ~Is(entry[1], {"string"}) THEN Mismatch(<<"identifier">>, Kind(entry[1]))
    ELSE LET at == FieldAt(fields, entry[1].string)
         IN  IF at = {} THEN Then(Ignored(entry[2]), LAMBDA nothing : Ok(<<>>))
             ELSE LET i == CHOOSE i \in at : TRUE
                  IN  Then(Deserialize(fields[i].type, entry[2]), LAMBDA v : Ok(<<i, v>>))

VisitStruct(fields, entries) ==
    Then(Collected([i \in DOMAIN entries |-> VisitEntry(fields, entries[i])]), LAMBDA found :
        LET Read(i) == {found[k][2] : k \in {k \in DOMAIN found : found[k] # <<>> /\ found[k][1] = i}}
        IN  IF \E i \in DOMAIN fields : Read(i) = {} /\ ~Is(fields[i].type, {"option"}) THEN Failed
            ELSE Ok([fields |-> [i \in DOMAIN fields |->
                        IF Read(i) = {} THEN [none |-> 0] ELSE CHOOSE v \in Read(i) : TRUE]]))

\* The fields of a struct, from an object or from an array in their order.
ReadFields(fields, g) ==
    Then(Visited(g), LAMBDA shown :
        CASE Is(shown, {"entries"}) -> VisitStruct(fields, shown.entries)
          [] Is(shown, {"seq"}) -> Then(VisitTuple([i \in DOMAIN fields |-> fields[i].type], shown.seq),
                                        LAMBDA vs : Ok([fields |-> vs.list]))
          [] OTHER -> Mismatch(<<"struct">>, Kind(g)))

\* VariantAccess: what a variant holds.
ReadVariant(of, g) ==
    CASE Is(of, {"unit"}) -> Deserialize([unit |-> 0], g)
      [] Is(of, {"newtype"}) -> Deserialize(of.newtype, g)
      [] Is(of, {"tuple"}) -> Deserialize([tuple |-> of.tuple], g)
      [] Is(of, {"struct"}) -> ReadFields(of.struct, g)

VariantAt(S, name) == {i \in DOMAIN S.enum : S.enum[i].name = name}

\* deserialize_enum: a string names a variant without values, an object with exactly one
\* property a variant and its values.
ReadEnum(S, g) ==
    CASE Is(g, {"string"}) ->
            Then(ReadString(g), LAMBDA s :
                LET at == VariantAt(S, s.string)
                IN  IF at = {} THEN Failed
                    ELSE LET i == CHOOSE i \in at : TRUE
                         IN  IF Is(S.enum[i].of, {"unit"}) THEN Ok([variant |-> i, of |-> [unit |-> 0]])
                             ELSE Mismatch(<<"variant with values">>, "unit variant"))
      [] Is(g, {"object"}) ->
            Then(Entries(g), LAMBDA entries :
                CASE ~TakesExactly(1, entries) -> Mismatch(<<"object with one property">>, "object")
                  [] TakesExactly(1, entries) /\ ~Is(entries[1][1], {"string"}) -> Mismatch(<<"identifier">>, "symbol")
                  [] TakesExactly(1, entries) /\ Is(entries[1][1], {"string"}) ->
                        LET at == VariantAt(S, entries[1][1].string)
                        IN  IF at = {} THEN Failed
                            ELSE LET i == CHOOSE i \in at : TRUE
                                 IN  Then(ReadVariant(S.enum[i].of, entries[1][2]),
                                          LAMBDA v : Ok([variant |-> i, of |-> v])))
      [] OTHER -> Then(Visited(g), LAMBDA shown : Mismatch(<<"enum">>, Kind(g)))

Deserialize(S, g) ==
    LET form == Kind(S) IN
    CASE form = "option" -> IF Is(g, Nullish) THEN Ok([none |-> 0])
                            ELSE Then(Deserialize(S.option, g), LAMBDA v : Ok([some |-> v]))
      [] form = "enum" -> ReadEnum(S, g)
      [] form = "struct" -> ReadFields(S.struct, g)
      [] OTHER ->
            Then(Visited(g), LAMBDA shown :
                CASE form = "vec" /\ Is(shown, {"seq"}) ->
                        Listed(Collected([i \in DOMAIN shown.seq |-> Deserialize(S.vec, shown.seq[i])]))
                  [] form = "tuple" /\ Is(shown, {"seq"}) -> VisitTuple(S.tuple, shown.seq)
                  [] form = "map" /\ Is(shown, {"entries"}) -> VisitMap(S, shown.entries)
                  [] OTHER -> VisitPlain(S, shown, g))
===============================================================================
