---------------------------- MODULE MCTranslations ----------------------------
(* Types of every form, some of them nested; numbers of four bits, of which those up
   to four are safe; values of a guest of every kind, in and out of range.  Calls of
   functions of up to three parameters, blocks of up to three items, a few files. *)
EXTENDS Translations

MCWidths == [w \in {"i3", "u2", "i64", "u64", "usize"} |->
    CASE w = "i3" -> [least |-> -4, most |-> 3]
      [] w = "u2" -> [least |-> 0, most |-> 3]
      [] w = "i64" -> [least |-> -8, most |-> 7]
      [] w \in {"u64", "usize"} -> [least |-> 0, most |-> 15]]
MCInherited == [name \in {"__proto__", "ab"} |-> IF name = "ab" THEN "throws" ELSE "takes"]
MCUtf8 == [bytes \in {<<>>, <<1>>} |-> IF bytes = <<>> THEN "" ELSE "a"]
MCByteWidth == [of \in {"u8", "u16"} |-> IF of = "u8" THEN 1 ELSE 2]

Unit == [unit |-> 0]
Bool == [bool |-> 0]
Integer(w) == [int |-> w]
Float == [float |-> 0]
Str == [string |-> 0]
Char == [char |-> 0]
Option(T) == [option |-> T]
Vec(T) == [vec |-> T]
Tuple(Ts) == [tuple |-> Ts]
MapOf(K, T) == [map |-> [key |-> K, value |-> T]]

Shared == {Unit, Bool, Float, Str, Char} \cup {Integer(w) : w \in DOMAIN MCWidths \ {"usize"}} \cup
    {Option(Integer("i3")), Option(Unit), Option(Option(Bool)), Vec(Integer("u2")), Vec(Option(Unit)),
     Tuple(<<Integer("u2"), Str>>), Tuple(<<Option(Bool)>>), MapOf(Str, Integer("u2")), MapOf(Char, Bool),
     MapOf(Integer("u2"), Bool), MapOf(Bool, Unit), Vec(Vec(Bool))}

Union1 == [union |-> <<Float, Str>>]
Union2 == [union |-> <<Integer("u2"), Float, Integer("u64"), Vec(Bool)>>]
Union3 == [union |-> <<MapOf(Str, Bool), [item |-> Bool], Option(Char)>>]

Handle(is) == [handle |-> [is |-> is, of |-> "u16"]]
Handles == {"value", "object", "array", "function", "class", "promise", "module", "ArrayBuffer", "typed array", "DataView"}
Union4 == [union |-> <<Handle("array"), Handle("object"), Str>>]

MCTypes == Shared \cup {Handle(is) : is \in Handles} \cup {Union1, Union2, Union3, Union4, Vec(Union1), Option(Handle("value")),
    [nullish |-> Bool], [nullish |-> Option(Bool)], [fixed |-> [of |-> Integer("u2"), count |-> 2]],
    [hashset |-> Integer("u2")], [hashset |-> Union2], [bytes |-> 0], [slice |-> "u8"], [slice |-> "u16"],
    [item |-> Unit], [item |-> Integer("i3")], [item |-> Option(Bool)]}

Field(name, T) == [name |-> name, type |-> T]
Variant(name, of) == [name |-> name, of |-> of]
Point == [struct |-> <<Field("a", Integer("u2")), Field("b", Option(Str))>>]
Choice == [enum |-> <<Variant("a", Unit), Variant("b", [newtype |-> Option(Bool)]),
                      Variant("c", Tuple(<<Bool, Integer("u64")>>)), Variant("d", [struct |-> <<Field("a", Bool)>>])>>]

MCSerdeTypes == Shared \cup {Point, Choice, Vec(Choice), Option(Point), MapOf(Str, Point),
    [struct |-> <<Field("__proto__", Option(Bool)), Field("a", Bool)>>], [struct |-> <<Field("ab", Option(Bool)), Field("a", Bool)>>],
    [enum |-> <<Variant("ab", Unit), Variant("__proto__", [newtype |-> Bool])>>], [enum |-> <<Variant("ab", [newtype |-> Bool])>>]}

MCChars == {"a", "b"}
Buffer(kind, of, at, bytes) == [k \in {kind} |-> [of |-> of, at |-> at, bytes |-> bytes]]
Exporting == [object |-> [x \in {SymbolKey} |-> [string |-> "Module"]]]
HeldOf(is) ==
    CASE is = "value" -> {Undefined, [symbol |-> 0], [number |-> 2], NewArray(<<>>)}
      [] is = "object" -> {NewArray(<<>>), [function |-> 0], [promise |-> 0], Exporting, NewSet(<<>>)}
      [] is = "array" -> {NewArray(<<>>)}
      [] is \in {"function", "class"} -> {[function |-> 0]}
      [] is = "promise" -> {[promise |-> 0]}
      [] is = "module" -> {Exporting}
      [] OTHER -> {Buffer(is, "u16", 0, <<1, 2>>)}
Lone == "lone"
Strings == {"", "a", "ab", "__proto__"}

RECURSIVE MCValues(_)
Tuples(Ts) ==
    IF Len(Ts) = 1 THEN {<<v>> : v \in MCValues(Ts[1])}
    ELSE {<<v, w>> : v \in MCValues(Ts[1]), w \in MCValues(Ts[2])}
Lists(T) == {<<>>} \cup {<<v>> : v \in MCValues(T)} \cup {<<v, w>> : v, w \in MCValues(T)}
MCValues(T) ==
    LET form == Kind(T) IN
    CASE form = "unit" -> {[unit |-> 0]}
      [] form = "bool" -> {[bool |-> b] : b \in BOOLEAN}
      [] form = "int" -> {[int |-> n] : n \in MCWidths[T.int].least..MCWidths[T.int].most}
      [] form = "float" -> {[float |-> n] : n \in -1..11}
      [] form = "string" -> {[string |-> s] : s \in Strings}
      [] form = "char" -> {[string |-> s] : s \in MCChars}
      [] form = "option" -> {[none |-> 0]} \cup {[some |-> v] : v \in MCValues(T.option)}
      [] form = "nullish" -> {Undefined, Null} \cup {[some |-> v] : v \in MCValues(T.nullish)}
      [] form = "vec" -> {[list |-> vs] : vs \in Lists(T.vec)}
      [] form = "fixed" -> {[list |-> <<v, w>>] : v, w \in MCValues(T.fixed.of)}
      [] form = "tuple" -> {[list |-> vs] : vs \in Tuples(T.tuple)}
      [] form = "map" ->
            LET vs == MCValues(T.map.value) IN
            {[pairs |-> {}]} \cup {[pairs |-> {<<k, v>>}] : k \in MCValues(T.map.key), v \in vs} \cup
            UNION {{[pairs |-> {<<k, v>>, <<l, w>>}] : v, w \in vs, l \in MCValues(T.map.key) \ {k}} : k \in MCValues(T.map.key)}
      [] form = "hashset" -> {[members |-> ms] : ms \in {ToSet(vs) : vs \in Lists(T.hashset)}}
      [] form \in {"bytes", "slice"} -> {[bytes |-> bs] : bs \in {<<>>, <<1, 2>>}}
      [] form = "handle" -> {[handle |-> [of |-> g, home |-> home]] : g \in HeldOf(T.handle.is), home \in BOOLEAN}
      [] form = "item" -> {[none |-> 0]} \cup {[some |-> v] : v \in MCValues(T.item)}
      [] form = "union" -> UNION {{[variant |-> i, of |-> v] : v \in MCValues(T.union[i])} : i \in DOMAIN T.union}
      [] form = "struct" -> {[fields |-> vs] : vs \in Tuples([i \in DOMAIN T.struct |-> T.struct[i].type])}
      [] form = "enum" -> UNION {
            LET of == T.enum[i].of
            IN  {[variant |-> i, of |-> v] :
                    v \in IF Is(of, {"newtype"}) THEN MCValues(of.newtype) ELSE MCValues(of)} : i \in DOMAIN T.enum}

G0 == {Undefined, Null, [symbol |-> 0], [function |-> 0], [promise |-> 0]} \cup
    {[boolean |-> b] : b \in BOOLEAN} \cup {[number |-> n] : n \in {-18, -8, -1, 0, 1, 2, 6, 8, 10, 14, 16}} \cup
    {[bigint |-> n] : n \in {-9, -4, 0, 3, 5, 7, 8}} \cup {[string |-> s] : s \in Strings \cup {"b", "c", Lone}}
Objects(names, S) == {[object |-> o] : o \in [names -> S]}
Throwing == [throws |-> 0]
Few == {Undefined, Null, [boolean |-> TRUE], [number |-> 2], [string |-> "a"], [function |-> 0], Throwing}
MCGuestValues == G0 \cup
    {NewArray(gs) : gs \in BoundedSeq(G0 \ {[symbol |-> 0]}, 1) \cup
        {<<g, h>> : g, h \in {Null, [boolean |-> TRUE], [number |-> 2], [number |-> 8], [bigint |-> 3], [string |-> "a"]}} \cup
        {<<[number |-> 2], [string |-> "a"], Null>>, <<NewArray(<<[boolean |-> TRUE]>>)>>} \cup
        {<<Throwing>>, <<[string |-> "a"], Throwing>>, <<[number |-> 2], Throwing>>, <<NewArray(<<Throwing>>)>>}} \cup
    {[array |-> [length |-> length, items |-> items]] :
        length \in {Throwing, [number |-> -2], [number |-> 1], [number |-> 2], [number |-> 4], [bigint |-> 1], [string |-> "a"], Undefined},
        items \in {<<[number |-> 2], [string |-> "a"]>>, <<[boolean |-> TRUE], Throwing>>, <<>>}} \cup
    {[set |-> [members |-> S]] : S \in SUBSET {[number |-> 2], [bigint |-> 1], [bigint |-> 3]}} \cup
    {[set |-> [yields |-> gs]] : gs \in BoundedSeq({[number |-> 2], [bigint |-> 1], [string |-> "a"], Throwing}, 2)} \cup
    {[set |-> [missing |-> 0]], [set |-> [broken |-> 0]], [DataView |-> Throwing]} \cup
    Objects({}, Few) \cup Objects({"a"}, Few) \cup Objects({"b"}, Few) \cup Objects({"a", "b"}, Few) \cup Objects({SymbolKey}, Few) \cup
    Objects({"done"}, Few \cup {[boolean |-> FALSE]}) \cup
    Objects({"done", "value"}, {Undefined, [boolean |-> TRUE], [boolean |-> FALSE], [string |-> ""], [number |-> 0], Throwing}) \cup
    Objects({"__proto__"}, Few) \cup
    {[object |-> [x \in {"c"} |-> g]] : g \in {NewArray(<<[boolean |-> TRUE], [number |-> 6]>>),
        NewArray(<<[boolean |-> TRUE], [number |-> 6], Null>>), NewArray(<<[boolean |-> TRUE]>>), Null}} \cup
    {[object |-> [x \in {"d"} |-> g]] : g \in {[object |-> [y \in {"a"} |-> [boolean |-> FALSE]]], NewArray(<<[boolean |-> TRUE]>>)}} \cup
    {Exporting} \cup {Buffer("typed array", "u16", at, <<1, 2>>) : at \in 0..1} \cup
    UNION {{Buffer(kind, "u8", at, bytes) : kind \in Buffers, bytes \in {<<>>, <<1>>, <<1, 2>>}} : at \in 0..1}

-----------------------------------------------------------------------------
Parameter(role, type) == [roles |-> role, type |-> type, plain |-> TRUE]
MCParameters == {Parameter({}, "T"), Parameter({"borrow"}, "&T"), Parameter({"borrow_mut"}, "&mut T"),
    Parameter({"rest"}, "Vec<T>"), Parameter({"enter"}, "&T"), Parameter({"this"}, "&T"), Parameter({"state"}, "ModuleState<T>")}
OddParameters == {Parameter({"context"}, "&T"), Parameter({"this"}, "T"), Parameter({"rest"}, "T"), Parameter({"borrow"}, "&mut T"),
    Parameter({"borrow", "rest"}, "Vec<T>"), Parameter({}, "&mut T"), [roles |-> {}, type |-> "T", plain |-> FALSE]}
Fn(receiver, async, parameters) == [ordinary |-> TRUE, receiver |-> receiver, async |-> async, parameters |-> parameters]
MCCalls ==
    {[callable |-> Fn(receiver, async, parameters), module |-> module, values |-> values] :
        receiver \in {"none", "&self"}, async \in BOOLEAN, module \in BOOLEAN, values \in {<<>>, <<"x", "y">>},
        parameters \in BoundedSeq(MCParameters, 2) \cup {<<p>> : p \in OddParameters}} \cup
    {[callable |-> Fn("none", async, parameters), module |-> TRUE, values |-> <<"x", "y">>] :
        async \in BOOLEAN, parameters \in [1..3 -> MCParameters]}

Item == [is |-> "fn", roles |-> {}, default |-> FALSE, name |-> <<>>, symbol |-> <<>>, ident |-> "a",
    callable |-> Fn("none", FALSE, <<>>), generics |-> {}, demands |-> {}, state |-> "Self", declares |-> <<>>]
As(role, callable) == [Item EXCEPT !.roles = {role}, !.callable = callable]
Const == [Item EXCEPT !.is = "const", !.roles = {"constant"}, !.ident = "c"]
Free == Fn("none", FALSE, <<>>)
Method == Fn("&self", FALSE, <<>>)
Stated == Fn("none", FALSE, <<Parameter({"state"}, "ModuleState<T>")>>)
Taking(type) == Fn("none", FALSE, <<Parameter({}, type)>>)
Generic(is, ident, backend) == [is |-> is, ident |-> ident, backend |-> backend]
MCBlock == [rename |-> <<>>, items |-> <<>>, generics |-> {}, option |-> <<>>, classes |-> <<>>, exceptions |-> <<>>]
With(items) == [MCBlock EXCEPT !.items = items]
MCRenamed == [rule \in {"camelCase"} |-> [ident \in {"a", "a_", "b", "c", "constructor", "prototype"} |-> IF ident = "a_" THEN "a" ELSE ident]]

ModuleItems == {Item, Const, [Const EXCEPT !.default = TRUE], [Const EXCEPT !.roles = {"function"}], [Const EXCEPT !.name = <<"a">>],
    As("function", Free), As("function", Method), As("function", Stated), As("function", Fn("&self", TRUE, <<>>)),
    As("function", Fn("none", TRUE, <<Parameter({"enter"}, "&T")>>)), As("function", Fn("&mut self", FALSE, <<>>)),
    [As("function", Free) EXCEPT !.default = TRUE], [As("function", Free) EXCEPT !.ident = "a_"],
    [As("function", Free) EXCEPT !.default = TRUE, !.name = <<"b">>], [As("function", Free) EXCEPT !.roles = @ \cup {"namespace"}],
    [As("async_function", Free) EXCEPT !.ident = "b"], As("async_function", Fn("none", TRUE, <<>>)), As("namespace", Free), As("namespace", Method),
    As("state", Free), [As("state", Fn("none", FALSE, <<Parameter({"enter"}, "&T")>>)) EXCEPT !.state = "T"], As("state", Taking("T")),
    As("init", Free), [As("init", Free) EXCEPT !.default = TRUE], As("build", Free),
    [As("build", Taking("T")) EXCEPT !.declares = <<"d">>], [As("function", Free) EXCEPT !.demands = {"Promises"}, !.ident = "b"]}
MCGenerics == {{}, {Generic("type", "B", FALSE)}, {Generic("type", "B", TRUE)}, {Generic("lifetime", "B", FALSE)},
    {Generic("const", "B", FALSE), Generic("type", "__GuestjsBackend", FALSE)}}
MCOptions == {<<>>, <<"named", "B">>, <<"named", "C">>, <<"pinned", "QuickJs">>}
InScope(item) ==
    {[With(<<[item EXCEPT !.generics = inner]>>) EXCEPT !.generics = generics, !.option = option] :
        generics \in MCGenerics, option \in MCOptions, inner \in {{}, {Generic("lifetime", "B", FALSE)}, {Generic("lifetime", "__GuestjsBackend1", FALSE)}}}
MCModuleBlocks ==
    {With(items) : items \in BoundedSeq(ModuleItems, 2)} \cup
    {[With(<<one, other>>) EXCEPT !.rename = <<"camelCase">>] : one, other \in {Const, As("function", Free), [As("function", Free) EXCEPT !.ident = "a_"]}} \cup
    {[With(<<item>>) EXCEPT !.classes = classes, !.exceptions = exceptions] :
        item \in ModuleItems, classes \in {<<>>, <<"C">>}, exceptions \in {<<>>, <<"E">>}} \cup
    InScope([As("function", Free) EXCEPT !.demands = {"Promises"}])
MCClassItems == {Item, Const, [Const EXCEPT !.ident = "prototype"], [Const EXCEPT !.ident = "a"], [Const EXCEPT !.roles = {"method"}],
    As("constructor", Free), As("constructor", Method), As("method", Method), As("method", Free), As("method", Fn("&mut self", TRUE, <<>>)),
    [As("method", Method) EXCEPT !.ident = "constructor"], [As("method", Method) EXCEPT !.ident = "a_"],
    [As("method", Method) EXCEPT !.symbol = <<"iterator">>], [As("method", Method) EXCEPT !.symbol = <<"other">>],
    [As("method", Method) EXCEPT !.symbol = <<"iterator">>, !.name = <<"b">>], [As("async_method", Method) EXCEPT !.ident = "b"],
    As("get", Method), [As("get", Method) EXCEPT !.ident = "b", !.name = <<"a">>],
    As("get", Fn("&self", FALSE, <<Parameter({}, "T")>>)),
    [As("set", Fn("&self", FALSE, <<Parameter({}, "T")>>)) EXCEPT !.ident = "b", !.name = <<"a">>], As("set", Method),
    [As("set", Fn("&self", FALSE, <<Parameter({}, "T")>>)) EXCEPT !.symbol = <<"iterator">>],
    As("static_method", Free), As("static_method", Method), [As("static_method", Free) EXCEPT !.ident = "prototype"],
    [As("static_method", Fn("none", TRUE, <<>>)) EXCEPT !.ident = "c"], As("constant", Free), [As("statics", Taking("&mut T")) EXCEPT !.declares = <<"a", "e">>], As("statics", Free)}
MCClassBlocks ==
    {With(items) : items \in BoundedSeq(MCClassItems, 2)} \cup
    {With(<<one, other, third>>) : one, other, third \in {item \in MCClassItems : item.roles \in {{"get"}, {"set"}, {"method"}} /\ AcceptsClassItem(item)}} \cup
    {[With(<<one, other>>) EXCEPT !.rename = <<"camelCase">>] : one, other \in {As("method", Method), [As("method", Method) EXCEPT !.ident = "a_"], As("static_method", Free)}} \cup
    InScope(As("method", Method))

Entry(key, property) == [key |-> key, property |-> property]
MCNamespaces == BoundedSeq({Entry(key, property) : key \in {Name("a"), <<"symbol", "toStringTag">>},
    property \in {ValueProperty("v", FALSE), ValueProperty("w", TRUE), Getter("g"), Getter("h"), Setter("s"), Setter("t")}}, 3)
MCFacades == {[kind |-> kind, payload |-> payload, members |-> members] :
    kind \in {"class", "module"}, payload \in BOOLEAN, members \in BoundedSeq({"a", "b", "new", "instance", "into_module"}, 2)}

MCVariants == {[unnamed |-> unnamed, fields |-> fields] : unnamed \in BOOLEAN, fields \in BoundedSeq({"T", "Self"}, 2)}
Deriving(is, untagged, variants) ==
    [is |-> is, untagged |-> untagged, variants |-> variants, generics |-> {}, option |-> <<>>, items |-> <<>>]
MCDerives ==
    {Deriving(is, untagged, variants) : is \in {"struct", "enum", "union"}, untagged \in BOOLEAN, variants \in BoundedSeq(MCVariants, 2)} \cup
    {[Deriving(is, TRUE, variants) EXCEPT !.generics = generics, !.option = option] : is \in {"struct", "enum", "union"},
        variants \in BoundedSeq(MCVariants, 1), generics \in MCGenerics, option \in MCOptions}

MCWords == {"a", "b", "a.js", ".js", "b.ts"}
MCStem == [w \in MCWords |-> CASE w = "a.js" -> "a" [] w = "b.ts" -> "b" [] w = ".js" -> "" [] OTHER -> w]
File(path) == [by |-> "data", path |-> path, readable |-> TRUE, utf8 |-> TRUE, parses |-> TRUE]
Readings == {File(<<"a.js">>), File(<<"b.ts">>), File(<<"a">>), File(<<".js">>), File(<<"b", "a.js">>), File(<<"b", "..">>),
    [File(<<"a.js">>) EXCEPT !.parses = FALSE], [File(<<"b.ts">>) EXCEPT !.parses = FALSE], [File(<<"a.js">>) EXCEPT !.utf8 = FALSE],
    [File(<<"b">>) EXCEPT !.utf8 = FALSE], [File(<<"b">>) EXCEPT !.readable = FALSE]}
By(by, file) == [file EXCEPT !.by = by]
MCFiles == {By("file", file) : file \in Readings} \cup
    {By("data", file) : file \in {f \in Readings : f.readable}} \cup
    {By("module", file) : file \in {f \in Readings : f.readable /\ f.utf8}}

-----------------------------------------------------------------------------
Thrown1 == Create("RangeError", "far", "g")
Other == [other |-> 0]
Fails == [fails |-> 0]
Stops == [stops |-> 0]
Odd(reads) == {[Thrown1 EXCEPT !.made = "guest", !.name = read] : read \in reads} \cup
    {[Thrown1 EXCEPT !.made = "guest", !.message = read] : read \in reads} \cup
    {[Thrown1 EXCEPT !.made = "guest", !.stack = read] : read \in reads \cup {Other}} \cup
    {[Thrown1 EXCEPT !.made = "guest", !.chain = @ \cup {read}] : read \in reads \cup {Other, Text("Retryable")}} \cup
    {[Thrown1 EXCEPT !.made = "guest", !.beyond = read] : read \in reads}
NoError(type, text, chain) == [Thrown1 EXCEPT !.made = "guest", !.error = FALSE, !.type = type, !.text = text, !.chain = chain]
MCThrown == Odd({Fails, Stops}) \cup {NoError("string", Text("x"), {}), NoError("symbol", Text("Symbol(s)"), {}), NoError("object", Fails, {}),
    NoError("object", Text("y"), {Text("Error"), Text("Object")}), NoError("function", Stops, {Text("Function"), Text("Object")})}
MCExceptions == {[name |-> "Boom", base |-> "Error"], [name |-> "InvalidInput", base |-> "TypeError"]}
MCOrigins ==
    {[from |-> "host", error |-> error] :
        error \in {ErrorOf(category, category) : category \in Categories \ {"guest", "interrupted"}} \cup {Interrupted}} \cup
    {[from |-> "guest", value |-> value] : value \in MCThrown} \cup
    {[from |-> "throw", class |-> class, fails |-> fails, message |-> "m", context |-> "g"] :
        class \in MCExceptions, fails \in {{}, {Interrupted}, {ErrorOf("closed", "closed")}}} \cup
    {[from |-> "construct", class |-> class, args |-> args, derived |-> derived, context |-> "g"] :
        class \in MCExceptions, derived \in {{}, {Text("Derived")}},
        args \in {<<>>, <<Null>>, <<[string |-> "a"]>>, <<[number |-> 2]>>, <<[string |-> Lone]>>}}
MCFrames == [context : {"g", "h"}, catches : BOOLEAN]

-----------------------------------------------------------------------------
Memory(bytes) == [bytes |-> bytes, shared |-> FALSE, immutable |-> FALSE, detached |-> FALSE]
ViewOf(kind, of, buffer, at, length) == [kind |-> kind, of |-> of, buffer |-> buffer, at |-> at, length |-> length]
MCWorlds == {[strict |-> strict, accessors |-> [name \in Intrinsics |-> "own"], buffers |-> <<Memory(<<1, 2, 3, 4>>), [Memory(<<5, 6>>) EXCEPT !.shared = TRUE]>>,
    views |-> <<ViewOf("ArrayBuffer", "u8", 1, 0, 4), ViewOf("typed array", "u16", 1, 2, 2), ViewOf("typed array", "u8", 1, 1, 2),
                ViewOf("DataView", "u8", 1, 1, 3), ViewOf("typed array", "u8", 2, 0, 2), ViewOf("object", "u8", 2, 0, 2),
                ViewOf("DataView", "u8", 1, 3, 0)>>] : strict \in BOOLEAN}
MCNumbers == {0, 2, 5}
MCSizes == {2, 6}
MCIndices == {0, 1, 8, 15}
MCSlices == {<<>>, <<9, 8>>, <<9, 8, 7, 6>>}
===============================================================================
