----------------------------- MODULE Translations -----------------------------
(***************************************************************************)
(* What is translated without a state of its own, one question at a time:  *)
(* a value of the host written to a guest and read again, a value of a     *)
(* guest read as a type, by the library's own conversions and by serde's,  *)
(* and what the attribute macros make of a block.  What is translated step *)
(* by step is a machine of its own: the name a specifier stands for, the   *)
(* items of an iterator, what views show of buffers, the arguments of a    *)
(* call, the files of a bundle, and an error on its way.                   *)
(***************************************************************************)
EXTENDS SerdeMarshalling, Declarations, Bundles, Exceptions, Views, Iterators

CONSTANTS
    Types,          \* the types of the host that are asked about
    SerdeTypes,     \* those that cross by way of serde
    Values(_),      \* type -> some of its values
    GuestValues,    \* values a guest may hand over
    ModuleBlocks,   \* blocks that are to be modules
    ClassBlocks,    \* blocks that are to be classes
    Namespaces,     \* sequences of [key, property]
    Facades,        \* [kind, payload, members]
    Derives         \* types whose conversions are derived

VARIABLES
    question,       \* [ask, type, of], the type being that of a value
    answer          \* Unanswered, or a sequence of results

vars == <<question, answer, resolverVars, iteratorVars, viewsVars, callableVars, bundleVars, exceptionVars>>

Unanswered == <<>>
Rejection == <<FALSE>>
NoType == "none"

Questions(ask, types, Of(_)) ==
    UNION {{[ask |-> ask, type |-> T, of |-> x] : x \in Of(T)} : T \in types}

Untyped(ask, asked) == Questions(ask, {NoType}, LAMBDA T : asked)

NotResolving == referrer = <<"">> /\ specifier = <<"">> /\ position = 0 /\ segments = <<>> /\ outcome = Refused

NotIterating ==
    /\ going = "sync" /\ iterator = IteratorAt("failed", FALSE) /\ future = "none"
    /\ settled = "none" /\ nexts = 0 /\ returns = 0 /\ yielded = <<>>

NotViewing ==
    /\ world = [buffers |-> <<>>, views |-> <<>>, accessors |-> [name \in Intrinsics |-> "own"], strict |-> FALSE]
    /\ access = [do |-> "guest"] /\ reply = Ok({}) /\ accesses = MaxAccesses

NotCalling ==
    /\ called = [callable |-> [ordinary |-> FALSE, receiver |-> "none", async |-> FALSE, parameters |-> <<>>],
                 module |-> FALSE, values |-> <<>>]
    /\ taking = [values |-> <<>>, next |-> 0, handed |-> <<>>]

NotThrowing ==
    origin = [from |-> "host", error |-> Interrupted] /\ passed = <<>> /\ journey = Journey(Interrupted)

\* Either a question is answered here, or one of the machines is set going.
Init ==
    /\ answer = Unanswered
    /\ \/ question \in Questions("write", Types, Values)
       \/ question \in Questions("serialize", SerdeTypes, Values)
       \/ question \in Questions("read", Types, LAMBDA T : GuestValues)
       \/ question \in Questions("deserialize", SerdeTypes, LAMBDA T : GuestValues)
       \/ question \in Untyped("module", ModuleBlocks)
       \/ question \in Untyped("class", ClassBlocks)
       \/ question \in Untyped("namespace", Namespaces)
       \/ question \in Untyped("facade", Facades)
       \/ question \in Untyped("derive", Derives)
       \/ question \in [ask : {"resolve", "iterate", "view", "call", "bundle", "error"}]
    /\ IF question.ask = "resolve" THEN ResolverInit ELSE NotResolving
    /\ IF question.ask = "iterate" THEN IteratorInit ELSE NotIterating
    /\ IF question.ask = "view" THEN ViewsInit ELSE NotViewing
    /\ IF question.ask = "call" THEN CallableInit ELSE NotCalling
    /\ IF question.ask = "error" THEN ExceptionInit ELSE NotThrowing
    /\ BundleInit

Asked(ask) == answer = Unanswered /\ question.ask = ask

\* A result and what becomes of it on the way back.
ThereAndBack(written, Read(_)) == <<written, Then(written, Read)>>

Write ==
    /\ Asked("write")
    /\ answer' = ThereAndBack(ToGuest(question.type, question.of), LAMBDA g : FromGuest(question.type, g))
    /\ UNCHANGED question

Serialized ==
    /\ Asked("serialize")
    /\ answer' = ThereAndBack(Serialize(question.type, question.of), LAMBDA g : Deserialize(question.type, g))
    /\ UNCHANGED question

Read ==
    /\ Asked("read")
    /\ answer' = <<FromGuest(question.type, question.of)>>
    /\ UNCHANGED question

Deserialized ==
    /\ Asked("deserialize")
    /\ answer' = <<Deserialize(question.type, question.of),
                   IF question.type \in Types THEN FromGuest(question.type, question.of) ELSE Failed>>
    /\ UNCHANGED question

Module ==
    /\ Asked("module")
    /\ answer' = IF AcceptsModule(question.of) THEN <<TRUE, ModuleDeclared(question.of), BackendParameter(question.of)>> ELSE Rejection
    /\ UNCHANGED question

Class ==
    /\ Asked("class")
    /\ answer' = IF AcceptsClass(question.of)
                 THEN LET declared == ClassDeclared(question.of)
                      IN  <<TRUE, declared, BackendParameter(question.of), RealisedPrototype(declared), RealisedClass(declared)>>
                 ELSE Rejection
    /\ UNCHANGED question

Namespace ==
    /\ Asked("namespace")
    /\ answer' = <<RealisedNamespace(
         FoldLeft(LAMBDA n, entry : Declare(n, entry.key, entry.property), <<>>, question.of), "name")>>
    /\ UNCHANGED question

Facade ==
    /\ Asked("facade")
    /\ answer' = <<AcceptsFacade(question.of)>>
    /\ UNCHANGED question

Derive ==
    /\ Asked("derive")
    /\ answer' = IF AcceptsDerive(question.of)
                 THEN <<TRUE, BackendParameter(question.of),
                        [trait \in {"FromGuest", "ToGuest"} |->
                            [demands |-> DerivedDemands(question.of, trait), impls |-> DerivedImpls(question.of, trait),
                             uses |-> DerivedUses(question.of, trait)]]>>
                 ELSE Rejection
    /\ UNCHANGED question

Resolve ==
    ResolverNext /\ UNCHANGED <<question, answer, iteratorVars, viewsVars, callableVars, bundleVars, exceptionVars>>

Iterate ==
    IteratorNext /\ UNCHANGED <<question, answer, resolverVars, viewsVars, callableVars, bundleVars, exceptionVars>>

View ==
    ViewsNext /\ UNCHANGED <<question, answer, resolverVars, iteratorVars, callableVars, bundleVars, exceptionVars>>

Call ==
    CallableNext /\ UNCHANGED <<question, answer, resolverVars, iteratorVars, viewsVars, bundleVars, exceptionVars>>

Bundle ==
    /\ question.ask = "bundle" /\ BundleNext
    /\ UNCHANGED <<question, answer, resolverVars, iteratorVars, viewsVars, callableVars, exceptionVars>>

Error ==
    /\ question.ask = "error" /\ ExceptionNext
    /\ UNCHANGED <<question, answer, resolverVars, iteratorVars, viewsVars, callableVars, bundleVars>>

Next ==
    \/ (Write \/ Serialized \/ Read \/ Deserialized \/ Module \/ Class \/ Namespace \/ Facade \/ Derive)
         /\ UNCHANGED <<resolverVars, iteratorVars, viewsVars, callableVars, bundleVars, exceptionVars>>
    \/ Resolve \/ Iterate \/ View \/ Call \/ Bundle \/ Error

Spec == Init /\ [][Next]_vars

-----------------------------------------------------------------------------
(* The reference: which values survive, and which value stands for which. *)

RECURSIVE Vanishes(_, _), Survives(_, _)

\* A value that is written as undefined or null.
Vanishes(T, v) ==
    CASE Is(T, {"unit"}) -> TRUE
      [] Is(T, {"option"}) -> Is(v, {"none"}) \/ Vanishes(T.option, v.some)
      [] Is(T, {"nullish"}) -> ~Is(v, {"some"}) \/ Vanishes(T.nullish, v.some)
      [] Is(T, {"union"}) -> Vanishes(T.union[v.variant], v.of)
      [] Is(T, {"handle"}) -> Is(v.handle.of, Nullish)
      [] OTHER -> FALSE

SurviveAll(Ts, vs) == \A i \in DOMAIN vs : Survives(Ts[i], vs[i])

\* Some variant before the i-th reads what the i-th writes.
Shadowed(T, v) ==
    \E j \in 1..(v.variant - 1) :
        Succeeds(FromGuest(T.union[j], ToGuest(T.union[v.variant], v.of).ok))

\* A name that an object's assignment makes a property of it.
Assignable(name) == name \notin DOMAIN Inherited

\* A field whose value a setter of Object.prototype takes is read as the missing one it is.
FieldSurvives(field, v) ==
    IF Assignable(field.name) THEN Survives(field.type, v)
    ELSE Inherited[field.name] = "takes" /\ Is(field.type, {"option"}) /\ Is(v, {"none"})

\* Everything survives but integers a number cannot hold, an option of nothing, the keys
\* of a map that are no strings, what is under a name that Object.prototype has a setter
\* for or keeps read-only, handles of another guest, and a variant that an earlier one
\* shadows.
Survives(T, v) ==
    LET form == Kind(T) IN
    CASE form = "int" -> -SafeInteger <= v.int /\ v.int <= SafeInteger
      [] form = "option" -> Is(v, {"none"}) \/ (Survives(T.option, v.some) /\ ~Vanishes(T.option, v.some))
      [] form = "nullish" -> ~Is(v, {"some"}) \/ (Survives(T.nullish, v.some) /\ ~Vanishes(T.nullish, v.some))
      [] form = "vec" -> \A i \in DOMAIN v.list : Survives(T.vec, v.list[i])
      [] form = "fixed" -> \A i \in DOMAIN v.list : Survives(T.fixed.of, v.list[i])
      [] form = "tuple" -> SurviveAll(T.tuple, v.list)
      [] form = "struct" -> \A i \in DOMAIN T.struct : FieldSurvives(T.struct[i], v.fields[i])
      [] form = "map" -> v.pairs = {} \/
            (Is(T.map.key, {"string", "char"}) /\ \A p \in v.pairs : Assignable(p[1].string) /\ Survives(T.map.value, p[2]))
      [] form = "hashset" -> \A x \in v.members : Survives(T.hashset, x)
      [] form = "item" -> Is(v, {"none"}) \/ Survives(T.item, v.some)
      [] form = "handle" -> v.handle.home
      [] form = "union" -> Survives(T.union[v.variant], v.of) /\ ~Shadowed(T, v)
      [] form = "enum" ->
            LET of == T.enum[v.variant].of
            IN  Is(of, {"unit"}) \/
                (Assignable(T.enum[v.variant].name) /\ Survives(IF Is(of, {"newtype"}) THEN of.newtype ELSE of, v.of))
      [] OTHER -> TRUE

RECURSIVE Throws(_)
\* Guest code that is asked for g, or for something it holds, throws.
Throws(g) ==
    CASE Is(g, {"throws"}) -> TRUE
      [] Is(g, {"object"}) -> \E name \in DOMAIN g.object : Throws(g.object[name])
      [] Is(g, {"array"}) -> Throws(g.array.length) \/ \E i \in DOMAIN g.array.items : Throws(g.array.items[i])
      [] Is(g, {"set"}) -> Is(g.set, {"yields"}) /\ \E i \in DOMAIN g.set.yields : Throws(g.set.yields[i])
      [] Is(g, Buffers) -> g[Kind(g)] = [throws |-> 0]
      [] OTHER -> FALSE

RECURSIVE MeetsThrow(_, _)
\* What has to be read of g before any of it can be converted to T throws.
MeetsThrow(T, g) ==
    LET form == Kind(T) IN
    CASE form \in {"option", "nullish"} -> MeetsThrow(T[form], g)
      [] form = "union" -> MeetsThrow(T.union[1], g)
      [] form \in {"vec", "fixed", "tuple"} /\ Is(g, {"array"}) ->
            \/ Is(g.array.length, {"throws"})
            \/ \E i \in DOMAIN g.array.items : Is(g.array.items[i], {"throws"}) /\
                 \E count \in i..Widths["usize"].most : g.array.length \in {[number |-> 2 * count], [bigint |-> count]}
      [] form \in {"map", "struct", "enum"} /\ Is(g, {"object"}) ->
            \E name \in DOMAIN g.object : Is(g.object[name], {"throws"})
      [] form = "hashset" /\ Is(g, {"set"}) ->
            Is(g.set, {"yields"}) /\ \E i \in DOMAIN g.set.yields : Is(g.set.yields[i], {"throws"})
      [] form \in {"bytes", "slice"} -> Is(g, Buffers) /\ Throws(g)
      [] form = "item" -> Is(Property(g, "done"), {"throws"})
      [] OTHER -> FALSE

RECURSIVE Stands(_, _, _)

\* An array is as long as it says.
StandAll(Ts, vs, g) ==
    /\ Is(g, {"array"}) /\ Len(vs) = Len(Ts)
    /\ g.array.length \in {[number |-> 2 * Len(vs)], [bigint |-> Len(vs)]}
    /\ \A i \in DOMAIN vs : Stands(Ts[i], vs[i], ItemAt(g.array, i))

Repeated(T, vs) == [i \in DOMAIN vs |-> T]

\* The value v of type T is what the value g of a guest says.
Stands(T, v, g) ==
    LET form == Kind(T) IN
    ~Is(g, {"throws"}) /\
    CASE form = "unit" -> Is(g, {"undefined"})
      [] form = "bool" -> g = [boolean |-> v.bool]
      [] form = "int" -> Within("i64", v.int) /\ g \in {[bigint |-> v.int], [number |-> 2 * v.int]}
      [] form = "float" -> g = [number |-> v.float]
      [] form \in {"string", "char"} -> g = v
      [] form = "option" -> IF Is(v, {"none"}) THEN Is(g, Nullish) ELSE ~Is(g, Nullish) /\ Stands(T.option, v.some, g)
      [] form = "nullish" -> IF Is(v, {"some"}) THEN ~Is(g, Nullish) /\ Stands(T.nullish, v.some, g) ELSE g = v
      [] form = "vec" -> StandAll(Repeated(T.vec, v.list), v.list, g)
      [] form = "fixed" -> Len(v.list) = T.fixed.count /\ StandAll(Repeated(T.fixed.of, v.list), v.list, g)
      [] form = "tuple" -> StandAll(T.tuple, v.list, g)
      [] form = "map" ->
            /\ Is(g, {"object"})
            /\ Cardinality(v.pairs) = Cardinality(DOMAIN g.object)
            /\ \A name \in DOMAIN g.object : \E p \in v.pairs :
                 name # SymbolKey /\ Stands(T.map.key, p[1], StringOf(name)) /\ Stands(T.map.value, p[2], g.object[name])
      [] form = "hashset" ->
            /\ Is(g, {"set"}) /\ Is(g.set, {"members", "yields"})
            /\ LET shown == IF Is(g.set, {"members"}) THEN g.set.members ELSE ToSet(g.set.yields)
               IN  /\ \A x \in v.members : \E y \in shown : Stands(T.hashset, x, y)
                   /\ \A y \in shown : \E x \in v.members : Stands(T.hashset, x, y)
      [] form = "bytes" -> Is(g, Buffers) /\ ~Throws(g) /\ g[Kind(g)].bytes = v.bytes
      [] form = "slice" -> Is(g, Buffers) /\ ~Throws(g) /\ g[Kind(g)].bytes = v.bytes /\ Aligned(T.slice, g[Kind(g)])
      [] form = "item" ->
            /\ ~Is(g, Primitives) /\ ~Is(Property(g, "done"), {"throws"})
            /\ Is(v, {"none"}) = Truthy(Property(g, "done"))
            /\ Is(v, {"some"}) => Stands(T.item, v.some, Property(g, "value"))
      [] form = "handle" ->
            /\ v.handle = [of |-> g, home |-> TRUE]
            /\ CASE T.handle.is = "value" -> TRUE
                 [] T.handle.is = "object" -> Kind(g) \in {"array", "object", "set", "function", "promise"} \cup Buffers
                 [] T.handle.is = "class" -> Kind(g) = "function"
                 [] T.handle.is = "module" -> Is(g, {"object"}) /\ Property(g, SymbolKey) = [string |-> "Module"]
                 [] T.handle.is = "typed array" -> Is(g, {"typed array"}) /\ g[Kind(g)].of = T.handle.of
                 [] OTHER -> Kind(g) = T.handle.is
      [] form = "union" ->
            /\ Stands(T.union[v.variant], v.of, g)
            /\ \A j \in 1..(v.variant - 1) : \A w \in Values(T.union[j]) : ~Stands(T.union[j], w, g)


-----------------------------------------------------------------------------
(* Properties. *)

\* What is written for a guest is read back as it was, exactly if it is of the values
\* that survive: nothing else comes back, changed or not (ToGuest, FromGuest, serde.rs).
RoundTrips ==
    question.ask \in {"write", "serialize"} /\ answer # Unanswered =>
        (answer[2] = Ok(question.of) <=> Survives(question.type, question.of))

\* A conversion reads a value that stands for what the guest handed over, and fails
\* when there is none; what guest code throws on the way, in a getter, a proxy or the
\* iterator of a set, is what the conversion ends with and no mismatch, even where one
\* comes first; serde's conversions never read another value than the library's.
ReadsAgree ==
    /\ question.ask \in {"read", "deserialize"} /\ answer # Unanswered =>
         (MeetsThrow(question.type, question.of) => answer[1] = Thrown)
    /\ question.ask = "read" /\ answer # Unanswered =>
         /\ Succeeds(answer[1]) => Stands(question.type, answer[1].ok, question.of)
         /\ Succeeds(answer[1]) /\ Is(question.type, {"union"}) =>
              \A j \in 1..(answer[1].ok.variant - 1) :
                 ~Is(FromGuest(question.type.union[j], question.of), {"thrown"})
         /\ ~Throws(question.of) /\ (\E v \in Values(question.type) : Stands(question.type, v, question.of)) =>
              Succeeds(answer[1])
    /\ question.ask = "deserialize" /\ answer # Unanswered =>
         (Succeeds(answer[1]) /\ Succeeds(answer[2]) => answer[1] = answer[2])

-----------------------------------------------------------------------------
(* What a block is to be. *)

\* Each function of a module finds its state if all ask for the one there is, and each
\* operation the bounds it needs; of a module that exports constants alone the bound
\* is too weak, see the README.
SoundModule(block, declared) ==
    LET factories == SelectSeq(Exported(block), LAMBDA item : ItemRole(item) = "state")
        asked == IF factories = <<>> THEN "Self" ELSE factories[1].state
    IN  /\ declared.requires \subseteq {asked} => Realises(declared)
        /\ \A i \in DOMAIN declared.members :
             \/ Needs[declared.members[i][2]] \subseteq Implied(declared.bounds)
             \/ \A j \in DOMAIN declared.members : declared.members[j][2] = "value"

Hooked(items) == UNION {ToSet(items[i].declares) : i \in {j \in DOMAIN items : ItemRole(items[j]) = "statics"}}

\* The guest finds every member of a class under its key, but for the two names that link
\* the class with its prototype and the statics that a hook declares as well.
SoundClass(block, declared, prototype, class) ==
    LET items == Exported(block)
        KeyOf(item) == MemberKey(item, block.rename)
    IN  /\ (Name("prototype") \notin {declared.statics[i][1] : i \in DOMAIN declared.statics}) => class # <<>>
        /\ prototype # <<>>
        /\ \A i \in DOMAIN items :
             LET item == items[i] IN
             CASE ItemRole(item) \in {"method", "async_method", "get"} ->
                    KeyOf(item) = Name("constructor") \/ prototype[1][KeyOf(item)].get = <<item.ident>>
               [] ItemRole(item) = "set" -> KeyOf(item) = Name("constructor") \/ prototype[1][KeyOf(item)].set = <<item.ident>>
               [] ItemRole(item) \in {"static_method", "constant"} ->
                    \/ class = <<>> \/ KeyOf(item) \in {Name(name) : name \in Hooked(items) \cup {"prototype"}}
                    \/ class[1][KeyOf(item)].get = <<item.ident>>
               [] OTHER -> TRUE
        /\ (\E i \in DOMAIN items : ClassPromises(items[i])) => Needs["function_async"] \subseteq Implied(declared.bounds)

\* The backend of what is generated is called like nothing in scope, and what the exports
\* demand of an introduced one is demanded where they are called.
SoundBackend(block, backend, bounds) ==
    /\ backend[1] \in {"synthesized", "introduced"} => ~Occupied(block.generics, backend[2])
    /\ backend[1] = "synthesized" => \A i \in DOMAIN block.items : ~Occupied(block.items[i].generics, backend[2])
    /\ backend[1] = "introduced" => \A i \in DOMAIN Exported(block) : Exported(block)[i].demands \subseteq bounds

\* Of a key the last value declared stands, or the last getter and setter after it.
LastOf(entries, key, part) ==
    LET of == {i \in DOMAIN entries : entries[i].key = key}
        Stays(i, j) == j <= i \/ {entries[i].property.is, entries[j].property.is} = {"accessor"}
        found == {i \in of : entries[i].property[part] # <<>> /\ \A j \in of : Stays(i, j)}
    IN  IF found = {} THEN <<>> ELSE entries[Max(found)].property[part]

SoundNamespace(entries, object) ==
    /\ object # <<>>
    /\ \A i \in DOMAIN entries : \A part \in {"get", "set"} :
         object[1][entries[i].key][part] = LastOf(entries, entries[i].key, part)

\* A derived conversion finds what it calls: it is demanded, or implemented beside it for
\* types that meet what is demanded.
SoundDerive(derived) ==
    derived.uses \subseteq
        derived.demands \cup {impl.of : impl \in {i \in derived.impls : i.where \subseteq derived.demands}}

\* What a macro accepts it expands to what it says: members are found under their keys,
\* states and bounds suffice, names of what is generated clash with none
\* (HostModuleDefinition, HostClassDefinition, BackendParameter, NamespaceDeclaration,
\* GuestFacadeSyntax, GuestDerive).
ExpansionsSound ==
    answer # Unanswered =>
        CASE question.ask = "module" ->
                answer[1] => SoundModule(question.of, answer[2]) /\ SoundBackend(question.of, answer[3], answer[2].bounds)
          [] question.ask = "class" ->
                answer[1] => /\ SoundClass(question.of, answer[2], answer[4], answer[5])
                             /\ SoundBackend(question.of, answer[3], answer[2].bounds)
          [] question.ask = "namespace" -> SoundNamespace(question.of, answer[1])
          [] question.ask = "facade" ->
                answer[1] => Len(question.of.members) = Cardinality(ToSet(question.of.members) \ ToSet(Accessors(question.of.kind)))
          [] question.ask = "derive" ->
                answer[1] => /\ SoundBackend(question.of, answer[2], {})
                             /\ \A trait \in DOMAIN answer[3] : SoundDerive(answer[3][trait])
          [] OTHER -> TRUE
===============================================================================
