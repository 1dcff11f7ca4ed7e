----------------------------- MODULE Declarations -----------------------------
(***************************************************************************)
(* What the attribute macros make of an impl block (host/module.rs,        *)
(* host/class.rs, backend.rs of the macros): which blocks they accept, the *)
(* declaration they build of one, and the properties that realising the    *)
(* declaration defines (property.rs, namespace.rs, class.rs).  A block is  *)
(* [rename, items, generics, option, classes, exceptions]; an item of it   *)
(* [is, roles, default, name, symbol, ident, callable, generics, demands,  *)
(* state, declares], of which a function has all.                          *)
(***************************************************************************)
EXTENDS Callables, TLC

CONSTANTS Renamed       \* rename rule -> ident -> name

-----------------------------------------------------------------------------
(* Items. *)

\* HelperAttributes::take: an item without helpers is none of the block's exports.
Marked(item) == item.roles # {} \/ item.default \/ item.name # <<>> \/ item.symbol # <<>>

Exported(block) == SelectSeq(block.items, Marked)

\* Exactly one role, or the item is refused.
ItemRole(item) == CHOOSE role \in item.roles : TRUE

\* Naming::member.
MemberName(item, rename) ==
    IF item.name # <<>> THEN item.name[1] ELSE IF rename = <<>> THEN item.ident ELSE Renamed[rename[1]][item.ident]

ModuleHooks == {"state", "init", "build"}

ExportName(item, rename) == IF item.default THEN "default" ELSE MemberName(item, rename)

AcceptsModuleItem(item) ==
    /\ Cardinality(item.roles) = 1
    /\ item.default => ItemRole(item) \notin ModuleHooks /\ item.name = <<>>
    /\ (item.is = "const") = (ItemRole(item) = "constant")
    /\ item.is = "fn" =>
         /\ item.callable.receiver # "&mut self" /\ AcceptsCallable(item.callable)
         /\ ValidAsync(item.callable, TRUE)
         /\ CASE ItemRole(item) \in {"state", "init"} -> ValidFactory(item.callable)
              [] ItemRole(item) = "build" -> ValidBuildHook(item.callable)
              [] ItemRole(item) = "namespace" -> ValidNamespaceFactory(item.callable)
              [] ItemRole(item) = "async_function" -> ~item.callable.async
              [] OTHER -> TRUE

WellKnown == {"iterator", "asyncIterator", "toPrimitive", "toStringTag", "hasInstance"}

Name(name) == <<"name", name>>

MemberKey(item, rename) ==
    IF item.symbol # <<>> THEN <<"symbol", item.symbol[1]>> ELSE Name(MemberName(item, rename))

ValidKey(item) == item.symbol # <<>> => item.name = <<>> /\ item.symbol[1] \in WellKnown

AcceptsHook(callable) ==
    /\ Plain(callable) /\ callable.ordinary
    /\ Len(callable.parameters) = 1
    /\ callable.parameters[1].type = "&mut T" /\ callable.parameters[1].roles = {}

AcceptsClassItem(item) ==
    /\ Cardinality(item.roles) = 1
    /\ (item.is = "const") = (ItemRole(item) = "constant")
    /\ IF ItemRole(item) = "statics" THEN AcceptsHook(item.callable)
       ELSE /\ ValidKey(item)
            /\ item.is = "fn" =>
                 /\ AcceptsCallable(item.callable) /\ ValidAsync(item.callable, FALSE)
                 /\ CASE ItemRole(item) = "constructor" -> Plain(item.callable)
                      [] ItemRole(item) = "get" -> ValidGetter(item.callable)
                      [] ItemRole(item) = "set" -> ValidSetter(item.callable)
                      [] ItemRole(item) = "static_method" -> ~HasReceiver(item.callable)
                      [] OTHER -> ValidInstance(item.callable) /\ ~item.callable.async

AtMostOne(items, role) == Cardinality({i \in DOMAIN items : ItemRole(items[i]) = role}) <= 1

Static == {"static_method", "constant", "statics"}

\* A slip: only what is registered in the same way is a conflict.
ConflictsAlike(one, other) == one = other

\* MemberRegistry::insert: what is registered as "get" and "set" goes together.
Conflicts(one, other) == one = other \/ {one, other} # {"get", "set"}

Registration(item) == IF ItemRole(item) \in {"get", "set"} THEN ItemRole(item) ELSE "data"

\* Of the members with a key, no two in the same place conflict.
KeysAreFree(items, rename) ==
    \A i, j \in {k \in DOMAIN items : ItemRole(items[k]) \notin {"constructor", "statics"}} :
        /\ i < j /\ MemberKey(items[i], rename) = MemberKey(items[j], rename)
        /\ (ItemRole(items[i]) \in Static) = (ItemRole(items[j]) \in Static)
        => ~Conflicts(Registration(items[i]), Registration(items[j]))

-----------------------------------------------------------------------------
(* The type that stands for the backend in what is generated. *)

Occupied(generics, ident) == \E parameter \in generics : parameter.ident = ident

TypeParameters(generics) == {parameter \in generics : parameter.is = "type"}

Candidate(i) ==
    CASE i = 0 -> "B" [] i = 1 -> "__GuestjsBackend" [] OTHER -> "__GuestjsBackend" \o ToString(i - 1)

\* Of every item, with an attribute or without one: a name more to avoid does no harm.
Scopes(block) == {block.generics} \cup {block.items[i].generics : i \in DOMAIN block.items}

\* The first candidate that nothing in the block is called.
Synthesized(block) ==
    LET Free(i) == \A generics \in Scopes(block) : ~Occupied(generics, Candidate(i))
    IN  Candidate(Min({i \in 0..Cardinality(UNION Scopes(block)) : Free(i)}))

BackendParameter(block) ==
    CASE block.option = <<>> ->
            IF \E parameter \in TypeParameters(block.generics) : parameter.backend THEN <<Rejected>>
            ELSE <<"synthesized", Synthesized(block)>>
      [] block.option # <<>> /\ block.option[1] = "named" ->
            IF Occupied(TypeParameters(block.generics), block.option[2]) THEN <<"declared", block.option[2]>>
            ELSE IF Occupied(block.generics, block.option[2]) THEN <<Rejected>>
            ELSE <<"introduced", block.option[2]>>
      [] OTHER -> <<"concrete", block.option[2]>>

Introduced(block) == BackendParameter(block)[1] = "introduced"

\* BackendBounds::absorb, HostSyntax::rewrite: what the exports demand of an introduced
\* backend the definition demands too.
Absorbed(block, items) ==
    IF Introduced(block) THEN UNION {items[i].demands : i \in DOMAIN items} ELSE {}

Bounds(block, items, base, promises) ==
    base \cup Absorbed(block, items) \cup (IF promises THEN {"Promises", "Exceptions"} ELSE {})

-----------------------------------------------------------------------------
(* A module. *)

AcceptsModule(block) ==
    LET items == Exported(block)
    IN  /\ \A i \in DOMAIN items : AcceptsModuleItem(items[i])
        /\ \A role \in ModuleHooks : AtMostOne(items, role)
        /\ \A i, j \in {k \in DOMAIN items : ItemRole(items[k]) \notin ModuleHooks} :
             i # j => ExportName(items[i], block.rename) # ExportName(items[j], block.rename)
        /\ BackendParameter(block) # <<Rejected>>

ModulePromises(item) == ItemRole(item) = "async_function" \/ (ItemRole(item) = "function" /\ item.callable.async)

Operation(item) ==
    CASE ItemRole(item) = "constant" -> "value"
      [] ItemRole(item) = "namespace" -> "namespace"
      [] OTHER -> IF ModulePromises(item) THEN "function_async" ELSE "function"

\* The state that an item asks for, &self being the state of its own type.
StatesOf(callable) ==
    (IF Takes(callable, {"state"}) THEN {"T"} ELSE {}) \cup (IF HasReceiver(callable) THEN {"Self"} ELSE {})

\* The state of a factory, the default of the type if some &self needs one, or none.
ProvidedState(items) ==
    LET factories == SelectSeq(items, LAMBDA item : ItemRole(item) = "state")
    IN  IF factories # <<>> THEN {factories[1].state}
        ELSE IF \E i \in DOMAIN items : items[i].is = "fn" /\ HasReceiver(items[i].callable) THEN {"Self"}
        ELSE {}

\* HostModuleDefinition::render, and what the builder keeps.
ModuleDeclared(block) ==
    LET items == Exported(block)
        members == SelectSeq(items, LAMBDA item : ItemRole(item) \notin ModuleHooks)
        hooks == SelectSeq(items, LAMBDA item : ItemRole(item) = "build")
        Listed(names, as) == [i \in DOMAIN names |-> <<names[i], as>>]
    IN  [state |-> ProvidedState(items),
         requires |-> UNION {StatesOf(members[i].callable) : i \in {j \in DOMAIN members : members[j].is = "fn"}},
         initialized |-> \E i \in DOMAIN items : ItemRole(items[i]) = "init",
         members |-> [i \in DOMAIN members |-> <<ExportName(members[i], block.rename), Operation(members[i])>>]
                     \o Listed(block.exceptions, "exception") \o Listed(block.classes, "class")
                     \o FlattenSeq([i \in DOMAIN hooks |-> Listed(hooks[i].declares, "value")]),
         bounds |-> Bounds(block, items,
             {"Backend"}
             \cup (IF \E i \in DOMAIN members : members[i].is = "fn" THEN {"Callables"} ELSE {})
             \cup (IF block.classes \o block.exceptions # <<>> THEN {"Classes", "Exceptions"} ELSE {}),
             \E i \in DOMAIN items : ModulePromises(items[i]))]

\* What each operation of a builder asks of a backend, and what asking implies.
Needs ==
    [value |-> {"Values"}, function |-> {"Callables"}, namespace |-> {"Callables"},
     function_async |-> {"Callables", "Promises", "Exceptions"},
     class |-> {"Classes", "Exceptions"}, exception |-> {"Classes", "Exceptions"}]

Implied(bounds) ==
    bounds \cup (IF "Classes" \in bounds THEN {"Callables"} ELSE {})
           \cup (IF bounds \cap {"Classes", "Callables", "Promises", "Exceptions"} # {} THEN {"Values"} ELSE {})

\* ModuleDeclaration::exports fails before it makes any, if a state is required of another type.
Realises(declared) == declared.requires \subseteq declared.state

-----------------------------------------------------------------------------
(* Properties of a guest object, and how they are declared. *)

ValueProperty(of, fixed) == [is |-> "value", get |-> <<of>>, set |-> <<>>, fixed |-> fixed]
Getter(of) == [is |-> "accessor", get |-> <<of>>, set |-> <<>>, fixed |-> FALSE]
Setter(of) == [is |-> "accessor", get |-> <<>>, set |-> <<of>>, fixed |-> FALSE]

Merged(earlier, later) ==
    IF earlier.is = "accessor" /\ later.is = "accessor"
    THEN [later EXCEPT !.get = IF @ # <<>> THEN @ ELSE earlier.get, !.set = IF @ # <<>> THEN @ ELSE earlier.set]
    ELSE later

\* NamespaceDeclaration::property.
Declare(namespace, key, property) ==
    LET same == SelectInSeq(namespace, LAMBDA entry : entry[1] = key)
    IN  IF same > 0 THEN [namespace EXCEPT ![same][2] = Merged(@, property)]
        ELSE Append(namespace, <<key, property>>)

\* Of an object that is being made: what it has, or nothing if that failed.
Define(object, key, property) ==
    IF object = <<>> \/ (key \in DOMAIN object[1] /\ object[1][key].fixed) THEN <<>>
    ELSE <<(key :> property) @@ object[1]>>

Install(namespace, object) == FoldLeft(LAMBDA o, entry : Define(o, entry[1], entry[2]), object, namespace)

NoProperties == <<[key \in {} |-> 0]>>

\* NamespaceDeclaration::realise.
RealisedNamespace(namespace, name) ==
    Install(namespace, Define(NoProperties, <<"symbol", "toStringTag">>, ValueProperty(name, FALSE)))

-----------------------------------------------------------------------------
(* A class. *)

AcceptsClass(block) ==
    LET items == Exported(block)
    IN  /\ \A i \in DOMAIN items : AcceptsClassItem(items[i])
        /\ AtMostOne(items, "constructor")
        /\ KeysAreFree(items, block.rename)
        /\ BackendParameter(block) # <<Rejected>>

ClassPromises(item) == ItemRole(item) = "async_method" \/ (item.is = "fn" /\ item.callable.async)

\* HostClassDefinition::render: each member declares what it exports.
ClassMember(declared, item, rename) ==
    LET key == MemberKey(item, rename)
        OnPrototype(property) == [declared EXCEPT !.prototype = Declare(@, key, property)]
        OnClass(property) == [declared EXCEPT !.statics = Declare(@, key, property)]
    IN  CASE ItemRole(item) = "constructor" -> [declared EXCEPT !.constructor = <<item.ident>>]
          [] ItemRole(item) \in {"method", "async_method"} -> OnPrototype(ValueProperty(item.ident, FALSE))
          [] ItemRole(item) = "get" -> OnPrototype(Getter(item.ident))
          [] ItemRole(item) = "set" -> OnPrototype(Setter(item.ident))
          [] ItemRole(item) = "static_method" -> OnClass(ValueProperty(item.ident, FALSE))
          [] ItemRole(item) = "constant" -> OnClass(ValueProperty(item.ident, TRUE))
          [] ItemRole(item) = "statics" ->
                [declared EXCEPT !.statics =
                    FoldLeft(LAMBDA n, name : Declare(n, Name(name), ValueProperty(item.ident, FALSE)), @, item.declares)]

ClassDeclared(block) ==
    LET items == Exported(block)
    IN  FoldLeft(LAMBDA declared, item : ClassMember(declared, item, block.rename),
            [constructor |-> <<>>, prototype |-> <<>>, statics |-> <<>>,
             bounds |-> Bounds(block, items, {"Classes", "Exceptions"}, \E i \in DOMAIN items : ClassPromises(items[i])),
             requires |-> UNION {StatesOf(items[i].callable) \ {"Self"} : i \in {j \in DOMAIN items : items[j].is = "fn"}}],
            items)

\* ClassDeclaration::realised, RealisedClass::link: the class and its prototype name each
\* other, after everything else.
RealisedPrototype(declared) ==
    Define(Install(declared.prototype, NoProperties), Name("constructor"), ValueProperty("the class", FALSE))

RealisedClass(declared) ==
    Define(Install(declared.statics, NoProperties), Name("prototype"), ValueProperty("the prototype", TRUE))

-----------------------------------------------------------------------------
(* A facade of a class or module of the guest. *)

Accessors(kind) == IF kind = "class" THEN <<"new", "instance", "into_instance">> ELSE <<"new", "module", "into_module">>

\* GuestFacadeSyntax::parse, FacadeOptions::resolve.
AcceptsFacade(facade) ==
    /\ IsInjective(Accessors(facade.kind) \o facade.members)
    /\ facade.payload => facade.kind = "class"

-----------------------------------------------------------------------------
(* The conversions derived for a type: [is, untagged, variants, generics,  *)
(* option, items], a variant being [unnamed, fields].                      *)

\* UnionVariant::new: exactly one unnamed field.
AcceptsVariant(variant) == variant.unnamed /\ Len(variant.fields) = 1

AcceptsUnion(input) ==
    /\ input.is = "enum" /\ input.variants # <<>>
    /\ \A i \in DOMAIN input.variants : AcceptsVariant(input.variants[i])

AcceptsDerive(input) ==
    /\ input.is # "union"
    /\ BackendParameter(input) # <<Rejected>>
    /\ input.untagged => AcceptsUnion(input)

FieldTypes(input) == {input.variants[i].fields[1] : i \in DOMAIN input.variants}

\* What the where clauses of an implementation say: <<type, trait>>.
DerivedDemands(input, trait) ==
    IF ~input.untagged THEN {<<"Serde<Self>", trait>>}
    ELSE FieldTypes(input) \X (IF trait = "FromGuest" THEN {trait, "Describe"} ELSE {trait})

\* A union describes itself where it is read, if its fields do.
DescribeDemands(input) == FieldTypes(input) \X {"Describe"}

DerivedImpls(input, trait) ==
    IF input.untagged /\ trait = "FromGuest" THEN {[of |-> <<"Self", "Describe">>, where |-> DescribeDemands(input)]} ELSE {}

\* The conversions its body makes, variant by variant, and the mismatch after the last.
DerivedUses(input, trait) ==
    IF ~input.untagged THEN {<<"Serde<Self>", trait>>}
    ELSE (FieldTypes(input) \X {trait}) \cup (IF trait = "FromGuest" THEN {<<"Self", "Describe">>} ELSE {})
===============================================================================
