------------------------------ MODULE Imports ------------------------------
(***************************************************************************)
(* Names of modules: what a runtime, a guest and the bundles mounted later *)
(* bind, how an import is located among the three, and the modules the     *)
(* engine keeps for a guest under the names they were located at.          *)
(*                                                                         *)
(* A name is the sequence of its segments.  Sources holds host and native  *)
(* modules under their names, the aliases of native modules, and bundles   *)
(* under the first segment of their modules' names.                        *)
(***************************************************************************)
EXTENDS Naturals, Sequences, FiniteSets

CONSTANTS
    Runtime,    \* the runtime
    Guests,     \* its guests
    Segments,   \* what names are made of
    Names,      \* the names that are bound, denied or imported
    Hosts,      \* host modules
    Natives,    \* native modules
    NameOf,     \* module -> its name
    AliasesOf,  \* module -> its aliases
    Bundles,    \* bundles
    Provides,   \* bundle -> the names of its modules
    MaxDenied,  \* bound: names an owner denies
    MaxDepth    \* bound: nested realisations of host modules in one guest

Modules == Hosts \cup Natives
Owners == {Runtime} \cup Guests

ASSUME OwnersAssumption == Runtime \notin Guests
ASSUME SegmentsAssumption == "index" \in Segments
ASSUME NamesAssumption == Names \subseteq Seq(Segments) \ {<<>>}
ASSUME ModulesAssumption ==
    /\ Hosts \cap Natives = {}
    /\ NameOf \in [Modules -> Names]
    /\ AliasesOf \in [Modules -> SUBSET Names]
    /\ \A m \in Modules : NameOf[m] \notin AliasesOf[m]
    /\ \A m \in Hosts : AliasesOf[m] = {}
ASSUME BundlesAssumption == Provides \in [Bundles -> (SUBSET Names) \ {{}}]
ASSUME BoundsAssumption == MaxDenied \in Nat /\ MaxDepth \in Nat

NoName == <<>>
Unbound == <<>>
ModuleSources == {<<"host", m>> : m \in Hosts} \cup {<<"native", m>> : m \in Natives}
                     \cup {<<"bundle", b>> : b \in Bundles}

VARIABLES
    phase,      \* owner -> "building", "initialising", "built" or "failed"
    sources,    \* owner -> the Sources of its catalog
    denied,     \* owner -> the names its catalog denies
    mounted,    \* guest -> the Sources of the bundles mounted since it was built
    realising,  \* guest -> the host modules being realised, outermost first
    instances   \* guest -> the engine's modules: name -> what it was made from

vars == <<phase, sources, denied, mounted, realising, instances>>

-----------------------------------------------------------------------------
(* Sources. *)

Empty == [x \in {} |-> NoName]
NoSources == [modules |-> Empty, aliases |-> Empty, bundles |-> Empty]

\* The map f with value v for every key of D, as insert and extend leave it.
Put(f, D, v) == [x \in DOMAIN f \cup D |-> IF x \in D THEN v ELSE f[x]]

Root(n) == Head(n)
Index(n) == Append(n, "index")
IsWithin(n, prefix) == Len(prefix) <= Len(n) /\ SubSeq(n, 1, Len(prefix)) = prefix
Roots(b) == {Root(n) : n \in Provides[b]}

BoundNames(S) == DOMAIN S.modules \cup DOMAIN S.aliases

\* The name cannot be bound.
Claimed(S, n) == n \in BoundNames(S) \/ Root(n) \in DOMAIN S.bundles

\* A slip: the aliases are not claimed.
InsertableByName(S, m) == ~Claimed(S, NameOf[m])

Insertable(S, m) == \A n \in {NameOf[m]} \cup AliasesOf[m] : ~Claimed(S, n)

SourceOfModule(m) == IF m \in Hosts THEN <<"host", m>> ELSE <<"native", m>>

InsertModule(S, m) ==
    [modules |-> Put(S.modules, {NameOf[m]}, SourceOfModule(m)),
     aliases |-> Put(S.aliases, AliasesOf[m], NameOf[m]),
     bundles |-> S.bundles]

\* A slip: an alias below the root is overlooked.
CheckBundleByModules(S, b) == \A r \in Roots(b) :
    /\ r \in DOMAIN S.bundles => S.bundles[r] = b
    /\ r \notin DOMAIN S.bundles => \A n \in DOMAIN S.modules : Root(n) # r

\* A name lies within a root when the root is its first segment.
CheckBundle(S, b) == \A r \in Roots(b) :
    /\ r \in DOMAIN S.bundles => S.bundles[r] = b
    /\ r \notin DOMAIN S.bundles => \A n \in BoundNames(S) : Root(n) # r

InsertBundle(S, b) ==
    [modules |-> S.modules, aliases |-> S.aliases, bundles |-> Put(S.bundles, Roots(b), b)]

InBundle(S, n) == Root(n) \in DOMAIN S.bundles /\ n \in Provides[S.bundles[Root(n)]]

Canonical(S, n) ==
    IF n \in DOMAIN S.modules \/ InBundle(S, n) THEN n
    ELSE IF n \in DOMAIN S.aliases THEN S.aliases[n]
    ELSE NoName

Find(S, n) ==
    IF n \in DOMAIN S.modules THEN S.modules[n]
    ELSE IF InBundle(S, n) THEN <<"bundle", S.bundles[Root(n)]>>
    ELSE Unbound

-----------------------------------------------------------------------------
(* The bindings of a guest. *)

\* What was mounted goes before the guest's catalog, and that before the runtime's.
First(inMounted, inGuest, inRuntime) ==
    IF inMounted # <<>> THEN inMounted ELSE IF inGuest # <<>> THEN inGuest ELSE inRuntime

Source(g, n) ==
    First(Find(mounted[g], n), Find(sources[g], n), Find(sources[Runtime], n))

FirstCanonical(g, n) ==
    First(Canonical(mounted[g], n), Canonical(sources[g], n), Canonical(sources[Runtime], n))

IsDenied(g, n) == \E prefix \in denied[g] \cup denied[Runtime] : IsWithin(n, prefix)

\* The name itself goes before its index, in whatever sources they are.
Candidate(g, n) ==
    IF FirstCanonical(g, n) # NoName THEN FirstCanonical(g, n) ELSE FirstCanonical(g, Index(n))

\* A slip: the name an alias or an index stands for is not looked at.
LocateRequested(g, n) == IF IsDenied(g, n) THEN NoName ELSE Candidate(g, n)

Locate(g, n) ==
    IF Candidate(g, n) = NoName \/ IsDenied(g, n) \/ IsDenied(g, Candidate(g, n))
    THEN NoName
    ELSE Candidate(g, n)

IsHostModule(g, n) == Locate(g, n) # NoName /\ Source(g, Locate(g, n))[1] # "bundle"

\* A slip: the runtime's catalog is not asked.
MountableInGuest(g, b) == CheckBundle(sources[g], b) /\ CheckBundle(mounted[g], b)

Mountable(g, b) ==
    /\ CheckBundle(sources[Runtime], b)
    /\ CheckBundle(sources[g], b)
    /\ CheckBundle(mounted[g], b)

\* The guest has its bindings and can be entered.
Live(g) == phase[g] \in {"initialising", "built"}

-----------------------------------------------------------------------------
Init ==
    /\ phase = [o \in Owners |-> "building"]
    /\ sources = [o \in Owners |-> NoSources]
    /\ denied = [o \in Owners |-> {}]
    /\ mounted = [g \in Guests |-> NoSources]
    /\ realising = [g \in Guests |-> <<>>]
    /\ instances = [g \in Guests |-> Empty]

\* A guest is built from a runtime that is.
Building(o) == phase[o] = "building" /\ (o \in Guests => phase[Runtime] = "built")

\* A library binds its modules one by one; the first that fails fails the builder.
Bind(o, m) ==
    /\ Building(o)
    /\ IF Insertable(sources[o], m)
       THEN /\ sources' = [sources EXCEPT ![o] = InsertModule(@, m)]
            /\ UNCHANGED phase
       ELSE /\ phase' = [phase EXCEPT ![o] = "failed"]
            /\ UNCHANGED sources
    /\ UNCHANGED <<denied, mounted, realising, instances>>

AddBundle(o, b) ==
    /\ Building(o)
    /\ IF CheckBundle(sources[o], b)
       THEN /\ sources' = [sources EXCEPT ![o] = InsertBundle(@, b)]
            /\ UNCHANGED phase
       ELSE /\ phase' = [phase EXCEPT ![o] = "failed"]
            /\ UNCHANGED sources
    /\ UNCHANGED <<denied, mounted, realising, instances>>

Deny(o, n) ==
    /\ Building(o)
    /\ Cardinality(denied[o] \cup {n}) <= MaxDenied
    /\ denied' = [denied EXCEPT ![o] = @ \cup {n}]
    /\ UNCHANGED <<phase, sources, mounted, realising, instances>>

\* The engine or the context may fail to be made.
BuildRuntime ==
    /\ Building(Runtime)
    /\ \E p \in {"built", "failed"} : phase' = [phase EXCEPT ![Runtime] = p]
    /\ UNCHANGED <<sources, denied, mounted, realising, instances>>

\* The guest gets its bindings; its initialisers, which may import, run next.
BuildGuest(g) ==
    /\ Building(g)
    /\ \E p \in {"initialising", "failed"} : phase' = [phase EXCEPT ![g] = p]
    /\ UNCHANGED <<sources, denied, mounted, realising, instances>>

\* The initialisers ran, up to the first that failed.
Initialised(g) ==
    /\ phase[g] = "initialising"
    /\ realising[g] = <<>>
    /\ \E p \in {"built", "failed"} : phase' = [phase EXCEPT ![g] = p]
    /\ UNCHANGED <<sources, denied, mounted, realising, instances>>

\* The engine keeps the first module made under a name.
Admit(g, n, s) ==
    instances' = IF n \in DOMAIN instances[g] THEN instances
                 ELSE [instances EXCEPT ![g] = Put(@, {n}, s)]

\* An import from the host or from guest code: the name is located and, unless the
\* engine has a module under that name, the source is made into one.  A bundle's
\* module is compiled and a native one declared at once.
Import(g, n) ==
    LET located == Locate(g, n)
        source == Source(g, located)
    IN  /\ Live(g)
        /\ located # NoName
        /\ located \notin DOMAIN instances[g]
        /\ source # Unbound
        /\ \/ /\ source[1] # "host"
              /\ Admit(g, located, source)
              /\ UNCHANGED realising
           \/ /\ source[1] = "host"
              /\ Len(realising[g]) < MaxDepth
              /\ realising' = [realising EXCEPT ![g] = Append(@, <<located, source>>)]
              /\ UNCHANGED instances
        /\ UNCHANGED <<phase, sources, denied, mounted>>

\* GuestModules::host_module.
ImportHost(g, n) == IsHostModule(g, n) /\ Import(g, n)

\* The state and the members of a host module, made by host closures that may have
\* imported and mounted, become a module of the engine.
Realised(g) ==
    /\ Live(g)
    /\ realising[g] # <<>>
    /\ LET module == realising[g][Len(realising[g])] IN Admit(g, module[1], module[2])
    /\ realising' = [realising EXCEPT ![g] = SubSeq(@, 1, Len(@) - 1)]
    /\ UNCHANGED <<phase, sources, denied, mounted>>

\* One of those closures failed, or the engine refused the exports.
RealiseFails(g) ==
    /\ Live(g)
    /\ realising[g] # <<>>
    /\ realising' = [realising EXCEPT ![g] = SubSeq(@, 1, Len(@) - 1)]
    /\ UNCHANGED <<phase, sources, denied, mounted, instances>>

\* The bundle, which has one root, is mounted and stays so if the import fails.
Load(g, b) ==
    /\ Live(g)
    /\ \E r \in Roots(b) :
        /\ Roots(b) = {r}
        /\ Mountable(g, b)
        /\ mounted' = [mounted EXCEPT ![g] = InsertBundle(@, b)]
        /\ UNCHANGED <<phase, sources, denied, realising>>
        /\ \/ UNCHANGED instances
           \/ /\ Locate(g, <<r>>)' # NoName
              /\ Admit(g, Locate(g, <<r>>)', Source(g, Locate(g, <<r>>))')

\* The engine drops a module whose own imports could not be loaded.
Discard(g, n) ==
    /\ Live(g)
    /\ n \in DOMAIN instances[g]
    /\ instances[g][n][1] = "bundle"
    /\ instances' = [instances EXCEPT ![g] = [x \in DOMAIN @ \ {n} |-> @[x]]]
    /\ UNCHANGED <<phase, sources, denied, mounted, realising>>

Next ==
    \/ \E o \in Owners :
        \/ \E m \in Modules : Bind(o, m)
        \/ \E b \in Bundles : AddBundle(o, b)
        \/ \E n \in Names : Deny(o, n)
    \/ BuildRuntime
    \/ \E g \in Guests :
        \/ BuildGuest(g)
        \/ Initialised(g)
        \/ \E n \in Names : Import(g, n) \/ ImportHost(g, n) \/ Discard(g, n)
        \/ Realised(g)
        \/ RealiseFails(g)
        \/ \E b \in Bundles : Load(g, b)

Spec == Init /\ [][Next]_vars

-----------------------------------------------------------------------------
(* Properties. *)

PartialMaps(D, R) == UNION {[E -> R] : E \in SUBSET D}

SourcesType(S) ==
    /\ S = [modules |-> S.modules, aliases |-> S.aliases, bundles |-> S.bundles]
    /\ DOMAIN S.modules \subseteq Names
    /\ \A n \in DOMAIN S.modules : S.modules[n] \in ModuleSources
    /\ DOMAIN S.aliases \subseteq Names
    /\ \A n \in DOMAIN S.aliases : S.aliases[n] \in Names
    /\ \A r \in DOMAIN S.bundles : S.bundles[r] \in Bundles

\* Every variable has its type, and a guest is entered only on a built runtime.
TypeOK ==
    /\ phase \in [Owners -> {"building", "initialising", "built", "failed"}]
    /\ \A g \in Guests : phase[g] # "building" => phase[Runtime] = "built"
    /\ DOMAIN sources = Owners
    /\ \A o \in Owners : SourcesType(sources[o])
    /\ denied \in [Owners -> SUBSET Names]
    /\ DOMAIN mounted = Guests
    /\ \A g \in Guests : SourcesType(mounted[g])
    /\ realising \in [Guests -> Seq(Names \X ModuleSources)]
    /\ instances \in [Guests -> PartialMaps(Names, ModuleSources)]

\* In one Sources a name has one owner: it is a module's or an alias's, no bundle
\* has its root, every alias a bound module asked for leads to that module, and a
\* bundle has all its roots (Sources::claim, insert_native, check_bundle).
OneOwner(S) ==
    /\ DOMAIN S.modules \cap DOMAIN S.aliases = {}
    /\ \A n \in BoundNames(S) : Root(n) \notin DOMAIN S.bundles
    /\ \A n \in DOMAIN S.modules : \A a \in AliasesOf[S.modules[n][2]] :
            a \in DOMAIN S.aliases /\ S.aliases[a] = n
    /\ \A r \in DOMAIN S.bundles : \A q \in Roots(S.bundles[r]) :
            q \in DOMAIN S.bundles /\ S.bundles[q] = S.bundles[r]

NamesHaveOneOwner ==
    (\A o \in Owners : OneOwner(sources[o])) /\ (\A g \in Guests : OneOwner(mounted[g]))

\* A name that locate returns has a source, so that the loader, which asks for it
\* in a call of its own, never misses it (GuestBindings::locate, Imports::load).
LocatedHasSource == \A g \in Guests : \A n \in Names :
    Locate(g, n) # NoName => Source(g, Locate(g, n)) # Unbound

\* No module that is denied to a guest, under its own name, is made in it, however
\* it was asked for: by alias, by the parent of its index, or by loading a bundle.
DeniedNeverLoaded == \A g \in Guests :
    /\ \A n \in DOMAIN instances[g] : ~IsDenied(g, n)
    /\ \A i \in DOMAIN realising[g] : ~IsDenied(g, realising[g][i][1])

\* A bundle mounted in a guest stands before nothing that the guest or the runtime
\* bound under its roots, other than itself (GuestBindings::mount).
MountHidesNothing == \A g \in Guests : \A n \in Names :
    Root(n) \in DOMAIN mounted[g].bundles =>
        \A o \in {g, Runtime} : Find(sources[o], n) \in {Unbound, Find(mounted[g], n)}
                                /\ n \notin DOMAIN sources[o].aliases

\* The bindings of a guest hold together: names have one owner, what is located is there,
\* what is mounted hides nothing (Sources, GuestBindings).
BindingsSound == NamesHaveOneOwner /\ LocatedHasSource /\ MountHidesNothing

\* The engine's module of a name, and a host module being made for it, comes from
\* what the bindings now find under that name, whatever was mounted while it was made.
InstancesMatchBindings == \A g \in Guests :
    /\ \A n \in DOMAIN instances[g] : instances[g][n] = Source(g, n)
    /\ \A i \in DOMAIN realising[g] : realising[g][i][2] = Source(g, realising[g][i][1])

\* What a name stands for in a guest that can be entered never changes: no later
\* load of a bundle redirects an import or revives a denied one.
BindingsStable == [][\A g \in Guests : Live(g) /\ Live(g)' =>
    \A n \in Names : \A c \in Names \cap {Candidate(g, n)} :
        Locate(g, n)' = Locate(g, n) /\ Source(g, c)' = Source(g, c)]_vars
=============================================================================
