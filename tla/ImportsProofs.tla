---------------------------- MODULE ImportsProofs ----------------------------
(***************************************************************************)
(* Proofs about Imports, for any runtime, guests, modules and bundles: a   *)
(* name has one owner in each catalog, what is located has a source,       *)
(* nothing denied is loaded, and no bundle mounted later changes what a    *)
(* name stands for.  The inductive invariant Structure says that each      *)
(* Sources is kept in order and that what a guest mounted lies apart from  *)
(* what it and its runtime bound, which is final by then.                  *)
(***************************************************************************)
EXTENDS Imports, SequenceTheorems, TLAPS

AnyName == Seq(Segments) \ {<<>>}

\* The aliases lead to modules bound in the same Sources.
Kept(S) == OneOwner(S) /\ \A a \in DOMAIN S.aliases : S.aliases[a] \in DOMAIN S.modules

\* Mounting binds bundles only.
MountedOnly(S) == DOMAIN S.modules = {} /\ DOMAIN S.aliases = {}

\* The roots of M's bundles are free in S, or the same bundle has them.
Apart(S, M) == \A r \in DOMAIN M.bundles :
    /\ r \in DOMAIN S.bundles => S.bundles[r] = M.bundles[r]
    /\ r \notin DOMAIN S.bundles => \A n \in BoundNames(S) : Root(n) # r

\* Before its bindings are there, nothing happens in a guest.
Untouched(g) ==
    /\ DOMAIN mounted[g].bundles = {}
    /\ DOMAIN instances[g] = {}
    /\ realising[g] = <<>>

Structure ==
    /\ TypeOK
    /\ \A o \in Owners : Kept(sources[o])
    /\ \A g \in Guests :
        /\ Kept(mounted[g])
        /\ MountedOnly(mounted[g])
        /\ Apart(sources[g], mounted[g])
        /\ Apart(sources[Runtime], mounted[g])
        /\ phase[g] = "building" => Untouched(g)

-----------------------------------------------------------------------------
(* Names and maps. *)

LEMMA NamesAreNames ==
    ASSUME NEW n \in Names
    PROVE  n \in AnyName /\ n # NoName /\ n # <<>>
BY NamesAssumption DEF AnyName, NoName

\* The index of a name has the root of the name.
LEMMA IndexKeepsRoot ==
    ASSUME NEW n \in AnyName
    PROVE  Index(n) \in AnyName /\ Root(Index(n)) = Root(n)
<1>1. n \in Seq(Segments) /\ Len(n) \in Nat /\ Len(n) # 0
  BY DEF AnyName
<1>2. "index" \in Segments
  BY SegmentsAssumption
<1>3. Head(Append(n, "index")) = Head(n)
  BY <1>1, <1>2, HeadTailAppend
<1>4. Append(n, "index") \in Seq(Segments) /\ Len(Append(n, "index")) = Len(n) + 1
  BY <1>1, <1>2
<1>5. Append(n, "index") # <<>>
  BY <1>1, <1>4
<1> QED
  BY <1>3, <1>4, <1>5 DEF AnyName, Index, Root

LEMMA PutMap ==
    ASSUME NEW f, NEW D, NEW v
    PROVE  /\ DOMAIN Put(f, D, v) = DOMAIN f \cup D
           /\ \A x \in D : Put(f, D, v)[x] = v
           /\ \A x \in DOMAIN f \ D : Put(f, D, v)[x] = f[x]
BY DEF Put

LEMMA ModuleFacts ==
    ASSUME NEW m \in Modules
    PROVE  /\ NameOf[m] \in Names
           /\ AliasesOf[m] \subseteq Names
           /\ NameOf[m] \notin AliasesOf[m]
           /\ SourceOfModule(m) \in ModuleSources
           /\ SourceOfModule(m)[2] = m
BY ModulesAssumption DEF Modules, SourceOfModule, ModuleSources

LEMMA SourcesAreSet ==
    ASSUME NEW s \in ModuleSources
    PROVE  s # Unbound /\ s # <<>>
BY DEF ModuleSources, Unbound

-----------------------------------------------------------------------------
(* Insertions keep Sources in order. *)

LEMMA InsertedModule ==
    ASSUME NEW S, NEW m \in Modules
    PROVE  LET T == InsertModule(S, m)
           IN  /\ T = [modules |-> T.modules, aliases |-> T.aliases, bundles |-> T.bundles]
               /\ T.modules = Put(S.modules, {NameOf[m]}, SourceOfModule(m))
               /\ T.aliases = Put(S.aliases, AliasesOf[m], NameOf[m])
               /\ T.bundles = S.bundles
BY DEF InsertModule

LEMMA InsertedBundle ==
    ASSUME NEW S, NEW b \in Bundles
    PROVE  LET T == InsertBundle(S, b)
           IN  /\ T = [modules |-> T.modules, aliases |-> T.aliases, bundles |-> T.bundles]
               /\ T.modules = S.modules
               /\ T.aliases = S.aliases
               /\ T.bundles = Put(S.bundles, Roots(b), b)
BY DEF InsertBundle

LEMMA InsertModuleKeeps ==
    ASSUME NEW S, SourcesType(S), Kept(S), NEW m \in Modules, Insertable(S, m)
    PROVE  SourcesType(InsertModule(S, m)) /\ Kept(InsertModule(S, m))
<1> DEFINE T == InsertModule(S, m)
<1>1. /\ T = [modules |-> T.modules, aliases |-> T.aliases, bundles |-> T.bundles]
      /\ DOMAIN T.modules = DOMAIN S.modules \cup {NameOf[m]}
      /\ T.modules[NameOf[m]] = SourceOfModule(m)
      /\ \A n \in DOMAIN S.modules \ {NameOf[m]} : T.modules[n] = S.modules[n]
      /\ DOMAIN T.aliases = DOMAIN S.aliases \cup AliasesOf[m]
      /\ \A a \in AliasesOf[m] : T.aliases[a] = NameOf[m]
      /\ \A a \in DOMAIN S.aliases \ AliasesOf[m] : T.aliases[a] = S.aliases[a]
      /\ T.bundles = S.bundles
  <2>1. /\ T = [modules |-> T.modules, aliases |-> T.aliases, bundles |-> T.bundles]
        /\ T.modules = Put(S.modules, {NameOf[m]}, SourceOfModule(m))
        /\ T.aliases = Put(S.aliases, AliasesOf[m], NameOf[m])
        /\ T.bundles = S.bundles
    BY InsertedModule
  <2> HIDE DEF T
  <2>2. /\ DOMAIN T.modules = DOMAIN S.modules \cup {NameOf[m]}
        /\ T.modules[NameOf[m]] = SourceOfModule(m)
        /\ \A n \in DOMAIN S.modules \ {NameOf[m]} : T.modules[n] = S.modules[n]
    BY <2>1 DEF Put
  <2>3. /\ DOMAIN T.aliases = DOMAIN S.aliases \cup AliasesOf[m]
        /\ \A a \in AliasesOf[m] : T.aliases[a] = NameOf[m]
        /\ \A a \in DOMAIN S.aliases \ AliasesOf[m] : T.aliases[a] = S.aliases[a]
    BY <2>1 DEF Put
  <2> QED
    BY <2>1, <2>2, <2>3
<1> HIDE DEF T
<1>2. /\ NameOf[m] \notin BoundNames(S)
      /\ AliasesOf[m] \cap BoundNames(S) = {}
      /\ \A n \in {NameOf[m]} \cup AliasesOf[m] : Root(n) \notin DOMAIN S.bundles
  BY DEF Insertable, Claimed
<1>3. SourcesType(T)
  BY <1>1, ModuleFacts DEF SourcesType
<1>4. DOMAIN T.modules \cap DOMAIN T.aliases = {}
  BY <1>1, <1>2, ModuleFacts DEF Kept, OneOwner, BoundNames
<1>5. \A n \in BoundNames(T) : Root(n) \notin DOMAIN T.bundles
  BY <1>1, <1>2 DEF Kept, OneOwner, BoundNames
<1>6. ASSUME NEW n \in DOMAIN T.modules, NEW a \in AliasesOf[T.modules[n][2]]
      PROVE  a \in DOMAIN T.aliases /\ T.aliases[a] = n
  <2>1. CASE n = NameOf[m]
    BY <1>1, <1>6, <2>1, ModuleFacts
  <2>2. CASE n # NameOf[m]
    <3>1. n \in DOMAIN S.modules /\ a \in AliasesOf[S.modules[n][2]]
      BY <1>1, <1>6, <2>2
    <3>2. a \in DOMAIN S.aliases /\ S.aliases[a] = n
      BY <3>1 DEF Kept, OneOwner
    <3> QED
      BY <1>1, <1>2, <3>2 DEF BoundNames
  <2> QED
    BY <2>1, <2>2
<1>7. \A r \in DOMAIN T.bundles : \A q \in Roots(T.bundles[r]) :
          q \in DOMAIN T.bundles /\ T.bundles[q] = T.bundles[r]
  BY <1>1 DEF Kept, OneOwner
<1>8. \A a \in DOMAIN T.aliases : T.aliases[a] \in DOMAIN T.modules
  BY <1>1 DEF Kept
<1> QED
  BY <1>3, <1>4, <1>5, <1>6, <1>7, <1>8 DEF Kept, OneOwner, T

LEMMA InsertBundleKeeps ==
    ASSUME NEW S, SourcesType(S), Kept(S), NEW b \in Bundles, CheckBundle(S, b)
    PROVE  SourcesType(InsertBundle(S, b)) /\ Kept(InsertBundle(S, b))
<1> DEFINE T == InsertBundle(S, b)
<1>1. /\ T = [modules |-> T.modules, aliases |-> T.aliases, bundles |-> T.bundles]
      /\ T.modules = S.modules
      /\ T.aliases = S.aliases
      /\ DOMAIN T.bundles = DOMAIN S.bundles \cup Roots(b)
      /\ \A r \in Roots(b) : T.bundles[r] = b
      /\ \A r \in DOMAIN S.bundles \ Roots(b) : T.bundles[r] = S.bundles[r]
  <2>1. /\ T = [modules |-> T.modules, aliases |-> T.aliases, bundles |-> T.bundles]
        /\ T.modules = S.modules
        /\ T.aliases = S.aliases
        /\ T.bundles = Put(S.bundles, Roots(b), b)
    BY InsertedBundle
  <2> HIDE DEF T
  <2> QED
    BY <2>1 DEF Put
<1> HIDE DEF T
<1>2. SourcesType(T)
  BY <1>1 DEF SourcesType
<1>3. \A n \in BoundNames(T) : Root(n) \notin DOMAIN T.bundles
  BY <1>1 DEF Kept, OneOwner, BoundNames, CheckBundle
<1>4. ASSUME NEW r \in DOMAIN T.bundles, NEW q \in Roots(T.bundles[r])
      PROVE  q \in DOMAIN T.bundles /\ T.bundles[q] = T.bundles[r]
  <2>1. CASE r \in Roots(b)
    BY <1>1, <1>4, <2>1
  <2>2. CASE r \notin Roots(b)
    <3>1. r \in DOMAIN S.bundles /\ q \in Roots(S.bundles[r]) /\ T.bundles[r] = S.bundles[r]
      BY <1>1, <1>4, <2>2
    <3>2. q \in DOMAIN S.bundles /\ S.bundles[q] = S.bundles[r]
      BY <3>1 DEF Kept, OneOwner
    <3>3. q \in Roots(b) => S.bundles[q] = b
      BY <3>2 DEF CheckBundle
    <3> QED
      BY <1>1, <3>1, <3>2, <3>3
  <2> QED
    BY <2>1, <2>2
<1> QED
  BY <1>1, <1>2, <1>3, <1>4 DEF Kept, OneOwner, T

-----------------------------------------------------------------------------
(* What a mounted bundle does to look-ups. *)

\* Where the bundle may be mounted, the names below its roots are the bundle's or
\* nobody's.
LEMMA BelowRoots ==
    ASSUME NEW S, Kept(S), NEW b \in Bundles, CheckBundle(S, b),
           NEW n, Root(n) \in Roots(b)
    PROVE  /\ n \notin BoundNames(S)
           /\ Root(n) \in DOMAIN S.bundles => S.bundles[Root(n)] = b
BY DEF Kept, OneOwner, CheckBundle

LEMMA LookupBelowRoots ==
    ASSUME NEW S, Kept(S), NEW b \in Bundles, CheckBundle(S, b),
           NEW n, Root(n) \in Roots(b)
    PROVE  /\ Root(n) \in DOMAIN S.bundles /\ n \in Provides[b] =>
                  Find(S, n) = <<"bundle", b>> /\ Canonical(S, n) = n
           /\ ~(Root(n) \in DOMAIN S.bundles /\ n \in Provides[b]) =>
                  Find(S, n) = Unbound /\ Canonical(S, n) = NoName
BY BelowRoots DEF Find, Canonical, InBundle, BoundNames

LEMMA LookupInMounted ==
    ASSUME NEW M, MountedOnly(M), NEW b \in Bundles, CheckBundle(M, b), NEW n
    PROVE  LET T == InsertBundle(M, b)
           IN  /\ Root(n) \notin Roots(b) \/ Root(n) \in DOMAIN M.bundles =>
                      Find(T, n) = Find(M, n) /\ Canonical(T, n) = Canonical(M, n)
               /\ Root(n) \in Roots(b) =>
                      IF n \in Provides[b]
                      THEN Find(T, n) = <<"bundle", b>> /\ Canonical(T, n) = n
                      ELSE Find(T, n) = Unbound /\ Canonical(T, n) = NoName
<1> DEFINE T == InsertBundle(M, b)
<1>1. /\ DOMAIN T.modules = {} /\ DOMAIN T.aliases = {}
      /\ T.bundles = Put(M.bundles, Roots(b), b)
  BY InsertedBundle DEF MountedOnly
<1> HIDE DEF T
<1>2. /\ DOMAIN T.bundles = DOMAIN M.bundles \cup Roots(b)
      /\ \A r \in Roots(b) : T.bundles[r] = b
      /\ \A r \in DOMAIN M.bundles \ Roots(b) : T.bundles[r] = M.bundles[r]
  BY <1>1 DEF Put
<1>3. \A r \in Roots(b) : r \in DOMAIN M.bundles => M.bundles[r] = b
  BY DEF CheckBundle
<1>4. CASE Root(n) \notin Roots(b) \/ Root(n) \in DOMAIN M.bundles
  <2>1. InBundle(T, n) <=> InBundle(M, n)
    BY <1>2, <1>3, <1>4 DEF InBundle
  <2>2. Root(n) \in DOMAIN M.bundles => T.bundles[Root(n)] = M.bundles[Root(n)]
    BY <1>2, <1>3, <1>4
  <2>3. Find(T, n) = Find(M, n) /\ Canonical(T, n) = Canonical(M, n)
    BY <1>1, <2>1, <2>2 DEF Find, Canonical, MountedOnly, InBundle
  <2>4. Root(n) \in Roots(b) =>
            IF n \in Provides[b]
            THEN Find(T, n) = <<"bundle", b>> /\ Canonical(T, n) = n
            ELSE Find(T, n) = Unbound /\ Canonical(T, n) = NoName
    BY <1>1, <1>2 DEF Find, Canonical, InBundle
  <2> QED
    BY <2>3, <2>4 DEF T
<1>5. CASE Root(n) \in Roots(b) /\ Root(n) \notin DOMAIN M.bundles
  <2>1. IF n \in Provides[b]
        THEN Find(T, n) = <<"bundle", b>> /\ Canonical(T, n) = n
        ELSE Find(T, n) = Unbound /\ Canonical(T, n) = NoName
    BY <1>1, <1>2, <1>5 DEF Find, Canonical, InBundle
  <2> QED
    BY <1>5, <2>1 DEF T
<1> QED
  BY <1>4, <1>5

\* A source that was found before a bundle is mounted is found after it.
LEMMA MountKeepsSources ==
    ASSUME NEW M, NEW G, NEW R, MountedOnly(M), Kept(M), Kept(G), Kept(R),
           NEW b \in Bundles, CheckBundle(M, b), CheckBundle(G, b), CheckBundle(R, b),
           NEW n, First(Find(M, n), Find(G, n), Find(R, n)) # Unbound
    PROVE  First(Find(InsertBundle(M, b), n), Find(G, n), Find(R, n))
             = First(Find(M, n), Find(G, n), Find(R, n))
<1>1. CASE Root(n) \notin Roots(b) \/ Root(n) \in DOMAIN M.bundles
  BY <1>1, LookupInMounted
<1>2. CASE Root(n) \in Roots(b) /\ Root(n) \notin DOMAIN M.bundles
  <2>1. Find(M, n) = Unbound
    BY <1>2, LookupBelowRoots
  <2>2. Find(G, n) # Unbound \/ Find(R, n) # Unbound
    BY <2>1 DEF First, Unbound
  <2>3. n \in Provides[b]
    BY <1>2, <2>2, LookupBelowRoots
  <2>4. Find(InsertBundle(M, b), n) = <<"bundle", b>>
    BY <1>2, <2>3, LookupInMounted
  <2>5. Find(G, n) \in {Unbound, <<"bundle", b>>} /\ Find(R, n) \in {Unbound, <<"bundle", b>>}
    BY <1>2, LookupBelowRoots
  <2> QED
    BY <2>1, <2>2, <2>4, <2>5 DEF First, Unbound
<1> QED
  BY <1>1, <1>2

\* What a name stood for, or did not, is the same after a bundle is mounted once
\* some name of its root stood for something.
LEMMA MountKeepsCanonical ==
    ASSUME NEW M, NEW G, NEW R, MountedOnly(M), Kept(M), Kept(G), Kept(R),
           NEW b \in Bundles, CheckBundle(M, b), CheckBundle(G, b), CheckBundle(R, b),
           NEW n \in AnyName, NEW k \in AnyName, Root(k) = Root(n),
           First(Canonical(M, k), Canonical(G, k), Canonical(R, k)) # NoName
    PROVE  First(Canonical(InsertBundle(M, b), n), Canonical(G, n), Canonical(R, n))
             = First(Canonical(M, n), Canonical(G, n), Canonical(R, n))
<1>1. CASE Root(n) \notin Roots(b) \/ Root(n) \in DOMAIN M.bundles
  BY <1>1, LookupInMounted
<1>2. CASE Root(n) \in Roots(b) /\ Root(n) \notin DOMAIN M.bundles
  <2>1. Canonical(M, k) = NoName /\ Canonical(M, n) = NoName
    BY <1>2, LookupBelowRoots
  <2>2. Canonical(G, k) # NoName \/ Canonical(R, k) # NoName
    BY <2>1 DEF First, NoName
  <2>3. Root(n) \in DOMAIN G.bundles \/ Root(n) \in DOMAIN R.bundles
    BY <1>2, <2>2, LookupBelowRoots
  <2>4. CASE n \in Provides[b]
    <3>1. Canonical(InsertBundle(M, b), n) = n
      BY <1>2, <2>4, LookupInMounted
    <3>2. Canonical(G, n) \in {n, NoName} /\ Canonical(R, n) \in {n, NoName}
      BY <1>2, LookupBelowRoots
    <3>3. Canonical(G, n) = n \/ Canonical(R, n) = n
      BY <1>2, <2>3, <2>4, LookupBelowRoots
    <3> QED
      BY <2>1, <3>1, <3>2, <3>3 DEF First, NoName, AnyName
  <2>5. CASE n \notin Provides[b]
    BY <1>2, <2>1, <2>5, LookupInMounted
  <2> QED
    BY <2>4, <2>5
<1> QED
  BY <1>1, <1>2

-----------------------------------------------------------------------------
(* What is located has a source. *)

LEMMA LookupTypes ==
    ASSUME NEW S, SourcesType(S), Kept(S), NEW n \in AnyName
    PROVE  /\ Canonical(S, n) \in Names \cup {NoName}
           /\ Find(S, n) \in ModuleSources \cup {Unbound}
           /\ Canonical(S, n) # NoName => Find(S, Canonical(S, n)) # Unbound
<1>1. CASE n \in DOMAIN S.modules
  BY <1>1, SourcesAreSet, NamesAreNames DEF Canonical, Find, SourcesType
<1>2. CASE n \notin DOMAIN S.modules /\ InBundle(S, n)
  <2>1. S.bundles[Root(n)] \in Bundles
    BY <1>2 DEF SourcesType, InBundle
  <2>2. <<"bundle", S.bundles[Root(n)]>> \in ModuleSources /\ n \in Names
    BY <1>2, <2>1, BundlesAssumption DEF ModuleSources, InBundle
  <2>3. Find(S, n) = <<"bundle", S.bundles[Root(n)]>> /\ Canonical(S, n) = n
    BY <1>2 DEF Find, Canonical
  <2> QED
    BY <2>2, <2>3, SourcesAreSet
<1>3. CASE n \notin DOMAIN S.modules /\ ~InBundle(S, n) /\ n \in DOMAIN S.aliases
  <2>1. Canonical(S, n) = S.aliases[n] /\ Find(S, n) = Unbound
    BY <1>3 DEF Canonical, Find
  <2>2. S.aliases[n] \in Names /\ S.aliases[n] \in DOMAIN S.modules
    BY <1>3 DEF SourcesType, Kept
  <2> QED
    BY <2>1, <2>2, SourcesAreSet DEF Find, SourcesType
<1>4. CASE n \notin DOMAIN S.modules /\ ~InBundle(S, n) /\ n \notin DOMAIN S.aliases
  BY <1>4 DEF Canonical, Find
<1> QED
  BY <1>1, <1>2, <1>3, <1>4

LEMMA Layers ==
    ASSUME Structure, NEW g \in Guests
    PROVE  /\ SourcesType(mounted[g]) /\ Kept(mounted[g]) /\ MountedOnly(mounted[g])
           /\ SourcesType(sources[g]) /\ Kept(sources[g])
           /\ SourcesType(sources[Runtime]) /\ Kept(sources[Runtime])
BY DEF Structure, TypeOK, Owners

\* Wherever a name stands for something, that has a source.
LEMMA CanonicalHasSource ==
    ASSUME NEW M, NEW G, NEW R, SourcesType(M), SourcesType(G), SourcesType(R),
           Kept(M), Kept(G), Kept(R), NEW n \in AnyName,
           NEW c, c = First(Canonical(M, n), Canonical(G, n), Canonical(R, n)), c # NoName
    PROVE  c \in Names /\ First(Find(M, c), Find(G, c), Find(R, c)) \in ModuleSources
<1>1. PICK S \in {M, G, R} : c = Canonical(S, n)
  BY DEF First
<1>2. c \in Names /\ Find(S, c) # Unbound
  BY <1>1, LookupTypes
<1>3. \A T \in {M, G, R} : Find(T, c) \in ModuleSources \cup {Unbound}
  BY <1>2, NamesAreNames, LookupTypes
<1> QED
  BY <1>1, <1>2, <1>3 DEF First, Unbound

LEMMA CandidateFacts ==
    ASSUME Structure, NEW g \in Guests, NEW n \in AnyName, Candidate(g, n) # NoName
    PROVE  Candidate(g, n) \in Names /\ Source(g, Candidate(g, n)) \in ModuleSources
<1>1. \A k \in AnyName : FirstCanonical(g, k) # NoName =>
          FirstCanonical(g, k) \in Names /\ Source(g, FirstCanonical(g, k)) \in ModuleSources
  BY Layers, CanonicalHasSource DEF FirstCanonical, Source
<1> QED
  BY <1>1, IndexKeepsRoot DEF Candidate

LEMMA LocateFacts ==
    ASSUME Structure, NEW g \in Guests, NEW n \in AnyName, Locate(g, n) # NoName
    PROVE  /\ Locate(g, n) \in Names
           /\ Source(g, Locate(g, n)) \in ModuleSources
           /\ ~IsDenied(g, Locate(g, n))
BY CandidateFacts DEF Locate

LEMMA LocatedHasSourceFollows ==
    ASSUME Structure
    PROVE  LocatedHasSource
BY LocateFacts, NamesAreNames, SourcesAreSet DEF LocatedHasSource

-----------------------------------------------------------------------------
(* Structure is inductive. *)

LEMMA EmptyIsKept == SourcesType(NoSources) /\ Kept(NoSources) /\ MountedOnly(NoSources)
                     /\ DOMAIN NoSources.bundles = {}
<1>1. /\ NoSources = [modules |-> NoSources.modules, aliases |-> NoSources.aliases,
                      bundles |-> NoSources.bundles]
      /\ NoSources.modules = Empty /\ NoSources.aliases = Empty /\ NoSources.bundles = Empty
  BY DEF NoSources
<1>2. DOMAIN Empty = {}
  BY DEF Empty
<1> QED
  BY <1>1, <1>2 DEF SourcesType, Kept, OneOwner, MountedOnly, BoundNames

LEMMA PartialMapsPut ==
    ASSUME NEW D, NEW R, NEW f \in PartialMaps(D, R), NEW x \in D, NEW v \in R
    PROVE  Put(f, {x}, v) \in PartialMaps(D, R)
<1>1. PICK E \in SUBSET D : f \in [E -> R]
  BY DEF PartialMaps
<1>2. Put(f, {x}, v) \in [E \cup {x} -> R]
  BY <1>1 DEF Put
<1>3. E \cup {x} \in SUBSET D
  BY <1>1
<1> QED
  BY <1>2, <1>3 DEF PartialMaps

LEMMA PartialMapsRestrict ==
    ASSUME NEW D, NEW R, NEW f \in PartialMaps(D, R), NEW n
    PROVE  [x \in DOMAIN f \ {n} |-> f[x]] \in PartialMaps(D, R)
<1>1. PICK E \in SUBSET D : f \in [E -> R]
  BY DEF PartialMaps
<1>2. [x \in DOMAIN f \ {n} |-> f[x]] \in [E \ {n} -> R]
  BY <1>1
<1>3. E \ {n} \in SUBSET D
  BY <1>1
<1> QED
  BY <1>2, <1>3 DEF PartialMaps

LEMMA PartialMapsFacts ==
    ASSUME NEW D, NEW R
    PROVE  /\ Empty \in PartialMaps(D, R)
           /\ \A f \in PartialMaps(D, R) :
                  DOMAIN f \subseteq D /\ \A x \in DOMAIN f : f[x] \in R
<1>1. Empty \in [{} -> R] /\ {} \in SUBSET D
  BY DEF Empty
<1> QED
  BY <1>1 DEF PartialMaps

LEMMA InitStructure == Init => Structure
<1> SUFFICES ASSUME Init PROVE Structure
  OBVIOUS
<1>1. TypeOK
  <2>1. \A o \in Owners : SourcesType(sources[o])
    BY EmptyIsKept DEF Init
  <2>2. \A g \in Guests : SourcesType(mounted[g])
    BY EmptyIsKept DEF Init
  <2>3. instances \in [Guests -> PartialMaps(Names, ModuleSources)]
    BY PartialMapsFacts DEF Init
  <2>4. realising \in [Guests -> Seq(Names \X ModuleSources)]
    BY DEF Init
  <2>5. /\ phase \in [Owners -> {"building", "initialising", "built", "failed"}]
        /\ \A g \in Guests : phase[g] # "building" => phase[Runtime] = "built"
        /\ denied \in [Owners -> SUBSET Names]
        /\ DOMAIN sources = Owners /\ DOMAIN mounted = Guests
    BY DEF Init, Owners
  <2> QED
    BY <2>1, <2>2, <2>3, <2>4, <2>5 DEF TypeOK
<1>2. \A o \in Owners : Kept(sources[o])
  BY EmptyIsKept DEF Init
<1>3. \A g \in Guests : Kept(mounted[g]) /\ MountedOnly(mounted[g])
  BY EmptyIsKept DEF Init
<1>4. \A g \in Guests : Untouched(g)
  BY EmptyIsKept DEF Init, Untouched, Empty
<1>5. \A g \in Guests : Apart(sources[g], mounted[g]) /\ Apart(sources[Runtime], mounted[g])
  BY EmptyIsKept DEF Init, Apart
<1> QED
  BY <1>1, <1>2, <1>3, <1>4, <1>5 DEF Structure

\* While the runtime is built, no guest is.
LEMMA BuildingUntouched ==
    ASSUME Structure, NEW o \in Owners, Building(o), NEW g \in Guests, o \in {g, Runtime}
    PROVE  phase[g] = "building" /\ Untouched(g)
<1>1. phase[o] = "building"
  BY DEF Building
<1>2. phase[g] = "building"
  BY <1>1 DEF Structure, TypeOK
<1> QED
  BY <1>2 DEF Structure

\* A catalog under construction gets another module, alias or bundle.
LEMMA CatalogStep ==
    ASSUME Structure, NEW o \in Owners, Building(o), NEW T, SourcesType(T), Kept(T),
           sources' = [sources EXCEPT ![o] = T],
           UNCHANGED <<phase, denied, mounted, realising, instances>>
    PROVE  Structure'
<1>1. /\ DOMAIN sources = Owners /\ DOMAIN sources' = Owners
      /\ sources'[o] = T
      /\ \A q \in Owners : q # o => sources'[q] = sources[q]
  BY DEF Structure, TypeOK
<1>2. \A q \in Owners : SourcesType(sources'[q]) /\ Kept(sources'[q])
  BY <1>1 DEF Structure, TypeOK
<1>3. TypeOK'
  BY <1>1, <1>2 DEF Structure, TypeOK
<1>4. ASSUME NEW g \in Guests
      PROVE  Apart(sources'[g], mounted[g]) /\ Apart(sources'[Runtime], mounted[g])
  <2>1. CASE o \in {g, Runtime}
    BY <2>1, BuildingUntouched DEF Untouched, Apart
  <2>2. CASE o \notin {g, Runtime}
    <3>1. sources'[g] = sources[g] /\ sources'[Runtime] = sources[Runtime]
      BY <1>1, <2>2 DEF Owners
    <3> QED
      BY <3>1 DEF Structure
  <2> QED
    BY <2>1, <2>2
<1>5. \A g \in Guests : /\ Kept(mounted'[g]) /\ MountedOnly(mounted'[g])
                        /\ phase'[g] = "building" => Untouched(g)'
  BY DEF Structure, Untouched
<1> QED
  BY <1>2, <1>3, <1>4, <1>5 DEF Structure

\* A catalog is refused, built or given up.
LEMMA PhaseStep ==
    ASSUME Structure, NEW o \in Owners, NEW p \in {"initialising", "built", "failed"},
           phase[o] = "building" \/ o \in Guests,
           o \in Guests => phase[Runtime] = "built",
           phase' = [phase EXCEPT ![o] = p],
           UNCHANGED <<sources, denied, mounted, realising, instances>>
    PROVE  Structure'
<1>1. /\ phase' \in [Owners -> {"building", "initialising", "built", "failed"}]
      /\ \A q \in Owners : q # o => phase'[q] = phase[q]
      /\ phase'[o] = p
  BY DEF Structure, TypeOK
<1>2. \A g \in Guests : phase'[g] # "building" => phase'[Runtime] = "built"
  BY <1>1, OwnersAssumption DEF Structure, TypeOK, Owners
<1>3. TypeOK'
  BY <1>1, <1>2 DEF Structure, TypeOK
<1>4. \A g \in Guests : phase'[g] = "building" => Untouched(g)'
  BY <1>1 DEF Structure, Untouched, Owners
<1> QED
  BY <1>3, <1>4 DEF Structure

\* The engine of a guest that can be entered gets or loses a module, or one begins
\* or ends to be made.
LEMMA ModuleStep ==
    ASSUME Structure, NEW g \in Guests, Live(g),
           instances' \in [Guests -> PartialMaps(Names, ModuleSources)],
           realising' \in [Guests -> Seq(Names \X ModuleSources)],
           \A h \in Guests : h # g => instances'[h] = instances[h] /\ realising'[h] = realising[h],
           UNCHANGED <<phase, sources, denied>>,
           DOMAIN mounted' = Guests,
           SourcesType(mounted'[g]), Kept(mounted'[g]), MountedOnly(mounted'[g]),
           Apart(sources[g], mounted'[g]), Apart(sources[Runtime], mounted'[g]),
           \A h \in Guests : h # g => mounted'[h] = mounted[h]
    PROVE  Structure'
<1>1. TypeOK'
  BY DEF Structure, TypeOK
<1>2. phase[g] # "building"
  BY DEF Live
<1>3. ASSUME NEW h \in Guests
      PROVE  /\ Kept(mounted'[h]) /\ MountedOnly(mounted'[h])
             /\ Apart(sources'[h], mounted'[h]) /\ Apart(sources'[Runtime], mounted'[h])
             /\ phase'[h] = "building" => Untouched(h)'
  BY <1>2 DEF Structure, Untouched
<1> QED
  BY <1>1, <1>3 DEF Structure

\* A module made under a name of a guest.
LEMMA AdmitType ==
    ASSUME Structure, NEW g \in Guests, NEW n \in Names, NEW s \in ModuleSources,
           Admit(g, n, s)
    PROVE  /\ instances' \in [Guests -> PartialMaps(Names, ModuleSources)]
           /\ \A h \in Guests : h # g => instances'[h] = instances[h]
           /\ DOMAIN instances[g] \subseteq DOMAIN instances'[g]
           /\ DOMAIN instances'[g] = DOMAIN instances[g] \cup {n}
           /\ \A x \in DOMAIN instances[g] : instances'[g][x] = instances[g][x]
           /\ n \notin DOMAIN instances[g] => instances'[g][n] = s
<1>1. instances \in [Guests -> PartialMaps(Names, ModuleSources)]
  BY DEF Structure, TypeOK
<1>2. CASE n \in DOMAIN instances[g]
  BY <1>1, <1>2 DEF Admit
<1>3. CASE n \notin DOMAIN instances[g]
  <2>1. instances' = [instances EXCEPT ![g] = Put(instances[g], {n}, s)]
    BY <1>3 DEF Admit
  <2>2. Put(instances[g], {n}, s) \in PartialMaps(Names, ModuleSources)
    BY <1>1, PartialMapsPut
  <2>3. instances'[g] = Put(instances[g], {n}, s)
    BY <1>1, <2>1
  <2>4. /\ DOMAIN instances'[g] = DOMAIN instances[g] \cup {n}
        /\ \A x \in DOMAIN instances[g] : instances'[g][x] = instances[g][x]
        /\ instances'[g][n] = s
    BY <1>3, <2>3 DEF Put
  <2>5. /\ instances' \in [Guests -> PartialMaps(Names, ModuleSources)]
        /\ \A h \in Guests : h # g => instances'[h] = instances[h]
    BY <1>1, <2>1, <2>2
  <2> QED
    BY <2>4, <2>5
<1> QED
  BY <1>2, <1>3

LEMMA ApartAfterMount ==
    ASSUME NEW S, NEW M, Kept(S), Apart(S, M), NEW b \in Bundles, CheckBundle(S, b)
    PROVE  Apart(S, InsertBundle(M, b))
<1> DEFINE T == InsertBundle(M, b)
<1>1. T.bundles = Put(M.bundles, Roots(b), b)
  BY InsertedBundle
<1> HIDE DEF T
<1>2. /\ DOMAIN T.bundles = DOMAIN M.bundles \cup Roots(b)
      /\ \A r \in Roots(b) : T.bundles[r] = b
      /\ \A r \in DOMAIN M.bundles \ Roots(b) : T.bundles[r] = M.bundles[r]
  BY <1>1 DEF Put
<1>3. Apart(S, T)
  BY <1>2 DEF Apart, CheckBundle
<1> QED
  BY <1>3 DEF T

LEMMA BindStep ==
    ASSUME Structure, NEW o \in Owners, NEW m \in Modules, Bind(o, m)
    PROVE  Structure'
<1>1. SourcesType(sources[o]) /\ Kept(sources[o]) /\ Building(o)
  BY DEF Structure, TypeOK, Bind
<1>2. CASE Insertable(sources[o], m)
  <2>1. SourcesType(InsertModule(sources[o], m)) /\ Kept(InsertModule(sources[o], m))
    BY <1>1, <1>2, InsertModuleKeeps
  <2> QED
    BY <1>1, <1>2, <2>1, CatalogStep DEF Bind
<1>3. CASE ~Insertable(sources[o], m)
  BY <1>1, <1>3, PhaseStep DEF Bind, Building
<1> QED
  BY <1>2, <1>3

LEMMA AddBundleStep ==
    ASSUME Structure, NEW o \in Owners, NEW b \in Bundles, AddBundle(o, b)
    PROVE  Structure'
<1>1. SourcesType(sources[o]) /\ Kept(sources[o]) /\ Building(o)
  BY DEF Structure, TypeOK, AddBundle
<1>2. CASE CheckBundle(sources[o], b)
  <2>1. SourcesType(InsertBundle(sources[o], b)) /\ Kept(InsertBundle(sources[o], b))
    BY <1>1, <1>2, InsertBundleKeeps
  <2> QED
    BY <1>1, <1>2, <2>1, CatalogStep DEF AddBundle
<1>3. CASE ~CheckBundle(sources[o], b)
  BY <1>1, <1>3, PhaseStep DEF AddBundle, Building
<1> QED
  BY <1>2, <1>3

LEMMA DenyStep ==
    ASSUME Structure, NEW o \in Owners, NEW n \in Names, Deny(o, n)
    PROVE  Structure'
<1>1. denied' \in [Owners -> SUBSET Names]
  BY DEF Structure, TypeOK, Deny
<1>2. TypeOK'
  BY <1>1 DEF Structure, TypeOK, Deny
<1> QED
  BY <1>2 DEF Structure, Deny, Untouched

LEMMA BuildSteps ==
    ASSUME Structure,
           \/ BuildRuntime
           \/ \E g \in Guests : BuildGuest(g) \/ Initialised(g)
    PROVE  Structure'
<1>1. CASE BuildRuntime
  BY <1>1, OwnersAssumption, PhaseStep DEF BuildRuntime, Building, Owners
<1>2. ASSUME NEW g \in Guests, BuildGuest(g)
      PROVE  Structure'
  BY <1>2, PhaseStep DEF BuildGuest, Building, Owners
<1>3. ASSUME NEW g \in Guests, Initialised(g)
      PROVE  Structure'
  <2>1. phase[Runtime] = "built"
    BY <1>3 DEF Structure, TypeOK, Initialised
  <2> QED
    BY <1>3, <2>1, PhaseStep DEF Initialised, Owners
<1> QED
  BY <1>1, <1>2, <1>3

\* What a step that only makes modules of a guest must show.
LEMMA ModuleStepHere ==
    ASSUME Structure, NEW g \in Guests, Live(g),
           instances' \in [Guests -> PartialMaps(Names, ModuleSources)],
           realising' \in [Guests -> Seq(Names \X ModuleSources)],
           \A h \in Guests : h # g => instances'[h] = instances[h] /\ realising'[h] = realising[h],
           UNCHANGED <<phase, sources, denied, mounted>>
    PROVE  Structure'
<1>1. /\ DOMAIN mounted = Guests
      /\ SourcesType(mounted[g]) /\ Kept(mounted[g]) /\ MountedOnly(mounted[g])
      /\ Apart(sources[g], mounted[g]) /\ Apart(sources[Runtime], mounted[g])
  BY DEF Structure, TypeOK
<1> QED
  BY <1>1, ModuleStep

LEMMA ImportStep ==
    ASSUME Structure, NEW g \in Guests, NEW n \in Names, Import(g, n)
    PROVE  Structure'
<1> DEFINE located == Locate(g, n)
           source == Source(g, located)
<1>1. located \in Names /\ source \in ModuleSources /\ Live(g)
  BY NamesAreNames, LocateFacts DEF Import
<1>2. /\ instances \in [Guests -> PartialMaps(Names, ModuleSources)]
      /\ realising \in [Guests -> Seq(Names \X ModuleSources)]
  BY DEF Structure, TypeOK
<1>3. CASE Admit(g, located, source) /\ UNCHANGED realising
  <2>1. /\ instances' \in [Guests -> PartialMaps(Names, ModuleSources)]
        /\ \A h \in Guests : h # g => instances'[h] = instances[h]
    BY <1>1, <1>3, AdmitType
  <2> QED
    BY <1>1, <1>2, <1>3, <2>1, ModuleStepHere DEF Import
<1>4. CASE /\ realising' = [realising EXCEPT ![g] = Append(@, <<located, source>>)]
           /\ UNCHANGED instances
  <2>1. Append(realising[g], <<located, source>>) \in Seq(Names \X ModuleSources)
    BY <1>1, <1>2
  <2>2. /\ realising' \in [Guests -> Seq(Names \X ModuleSources)]
        /\ \A h \in Guests : h # g => realising'[h] = realising[h]
    BY <1>2, <1>4, <2>1
  <2> QED
    BY <1>1, <1>2, <1>4, <2>2, ModuleStepHere DEF Import
<1> QED
  BY <1>3, <1>4 DEF Import

\* The module at the top of the stack, and the stack without it.
LEMMA Popped ==
    ASSUME NEW D, NEW s \in Seq(D), s # <<>>
    PROVE  /\ s[Len(s)] \in D
           /\ SubSeq(s, 1, Len(s) - 1) \in Seq(D)
           /\ Len(SubSeq(s, 1, Len(s) - 1)) = Len(s) - 1
           /\ Len(s) \in Nat \ {0}
           /\ \A i \in 1..(Len(s) - 1) : SubSeq(s, 1, Len(s) - 1)[i] = s[i]
<1>1. PICK n \in Nat : Len(s) = n + 1
  <2>1. Len(s) \in Nat /\ Len(s) # 0
    OBVIOUS
  <2> QED
    BY <2>1
<1>2. Len(s) - 1 = n /\ Len(s) \in Nat \ {0} /\ Len(s) \in 1..Len(s)
  BY <1>1
<1>3. \A i \in 1..Len(s) : s[i] \in D
  OBVIOUS
<1>4. \A i \in 1..n : s[i] \in D
  BY <1>1, <1>3
<1>5. /\ SubSeq(s, 1, n) \in Seq(D)
      /\ Len(SubSeq(s, 1, n)) = IF 1 <= n THEN n - 1 + 1 ELSE 0
      /\ \A i \in 1..(n - 1 + 1) : SubSeq(s, 1, n)[i] = s[1 + i - 1]
  BY <1>4, 1 \in Int, n \in Int, SubSeqProperties
<1>6. Len(SubSeq(s, 1, n)) = n
  BY <1>5
<1>7. \A i \in 1..n : SubSeq(s, 1, n)[i] = s[i]
  BY <1>5
<1> QED
  BY <1>2, <1>3, <1>5, <1>6, <1>7

LEMMA RealisedStep ==
    ASSUME Structure, NEW g \in Guests, Realised(g) \/ RealiseFails(g)
    PROVE  Structure'
<1> DEFINE rest == SubSeq(realising[g], 1, Len(realising[g]) - 1)
           module == realising[g][Len(realising[g])]
<1>1. /\ instances \in [Guests -> PartialMaps(Names, ModuleSources)]
      /\ realising \in [Guests -> Seq(Names \X ModuleSources)]
  BY DEF Structure, TypeOK
<1>2. realising[g] # <<>> /\ Live(g) /\ realising' = [realising EXCEPT ![g] = rest]
      /\ UNCHANGED <<phase, sources, denied, mounted>>
  BY DEF Realised, RealiseFails
<1>3. module \in Names \X ModuleSources /\ rest \in Seq(Names \X ModuleSources)
  BY <1>1, <1>2, Popped
<1>4. /\ realising' \in [Guests -> Seq(Names \X ModuleSources)]
      /\ \A h \in Guests : h # g => realising'[h] = realising[h]
  BY <1>1, <1>2, <1>3
<1>5. CASE Realised(g)
  <2>1. Admit(g, module[1], module[2])
    BY <1>5 DEF Realised
  <2>2. module[1] \in Names /\ module[2] \in ModuleSources
    BY <1>3
  <2>3. /\ instances' \in [Guests -> PartialMaps(Names, ModuleSources)]
        /\ \A h \in Guests : h # g => instances'[h] = instances[h]
    BY <2>1, <2>2, AdmitType
  <2> QED
    BY <1>2, <1>4, <2>3, ModuleStepHere
<1>6. CASE RealiseFails(g)
  BY <1>1, <1>2, <1>4, <1>6, ModuleStepHere DEF RealiseFails
<1> QED
  BY <1>5, <1>6

LEMMA DiscardStep ==
    ASSUME Structure, NEW g \in Guests, NEW n \in Names, Discard(g, n)
    PROVE  Structure'
<1> DEFINE kept == [x \in DOMAIN instances[g] \ {n} |-> instances[g][x]]
<1>1. /\ instances \in [Guests -> PartialMaps(Names, ModuleSources)]
      /\ realising \in [Guests -> Seq(Names \X ModuleSources)]
  BY DEF Structure, TypeOK
<1>2. kept \in PartialMaps(Names, ModuleSources)
  BY <1>1, PartialMapsRestrict
<1>3. instances' = [instances EXCEPT ![g] = kept] /\ Live(g)
      /\ UNCHANGED <<phase, sources, denied, mounted, realising>>
  BY DEF Discard
<1> HIDE DEF kept
<1>4. /\ instances' \in [Guests -> PartialMaps(Names, ModuleSources)]
      /\ \A h \in Guests : h # g => instances'[h] = instances[h]
  BY <1>1, <1>2, <1>3
<1> QED
  BY <1>1, <1>3, <1>4, ModuleStepHere

\* A mounted bundle lies apart from the catalogs, and what its root stands for then
\* has a source.
LEMMA LoadFacts ==
    ASSUME Structure, NEW g \in Guests, NEW b \in Bundles, Load(g, b)
    PROVE  /\ Live(g) /\ Mountable(g, b)
           /\ UNCHANGED <<phase, sources, denied, realising>>
           /\ DOMAIN mounted' = Guests
           /\ mounted'[g] = InsertBundle(mounted[g], b)
           /\ \A h \in Guests : h # g => mounted'[h] = mounted[h]
           /\ SourcesType(mounted'[g]) /\ Kept(mounted'[g]) /\ MountedOnly(mounted'[g])
           /\ Apart(sources[g], mounted'[g]) /\ Apart(sources[Runtime], mounted'[g])
<1>1. /\ Live(g) /\ Mountable(g, b)
      /\ mounted' = [mounted EXCEPT ![g] = InsertBundle(mounted[g], b)]
      /\ UNCHANGED <<phase, sources, denied, realising>>
  BY DEF Load
<1>2. DOMAIN mounted = Guests /\ Apart(sources[g], mounted[g]) /\ Apart(sources[Runtime], mounted[g])
  BY DEF Structure, TypeOK
<1>3. /\ DOMAIN mounted' = Guests
      /\ mounted'[g] = InsertBundle(mounted[g], b)
      /\ \A h \in Guests : h # g => mounted'[h] = mounted[h]
  BY <1>1, <1>2
<1>4. SourcesType(InsertBundle(mounted[g], b)) /\ Kept(InsertBundle(mounted[g], b))
  BY <1>1, Layers, InsertBundleKeeps DEF Mountable
<1>5. MountedOnly(InsertBundle(mounted[g], b))
  BY Layers, InsertedBundle DEF MountedOnly
<1>6. /\ Apart(sources[g], InsertBundle(mounted[g], b))
      /\ Apart(sources[Runtime], InsertBundle(mounted[g], b))
  BY <1>1, <1>2, Layers, ApartAfterMount DEF Mountable
<1> QED
  BY <1>1, <1>3, <1>4, <1>5, <1>6

\* What the import of a loaded bundle admits.
LEMMA LoadAdmits ==
    ASSUME Structure, NEW g \in Guests, NEW b \in Bundles, Load(g, b)
    PROVE  \/ UNCHANGED instances
           \/ \E n \in Names : /\ Source(g, n)' \in ModuleSources
                              /\ ~IsDenied(g, n)'
                              /\ Admit(g, n, Source(g, n)')
<1> SUFFICES ASSUME ~UNCHANGED instances
             PROVE  \E n \in Names : /\ Source(g, n)' \in ModuleSources
                                     /\ ~IsDenied(g, n)'
                                     /\ Admit(g, n, Source(g, n)')
  OBVIOUS
<1>1. PICK r \in Roots(b) : /\ Locate(g, <<r>>)' # NoName
                            /\ Admit(g, Locate(g, <<r>>)', Source(g, Locate(g, <<r>>))')
  BY DEF Load
<1>2. <<r>> \in AnyName
  <2>1. PICK k \in Provides[b] : r = Root(k)
    BY DEF Roots
  <2>2. k \in Seq(Segments) /\ k # <<>>
    BY NamesAssumption, BundlesAssumption
  <2>3. r \in Segments
    BY <2>1, <2>2, HeadTailProperties DEF Root
  <2> QED
    BY <2>3 DEF AnyName
<1>3. /\ SourcesType(mounted'[g]) /\ SourcesType(sources'[g]) /\ SourcesType(sources'[Runtime])
      /\ Kept(mounted'[g]) /\ Kept(sources'[g]) /\ Kept(sources'[Runtime])
  BY LoadFacts, Layers
<1>4. ASSUME NEW k \in AnyName, NEW c, c = FirstCanonical(g, k)', c # NoName
      PROVE  c \in Names /\ Source(g, c)' \in ModuleSources
  BY <1>3, <1>4, CanonicalHasSource DEF FirstCanonical, Source
<1>5. PICK c : c = Locate(g, <<r>>)'
  OBVIOUS
<1>6. c = Candidate(g, <<r>>)' /\ c # NoName /\ ~IsDenied(g, c)'
  BY <1>1, <1>5 DEF Locate, IsDenied
<1>7. c = FirstCanonical(g, <<r>>)' \/ c = FirstCanonical(g, Index(<<r>>))'
  BY <1>6 DEF Candidate
<1>8. c \in Names /\ Source(g, c)' \in ModuleSources
  BY <1>2, <1>4, <1>6, <1>7, IndexKeepsRoot
<1>9. Admit(g, c, Source(g, c)')
  BY <1>1, <1>5 DEF Source
<1> QED
  BY <1>6, <1>8, <1>9

LEMMA LoadStep ==
    ASSUME Structure, NEW g \in Guests, NEW b \in Bundles, Load(g, b)
    PROVE  Structure'
<1>1. /\ instances \in [Guests -> PartialMaps(Names, ModuleSources)]
      /\ realising \in [Guests -> Seq(Names \X ModuleSources)]
  BY DEF Structure, TypeOK
<1>2. /\ instances' \in [Guests -> PartialMaps(Names, ModuleSources)]
      /\ \A h \in Guests : h # g => instances'[h] = instances[h]
  BY <1>1, LoadAdmits, AdmitType
<1> QED
  BY <1>1, <1>2, LoadFacts, ModuleStep

LEMMA NextStructure == Structure /\ [Next]_vars => Structure'
<1> SUFFICES ASSUME Structure, [Next]_vars PROVE Structure'
  OBVIOUS
<1>1. ASSUME NEW o \in Owners, NEW m \in Modules, Bind(o, m) PROVE Structure'
  BY <1>1, BindStep
<1>2. ASSUME NEW o \in Owners, NEW b \in Bundles, AddBundle(o, b) PROVE Structure'
  BY <1>2, AddBundleStep
<1>3. ASSUME NEW o \in Owners, NEW n \in Names, Deny(o, n) PROVE Structure'
  BY <1>3, DenyStep
<1>4. CASE BuildRuntime \/ \E g \in Guests : BuildGuest(g) \/ Initialised(g)
  BY <1>4, BuildSteps
<1>5. ASSUME NEW g \in Guests, NEW n \in Names, Import(g, n) \/ ImportHost(g, n)
      PROVE  Structure'
  BY <1>5, ImportStep DEF ImportHost
<1>6. ASSUME NEW g \in Guests, NEW n \in Names, Discard(g, n) PROVE Structure'
  BY <1>6, DiscardStep
<1>7. ASSUME NEW g \in Guests, Realised(g) \/ RealiseFails(g) PROVE Structure'
  BY <1>7, RealisedStep
<1>8. ASSUME NEW g \in Guests, NEW b \in Bundles, Load(g, b) PROVE Structure'
  BY <1>8, LoadStep
<1>9. CASE UNCHANGED vars
  <2>1. TypeOK'
    BY <1>9 DEF Structure, TypeOK, vars
  <2> QED
    BY <1>9, <2>1 DEF Structure, Untouched, vars
<1> QED
  BY <1>1, <1>2, <1>3, <1>4, <1>5, <1>6, <1>7, <1>8, <1>9 DEF Next

-----------------------------------------------------------------------------
(* What a step does to the bindings of a guest that was begun. *)

LEMMA LiveStep ==
    ASSUME Structure, [Next]_vars, NEW g \in Guests, phase[g] # "building"
    PROVE  /\ sources'[g] = sources[g] /\ sources'[Runtime] = sources[Runtime]
           /\ denied'[g] = denied[g] /\ denied'[Runtime] = denied[Runtime]
           /\ \/ mounted'[g] = mounted[g]
              \/ \E b \in Bundles : Mountable(g, b) /\ mounted'[g] = InsertBundle(mounted[g], b)
<1>1. /\ DOMAIN sources = Owners /\ denied \in [Owners -> SUBSET Names]
      /\ DOMAIN mounted = Guests
      /\ phase[g] # "building" /\ phase[Runtime] = "built"
  BY DEF Structure, TypeOK
<1>2. ASSUME NEW o \in Owners, Building(o)
      PROVE  o # g /\ o # Runtime
  BY <1>1, <1>2 DEF Building
<1>3. g \in Owners /\ Runtime \in Owners
  BY DEF Owners
<1>4. ASSUME NEW o \in Owners, NEW m \in Modules, Bind(o, m)
      PROVE  /\ sources'[g] = sources[g] /\ sources'[Runtime] = sources[Runtime]
             /\ UNCHANGED <<denied, mounted>>
  BY <1>1, <1>2, <1>3, <1>4 DEF Bind
<1>5. ASSUME NEW o \in Owners, NEW b \in Bundles, AddBundle(o, b)
      PROVE  /\ sources'[g] = sources[g] /\ sources'[Runtime] = sources[Runtime]
             /\ UNCHANGED <<denied, mounted>>
  BY <1>1, <1>2, <1>3, <1>5 DEF AddBundle
<1>6. ASSUME NEW o \in Owners, NEW n \in Names, Deny(o, n)
      PROVE  /\ denied'[g] = denied[g] /\ denied'[Runtime] = denied[Runtime]
             /\ UNCHANGED <<sources, mounted>>
  BY <1>1, <1>2, <1>3, <1>6 DEF Deny
<1>7. ASSUME NEW h \in Guests, NEW b \in Bundles, Load(h, b)
      PROVE  /\ UNCHANGED <<sources, denied>>
             /\ h # g => mounted'[g] = mounted[g]
             /\ h = g => Mountable(g, b) /\ mounted'[g] = InsertBundle(mounted[g], b)
  BY <1>7, LoadFacts
<1>8. CASE \/ BuildRuntime
           \/ \E h \in Guests : \/ BuildGuest(h) \/ Initialised(h) \/ Realised(h) \/ RealiseFails(h)
                                 \/ \E n \in Names : Import(h, n) \/ ImportHost(h, n) \/ Discard(h, n)
           \/ UNCHANGED vars
  BY <1>8, ZenonT(30) DEF BuildRuntime, BuildGuest, Initialised, Realised, RealiseFails, Import,
              ImportHost, Discard, vars
<1> QED
  BY <1>4, <1>5, <1>6, <1>7, <1>8 DEF Next

LEMMA SourceIsStable ==
    ASSUME Structure, [Next]_vars, NEW g \in Guests, phase[g] # "building",
           NEW n \in AnyName, Source(g, n) # Unbound
    PROVE  Source(g, n)' = Source(g, n)
<1>1. CASE mounted'[g] = mounted[g]
  BY <1>1, LiveStep DEF Source
<1>2. ASSUME NEW b \in Bundles, Mountable(g, b), mounted'[g] = InsertBundle(mounted[g], b)
      PROVE  Source(g, n)' = Source(g, n)
  BY <1>2, LiveStep, Layers, MountKeepsSources DEF Source, Mountable
<1> QED
  BY <1>1, <1>2, LiveStep

LEMMA CanonicalIsStable ==
    ASSUME Structure, [Next]_vars, NEW g \in Guests, phase[g] # "building",
           NEW n \in AnyName, NEW k \in AnyName, Root(k) = Root(n),
           FirstCanonical(g, k) # NoName
    PROVE  FirstCanonical(g, n)' = FirstCanonical(g, n)
<1>1. CASE mounted'[g] = mounted[g]
  BY <1>1, LiveStep DEF FirstCanonical
<1>2. ASSUME NEW b \in Bundles, Mountable(g, b), mounted'[g] = InsertBundle(mounted[g], b)
      PROVE  FirstCanonical(g, n)' = FirstCanonical(g, n)
  BY <1>2, LiveStep, Layers, MountKeepsCanonical DEF FirstCanonical, Mountable
<1> QED
  BY <1>1, <1>2, LiveStep

LEMMA CandidateIsStable ==
    ASSUME Structure, [Next]_vars, NEW g \in Guests, phase[g] # "building",
           NEW n \in AnyName, Candidate(g, n) # NoName
    PROVE  Candidate(g, n)' = Candidate(g, n)
<1>1. Index(n) \in AnyName /\ Root(Index(n)) = Root(n)
  BY IndexKeepsRoot
<1>2. CASE FirstCanonical(g, n) # NoName
  BY <1>2, CanonicalIsStable DEF Candidate
<1>3. CASE FirstCanonical(g, n) = NoName /\ FirstCanonical(g, Index(n)) # NoName
  <2>1. FirstCanonical(g, n)' = NoName
    BY <1>1, <1>3, CanonicalIsStable
  <2>2. FirstCanonical(g, Index(n))' = FirstCanonical(g, Index(n))
    BY <1>1, <1>3, CanonicalIsStable
  <2> QED
    BY <1>3, <2>1, <2>2 DEF Candidate
<1> QED
  BY <1>2, <1>3 DEF Candidate

LEMMA DenialIsStable ==
    ASSUME Structure, [Next]_vars, NEW g \in Guests, phase[g] # "building", NEW n
    PROVE  IsDenied(g, n)' = IsDenied(g, n)
BY LiveStep DEF IsDenied

-----------------------------------------------------------------------------
(* What the engine has. *)

\* The module s may be the engine's module of the name n.
Fits(g, n, s) == ~IsDenied(g, n) /\ s = Source(g, n)

Loaded == \A g \in Guests :
    /\ \A n \in DOMAIN instances[g] : Fits(g, n, instances[g][n])
    /\ \A i \in DOMAIN realising[g] : Fits(g, realising[g][i][1], realising[g][i][2])

LEMMA FitsIsStable ==
    ASSUME Structure, [Next]_vars, NEW g \in Guests, phase[g] # "building",
           NEW n \in Names, NEW s \in ModuleSources, Fits(g, n, s)
    PROVE  Fits(g, n, s)'
<1>1. Source(g, n) # Unbound /\ n \in AnyName
  BY SourcesAreSet, NamesAreNames DEF Fits
<1> QED
  BY <1>1, SourceIsStable, DenialIsStable DEF Fits

\* What the engine and the stack hold, typed.
LEMMA HeldTypes ==
    ASSUME Structure, NEW g \in Guests
    PROVE  /\ \A n \in DOMAIN instances[g] : n \in Names /\ instances[g][n] \in ModuleSources
           /\ \A i \in DOMAIN realising[g] :
                  realising[g][i][1] \in Names /\ realising[g][i][2] \in ModuleSources
           /\ phase[g] = "building" => DOMAIN instances[g] = {} /\ DOMAIN realising[g] = {}
<1>1. instances[g] \in PartialMaps(Names, ModuleSources)
      /\ realising[g] \in Seq(Names \X ModuleSources)
  BY DEF Structure, TypeOK
<1>2. \A i \in DOMAIN realising[g] : realising[g][i] \in Names \X ModuleSources
  BY <1>1
<1>3. phase[g] = "building" => DOMAIN instances[g] = {} /\ DOMAIN realising[g] = {}
  BY DEF Structure, Untouched
<1> QED
  BY <1>1, <1>2, <1>3, PartialMapsFacts

\* After a step the engine or the stack of a guest holds what it held before, or a
\* module that fits.
KeptOrFits(g) ==
    /\ \A n \in DOMAIN instances'[g] :
        \/ n \in DOMAIN instances[g] /\ instances'[g][n] = instances[g][n]
        \/ \E s \in ModuleSources : n \in Names /\ instances'[g][n] = s /\ Fits(g, n, s)'
    /\ \A i \in DOMAIN realising'[g] :
        \/ i \in DOMAIN realising[g] /\ realising'[g][i] = realising[g][i]
        \/ \E n \in Names, s \in ModuleSources : realising'[g][i] = <<n, s>> /\ Fits(g, n, s)'

LEMMA AdmitFits ==
    ASSUME Structure, NEW g \in Guests, NEW n \in Names, NEW s \in ModuleSources,
           Admit(g, n, s), Fits(g, n, s)',
           \A i \in DOMAIN realising'[g] : i \in DOMAIN realising[g] /\ realising'[g][i] = realising[g][i]
    PROVE  KeptOrFits(g)
<1>1. /\ DOMAIN instances'[g] = DOMAIN instances[g] \cup {n}
      /\ \A x \in DOMAIN instances[g] : instances'[g][x] = instances[g][x]
      /\ n \notin DOMAIN instances[g] => instances'[g][n] = s
  BY AdmitType
<1> QED
  BY <1>1 DEF KeptOrFits

LEMMA ImportFits ==
    ASSUME Structure, [Next]_vars, NEW g \in Guests, NEW n \in Names, Import(g, n)
    PROVE  KeptOrFits(g)
<1>1. PICK located \in Names, source \in ModuleSources :
          /\ located = Locate(g, n) /\ source = Source(g, located)
          /\ phase[g] # "building" /\ Fits(g, located, source)
  BY NamesAreNames, LocateFacts DEF Import, Live, Fits
<1>2. Fits(g, located, source)'
  BY <1>1, FitsIsStable
<1>3. CASE Admit(g, located, source) /\ UNCHANGED realising
  BY <1>2, <1>3, AdmitFits
<1>4. CASE /\ realising' = [realising EXCEPT ![g] = Append(@, <<located, source>>)]
           /\ UNCHANGED instances
  <2>1. realising \in [Guests -> Seq(Names \X ModuleSources)]
    BY DEF Structure, TypeOK
  <2>2. realising'[g] = Append(realising[g], <<located, source>>)
    BY <1>4, <2>1
  <2>3. \A i \in DOMAIN realising'[g] :
            \/ i \in DOMAIN realising[g] /\ realising'[g][i] = realising[g][i]
            \/ realising'[g][i] = <<located, source>>
    BY <2>1, <2>2
  <2> QED
    BY <1>2, <1>4, <2>3 DEF KeptOrFits
<1> QED
  BY <1>1, <1>3, <1>4 DEF Import

LEMMA RealisedFits ==
    ASSUME Structure, Loaded, [Next]_vars, NEW g \in Guests, Realised(g) \/ RealiseFails(g)
    PROVE  KeptOrFits(g)
<1> DEFINE last == Len(realising[g])
<1>1. realising \in [Guests -> Seq(Names \X ModuleSources)]
  BY DEF Structure, TypeOK
<1>2. /\ realising[g] # <<>> /\ phase[g] # "building"
      /\ realising'[g] = SubSeq(realising[g], 1, last - 1)
  BY <1>1 DEF Realised, RealiseFails, Live
<1>3. realising[g] \in Seq(Names \X ModuleSources)
  BY <1>1
<1>4. /\ last \in Nat \ {0} /\ Len(realising'[g]) = last - 1
      /\ realising'[g] \in Seq(Names \X ModuleSources)
      /\ \A i \in 1..(last - 1) : realising'[g][i] = realising[g][i]
  BY <1>2, <1>3, Popped
<1>5. DOMAIN realising[g] = 1..last /\ DOMAIN realising'[g] = 1..(last - 1)
  BY <1>3, <1>4
<1>6. /\ last \in DOMAIN realising[g]
      /\ \A i \in DOMAIN realising'[g] :
             i \in DOMAIN realising[g] /\ realising'[g][i] = realising[g][i]
  BY <1>4, <1>5, SMTT(30)
<1>7. CASE RealiseFails(g)
  BY <1>6, <1>7 DEF RealiseFails, KeptOrFits
<1>8. CASE Realised(g)
  <2>1. PICK n \in Names, s \in ModuleSources :
            n = realising[g][last][1] /\ s = realising[g][last][2] /\ Fits(g, n, s)
    BY <1>6, HeldTypes DEF Loaded
  <2>2. Admit(g, n, s)
    BY <1>8, <2>1 DEF Realised
  <2>3. Fits(g, n, s)'
    BY <1>2, <2>1, FitsIsStable
  <2> QED
    BY <1>6, <2>2, <2>3, AdmitFits
<1> QED
  BY <1>7, <1>8

LEMMA LoadFits ==
    ASSUME Structure, NEW g \in Guests, NEW b \in Bundles, Load(g, b)
    PROVE  KeptOrFits(g)
<1>1. UNCHANGED realising
  BY LoadFacts
<1>2. CASE UNCHANGED instances
  BY <1>1, <1>2 DEF KeptOrFits
<1>3. ASSUME NEW n \in Names, Source(g, n)' \in ModuleSources, ~IsDenied(g, n)',
             Admit(g, n, Source(g, n)')
      PROVE  KeptOrFits(g)
  <2>1. PICK s \in ModuleSources : s = Source(g, n)'
    BY <1>3
  <2>2. Admit(g, n, s) /\ Fits(g, n, s)'
    BY <1>3, <2>1 DEF Fits
  <2> QED
    BY <1>1, <2>2, AdmitFits
<1> QED
  BY <1>2, <1>3, LoadAdmits

LEMMA NextFits ==
    ASSUME Structure, Loaded, [Next]_vars, NEW g \in Guests
    PROVE  KeptOrFits(g)
<1>1. /\ instances \in [Guests -> PartialMaps(Names, ModuleSources)]
      /\ realising \in [Guests -> Seq(Names \X ModuleSources)]
  BY DEF Structure, TypeOK
<1>2. ASSUME NEW n \in Names, Discard(g, n)
      PROVE  KeptOrFits(g)
  <2>1. instances'[g] = [x \in DOMAIN instances[g] \ {n} |-> instances[g][x]]
    BY <1>1, <1>2 DEF Discard
  <2>2. UNCHANGED realising
    BY <1>2 DEF Discard
  <2> QED
    BY <2>1, <2>2 DEF KeptOrFits
<1>3. ASSUME instances'[g] = instances[g], realising'[g] = realising[g]
      PROVE  KeptOrFits(g)
  BY <1>3 DEF KeptOrFits
<1>4. ASSUME NEW h \in Guests \ {g},
             \/ \E n \in Names : Import(h, n) \/ ImportHost(h, n) \/ Discard(h, n)
             \/ Realised(h) \/ RealiseFails(h)
             \/ \E b \in Bundles : Load(h, b)
      PROVE  instances'[g] = instances[g] /\ realising'[g] = realising[g]
  BY <1>1, <1>4 DEF Import, ImportHost, Discard, Realised, RealiseFails, Load, Admit
<1>5. CASE \/ \E o \in Owners : \/ \E m \in Modules : Bind(o, m)
                                \/ \E b \in Bundles : AddBundle(o, b)
                                \/ \E n \in Names : Deny(o, n)
           \/ BuildRuntime
           \/ \E h \in Guests : BuildGuest(h) \/ Initialised(h)
           \/ UNCHANGED vars
  BY <1>3, <1>5 DEF Bind, AddBundle, Deny, BuildRuntime, BuildGuest, Initialised, vars
<1> QED
  BY <1>2, <1>3, <1>4, <1>5, ImportFits, RealisedFits, LoadFits DEF Next, ImportHost

LEMMA NextLoaded == Structure /\ Loaded /\ [Next]_vars => Loaded'
<1> SUFFICES ASSUME Structure, Loaded, [Next]_vars, NEW g \in Guests
             PROVE  /\ \A n \in DOMAIN instances'[g] : Fits(g, n, instances[g][n])'
                    /\ \A i \in DOMAIN realising'[g] :
                           Fits(g, realising[g][i][1], realising[g][i][2])'
  BY DEF Loaded
<1>1. KeptOrFits(g)
  BY NextFits
<1>2. ASSUME NEW n \in DOMAIN instances'[g]
      PROVE  Fits(g, n, instances[g][n])'
  <2>1. PICK s \in ModuleSources : instances'[g][n] = s /\ Fits(g, n, s)'
    <3>1. CASE n \in DOMAIN instances[g] /\ instances'[g][n] = instances[g][n]
      <4>1. PICK s \in ModuleSources :
                s = instances[g][n] /\ Fits(g, n, s) /\ n \in Names /\ phase[g] # "building"
        BY <3>1, HeldTypes DEF Loaded
      <4> QED
        BY <3>1, <4>1, FitsIsStable
    <3> QED
      BY <1>1, <3>1 DEF KeptOrFits
  <2> QED
    BY <2>1 DEF Fits
<1>3. ASSUME NEW i \in DOMAIN realising'[g]
      PROVE  Fits(g, realising[g][i][1], realising[g][i][2])'
  <2>1. PICK n \in Names, s \in ModuleSources :
            realising'[g][i][1] = n /\ realising'[g][i][2] = s /\ Fits(g, n, s)'
    <3>1. CASE i \in DOMAIN realising[g] /\ realising'[g][i] = realising[g][i]
      <4>1. PICK n \in Names, s \in ModuleSources :
                /\ n = realising[g][i][1] /\ s = realising[g][i][2]
                /\ Fits(g, n, s) /\ phase[g] # "building"
        BY <3>1, HeldTypes DEF Loaded
      <4> QED
        BY <3>1, <4>1, FitsIsStable
    <3> QED
      BY <1>1, <3>1 DEF KeptOrFits
  <2> QED
    BY <2>1 DEF Fits, Source, IsDenied
<1> QED
  BY <1>2, <1>3

-----------------------------------------------------------------------------
(* The theorems. *)

IInv == Structure /\ Loaded

LEMMA InitIInv == Init => IInv
<1> SUFFICES ASSUME Init PROVE Loaded
  BY InitStructure DEF IInv
<1> QED
  BY DEF Init, Loaded, Empty

LEMMA NextIInv == IInv /\ [Next]_vars => IInv'
BY NextStructure, NextLoaded DEF IInv

LEMMA Invariance == Spec => []IInv
BY InitIInv, NextIInv, PTL DEF Spec

\* Every variable has its type, and a guest is begun only on a runtime that is built.
THEOREM TypeCorrect == Spec => []TypeOK
<1>1. IInv => TypeOK
  BY DEF IInv, Structure
<1> QED
  BY <1>1, Invariance, PTL

\* In a catalog, and among the mounted bundles of a guest, a name has one owner
\* (Sources::claim, insert_native, check_bundle).
THEOREM OneOwnerEach == Spec => []NamesHaveOneOwner
<1>1. IInv => NamesHaveOneOwner
  BY DEF IInv, Structure, Kept, NamesHaveOneOwner
<1> QED
  BY <1>1, Invariance, PTL

\* The loader never misses a name that locate returned (GuestBindings::locate).
THEOREM LocatedIsSourced == Spec => []LocatedHasSource
<1>1. IInv => LocatedHasSource
  BY LocatedHasSourceFollows DEF IInv
<1> QED
  BY <1>1, Invariance, PTL

\* The engine of a guest has no module denied to the guest (GuestBindings::locate).
THEOREM DenialHolds == Spec => []DeniedNeverLoaded
<1>1. IInv => DeniedNeverLoaded
  BY DEF IInv, Loaded, Fits, DeniedNeverLoaded
<1> QED
  BY <1>1, Invariance, PTL

\* The engine's modules are the ones the bindings find (Imports::load).
THEOREM InstancesAreBound == Spec => []InstancesMatchBindings
<1>1. IInv => InstancesMatchBindings
  BY DEF IInv, Loaded, Fits, InstancesMatchBindings
<1> QED
  BY <1>1, Invariance, PTL

LEMMA MountedApart ==
    ASSUME NEW S, NEW M, Kept(S), MountedOnly(M), Apart(S, M),
           NEW n \in Names, Root(n) \in DOMAIN M.bundles
    PROVE  Find(S, n) \in {Unbound, Find(M, n)} /\ n \notin DOMAIN S.aliases
<1>1. n \notin BoundNames(S)
  BY DEF Kept, OneOwner, Apart
<1>2. Root(n) \in DOMAIN S.bundles => S.bundles[Root(n)] = M.bundles[Root(n)]
  BY DEF Apart
<1>3. Find(S, n) \in {Unbound, Find(M, n)}
  BY <1>1, <1>2 DEF Find, InBundle, BoundNames, MountedOnly
<1> QED
  BY <1>1, <1>3 DEF BoundNames

\* A mounted bundle hides no other binding (GuestBindings::mount).
THEOREM NothingHidden == Spec => []MountHidesNothing
<1>1. IInv => MountHidesNothing
  <2> SUFFICES ASSUME IInv, NEW g \in Guests, NEW n \in Names,
                      Root(n) \in DOMAIN mounted[g].bundles, NEW o \in {g, Runtime}
               PROVE  Find(sources[o], n) \in {Unbound, Find(mounted[g], n)}
                      /\ n \notin DOMAIN sources[o].aliases
    BY DEF MountHidesNothing
  <2>1. /\ Kept(sources[o]) /\ Apart(sources[o], mounted[g])
        /\ MountedOnly(mounted[g])
    BY DEF IInv, Structure, Owners
  <2> QED
    BY <2>1, MountedApart
<1> QED
  BY <1>1, Invariance, PTL

LEMMA StepIsStable ==
    ASSUME IInv, [Next]_vars, NEW g \in Guests, Live(g),
           NEW n \in Names, NEW c \in Names, Candidate(g, n) = c
    PROVE  Locate(g, n)' = Locate(g, n) /\ Source(g, c)' = Source(g, c)
<1>1. n \in AnyName /\ c \in AnyName /\ c # NoName /\ phase[g] # "building"
  BY NamesAreNames DEF Live
<1>2. Candidate(g, n)' = c
  BY <1>1, CandidateIsStable DEF IInv
<1>3. Source(g, c) # Unbound
  BY <1>1, CandidateFacts, SourcesAreSet DEF IInv
<1>4. Source(g, c)' = Source(g, c)
  BY <1>1, <1>3, SourceIsStable DEF IInv
<1>5. IsDenied(g, n)' = IsDenied(g, n) /\ IsDenied(g, c)' = IsDenied(g, c)
  BY <1>1, DenialIsStable DEF IInv
<1>6. Locate(g, n)' = Locate(g, n)
  BY <1>2, <1>5 DEF Locate, IsDenied
<1> QED
  BY <1>4, <1>6

\* What a name stands for in a guest does not change, whatever is mounted
\* (GuestBindings::mount).
THEOREM BindingsNeverChange == Spec => BindingsStable
<1>1. IInv /\ [Next]_vars =>
          [\A g \in Guests : Live(g) /\ Live(g)' =>
              \A n \in Names : \A c \in Names \cap {Candidate(g, n)} :
                  Locate(g, n)' = Locate(g, n) /\ Source(g, c)' = Source(g, c)]_vars
  BY StepIsStable
<1> QED
  BY <1>1, Invariance, PTL DEF Spec, BindingsStable

\* What the bindings of a guest find is one thing, is there, and is hidden by nothing
\* (Sources, GuestBindings).
THEOREM BindingsAlwaysSound == Spec => []BindingsSound
<1>1. NamesHaveOneOwner /\ LocatedHasSource /\ MountHidesNothing => BindingsSound
  BY DEF BindingsSound
<1> QED
  BY <1>1, OneOwnerEach, LocatedIsSourced, NothingHidden, PTL
=============================================================================
