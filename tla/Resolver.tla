------------------------------ MODULE Resolver ------------------------------
(***************************************************************************)
(* How the specifier of an import, and the name of the module it stands    *)
(* in, become the name that is looked up.  A specifier or a name is the    *)
(* sequence of its segments between slashes: the empty string is <<"">>,   *)
(* and a name that begins with a slash begins with the segment "".  A      *)
(* relative specifier is joined to its referrer segment by segment.        *)
(***************************************************************************)
EXTENDS Naturals, Sequences, FiniteSets, SequencesExt

CONSTANTS
    Words,          \* the segments other than "", "." and ".."
    Stem,           \* word -> the word without its script extension, if it has one
    MaxReferrer,    \* bound: the segments of a referrer
    MaxSpecifier    \* bound: the segments of a specifier

Segments == Words \cup {"", ".", ".."}

ASSUME WordsAssumption == Words \cap {"", ".", ".."} = {} /\ Words \subseteq STRING
ASSUME StemAssumption == Stem \in [Words -> STRING]
ASSUME BoundsAssumption == MaxReferrer \in Nat /\ MaxSpecifier \in Nat \ {0}

Refused == <<"refused">>
Unresolved == <<"unresolved">>

VARIABLES
    referrer,   \* the name of the referring module, <<"">> for the host
    specifier,  \* what it imports
    position,   \* the segments of the specifier that were joined
    segments,   \* what they and the referrer's directory make so far
    outcome     \* Unresolved, Refused or <<"name", name>>

resolverVars == <<referrer, specifier, position, segments, outcome>>

-----------------------------------------------------------------------------
\* Of a path the last segment goes; a name without a slash has no directory.
Directory(name) == Front(name)

Relative(s) == Len(s) > 1 /\ Head(s) \in {".", ".."}

\* An empty, an absolute, and a relative specifier of the host are refused.
RefusedOutright(from, s) == Head(s) = "" \/ (Relative(s) /\ from = <<"">>)

\* A slip: an extension that is the whole segment is dropped too.
FromAnyPath(path) ==
    IF Last(path) \in Words /\ Stem[Last(path)] # Last(path) THEN Append(Front(path), Stem[Last(path)]) ELSE <<>>

\* The name of the module at a path, without its script extension, or <<>> if it has
\* none or if its last segment is nothing else.
FromPath(path) ==
    IF Last(path) \in Words /\ Stem[Last(path)] \notin {"", Last(path)}
    THEN Append(Front(path), Stem[Last(path)]) ELSE <<>>

NameOfPath(path) ==
    IF path = <<>> THEN <<"">> ELSE IF FromPath(path) = <<>> THEN path ELSE FromPath(path)

-----------------------------------------------------------------------------
ResolverInit ==
    /\ referrer \in {<<"">>} \cup (BoundedSeq(Words, MaxReferrer) \ {<<>>})
    /\ specifier \in BoundedSeq(Segments, MaxSpecifier) \ {<<>>}
    /\ position = 0
    /\ segments = Directory(referrer)
    /\ outcome = Unresolved

\* A bare specifier is a name as it stands.
Resolved ==
    /\ position = 0 /\ outcome = Unresolved
    /\ \/ /\ RefusedOutright(referrer, specifier)
          /\ outcome' = Refused
       \/ /\ ~RefusedOutright(referrer, specifier)
          /\ ~Relative(specifier)
          /\ outcome' = <<"name", specifier>>
    /\ UNCHANGED <<referrer, specifier, position, segments>>

Joining ==
    /\ outcome = Unresolved
    /\ Relative(specifier)
    /\ ~RefusedOutright(referrer, specifier)

Parent(path) == Front(path)

Refuses(segment, path) == segment = "" \/ (segment = ".." /\ path = <<>>)

Onto(path, segment) ==
    CASE segment = "." -> path
      [] segment = ".." -> Parent(path)
      [] OTHER -> Append(path, segment)

Join ==
    /\ Joining
    /\ position < Len(specifier)
    /\ LET segment == specifier[position + 1]
           refused == Refuses(segment, segments)
       IN  /\ outcome' = IF refused THEN Refused ELSE outcome
           /\ segments' = IF refused THEN segments ELSE Onto(segments, segment)
    /\ position' = position + 1
    /\ UNCHANGED <<referrer, specifier>>

Joined ==
    /\ Joining
    /\ position = Len(specifier)
    /\ outcome' = <<"name", NameOfPath(segments)>>
    /\ UNCHANGED <<referrer, specifier, position, segments>>

ResolverNext == Resolved \/ Join \/ Joined

ResolverSpec == ResolverInit /\ [][ResolverNext]_resolverVars

-----------------------------------------------------------------------------
(* The reference: words and climbs of the whole path are opening and closing
   brackets.  The name is made of the words that no climb closes. *)

Path(from, s) == Directory(from) \o s

Count(path, i, j, S) == Cardinality({k \in i..j : path[k] \in S})

Unclosed(path) == {i \in DOMAIN path :
    /\ path[i] \in Words
    /\ \A j \in i..Len(path) : Count(path, i, j, {".."}) < Count(path, i, j, Words)}

LeavesRoot(path) == \E j \in DOMAIN path :
    Count(path, 1, j, {".."}) > Count(path, 1, j, Words)

Rank(path, i) == Cardinality({j \in Unclosed(path) : j <= i})

OpenWords(path) == [k \in 1..Cardinality(Unclosed(path)) |->
    path[CHOOSE i \in Unclosed(path) : Rank(path, i) = k]]

WithoutExtension(path) == [i \in DOMAIN path |->
    IF i = Len(path) /\ Stem[path[i]] # "" THEN Stem[path[i]] ELSE path[i]]

Reference(from, s) ==
    IF Head(s) = "" THEN Refused
    ELSE IF ~Relative(s) THEN <<"name", s>>
    ELSE IF from = <<"">> \/ "" \in ToSet(s) \/ LeavesRoot(Path(from, s)) THEN Refused
    ELSE IF Unclosed(Path(from, s)) = {} THEN <<"name", <<"">>>>
    ELSE <<"name", WithoutExtension(OpenWords(Path(from, s)))>>

-----------------------------------------------------------------------------
(* Properties. *)

\* Joining segment by segment gives what the brackets of the whole path say, and
\* refuses exactly the paths that leave the root or have an empty segment
\* (Resolver::join, Resolver::resolve).
ResolvesAsReference == outcome # Unresolved => outcome = Reference(referrer, specifier)
=============================================================================
