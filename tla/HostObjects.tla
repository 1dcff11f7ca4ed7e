----------------------------- MODULE HostObjects -----------------------------
(***************************************************************************)
(* The host's modules, classes and objects in one guest: Realisation and   *)
(* Payloads on one call stack.  A method may import a module, a value that *)
(* is being realised may call a method.                                    *)
(***************************************************************************)
EXTENDS Payloads

vars == <<hostVars, stack, payloadVars>>

Init == RealisationInit /\ PayloadsInit

Next ==
    \/ RealisationNext /\ UNCHANGED payloadVars
    \/ PayloadsNext

Spec == Init /\ [][Next]_vars

-----------------------------------------------------------------------------
(* Properties. *)

TypeOK ==
    /\ life \in {"new", "building", "built", "failed"}
    /\ Len(stack) <= MaxFrames + 1
    /\ states \in 0..MaxStates
    /\ \A c \in Classes : Cardinality(realised[c]) <= 1
    /\ Cardinality(slot) <= 1
    /\ value \in [Cells -> 0..MaxValue]
    /\ iterator \in [Cells -> {"there", "gone"}]
    /\ ended \in [Cells -> BOOLEAN]

\* The classes a guest has seen under one type: exported, of an object, remembered.
ExportedBy(m, c) ==
    UNION {{instance.exports[i].thing : i \in {j \in DOMAIN instance.exports : Members[m][j].what = c}} :
              instance \in loaded[m]}

ClassesSeen(c) ==
    {r.id : r \in realised[c]}
        \cup {i.prototype : i \in {j \in instances : j.class = c}}
        \cup UNION {ExportedBy(m, c) : m \in Modules}

\* A type has one class in a guest: the one of every object and every export, however
\* realisations nest, fail half way and are tried again.  Otherwise instanceof lies.  It
\* does of a type whose realisation asked for its own class: get_or_realise, which had
\* found none before it realised, replaces the one that was made and given out meanwhile.
OneClassPerType == \A c \in Classes \ again : Cardinality(ClassesSeen(c)) <= 1

\* Callbacks find the state they ask for: what is realised has captured a state of the
\* types it requires, whether it came with a module or on its own.
StatesMeetNeeds ==
    /\ \A c \in Classes : \A r \in realised[c] : ClassNeeds[c] \subseteq Provides(r.state)
    /\ \A m \in Modules : \A instance \in loaded[m] :
         /\ ModuleNeeds[m] \subseteq Provides(instance.state)
         /\ instance.state # Empty =>
              \A n \in Modules \ {m} : \A other \in loaded[n] : other.state # instance.state

\* A module exports its own members, all of them, each name once, although others are
\* realised, and fail, while it is; and nothing waits in the slot but the exports of the
\* module that is being declared.
ExportsAreOwn ==
    /\ \A m \in Modules : \A instance \in loaded[m] :
         /\ [i \in DOMAIN instance.exports |-> instance.exports[i].name] = [i \in DOMAIN Members[m] |-> Members[m][i].name]
         /\ \A i, j \in DOMAIN instance.exports :
              instance.exports[i].name = instance.exports[j].name => i = j
    /\ slot # {} => TopIs("module") /\ slot = {Top.made} /\ Turn(Top) = "end"

\* A guest that is handed out has run every initialiser: those of the host before the
\* native ones, and those of the runtime before the guest's own.
InitializersInOrder ==
    /\ \A i, j \in DOMAIN ran : i < j =>
         /\ ran[i] \in ToSet(RuntimeNative \o GuestNative) => ran[j] \notin ToSet(RuntimeHost \o GuestHost)
         /\ ran[i] \in ToSet(GuestHost) => ran[j] \notin ToSet(RuntimeHost)
         /\ ran[i] \in ToSet(GuestNative) => ran[j] \notin ToSet(RuntimeNative)
    /\ life = "built" =>
         ToSet(ran) = ToSet(RuntimeHost \o GuestHost \o RuntimeNative \o GuestNative)

\* What a module, a class and a guest are made of is what they were declared with.
RealisedAsDeclared == TypeOK /\ StatesMeetNeeds /\ ExportsAreOwn /\ InitializersInOrder

\* Whoever holds a reference to a payload sees it change only by his own hand, whatever
\* guest code ran meanwhile; and an iterator that has returned None, which need not be
\* fused, is not asked again.
ReferencesStable ==
    \A i \in DOMAIN stack :
        /\ stack[i].kind \in {"method", "next"} => value[stack[i].of] = stack[i].saw
        /\ stack[i].kind = "next" => ~ended[stack[i].of]
===============================================================================
