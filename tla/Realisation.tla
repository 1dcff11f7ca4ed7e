------------------------------ MODULE Realisation ------------------------------
(***************************************************************************)
(* What the host declares to guests becomes objects of one guest here: its *)
(* builder runs the initialisers (builder.rs), an import of a host module  *)
(* makes the module's state and realises its members (host/module.rs), and *)
(* a class is realised with the first of them that needs it                *)
(* (host/class.rs).  On the way host code runs: initialisers, factories of *)
(* module states, and values whose conversion is the application's.  It    *)
(* may import modules, ask for classes and convert payloads itself.        *)
(***************************************************************************)
EXTENDS Naturals, Sequences, SequencesExt, FiniteSets

CONSTANTS
    Modules, Classes,
    Members,        \* module -> its members: sequence of [name, what], what is "plain",
                    \* "host" for a value of the application's conversion, or a class
    ClassMembers,   \* class -> the values of its prototype and statics: "plain" or "host"
    Makes,          \* module -> the type of the state its factory makes, or NoState
    NoState,
    ModuleNeeds,    \* module -> the types of state its members require
    ClassNeeds,     \* class -> the types of state its callbacks require
    RuntimeHost, GuestHost, RuntimeNative, GuestNative, \* the initialisers, in sequences
    MaxFrames,      \* bound: how deep host code nests
    MaxStates       \* bound: how many states the factories make

ASSUME MembersAssumption ==
    /\ Classes \cap {"plain", "host", "end"} = {}
    /\ \A m \in Modules :
         /\ Members[m] \in Seq({Members[m][i] : i \in DOMAIN Members[m]})
         /\ \A i \in DOMAIN Members[m] : Members[m][i].what \in {"plain", "host"} \cup Classes

\* A registration, with the runtime or with the guest, of a host initialiser or of a
\* native one, is an initialiser of its own: one registered twice is two of them.
ASSUME InitializersAssumption ==
    /\ \A s \in {RuntimeHost, GuestHost, RuntimeNative, GuestNative} : s \in Seq(ToSet(s))
    /\ ToSet(RuntimeHost) \cap ToSet(GuestHost) = {}
    /\ ToSet(RuntimeNative) \cap ToSet(GuestNative) = {}
    /\ (ToSet(RuntimeHost) \cup ToSet(GuestHost)) \cap (ToSet(RuntimeNative) \cup ToSet(GuestNative)) = {}

ASSUME BoundsAssumption == MaxFrames \in Nat /\ MaxStates \in Nat

VARIABLES
    life,       \* of the guest: "new", "building", "built" or "failed"
    ran,        \* the initialisers that have ended well, in order
    stack,      \* frames of host code and of what it asks for, the last one runs
    states,     \* how many states the factories have made
    realised,   \* RealisedClasses: class -> at most one [id, state]
    classes,    \* class -> how often it was realised, the ids of what was made
    slot,       \* PendingExports: a set of at most one module's exports
    loaded,     \* module -> its instances in the engine: a set of [exports, state]
    instances,  \* the host objects there are: [class, prototype]
    again       \* history: the classes that were asked for by their own realisation

hostVars == <<life, ran, states, realised, classes, slot, loaded, instances, again>>

Empty == [type |-> NoState, id |-> 0]

Frame(kind, of) == [kind |-> kind, of |-> of, at |-> 0, state |-> Empty, made |-> <<>>]

Top == Last(stack)
TopIs(kind) == stack # <<>> /\ Top.kind = kind
Push(frame) == Append(stack, frame)
Replace(frame) == Append(Front(stack), frame)

\* What a module or class frame is about to realise; a module first makes its state.
Turn(frame) ==
    CASE frame.kind = "module" /\ frame.at = 0 -> "host"
      [] frame.kind = "module" /\ frame.at \in DOMAIN Members[frame.of] -> Members[frame.of][frame.at].what
      [] frame.kind = "class" /\ frame.at + 1 \in DOMAIN ClassMembers[frame.of] -> ClassMembers[frame.of][frame.at + 1]
      [] OTHER -> "end"

\* Code of the application runs and may call the library.
HostRuns ==
    /\ life # "new"
    /\ \/ stack = <<>> /\ life = "built"
       \/ stack # <<>> /\ Top.kind \notin {"module", "class"}
       \/ stack # <<>> /\ Top.kind \in {"module", "class"} /\ Turn(Top) = "host"

\* What is being realised may be asked for by what it runs, which may ask on a condition
\* and so end: neither a module nor a class is looked for again when it is made.
OnStack(kind, of) == \E i \in DOMAIN stack : stack[i].kind = kind /\ stack[i].of = of

\* A frame fails; a module fails with the class it exports.
WaitsForClass(i) == i > 0 /\ stack[i].kind = "module" /\ Turn(stack[i]) \in Classes

Unwound ==
    LET n == Len(stack) - 1
    IN  SubSeq(stack, 1, IF Top.kind = "class" /\ WaitsForClass(n) THEN n - 1 ELSE n)

-----------------------------------------------------------------------------
(* Building a guest. *)

\* The order in which the initialisers run.
Initializers == RuntimeHost \o GuestHost \o RuntimeNative \o GuestNative

Build ==
    /\ life = "new"
    /\ life' = "building"
    /\ stack' = Push(Frame("build", "guest"))
    /\ UNCHANGED <<ran, states, realised, classes, slot, loaded, instances, again>>

\* The initialiser that runs ends well.
InitializerEnds ==
    /\ TopIs("build")
    /\ Len(ran) < Len(Initializers)
    /\ ran' = Append(ran, Initializers[Len(ran) + 1])
    /\ UNCHANGED <<life, stack, states, realised, classes, slot, loaded, instances, again>>

InitializerFails ==
    /\ TopIs("build")
    /\ Len(ran) < Len(Initializers)
    /\ life' = "failed"
    /\ stack' = <<>>
    /\ UNCHANGED <<ran, states, realised, classes, slot, loaded, instances, again>>

\* GuestBuilder::build hands the guest out when all have.
AllHaveRun == Len(ran) = Len(Initializers)

Built ==
    /\ TopIs("build")
    /\ AllHaveRun
    /\ life' = "built"
    /\ stack' = <<>>
    /\ UNCHANGED <<ran, states, realised, classes, slot, loaded, instances, again>>

-----------------------------------------------------------------------------
(* Importing a host module. *)

\* A module that is not loaded yet is realised, also one that is being realised.
Import(m) ==
    /\ HostRuns
    /\ Len(stack) < MaxFrames
    /\ loaded[m] = {}
    /\ stack' = Push(Frame("module", m))
    /\ UNCHANGED hostVars

\* The state factory has run, and what the members need of the state is checked.
Provides(state) == {state.type} \ {NoState}

Meets(needs, state) == needs \subseteq Provides(state)

FactoryEnds ==
    /\ TopIs("module") /\ Top.at = 0
    /\ states < MaxStates
    /\ LET state == IF Makes[Top.of] = NoState THEN Empty
                    ELSE [type |-> Makes[Top.of], id |-> states + 1]
       IN  /\ states' = IF state = Empty THEN states ELSE states + 1
           /\ stack' = IF Meets(ModuleNeeds[Top.of], state)
                       THEN Replace([Top EXCEPT !.at = 1, !.state = state])
                       ELSE Unwound
    /\ UNCHANGED <<life, ran, realised, classes, slot, loaded, instances, again>>

Made(thing) ==
    Replace([Top EXCEPT !.at = @ + 1,
                        !.made = Append(@, [name |-> Members[Top.of][Top.at].name, thing |-> thing])])

\* A member that is no class is realised: a function, a namespace, a value.
MemberMade ==
    /\ TopIs("module") /\ Top.at > 0
    /\ Turn(Top) \in {"plain", "host"}
    /\ stack' = Made(0)
    /\ UNCHANGED hostVars

\* A slip: a class is realised for everyone who asks.
NoneAtHand(c) == {}

\* RealisedClasses::get.
ClassAtHand(c) == {r.id : r \in realised[c]}

AskedAgain(c) == IF OnStack("class", c) THEN again \cup {c} ELSE again

\* ClassDeclaration::realised: the requirements of the class are checked against the
\* state at hand, whether it is realised already or not.
AsksForClass ==
    /\ TopIs("module")
    /\ Turn(Top) \in Classes
    /\ LET c == Turn(Top)
       IN  IF Meets(ClassNeeds[c], Top.state)
           THEN \/ \E id \in ClassAtHand(c) : stack' = Made(id) /\ UNCHANGED again
                \/ /\ ClassAtHand(c) = {}
                   /\ stack' = Push([Frame("class", c) EXCEPT !.state = Top.state])
                   /\ again' = AskedAgain(c)
           ELSE stack' = Unwound /\ UNCHANGED again
    /\ UNCHANGED <<life, ran, states, realised, classes, slot, loaded, instances>>

\* BackendModules::synthetic: a name may be exported once.  What follows is the
\* engine's, and no code of the application or the guest runs before the exports are
\* taken out of the slot again.
Unique(made) == \A i, j \in DOMAIN made : made[i].name = made[j].name => i = j

StoreExports ==
    /\ TopIs("module") /\ Top.at > Len(Members[Top.of])
    /\ slot # {Top.made} \* not stored yet
    /\ IF Unique(Top.made)
       THEN slot' = {Top.made} /\ UNCHANGED stack
       ELSE stack' = Unwound /\ UNCHANGED slot
    /\ UNCHANGED <<life, ran, states, realised, classes, loaded, instances, again>>

TakeExports ==
    /\ slot # {}
    /\ \E exports \in slot :
         loaded' = [loaded EXCEPT ![Top.of] = @ \cup {[exports |-> exports, state |-> Top.state]}]
    /\ slot' = {}
    /\ stack' = Front(stack)
    /\ UNCHANGED <<life, ran, states, realised, classes, instances, again>>

\* A slip: the exports of a module that failed stay behind.
SlotKept == slot

SlotAfterFailure == {}

EngineFails ==
    /\ slot # {}
    /\ slot' = SlotAfterFailure
    /\ stack' = Unwound
    /\ UNCHANGED <<life, ran, states, realised, classes, loaded, instances, again>>

-----------------------------------------------------------------------------
(* Realising a class. *)

\* HostClass::class, with a state that is empty.
ClassOf(c) ==
    /\ HostRuns
    /\ Len(stack) < MaxFrames
    /\ realised[c] = {} /\ Meets(ClassNeeds[c], Empty)
    /\ stack' = Push(Frame("class", c))
    /\ again' = AskedAgain(c)
    /\ UNCHANGED <<life, ran, states, realised, classes, slot, loaded, instances>>

PropertyMade ==
    /\ TopIs("class")
    /\ Turn(Top) \in {"plain", "host"}
    /\ stack' = Replace([Top EXCEPT !.at = @ + 1])
    /\ UNCHANGED hostVars

\* The class is linked and remembered, in the place of one its realisation asked for,
\* and goes to who asked for it.
ClassEnds ==
    /\ TopIs("class") /\ Turn(Top) = "end"
    /\ classes' = [classes EXCEPT ![Top.of] = @ + 1]
    /\ realised' = [realised EXCEPT ![Top.of] = {[id |-> classes[Top.of] + 1, state |-> Top.state]}]
    /\ stack' = IF WaitsForClass(Len(stack) - 1)
                THEN LET module == stack[Len(stack) - 1]
                     IN  Append(SubSeq(stack, 1, Len(stack) - 2),
                                [module EXCEPT !.at = @ + 1,
                                               !.made = Append(@, [name |-> Members[module.of][module.at].name,
                                                                   thing |-> classes[Top.of] + 1])])
                ELSE Front(stack)
    /\ UNCHANGED <<life, ran, states, slot, loaded, instances, again>>

\* A factory, a value of the application or the engine fails while something is realised.
RealisationFails ==
    /\ TopIs("module") \/ TopIs("class")
    /\ slot = {}
    /\ Turn(Top) # "end"
    /\ stack' = Unwound
    /\ UNCHANGED hostVars

\* ToGuest of a payload: an object of the realised class, or an error.
Give(c) ==
    /\ HostRuns
    /\ \E p \in ClassAtHand(c) : instances' = instances \cup {[class |-> c, prototype |-> p]}
    /\ UNCHANGED <<life, ran, stack, states, realised, classes, slot, loaded, again>>

-----------------------------------------------------------------------------
RealisationInit ==
    /\ life = "new"
    /\ ran = <<>>
    /\ stack = <<>>
    /\ states = 0
    /\ realised = [c \in Classes |-> {}]
    /\ classes = [c \in Classes |-> 0]
    /\ slot = {}
    /\ loaded = [m \in Modules |-> {}]
    /\ instances = {}
    /\ again = {}

RealisationNext ==
    \/ Build \/ InitializerEnds \/ InitializerFails \/ Built
    \/ \E m \in Modules : Import(m)
    \/ FactoryEnds \/ MemberMade \/ AsksForClass
    \/ StoreExports \/ TakeExports \/ EngineFails
    \/ \E c \in Classes : ClassOf(c) \/ Give(c)
    \/ PropertyMade \/ ClassEnds \/ RealisationFails

===============================================================================
