------------------------------ MODULE Exceptions ------------------------------
(***************************************************************************)
(* What is thrown and caught across frames of the host and of guests       *)
(* (errors.rs and host/exception.rs of core, error.rs of the backend).     *)
(*                                                                         *)
(* An error of the host is a record of one field, named for its category.  *)
(* A value that a guest throws is known by what reading it gives: reads    *)
(* are [text |-> s], [other |-> 0] for what is no string, [fails |-> 0]    *)
(* when the guest's getter throws, and [stops |-> 0] when it is stopped;   *)
(* its chain is the set of what the names of the constructors of its       *)
(* prototypes give.                                                        *)
(***************************************************************************)
EXTENDS Conversions, SequencesExt

CONSTANTS
    Origins,        \* where errors come from, see Begun
    Frames,         \* [context, catches]: frames of guests
    MaxFrames       \* bound: how many of them an error leaves

NoStack == "no stack"

Categories == {"unexpected", "guest", "conversion", "foreign", "borrow", "unsupported", "interrupted",
    "timeout", "cancelled", "closed", "engine", "import", "bundle", "host"}

ErrorOf(category, message) == [c \in {category} |-> message]
Interrupted == ErrorOf("interrupted", "execution was interrupted")

\* Error::guest_kind: the class an error of the host has in a guest.
GuestKind(error) ==
    CASE Is(error, {"conversion", "foreign", "borrow", "unsupported"}) -> "TypeError"
      [] Is(error, {"import"}) -> "ReferenceError"
      [] OTHER -> "Error"

\* Of two interruptions none is another.
SoundError(error) ==
    /\ Is(error, Categories \ {"guest"})
    /\ Is(error, {"interrupted"}) => error = Interrupted

SoundOrigin(from) ==
    /\ from.from \in {"host", "guest", "throw", "construct"}
    /\ from.from = "host" => SoundError(from.error)
    /\ from.from = "guest" => from.value.error \in BOOLEAN /\ from.value.uncatchable \in BOOLEAN
    /\ from.from = "throw" => \A error \in from.fails : SoundError(error)

ASSUME OriginsAssumption ==
    /\ \A from \in Origins : SoundOrigin(from)
    /\ \A frame \in Frames : frame.catches \in BOOLEAN
    /\ MaxFrames \in Nat

VARIABLES
    origin,         \* where the error comes from
    passed,         \* the frames of guests it went into, in their order
    journey         \* [error, caught, value]: the error as it is, or what a guest caught

exceptionVars == <<origin, passed, journey>>

-----------------------------------------------------------------------------
(* Capture: a value thrown by a guest becomes an error of the host. *)

Text(s) == [text |-> s]
TextOr(read, otherwise) == IF Is(read, {"text"}) THEN read.text ELSE otherwise

\* Thrown::settle: what a getter throws meanwhile is dropped, but not that it was stopped.
Settles(reads) == \A read \in reads : ~Is(read, {"stops"})

\* GuestException: the name of an error, or the typeof of anything else, and the names of
\* the constructors of its prototypes as they are at the time.
GuestException(value) ==
    [name |-> IF value.error THEN TextOr(value.name, value.type) ELSE value.type,
     message |-> TextOr(IF value.error THEN value.message ELSE value.text, ""),
     stack |-> IF value.error THEN TextOr(value.stack, NoStack) ELSE NoStack,
     prototypes |-> {read.text : read \in {r \in value.chain : Is(r, {"text"})}},
     value |-> value]

\* Thrown::exception: a value that cannot be caught was an interruption.
Capture(value) ==
    LET described == IF value.error THEN {value.name, value.message, value.stack} ELSE {value.text}
    IN  IF ~value.uncatchable /\ Settles(described \cup value.chain \cup {value.beyond})
        THEN [guest |-> GuestException(value)]
        ELSE Interrupted

\* GuestException::matches.
Matches(exception, name) == name \in exception.prototypes

-----------------------------------------------------------------------------
(* Raise: an error of the host becomes a value thrown in a guest. *)

ErrorChain(kind) == {Text(kind), Text("Error"), Text("Object")}

\* Create: an error of a built-in class with a message of its own.
Create(kind, message, context) ==
    [home |-> context, made |-> "host", error |-> TRUE, type |-> "object", uncatchable |-> FALSE,
     name |-> Text(kind), message |-> Text(message), stack |-> Text("here"), text |-> Text(message),
     chain |-> ErrorChain(kind), beyond |-> Text("")]

\* A slip: a value is handed to whichever guest asks.
RestoresAnywhere(exception, context) == TRUE

\* Owned::restore succeeds in the context the value is of.
Restores(exception, context) == exception.value.home = context

\* Of an exception of another guest the name, the message and the stack are copied.
Copied(exception, context) ==
    [Create("Error", exception.message, context) EXCEPT
        !.name = Text(exception.name),
        !.stack = IF exception.stack = NoStack THEN @ ELSE Text(exception.stack)]

Raise(error, context) ==
    IF Is(error, {"guest"})
    THEN IF Restores(error.guest, context) THEN error.guest.value ELSE Copied(error.guest, context)
    ELSE [Create(GuestKind(error), error[Kind(error)], context) EXCEPT !.uncatchable = Is(error, {"interrupted"})]

-----------------------------------------------------------------------------
(* Classes of exceptions that the host declares: [name, base]. *)

\* ExceptionDeclaration::realised: its prototype inherits from that of the base.
PrototypeOf(class) == {Text(class.name)} \cup ErrorChain(class.base)

\* ExceptionDeclaration::instantiate.
Instantiate(class, prototype, message, context) ==
    [Create(class.base, message, context) EXCEPT !.name = Text(class.name), !.chain = prototype]

\* HostException::throw: what goes wrong meanwhile takes the place of the exception.
ThrowException(class, fails, message, context) ==
    IF fails # {} THEN CHOOSE error \in fails : TRUE
    ELSE Capture(Instantiate(class, PrototypeOf(class), message, context))

\* ClassPrototype::for_target: that of the class the guest derived, if it did.
ForTarget(class, derived) == derived \cup PrototypeOf(class)

\* The message: none, or null, is an empty one, and anything but a string an error.
ReadMessage(args) ==
    LET given == IF args = <<>> THEN Undefined ELSE args[1]
    IN  CASE Is(given, Nullish) -> Ok([string |-> ""])
          [] Is(given, {"string"}) -> ReadString(given)
          [] OTHER -> Mismatch(<<"string", "undefined", "null">>, Kind(given))

\* The constructor.
Construct(class, args, derived, context) ==
    LET read == ReadMessage(args)
    IN  IF Succeeds(read) THEN Instantiate(class, ForTarget(class, derived), read.ok.string, context)
        ELSE Raise(ErrorOf("conversion", "expected string, undefined or null"), context)

\* HostException::caught.
Caught(class, error) == Is(error, {"guest"}) /\ Matches(error.guest, class.name)

-----------------------------------------------------------------------------
(* A journey: an error leaves one frame of a guest after the other for a frame of the host
   that passes it on, until a guest catches it or none is left. *)

\* Where an error comes from: the host, a value a guest throws, or an exception declared by
\* the host, which the host throws or a guest constructs and throws.
Begun(from) ==
    CASE from.from = "host" -> from.error
      [] from.from = "guest" -> Capture(from.value)
      [] from.from = "throw" -> ThrowException(from.class, from.fails, from.message, from.context)
      [] from.from = "construct" -> Capture(Construct(from.class, from.args, from.derived, from.context))

Journey(error) == [error |-> error, caught |-> FALSE, value |-> <<>>]

\* What is thrown in a frame.
RaisedIn(frame) == Raise(journey.error, frame.context)

CaughtIn(frame) == frame.catches /\ ~RaisedIn(frame).uncatchable

Enters(frame) ==
    /\ ~journey.caught /\ Len(passed) < MaxFrames
    /\ passed' = Append(passed, frame)
    /\ UNCHANGED origin

Catch(frame) ==
    /\ Enters(frame) /\ CaughtIn(frame)
    /\ journey' = [journey EXCEPT !.caught = TRUE, !.value = <<RaisedIn(frame)>>]

Leave(frame) ==
    /\ Enters(frame) /\ ~CaughtIn(frame)
    /\ journey' = [journey EXCEPT !.error = Capture(RaisedIn(frame))]

ExceptionInit == origin \in Origins /\ passed = <<>> /\ journey = Journey(Begun(origin))

ExceptionNext == \E frame \in Frames : Catch(frame) \/ Leave(frame)

ExceptionSpec == ExceptionInit /\ [][ExceptionNext]_exceptionVars

-----------------------------------------------------------------------------
(* How an error arrives. *)

Arrived == IF journey.caught THEN Capture(journey.value[1]) ELSE journey.error

Stopped == Is(Begun(origin), {"interrupted"})

\* The guest alone that the value is of.
StaysIn(context) == \A i \in DOMAIN passed : passed[i].context = context

\* Of an error that is an exception of a guest already.
KeepsWhatItSays(begun, exception) ==
    /\ exception.name = begun.guest.name /\ exception.message = begun.guest.message
    /\ IF StaysIn(begun.guest.value.home) THEN exception = begun.guest
       ELSE exception.prototypes = {"Error", "Object"}

\* Of any other.
HasItsClass(begun, exception) ==
    /\ exception.name = GuestKind(begun) /\ exception.message = begun[Kind(begun)]
    /\ exception.prototypes =
         IF StaysIn(passed[1].context) THEN {GuestKind(begun), "Error", "Object"} ELSE {"Error", "Object"}

\* An error is passed on until the first frame that would catch it, and an interruption
\* past all of them.  In the guest it is of it stays the very value that was thrown, and is
\* caught by its class or one it derives from; once it has been in another guest an error
\* without a class has its place, even back at home, with its name and its message; and an
\* error of the host is of the built-in class its category has.
ErrorsArriveWhole ==
    LET begun == Begun(origin)
        catching == {i \in DOMAIN passed : passed[i].catches}
    IN  /\ IF Stopped THEN ~journey.caught ELSE catching = IF journey.caught THEN {Len(passed)} ELSE {}
        /\ Stopped \/ passed = <<>> => Arrived = begun
        /\ ~Stopped /\ passed # <<>> =>
             /\ Is(Arrived, {"guest"}) /\ Arrived.guest.value.home = Last(passed).context
             /\ IF Is(begun, {"guest"}) THEN KeepsWhatItSays(begun, Arrived.guest) ELSE HasItsClass(begun, Arrived.guest)
        /\ origin.from \in {"throw", "construct"} /\ Is(begun, {"guest"}) =>
             Caught(origin.class, begun) \/ begun.guest.name = "TypeError"
===============================================================================
