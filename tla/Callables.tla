------------------------------- MODULE Callables -------------------------------
(***************************************************************************)
(* The functions the attribute macros export (host/callable.rs,            *)
(* parameter.rs, receiver.rs of the macros) and how the callbacks they     *)
(* generate take the arguments of a call (marshal/args.rs).  A callable is *)
(* [ordinary, receiver, async, parameters]: it is ordinary if it is safe,  *)
(* of Rust's ABI, without type parameters and with a written return type.  *)
(* A parameter is [roles, type, plain].                                    *)
(***************************************************************************)
EXTENDS Integers, Sequences, SequencesExt, FiniteSets, FiniteSetsExt

CONSTANT Calls      \* [callable, module, values]: functions of classes or modules, called

Rejected == "rejected"

ParameterTypes == {"T", "&T", "&mut T", "Vec<T>", "ModuleState<T>"}

\* ParameterOptions::resolve: the types that each role takes.
TypesFor == [
    borrow |-> {"&T"}, borrow_mut |-> {"&mut T"}, rest |-> {"Vec<T>"}, enter |-> {"&T"},
    context |-> {"&T"}, state |-> {"ModuleState<T>"}, this |-> ParameterTypes \ {"&mut T"}]

Callables == [ordinary : BOOLEAN, receiver : STRING, async : BOOLEAN,
              parameters : Seq([roles : SUBSET DOMAIN TypesFor, type : ParameterTypes, plain : BOOLEAN])]

ASSUME CallsAssumption == Calls \subseteq [callable : Callables, module : BOOLEAN, values : Seq(STRING)]

VARIABLES
    called,         \* a call of the callback that is generated for a callable
    taking          \* its arguments: [values, next, handed]

callableVars == <<called, taking>>

RoleOf(parameter) ==
    IF parameter.roles = {} THEN "value"
    ELSE LET role == CHOOSE role \in parameter.roles : TRUE
         IN  IF Cardinality(parameter.roles) > 1 \/ parameter.type \notin TypesFor[role] THEN Rejected
             ELSE IF role = "this" /\ parameter.type = "&T" THEN "this_ref"
             ELSE role

RolesOf(callable) == [i \in DOMAIN callable.parameters |-> RoleOf(callable.parameters[i])]

Consuming == {"value", "borrow", "borrow_mut", "rest"}
Borrowed == {"borrow", "borrow_mut", "enter", "context", "this_ref"}
This == {"this", "this_ref"}

CountOf(callable, roles) == Cardinality({i \in DOMAIN callable.parameters : RoleOf(callable.parameters[i]) \in roles})
Takes(callable, roles) == CountOf(callable, roles) > 0

-----------------------------------------------------------------------------
(* What is accepted. *)

\* A slip: a parameter may follow the rest.
RestAnywhere(roles) == TRUE

RestIsLast(roles) ==
    \A i, j \in DOMAIN roles : i < j /\ roles[i] = "rest" => roles[j] \notin Consuming

\* ParameterSyntax::parse, Receiver::new, Callable::new.
AcceptsCallable(callable) ==
    /\ callable.ordinary
    /\ callable.receiver \in {"none", "&self", "&mut self"}
    /\ \A i \in DOMAIN callable.parameters :
         callable.parameters[i].plain /\ RoleOf(callable.parameters[i]) # Rejected
    /\ RestIsLast(RolesOf(callable))

HasReceiver(callable) == callable.receiver # "none"

\* validate_async: the future of an async function outlives the call.
ValidAsync(callable, module) ==
    callable.async => (module \/ ~HasReceiver(callable)) /\ ~Takes(callable, Borrowed)

Plain(callable) == ~HasReceiver(callable) /\ ~callable.async

ValidInstance(callable) == HasReceiver(callable) \/ Takes(callable, This)

ValidGetter(callable) == ValidInstance(callable) /\ ~callable.async /\ ~Takes(callable, Consuming)

ValidSetter(callable) ==
    /\ ValidInstance(callable) /\ ~callable.async
    /\ CountOf(callable, Consuming) = 1 /\ CountOf(callable, {"value"}) = 1

ValidNamespaceFactory(callable) == Plain(callable) /\ callable.parameters = <<>>

\* validate_factory: of a state or an init hook.
ValidFactory(callable) == Plain(callable) /\ \A i \in DOMAIN callable.parameters : RolesOf(callable)[i] = "enter"

ValidBuildHook(callable) == Plain(callable) /\ RolesOf(callable) = <<"value">>

-----------------------------------------------------------------------------
(* A call of the callback that is generated. *)

Nothing == "undefined"

\* Args::advance.
Advanced(args) ==
    [args EXCEPT !.next = @ + 1,
                 !.handed = Append(@, IF args.next < Len(args.values) THEN <<args.values[args.next + 1]>> ELSE <<Nothing>>)]

\* Args::rest.
AllTaken(args) ==
    [args EXCEPT !.next = Len(args.values),
                 !.handed = Append(@, IF args.next <= Len(args.values)
                                      THEN SubSeq(args.values, args.next + 1, Len(args.values)) ELSE <<>>)]

\* ParameterRole::expression: what a parameter is handed.
Hand(args, role) ==
    CASE role \in {"value", "borrow", "borrow_mut"} -> Advanced(args)
      [] role = "rest" -> AllTaken(args)
      [] OTHER -> [args EXCEPT !.handed = Append(@, <<role>>)]

\* The callback in the order it runs: the receiver of a class is borrowed and the state of
\* a module resolved before the arguments are converted, unless the callable is async.
CallbackSteps(callable, module) ==
    LET receiver == IF HasReceiver(callable) THEN <<IF module THEN "resolve" ELSE "borrow">> ELSE <<>>
        arguments == RolesOf(callable)
    IN  IF callable.async THEN arguments \o receiver \o <<"promise", "body">>
        ELSE receiver \o arguments \o <<"body">>

\* What the body of an async function has of the call it outlives.
Captured(callable, module) ==
    IF callable.async THEN ToSet(CallbackSteps(callable, module)) \ {"promise", "body"} ELSE {}

Accepted(call) == AcceptsCallable(call.callable) /\ ValidAsync(call.callable, call.module)

\* Callable::arguments: the parameters take theirs one after the other.
TakesArgument ==
    LET roles == RolesOf(called.callable)
        i == Len(taking.handed) + 1
    IN  /\ Accepted(called) /\ i \in DOMAIN roles
        /\ taking' = Hand(taking, roles[i])
        /\ UNCHANGED called

CallableInit ==
    /\ called \in Calls
    /\ taking = [values |-> called.values, next |-> 0, handed |-> <<>>]

CallableNext == TakesArgument

CallableSpec == CallableInit /\ [][CallableNext]_callableVars

-----------------------------------------------------------------------------
Consumed(roles, i) == Cardinality({j \in 1..i : roles[j] \in Consuming})

\* By their positions: the i-th parameter that consumes takes the i-th argument.
Placed(roles, values, i) ==
    LET at == Consumed(roles, i)
    IN  CASE roles[i] \notin Consuming -> <<roles[i]>>
          [] roles[i] = "rest" -> SubSeq(values, at, Len(values))
          [] roles[i] \in Consuming \ {"rest"} -> <<IF at \in DOMAIN values THEN values[at] ELSE Nothing>>

\* A parameter takes the argument at its position, the rest what is left; and what an
\* async function keeps for later is nothing that is only lent for the call
\* (Callable::new, AsyncArguments, Args::advance).
ArgumentsInPlace ==
    LET roles == RolesOf(called.callable)
    IN  /\ DOMAIN taking.handed \subseteq DOMAIN roles
        /\ taking.handed = [i \in DOMAIN taking.handed |-> Placed(roles, called.values, i)]
        /\ Accepted(called) => Captured(called.callable, called.module) \cap Borrowed = {}
===============================================================================
