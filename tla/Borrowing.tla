------------------------------ MODULE Borrowing ------------------------------
(***************************************************************************)
(* What lending guest memory to Rust promises: a storage is lent to any    *)
(* number of shared borrows or to one exclusive borrow, guest code is      *)
(* called only while nothing is lent, and a refusal names the kind of a    *)
(* borrow that really stands in the way.  Guest code that intrudes, which  *)
(* nobody asked for, exposes the borrows that are live: it goes on running *)
(* beside these and no others.  No table, no counter, no call stack.       *)
(***************************************************************************)

CONSTANTS
    Borrows,    \* the borrows that may be live at once
    Storages,   \* the storages of guest memory
    NoBorrow,   \* a borrow that is not live
    MayIntrude  \* guest code may run although nobody asked for it

VARIABLES
    live,       \* borrow -> [storage, kind], or NoBorrow
    code,       \* whose code runs: "host" or "guest"
    answer,     \* the answer to the last request: "granted", or the kind in the way
    exposed     \* the borrows guest code may run beside

vars == <<live, code, answer, exposed>>

Kinds == {"shared", "exclusive"}

Init ==
    /\ live = [g \in Borrows |-> NoBorrow]
    /\ code = "host"
    /\ answer = "granted"
    /\ exposed = {}

\* The live borrows a borrow of storage s of the given kind cannot stand beside.
Conflicts(s, kind) ==
    {g \in Borrows :
        /\ live[g] # NoBorrow
        /\ live[g].storage = s
        /\ kind = "exclusive" \/ live[g].kind = "exclusive"}

Begin(g, s, kind) ==
    /\ code = "host"
    /\ live[g] = NoBorrow
    /\ Conflicts(s, kind) = {}
    /\ live' = [live EXCEPT ![g] = [storage |-> s, kind |-> kind]]
    /\ answer' = "granted"
    /\ \/ UNCHANGED exposed
       \/ MayIntrude /\ exposed' = exposed \cup {g}
    /\ UNCHANGED code

\* A borrow of nothing: an empty slice is granted and nothing is lent.
BeginEmpty ==
    /\ code = "host"
    /\ answer' = "granted"
    /\ UNCHANGED <<live, code, exposed>>

Refuse(s, kind) ==
    /\ code = "host"
    /\ \E g \in Conflicts(s, kind) : answer' = live[g].kind
    /\ UNCHANGED <<live, code, exposed>>

End(g) ==
    /\ code = "host"
    /\ live[g] # NoBorrow
    /\ live' = [live EXCEPT ![g] = NoBorrow]
    /\ exposed' = exposed \ {g}
    /\ UNCHANGED <<code, answer>>

\* Guest code is called.
Run ==
    /\ code = "host"
    /\ live = [g \in Borrows |-> NoBorrow]
    /\ code' = "guest"
    /\ answer' = "granted"
    /\ UNCHANGED <<live, exposed>>

\* Guest code goes on when the host function it called returns.
Resume ==
    /\ code = "host"
    /\ \A g \in Borrows : live[g] # NoBorrow => g \in exposed
    /\ code' = "guest"
    /\ UNCHANGED <<live, answer, exposed>>

\* Guest code nobody asked for, beside whatever is lent.
Intrude ==
    /\ MayIntrude
    /\ code = "host"
    /\ code' = "guest"
    /\ exposed' = {g \in Borrows : live[g] # NoBorrow}
    /\ UNCHANGED <<live, answer>>

RefuseRun ==
    /\ code = "host"
    /\ \E g \in Borrows : live[g] # NoBorrow /\ answer' = live[g].kind
    /\ UNCHANGED <<live, code, exposed>>

Stop ==
    /\ code = "guest"
    /\ code' = "host"
    /\ UNCHANGED <<live, answer, exposed>>

Next ==
    \/ \E g \in Borrows, s \in Storages, kind \in Kinds : Begin(g, s, kind)
    \/ BeginEmpty
    \/ \E s \in Storages, kind \in Kinds : Refuse(s, kind)
    \/ \E g \in Borrows : End(g)
    \/ Run
    \/ Resume
    \/ Intrude
    \/ RefuseRun
    \/ Stop

Spec == Init /\ [][Next]_vars

=============================================================================
