----------------------------- MODULE MCImports -----------------------------
(* Two host modules, one below the root of the other, a native one with an alias below another root, a bundle that has
   an index, one that has its root's own module, and one of two roots. *)
EXTENDS Imports, TLC

CONSTANTS host, below, native, indexed, plain, wide

P == <<"p">>
PIndex == <<"p", "index">>
PTool == <<"p", "tool">>
Q == <<"q">>

MCNames == {P, PIndex, PTool, Q}
MCNameOf == (host :> P) @@ (below :> PIndex) @@ (native :> Q)
MCAliasesOf == (host :> {}) @@ (below :> {}) @@ (native :> {PTool})
MCProvides == (indexed :> {PIndex, PTool}) @@ (plain :> {P, PTool}) @@ (wide :> {PIndex, Q})
=============================================================================
