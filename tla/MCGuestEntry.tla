---------------------------- MODULE MCGuestEntry ----------------------------
(* Small instances of GuestEntry. *)
EXTENDS GuestEntry, TLC

CONSTANTS a, b, stop

Timed      == [timeout |-> {1}, signal |-> {}]
Instant    == [timeout |-> {0}, signal |-> {}]
Endless    == [timeout |-> {9}, signal |-> {stop}]

MCPolicies == {Instant, Timed, Endless}
MCCancellable == {[timeout |-> {}, signal |-> {stop}]}
MCSymmetry == Permutations({a, b})

=============================================================================
