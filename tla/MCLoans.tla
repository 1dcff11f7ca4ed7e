------------------------------- MODULE MCLoans -------------------------------
(* Small instances of Loans. *)
EXTENDS Loans, TLC

CONSTANTS g1, g2, g3

MCSymmetry == Permutations({g1, g2, g3})

=============================================================================
