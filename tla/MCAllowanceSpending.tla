------------------------- MODULE MCAllowanceSpending -------------------------
(* Three payments under two rules with different recipients, windows of two ledgers. *)
EXTENDS AllowanceSpending, TLC

CONSTANTS r1, r2, merchant, other

EachItsOwn == r1 :> merchant @@ r2 :> other
Symmetry == Permutations(Payments)
=============================================================================
