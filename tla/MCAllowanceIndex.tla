-------------------------- MODULE MCAllowanceIndex --------------------------
(***************************************************************************)
(* Two creations and two revocations of one treasury, and a get.           *)
(***************************************************************************)
EXTENDS AllowanceIndex, TLC

CallSymmetry == Permutations(Creates) \cup Permutations(Revokes)
=============================================================================
