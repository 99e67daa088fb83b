--------------------------- MODULE MCX402Payment ---------------------------
(***************************************************************************)
(* One challenge and two allowances.  An agent fetches with the first      *)
(* allowance (f1), settles the same challenge itself (d1), and is given    *)
(* the same 402 once more while using the second allowance (f2).           *)
(***************************************************************************)
EXTENDS X402Payment

CONSTANTS f1, f2, d1, c1, a1, a2

MCChallengeOf == [c \in Calls |-> c1]
MCAllowanceOf == [c \in Calls |-> IF c = f2 THEN a2 ELSE a1]
=============================================================================
