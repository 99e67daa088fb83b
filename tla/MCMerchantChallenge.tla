------------------------ MODULE MCMerchantChallenge ------------------------
(***************************************************************************)
(* Two challenges.  Two honest payloads compete for the first (two agents, *)
(* or one agent that built the payment twice), a third names it with       *)
(* altered terms, and one names the second challenge.                      *)
(***************************************************************************)
EXTENDS MerchantChallenge, TLC

CONSTANTS c1, c2, p1, p2, p3, p4

MCChallengeOf == p1 :> c1 @@ p2 :> c1 @@ p3 :> c1 @@ p4 :> c2
MCAlteredTerms == {p3}
=============================================================================
