---------------------------- MODULE MCSdkPayment ----------------------------
(***************************************************************************)
(* Two attempts.  Two fetches and a pay name the first, a fetch the        *)
(* second.                                                                 *)
(***************************************************************************)
EXTENDS SdkPayment, TLC

CONSTANTS f1, f2, d1, f3, k1, k2

MCKeyOf == f1 :> k1 @@ f2 :> k1 @@ d1 :> k1 @@ f3 :> k2
=============================================================================
