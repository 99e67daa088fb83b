------------------------- MODULE MCOwnerOnboarding -------------------------
(* Three calls of any kind, of two owners, and a restart.  The second owner is *)
(* a rival for the queue and the sponsor's sequence number.                    *)
EXTENDS OwnerOnboarding
=============================================================================
