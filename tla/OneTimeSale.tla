---------------------------- MODULE OneTimeSale ----------------------------
(***************************************************************************)
(* What a payment challenge promises, without requests, awaits or a        *)
(* database.  A challenge is offered once.  One buyer at a time may hold   *)
(* it; a hold can be dropped until the transfer has been ordered, and      *)
(* never after.  Money moves only for the holder of an ordered challenge,  *)
(* once, and the resource is served only to a buyer whose money moved.     *)
(***************************************************************************)
CONSTANTS Challenges, Payloads, ChallengeOf, NoPayload

VARIABLES
    phase,      \* "absent", "open", "held" or "ordered", per challenge
    buyer,      \* the payload holding the challenge, or NoPayload
    paid,       \* payloads whose transfer happened
    served      \* payloads the resource was served for

saleVars == <<phase, buyer, paid, served>>

Init ==
    /\ phase = [c \in Challenges |-> "absent"]
    /\ buyer = [c \in Challenges |-> NoPayload]
    /\ paid = {}
    /\ served = {}

Offer(c) ==
    /\ phase[c] = "absent"
    /\ phase' = [phase EXCEPT ![c] = "open"]
    /\ UNCHANGED <<buyer, paid, served>>

Hold(c, p) ==
    /\ phase[c] = "open"
    /\ ChallengeOf[p] = c
    /\ phase' = [phase EXCEPT ![c] = "held"]
    /\ buyer' = [buyer EXCEPT ![c] = p]
    /\ UNCHANGED <<paid, served>>

Drop(c) ==
    /\ phase[c] = "held"
    /\ phase' = [phase EXCEPT ![c] = "open"]
    /\ buyer' = [buyer EXCEPT ![c] = NoPayload]
    /\ UNCHANGED <<paid, served>>

Order(c) ==
    /\ phase[c] = "held"
    /\ phase' = [phase EXCEPT ![c] = "ordered"]
    /\ UNCHANGED <<buyer, paid, served>>

Pay(c) ==
    /\ phase[c] = "ordered"
    /\ buyer[c] \notin paid
    /\ paid' = paid \cup {buyer[c]}
    /\ UNCHANGED <<phase, buyer, served>>

Serve(c) ==
    /\ phase[c] = "ordered"
    /\ buyer[c] \in paid
    /\ served' = served \cup {buyer[c]}
    /\ UNCHANGED <<phase, buyer, paid>>

Next ==
    \E c \in Challenges :
        \/ Offer(c)
        \/ \E p \in Payloads : Hold(c, p)
        \/ Drop(c)
        \/ Order(c)
        \/ Pay(c)
        \/ Serve(c)

Spec == Init /\ [][Next]_saleVars
=============================================================================
