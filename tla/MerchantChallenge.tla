------------------------- MODULE MerchantChallenge -------------------------
(***************************************************************************)
(* The paid resource server: the handlers of GET /premium and              *)
(* GET /payments/:challengeId and the table of payment challenges they     *)
(* share.                                                                  *)
(*                                                                         *)
(* The server is one event loop.  A handler runs without interruption up   *)
(* to its next await, so every action below is the code between two        *)
(* awaits, store calls included; requests interleave only at the awaits    *)
(* (facilitator.verify, facilitator.settle, getLatestLedger).  The table   *)
(* is on disk and outlives the process; what a handler holds in its locals *)
(* does not.                                                               *)
(***************************************************************************)
EXTENDS Integers, FiniteSets

CONSTANTS
    Challenges,     \* challenge ids the server may issue (uuids, never reused)
    Payloads,       \* decodable PAYMENT-SIGNATURE headers, equal iff their hashes are
    ChallengeOf,    \* the challenge id a payload's accepted terms name
    AlteredTerms,   \* payloads whose other accepted terms differ from the challenge
    Requests,       \* HTTP requests, each handled once
    NoPayload,      \* SQL NULL, an unset local
    CanCrash,       \* whether the process may die
    Ttl,            \* lifetime of a challenge (60 s in the code)
    MaxTime         \* bound on the clock

ASSUME ChallengesAssumption ==
    /\ ChallengeOf \in [Payloads -> Challenges]
    /\ AlteredTerms \subseteq Payloads
    /\ NoPayload \notin Payloads
    /\ CanCrash \in BOOLEAN
    /\ Ttl \in Nat
    /\ MaxTime \in Nat

VARIABLES
    now,            \* the wall clock
    rows,           \* ids with a row in the challenges table
    expiresAt,      \* column expires_at
    payloadHash,    \* column payload_hash: the payload holding the claim
    receipt,        \* column receipt_json: the payload the receipt is for
    pc,             \* where each request's handler is suspended
    sig,            \* the payload each request carries
    carried,        \* the handler's local `receipt`
    answer,         \* the response sent
    ordered,        \* requests that have called facilitator.settle
    chain           \* payloads whose transfer the ledger has executed

storeVars == <<rows, expiresAt, payloadHash, receipt>>
requestVars == <<pc, sig, carried, answer>>
vars == <<now, rows, expiresAt, payloadHash, receipt, pc, sig, carried, answer,
          ordered, chain>>

Awaiting == {"verify", "settle", "ledger"}

Refusals == {"MALFORMED_PAYMENT_SIGNATURE", "CHALLENGE_NOT_FOUND", "CHALLENGE_EXPIRED",
             "PAYMENT_REQUIREMENTS_MISMATCH", "SETTLEMENT_PENDING",
             "CHALLENGE_ALREADY_CLAIMED", "FACILITATOR_UNAVAILABLE",
             "FACILITATOR_REJECTED", "SETTLEMENT_FAILED"}

Answers == Refusals \cup {"none", "PAID_AND_UNLOCKED", "HTTP_500", "lost",
                          "NOT_FOUND", "PENDING", "RECEIPT"}

ReqChallenge(r) == ChallengeOf[sig[r]]

TypeOK ==
    /\ now \in 0 .. MaxTime
    /\ rows \subseteq Challenges
    /\ expiresAt \in [Challenges -> Nat]
    /\ payloadHash \in [Challenges -> Payloads \cup {NoPayload}]
    /\ receipt \in [Challenges -> Payloads \cup {NoPayload}]
    /\ pc \in [Requests -> {"idle", "done"} \cup Awaiting]
    /\ sig \in [Requests -> Payloads \cup {NoPayload}]
    /\ carried \in [Requests -> Payloads \cup {NoPayload}]
    /\ answer \in [Requests -> Answers]
    /\ ordered \subseteq Requests
    /\ chain \subseteq Payloads

Init ==
    /\ now = 0
    /\ rows = {}
    /\ expiresAt = [c \in Challenges |-> 0]
    /\ payloadHash = [c \in Challenges |-> NoPayload]
    /\ receipt = [c \in Challenges |-> NoPayload]
    /\ pc = [r \in Requests |-> "idle"]
    /\ sig = [r \in Requests |-> NoPayload]
    /\ carried = [r \in Requests |-> NoPayload]
    /\ answer = [r \in Requests |-> "none"]
    /\ ordered = {}
    /\ chain = {}

-----------------------------------------------------------------------------
(* The table. *)

Expired(c) == expiresAt[c] < now

\* store.create: a fresh row, no claim, no receipt.
Create(c) ==
    /\ rows' = rows \cup {c}
    /\ expiresAt' = [expiresAt EXCEPT ![c] = now + Ttl]
    /\ UNCHANGED <<payloadHash, receipt>>

\* Fault: any payload of a settled challenge is taken for the one that paid.
ClaimStatusAnyBuyer(c, p) ==
    IF receipt[c] # NoPayload THEN "settled"
    ELSE IF payloadHash[c] = NoPayload THEN "acquired" ELSE "conflict"

\* Fault: a claim counts as over once its receipt is stored.
ClaimStatusReopened(c, p) ==
    IF payloadHash[c] = p THEN (IF receipt[c] = NoPayload THEN "pending" ELSE "settled")
    ELSE IF payloadHash[c] = NoPayload \/ receipt[c] # NoPayload THEN "acquired"
    ELSE "conflict"

\* store.claim: one BEGIN IMMEDIATE transaction.
ClaimStatus(c, p) ==
    CASE receipt[c] # NoPayload /\ payloadHash[c] = p -> "settled"
      [] receipt[c] = NoPayload /\ payloadHash[c] = p -> "pending"
      [] receipt[c] = NoPayload /\ payloadHash[c] = NoPayload -> "acquired"
      [] OTHER -> "conflict"

\* store.release: only the holder's claim, and only while there is no receipt.
Release(c, p) ==
    /\ payloadHash' = [payloadHash EXCEPT
            ![c] = IF @ = p /\ receipt[c] = NoPayload THEN NoPayload ELSE @]
    /\ UNCHANGED <<rows, expiresAt, receipt>>

\* store.settle: only under the holder's claim, and only once.
Settle(c, p) ==
    /\ receipt' = [receipt EXCEPT
            ![c] = IF payloadHash[c] = p /\ @ = NoPayload THEN p ELSE @]
    /\ UNCHANGED <<rows, expiresAt, payloadHash>>

-----------------------------------------------------------------------------
(* Suspending a handler at an await, and answering. *)

Await(r, point) ==
    /\ pc' = [pc EXCEPT ![r] = point]
    /\ UNCHANGED answer

Respond(r, a) ==
    /\ pc' = [pc EXCEPT ![r] = "done"]
    /\ answer' = [answer EXCEPT ![r] = a]

-----------------------------------------------------------------------------
(* GET /premium *)

\* Without a signature: create a challenge and answer 402 with its terms.
Issue(c) ==
    /\ c \notin rows
    /\ Create(c)
    /\ UNCHANGED <<now, requestVars, ordered, chain>>

\* The header does not decode.
RefuseMalformed(r) ==
    /\ pc[r] = "idle"
    /\ Respond(r, "MALFORMED_PAYMENT_SIGNATURE")
    /\ UNCHANGED <<now, storeVars, sig, carried, ordered, chain>>

\* The checks before the claim, in the code's order: none of them writes.
Precheck(p) ==
    LET c == ChallengeOf[p] IN
    CASE c \notin rows -> "CHALLENGE_NOT_FOUND"
      [] c \in rows /\ Expired(c) -> "CHALLENGE_EXPIRED"
      [] c \in rows /\ ~Expired(c) /\ p \in AlteredTerms -> "PAYMENT_REQUIREMENTS_MISMATCH"
      [] OTHER -> "ok"

RefuseUnclaimed(r, p) ==
    /\ pc[r] = "idle"
    /\ Precheck(p) # "ok"
    /\ sig' = [sig EXCEPT ![r] = p]
    /\ Respond(r, Precheck(p))
    /\ UNCHANGED <<now, storeVars, carried, ordered, chain>>

\* The claim is somebody's already: 202 for the holder, 409 for anyone else.
RefuseClaimed(r, p) ==
    LET status == ClaimStatus(ChallengeOf[p], p) IN
    /\ pc[r] = "idle"
    /\ Precheck(p) = "ok"
    /\ status \in {"pending", "conflict"}
    /\ sig' = [sig EXCEPT ![r] = p]
    /\ Respond(r, IF status = "pending" THEN "SETTLEMENT_PENDING"
                                        ELSE "CHALLENGE_ALREADY_CLAIMED")
    /\ UNCHANGED <<now, storeVars, carried, ordered, chain>>

\* A retry of a settled payment goes straight to the resource.
ReplaySettled(r, p) ==
    /\ pc[r] = "idle"
    /\ Precheck(p) = "ok"
    /\ ClaimStatus(ChallengeOf[p], p) = "settled"
    /\ sig' = [sig EXCEPT ![r] = p]
    /\ carried' = [carried EXCEPT ![r] = receipt[ChallengeOf[p]]]
    /\ Await(r, "ledger")
    /\ UNCHANGED <<now, storeVars, ordered, chain>>

\* The claim is free: take it and call facilitator.verify.
Acquire(r, p) ==
    LET c == ChallengeOf[p] IN
    /\ pc[r] = "idle"
    /\ Precheck(p) = "ok"
    /\ ClaimStatus(c, p) = "acquired"
    /\ payloadHash' = [payloadHash EXCEPT ![c] = p]
    /\ sig' = [sig EXCEPT ![r] = p]
    /\ Await(r, "verify")
    /\ UNCHANGED <<now, rows, expiresAt, receipt, carried, ordered, chain>>

\* Fault: one of the two failure branches forgets to release.
VerifyFailsKeepingClaim(r) ==
    /\ pc[r] = "verify"
    /\ \/ /\ Release(ReqChallenge(r), sig[r])
          /\ Respond(r, "FACILITATOR_UNAVAILABLE")
       \/ /\ UNCHANGED storeVars
          /\ Respond(r, "FACILITATOR_REJECTED")
    /\ UNCHANGED <<now, sig, carried, ordered, chain>>

\* facilitator.verify throws, or answers invalid or with a payer that is no contract.
VerifyFails(r) ==
    /\ pc[r] = "verify"
    /\ Release(ReqChallenge(r), sig[r])
    /\ \E a \in {"FACILITATOR_UNAVAILABLE", "FACILITATOR_REJECTED"} : Respond(r, a)
    /\ UNCHANGED <<now, sig, carried, ordered, chain>>

\* facilitator.verify accepts: call facilitator.settle.
VerifyAccepts(r) ==
    /\ pc[r] = "verify"
    /\ Await(r, "settle")
    /\ ordered' = ordered \cup {r}
    /\ UNCHANGED <<now, storeVars, sig, carried, chain>>

\* Fault: the claim is released like after a failed verification.
SettleFailsReleasing(r) ==
    /\ pc[r] = "settle"
    /\ Release(ReqChallenge(r), sig[r])
    /\ Respond(r, "SETTLEMENT_FAILED")
    /\ UNCHANGED <<now, sig, carried, ordered, chain>>

\* facilitator.settle throws (refused, timed out, connection lost, or a receipt that
\* does not match): 502, and the claim stays.
SettleFails(r) ==
    /\ pc[r] = "settle"
    /\ Respond(r, "SETTLEMENT_FAILED")
    /\ UNCHANGED <<now, storeVars, sig, carried, ordered, chain>>

\* Fault: the facilitator's answer is taken for a receipt before there is one.
SettleReturnsEarly(r) ==
    /\ pc[r] = "settle"
    /\ Settle(ReqChallenge(r), sig[r])
    /\ carried' = [carried EXCEPT ![r] = sig[r]]
    /\ Await(r, "ledger")
    /\ UNCHANGED <<now, sig, ordered, chain>>

\* facilitator.settle returns a matching receipt: store it, read the ledger.
SettleReturns(r) ==
    /\ pc[r] = "settle"
    /\ sig[r] \in chain
    /\ Settle(ReqChallenge(r), sig[r])
    /\ carried' = [carried EXCEPT ![r] = sig[r]]
    /\ Await(r, "ledger")
    /\ UNCHANGED <<now, sig, ordered, chain>>

\* protectedResponse: the header is only set once getLatestLedger has returned.
Unlock(r) ==
    /\ pc[r] = "ledger"
    /\ Respond(r, "PAID_AND_UNLOCKED")
    /\ UNCHANGED <<now, storeVars, sig, carried, ordered, chain>>

LedgerFails(r) ==
    /\ pc[r] = "ledger"
    /\ Respond(r, "HTTP_500")
    /\ UNCHANGED <<now, storeVars, sig, carried, ordered, chain>>

-----------------------------------------------------------------------------
(* GET /payments/:challengeId *)

PaymentStatus(c) ==
    CASE c \notin rows -> "NOT_FOUND"
      [] c \in rows /\ receipt[c] = NoPayload -> "PENDING"
      [] OTHER -> "RECEIPT"

Poll(r, c) ==
    /\ pc[r] = "idle"
    /\ carried' = [carried EXCEPT ![r] = receipt[c]]
    /\ Respond(r, PaymentStatus(c))
    /\ UNCHANGED <<now, storeVars, sig, ordered, chain>>

-----------------------------------------------------------------------------
(* The environment. *)

\* A transfer handed to the facilitator reaches the ledger, whatever the
\* facilitator has answered; the authorization's nonce makes it happen once.
Confirm(r) ==
    /\ r \in ordered
    /\ sig[r] \notin chain
    /\ chain' = chain \cup {sig[r]}
    /\ UNCHANGED <<now, storeVars, requestVars, ordered>>

Tick ==
    /\ now < MaxTime
    /\ now' = now + 1
    /\ UNCHANGED <<storeVars, requestVars, ordered, chain>>

\* The process dies and is restarted on the same database file.
Crash ==
    /\ CanCrash
    /\ \E r \in Requests : pc[r] \in Awaiting
    /\ pc' = [r \in Requests |-> IF pc[r] \in Awaiting THEN "done" ELSE pc[r]]
    /\ answer' = [r \in Requests |-> IF pc[r] \in Awaiting THEN "lost" ELSE answer[r]]
    /\ UNCHANGED <<now, storeVars, sig, carried, ordered, chain>>

-----------------------------------------------------------------------------

Submit(r, p) ==
    \/ RefuseUnclaimed(r, p)
    \/ RefuseClaimed(r, p)
    \/ ReplaySettled(r, p)
    \/ Acquire(r, p)

VerifyAnswer(r) == VerifyFails(r) \/ VerifyAccepts(r)
SettleAnswer(r) == SettleFails(r) \/ SettleReturns(r)
LedgerAnswer(r) == Unlock(r) \/ LedgerFails(r)

Next ==
    \/ \E c \in Challenges : Issue(c)
    \/ \E r \in Requests : RefuseMalformed(r)
    \/ \E r \in Requests, p \in Payloads : Submit(r, p)
    \/ \E r \in Requests : VerifyAnswer(r)
    \/ \E r \in Requests : SettleAnswer(r)
    \/ \E r \in Requests : LedgerAnswer(r)
    \/ \E r \in Requests, c \in Challenges : Poll(r, c)
    \/ \E r \in Requests : Confirm(r)
    \/ Tick
    \/ Crash

\* The event loop resumes a handler when its call returns, and every outgoing call
\* returns or is rejected (the HTTP client's own timeout).  Callers, the clock, the
\* ledger and crashes are not fair.
Fairness ==
    \A r \in Requests :
        /\ WF_vars(VerifyAnswer(r))
        /\ WF_vars(SettleAnswer(r))
        /\ WF_vars(LedgerAnswer(r))

Spec == Init /\ [][Next]_vars

FairSpec == Spec /\ Fairness

-----------------------------------------------------------------------------
(* Properties *)

OrderedChallenges == {ReqChallenge(r) : r \in ordered}

\* A challenge is paid at most once: over all retries, rival payloads, late
\* confirmations and restarts, the ledger never executes the transfers of two
\* payloads that name the same challenge.
OnePaymentPerChallenge ==
    \A p, q \in chain : ChallengeOf[p] = ChallengeOf[q] => p = q

\* facilitator.settle is called at most once per challenge, by the request that
\* won the claim; not even the same payload is handed over a second time.
OneSettleCallPerChallenge ==
    \A r, s \in ordered : ReqChallenge(r) = ReqChallenge(s) => r = s

\* Once a request has called facilitator.settle its payload keeps the claim, whatever
\* the call returns and whoever else asks: money in flight always has its owner's
\* name on the challenge.
OrderedKeepsClaim ==
    \A r \in ordered : payloadHash[ReqChallenge(r)] = sig[r]

\* The resource is unlocked only for a payload whose own transfer is on the ledger,
\* with its receipt in the table, so that GET /payments agrees with what was served.
UnlockedIsPaidAndRecorded ==
    \A r \in Requests : answer[r] = "PAID_AND_UNLOCKED" =>
        /\ sig[r] \in chain
        /\ receipt[ReqChallenge(r)] = sig[r]
        /\ carried[r] = sig[r]

\* A stored receipt is final, and names the payload that holds the claim for good.
ReceiptIsFinal ==
    [][\A c \in Challenges : receipt[c] # NoPayload =>
            receipt'[c] = receipt[c] /\ payloadHash'[c] = payloadHash[c]]_vars

\* A claim is never left in the air while its handler lives: it is given back, or the
\* transfer is ordered.  Only a restart between the claim and the settlement leaves the
\* challenge held for good.
ClaimIsDecided ==
    \A c \in Challenges :
        payloadHash[c] # NoPayload /\ c \notin OrderedChallenges
            ~> \/ payloadHash[c] = NoPayload
               \/ c \in OrderedChallenges
               \/ \E r \in Requests : answer[r] = "lost" /\ sig[r] = payloadHash[c]

-----------------------------------------------------------------------------
(* The table and the requests implement a one-time sale of each challenge. *)

Phase(c) ==
    IF c \notin rows THEN "absent"
    ELSE IF payloadHash[c] = NoPayload THEN "open"
    ELSE IF c \in OrderedChallenges THEN "ordered" ELSE "held"

Sale == INSTANCE OneTimeSale WITH
    phase <- [c \in Challenges |-> Phase(c)],
    buyer <- payloadHash,
    paid <- chain,
    served <- {sig[r] : r \in {s \in Requests : answer[s] = "PAID_AND_UNLOCKED"}}

\* The server as a whole offers each challenge once, lets one payload hold it, gives
\* the hold back only before settlement was ordered, and serves only the payer.
ImplementsOneTimeSale == Sale!Spec
=============================================================================
