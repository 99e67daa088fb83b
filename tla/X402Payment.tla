---------------------------- MODULE X402Payment ----------------------------
(***************************************************************************)
(* The SDK and the merchant together: an agent fetches a paid resource     *)
(* over HTTP, or settles a challenge itself with pay().  The two processes *)
(* die and restart independently, and a request or a response is lost at   *)
(* any time; a request that left may be handled long after its sender has  *)
(* given it up.                                                            *)
(*                                                                         *)
(* A call of the SDK has at most one paid request, so calls, their         *)
(* payloads and the merchant's requests have the same names.  A challenge  *)
(* id is fresh for every 402, so the call it is issued to may name it.     *)
(***************************************************************************)
EXTENDS Integers, FiniteSets

CONSTANTS
    Calls, Direct, Reconcilers,     \* as in SdkPayment
    Challenges,                     \* as in MerchantChallenge
    ChallengeOf,                    \* the challenge a call pays for
    AllowanceOf,                    \* the allowance it pays from
    NoKey, NoPayload,
    MerchantCrashes, AgentCrashes,
    Ttl, MaxTime

KeyOf == [c \in Calls |-> <<AllowanceOf[c], ChallengeOf[c]>>]
Keys == {KeyOf[c] : c \in Calls}

ASSUME PaymentAssumption ==
    /\ Direct \subseteq Calls
    /\ ChallengeOf \in [Calls -> Challenges]
    /\ NoKey \notin Keys
    /\ NoPayload \notin Calls
    /\ {MerchantCrashes, AgentCrashes} \subseteq BOOLEAN
    /\ {Ttl, MaxTime} \subseteq Nat

VARIABLES
    now, rows, expiresAt, payloadHash, receipt, pc, sig, carried, answer, ordered,
    chain,                          \* of MerchantChallenge
    attempt, call, sent, asking     \* of SdkPayment

merchantVars == <<now, rows, expiresAt, payloadHash, receipt, pc, sig, carried, answer,
                  ordered, chain>>
sdkVars == <<attempt, call, sent, asking>>
vars == <<merchantVars, sdkVars>>

Merchant == INSTANCE MerchantChallenge WITH
    Payloads <- Calls,
    Requests <- Calls,
    AlteredTerms <- {},
    CanCrash <- MerchantCrashes

Sdk == INSTANCE SdkPayment WITH CanCrash <- AgentCrashes

Init == Merchant!Init /\ Sdk!Init

-----------------------------------------------------------------------------
(* Steps of one side alone. *)

MerchantStep(c) ==
    /\ \/ Merchant!VerifyAnswer(c) \/ Merchant!SettleAnswer(c) \/ Merchant!LedgerAnswer(c)
    /\ UNCHANGED sdkVars

AgentStep(c) ==
    /\ \/ Sdk!AuthorizeThrows(c) \/ Sdk!Deny(c) \/ Sdk!Validate(c)
       \/ Sdk!BuildFails(c) \/ Sdk!Sign(c)
       \/ Sdk!Send(c)
       \/ Sdk!AskVerify(c) \/ Sdk!VerifyThrows(c) \/ Sdk!VerifyRejects(c)
       \/ Sdk!SubmitDirect(c)
    /\ UNCHANGED merchantVars

-----------------------------------------------------------------------------
(* The request and its answers. *)

\* UNIQUE(tx_hash) in the attempts table: no row but k's names the transfer of call c.
TxFree(k, c) ==
    \A j \in Keys \ {k} :
        ~ \/ attempt[j].receipt = "matching" /\ KeyOf[c] = j
          \/ attempt[j].receipt = "other" /\ receipt[j[2]] = c

\* The first request reaches the merchant, which answers 402.  For pay() somebody else
\* has made that request.
Challenge(c) ==
    /\ call[c] = "idle"
    /\ Merchant!Issue(ChallengeOf[c])
    /\ UNCHANGED sdkVars

\* The challenge reaches the SDK.
Begin(c) ==
    /\ ChallengeOf[c] \in rows
    /\ Sdk!ReserveAttempt(c) \/ Sdk!RefuseDuplicate(c)
    /\ UNCHANGED merchantVars

\* The paid request reaches the merchant, once, in time or late.
Arrive(c) ==
    /\ c \in sent \ Direct
    /\ Merchant!Submit(c, c)
    /\ UNCHANGED sdkVars

\* The merchant's answer reaches the SDK.  A transaction hash the table knows already
\* makes the last put throw.
Deliver(c) ==
    /\ c \notin Direct
    /\ pc[c] = "done"
    /\ CASE answer[c] = "PAID_AND_UNLOCKED" ->
                \/ TxFree(KeyOf[c], carried[c]) /\ Sdk!PaidReceipt(c, TRUE)
                \/ Sdk!PaidUnreadable(c)
         [] answer[c] = "lost" -> Sdk!PaidThrows(c)
         [] OTHER -> Sdk!PaidRefused(c, answer[c])
    /\ UNCHANGED merchantVars

\* The paid request is aborted, or one of its messages is lost.
GiveUp(c) ==
    /\ Sdk!PaidThrows(c)
    /\ UNCHANGED merchantVars

\* facilitator.settle called by pay(): a receipt only for an executed transfer.
DirectAnswer(c) ==
    /\ \/ Sdk!SettleThrows(c)
       \/ c \in chain /\ TxFree(KeyOf[c], c) /\ Sdk!SettleReturns(c)
    /\ UNCHANGED merchantVars

\* reconcile() and GET /payments/:challengeId; an answer that was PENDING when it was
\* given may arrive after the receipt was stored.
AskStatus(q, c) ==
    /\ Sdk!AskStatus(q, KeyOf[c])
    /\ UNCHANGED merchantVars

StatusReceipt(q) == \E k \in Keys :
    /\ asking[q] = k
    /\ Merchant!PaymentStatus(k[2]) = "RECEIPT"
    /\ TxFree(k, receipt[k[2]])
    /\ Sdk!StatusSettled(q, IF KeyOf[receipt[k[2]]] = k THEN "matching" ELSE "other")
    /\ UNCHANGED merchantVars

StatusPending(q) ==
    /\ Sdk!StatusOpen(q)
    /\ UNCHANGED merchantVars

-----------------------------------------------------------------------------
(* The environment. *)

\* The ledger executes a transfer handed to the facilitator by either side.
Confirm(c) ==
    /\ \/ Merchant!Confirm(c)
       \/ /\ call[c] # "idle"
          /\ c \in sent \cap Direct
          /\ c \notin chain
          /\ chain' = chain \cup {c}
          /\ UNCHANGED <<now, rows, expiresAt, payloadHash, receipt, pc, sig, carried,
                         answer, ordered>>
    /\ UNCHANGED sdkVars

Environment ==
    \/ Merchant!Tick /\ UNCHANGED sdkVars
    \/ Merchant!Crash /\ UNCHANGED sdkVars
    \/ Sdk!Crash /\ UNCHANGED merchantVars

Next ==
    \/ \E c \in Calls :
        \/ MerchantStep(c) \/ AgentStep(c)
        \/ Challenge(c) \/ Begin(c) \/ Arrive(c) \/ Deliver(c) \/ GiveUp(c)
        \/ DirectAnswer(c)
        \/ Confirm(c)
    \/ \E q \in Reconcilers : StatusReceipt(q) \/ StatusPending(q)
    \/ \E q \in Reconcilers, c \in Calls : AskStatus(q, c)
    \/ Environment

Spec == Init /\ [][Next]_vars

\* Beside the merchant's own fairness: every await of the SDK ends, and the caller of each
\* ambiguous attempt reconciles it again and again, as the documentation tells it to, with
\* some answer eventually getting through.  One reconciler serves them in turn: hence SF.
FairSpec ==
    /\ Spec
    /\ \A c \in Calls : WF_vars(AgentStep(c)) /\ WF_vars(Deliver(c) \/ GiveUp(c) \/ DirectAnswer(c))
    /\ \A c \in Calls : WF_vars(MerchantStep(c))
    /\ \A c \in Calls : SF_vars(\E q \in Reconcilers : AskStatus(q, c))
    /\ \A q \in Reconcilers : WF_vars(StatusReceipt(q) \/ StatusPending(q)) /\ SF_vars(StatusReceipt(q))

-----------------------------------------------------------------------------
(* Properties *)

\* An allowance pays for a challenge at most once, through fetch and pay together and
\* over crashes of both sides, lost messages and calls made again.
OnePaymentPerAttempt ==
    \A c, d \in chain : KeyOf[c] = KeyOf[d] => c = d

\* An executed transfer for the challenge of attempt k, and from the allowance of k when
\* the row says that the resource was returned or that the receipt was compared.
PaidAs(row, k) == \E c \in chain :
    /\ ChallengeOf[c] = k[2]
    /\ row.state = "UNLOCKED" \/ row.receipt = "matching" => KeyOf[c] = k

\* The SDK's evidence is true.  The challenge of an attempt stored as SETTLED was paid by
\* a transfer the ledger has executed: by the attempt's own, unless reconcile() has stored
\* the receipt of a rival (agent-allowance.ts:286).  An UNLOCKED attempt was paid itself.
EvidenceIsTrue ==
    \A k \in Keys : attempt[k].state \in {"SETTLED", "UNLOCKED"} => PaidAs(attempt[k], k)

\* A fetch that returned the resource did so for a challenge the merchant has recorded
\* as settled with the same payload.
UnlockAgrees ==
    \A c \in Calls \ Direct :
        attempt[KeyOf[c]].state = "UNLOCKED" /\ c \in sent => receipt[ChallengeOf[c]] = c

\* An attempt left SUBMITTED or UNKNOWN, for whose challenge the merchant has stored a
\* receipt, is resolved by reconciling, unless another attempt of the table has recorded
\* that transaction before it (UNIQUE(tx_hash), store.ts).
ReconcileResolves ==
    \A k \in Keys :
        attempt[k].state \in Sdk!Ambiguous /\ receipt[k[2]] # NoPayload
            ~> \/ attempt[k].state \in {"SETTLED", "UNLOCKED", "BLOCKED"}
               \/ receipt[k[2]] # NoPayload /\ ~TxFree(k, receipt[k[2]])

-----------------------------------------------------------------------------
(* Statements of the documentation that the code does not meet. *)

\* sdk/reconciliation.md: BLOCKED means "A definitive policy or verification denial
\* exists".  So nothing was or is ever paid for a BLOCKED attempt.
BlockedIsNotPaid ==
    \A c \in chain : attempt[KeyOf[c]].state # "BLOCKED"

\* sdk/reconciliation.md: SETTLED means "Payment has a valid receipt".  So the attempt's
\* allowance has paid.  reconcile() stores any receipt of the challenge.
SettledIsPaid ==
    \A k \in Keys : attempt[k].state = "SETTLED" => \E c \in chain : KeyOf[c] = k
=============================================================================
