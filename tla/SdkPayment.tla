----------------------------- MODULE SdkPayment -----------------------------
(***************************************************************************)
(* The payment half of the SDK: AgentAllowance.fetch, pay and reconcile    *)
(* and the attempts table they write.  The merchant, the facilitator and   *)
(* the chain are arbitrary here: whatever they may answer, some action     *)
(* answers it.  X402Payment composes this module with the real merchant.   *)
(*                                                                         *)
(* An action is the code between two awaits.  A put replaces the whole     *)
(* row by the caller's local copy plus the update, so a row is written     *)
(* and never merged.  The table outlives the process, the calls do not.    *)
(***************************************************************************)
EXTENDS FiniteSets, Naturals

CONSTANTS
    Calls,          \* calls of fetch() and pay()
    Direct,         \* those of pay(), which settle without the merchant
    Keys,           \* (allowance id, request reference): unique in the table
    KeyOf,          \* the key a call's challenge and allowance give
    Reconcilers,    \* concurrent calls of reconcile()
    NoKey,          \* not asking
    CanCrash        \* whether the process may die

ASSUME SdkAssumption ==
    /\ Direct \subseteq Calls
    /\ KeyOf \in [Calls -> Keys]
    /\ NoKey \notin Keys
    /\ CanCrash \in BOOLEAN

VARIABLES
    attempt,        \* the row of each key: state, reason_code, receipt_json
    call,           \* where each call is suspended
    sent,           \* calls whose signed payment has left for settlement
    asking          \* the attempt each reconcile() in flight asks the merchant about

sdkVars == <<attempt, call, sent, asking>>

Before == {"none", "CREATED", "VALIDATED", "SIGNED"}
Ambiguous == {"SUBMITTED", "UNKNOWN"}
States == Before \cup Ambiguous \cup {"SETTLED", "UNLOCKED", "BLOCKED"}

\* DENIED stands for every reason of preflight, the signer lookup and the simulations.
Reasons == {"none", "DENIED", "FACILITATOR_REJECTED", "SETTLEMENT_UNKNOWN",
            "RECEIPT_MISMATCH", "RESOURCE_UNLOCK_FAILED"}

\* A stored receipt either matches the attempt's terms or was never compared with them.
Receipts == {"none", "matching", "other"}

Awaits == {"authorize", "build", "signed", "paid", "verify", "settle"}

Row(state, reason, receipt) == [state |-> state, reason |-> reason, receipt |-> receipt]

TypeOK ==
    /\ attempt \in [Keys -> [state : States, reason : Reasons, receipt : Receipts]]
    /\ call \in [Calls -> {"idle", "done"} \cup Awaits]
    /\ sent \subseteq Calls
    /\ asking \in [Reconcilers -> Keys \cup {NoKey}]

Init ==
    /\ attempt = [k \in Keys |-> Row("none", "none", "none")]
    /\ call = [c \in Calls |-> "idle"]
    /\ sent = {}
    /\ asking = [q \in Reconcilers |-> NoKey]

-----------------------------------------------------------------------------

\* store.putAttempt
PutAttempt(c, row) == attempt' = [attempt EXCEPT ![KeyOf[c]] = row]

Goto(c, point) == call' = [call EXCEPT ![c] = point]

\* Store the attempt's last state and end the call.
Finish(c, row) ==
    /\ PutAttempt(c, row)
    /\ Goto(c, "done")
    /\ UNCHANGED <<sent, asking>>

\* An exception that no handler of the SDK turns into a state.
Throw(c) ==
    /\ Goto(c, "done")
    /\ UNCHANGED <<attempt, sent, asking>>

FailAttempt(c, reason) == Finish(c, Row("BLOCKED", reason, "none"))

UnknownAttempt(c) == Finish(c, Row("UNKNOWN", "SETTLEMENT_UNKNOWN", "none"))

-----------------------------------------------------------------------------
(* Common to fetch and pay: reserve the attempt, authorize it. *)

\* Not a 402, or a challenge the SDK does not support: nothing is stored.
NothingToPay(c) ==
    /\ call[c] = "idle"
    /\ Throw(c)

\* DUPLICATE_ATTEMPT
RefuseDuplicate(c) ==
    /\ call[c] = "idle"
    /\ attempt[KeyOf[c]].state # "none"
    /\ Throw(c)

\* Fault: an attempt that failed may be made again.
ReserveAttemptRetrying(c) ==
    /\ call[c] = "idle"
    /\ attempt[KeyOf[c]].state \in {"none", "BLOCKED"}
    /\ PutAttempt(c, Row("CREATED", "none", "none"))
    /\ Goto(c, "authorize")
    /\ UNCHANGED <<sent, asking>>

\* Find and insert without an await in between.
ReserveAttempt(c) ==
    /\ call[c] = "idle"
    /\ attempt[KeyOf[c]].state = "none"
    /\ PutAttempt(c, Row("CREATED", "none", "none"))
    /\ Goto(c, "authorize")
    /\ UNCHANGED <<sent, asking>>

\* getLatestLedger rejects: the attempt stays CREATED.
AuthorizeThrows(c) ==
    /\ call[c] = "authorize"
    /\ Throw(c)

\* preflight denies, or the signer is not configured.
Deny(c) ==
    /\ call[c] = "authorize"
    /\ FailAttempt(c, "DENIED")

Validate(c) ==
    /\ call[c] = "authorize"
    /\ PutAttempt(c, Row("VALIDATED", "none", "none"))
    /\ Goto(c, "build")
    /\ UNCHANGED <<sent, asking>>

\* buildSmartAccountPayment throws: RPC, signing or simulation.  A simulation message that
\* names neither recipient nor budget is stored as FACILITATOR_REJECTED.
BuildFails(c) ==
    /\ call[c] = "build"
    /\ \E reason \in {"DENIED", "FACILITATOR_REJECTED"} : FailAttempt(c, reason)

Sign(c) ==
    /\ call[c] = "build"
    /\ PutAttempt(c, Row("SIGNED", "none", "none"))
    /\ Goto(c, "signed")
    /\ UNCHANGED <<sent, asking>>

-----------------------------------------------------------------------------
(* fetch: retry the request with the signature. *)

\* Fault: the payment leaves before the table knows.
SendUnrecorded(c) ==
    /\ call[c] = "signed"
    /\ c \notin Direct
    /\ sent' = sent \cup {c}
    /\ Goto(c, "paid")
    /\ UNCHANGED <<attempt, asking>>

Send(c) ==
    /\ call[c] = "signed"
    /\ c \notin Direct
    /\ PutAttempt(c, Row("SUBMITTED", "none", "none"))
    /\ sent' = sent \cup {c}
    /\ Goto(c, "paid")
    /\ UNCHANGED asking

\* The paid request is aborted or its connection lost.
PaidThrows(c) ==
    /\ call[c] = "paid"
    /\ UnknownAttempt(c)

\* A response without PAYMENT-RESPONSE, told apart by its error field.
PaidRefused(c, error) ==
    /\ call[c] = "paid"
    /\ CASE error = "FACILITATOR_REJECTED" -> FailAttempt(c, "FACILITATOR_REJECTED")
         [] error = "SETTLEMENT_FAILED" -> UnknownAttempt(c)
         [] OTHER -> FailAttempt(c, "RESOURCE_UNLOCK_FAILED")

\* The header does not decode, the body cannot be read, or the transaction hash is in the
\* table already (UNIQUE): the attempt stays SUBMITTED.
PaidUnreadable(c) ==
    /\ call[c] = "paid"
    /\ Throw(c)

PaidMismatch(c) ==
    /\ call[c] = "paid"
    /\ FailAttempt(c, "RECEIPT_MISMATCH")

\* A matching receipt; ok tells whether the resource came with it.
PaidReceipt(c, ok) ==
    /\ call[c] = "paid"
    /\ Finish(c, IF ok THEN Row("UNLOCKED", "none", "matching")
                       ELSE Row("SETTLED", "RESOURCE_UNLOCK_FAILED", "matching"))

-----------------------------------------------------------------------------
(* pay: verify and settle with the facilitator. *)

AskVerify(c) ==
    /\ call[c] = "signed"
    /\ c \in Direct
    /\ Goto(c, "verify")
    /\ UNCHANGED <<attempt, sent, asking>>

\* verify is called outside the try block: the attempt stays SIGNED.
VerifyThrows(c) ==
    /\ call[c] = "verify"
    /\ Throw(c)

VerifyRejects(c) ==
    /\ call[c] = "verify"
    /\ FailAttempt(c, "FACILITATOR_REJECTED")

SubmitDirect(c) ==
    /\ call[c] = "verify"
    /\ PutAttempt(c, Row("SUBMITTED", "none", "none"))
    /\ sent' = sent \cup {c}
    /\ Goto(c, "settle")
    /\ UNCHANGED asking

SettleReturns(c) ==
    /\ call[c] = "settle"
    /\ Finish(c, Row("SETTLED", "none", "matching"))

\* settle fails in any way, its receipt does not match, or the put of it throws.
SettleThrows(c) ==
    /\ call[c] = "settle"
    /\ UnknownAttempt(c)

-----------------------------------------------------------------------------
(* reconcile *)

\* Fault: an attempt a crash left SUBMITTED is not asked about.
AskStatusUnknownOnly(q, k) ==
    /\ asking[q] = NoKey
    /\ attempt[k].state = "UNKNOWN"
    /\ asking' = [asking EXCEPT ![q] = k]
    /\ UNCHANGED <<attempt, call, sent>>

\* Only SUBMITTED and UNKNOWN attempts are asked about.
AskStatus(q, k) ==
    /\ asking[q] = NoKey
    /\ attempt[k].state \in Ambiguous
    /\ asking' = [asking EXCEPT ![q] = k]
    /\ UNCHANGED <<attempt, call, sent>>

\* A receipt, which is not compared with the attempt: the row read before the request is
\* written back as SETTLED, whatever the row has become meanwhile.
StatusSettled(q, receipt) ==
    /\ asking[q] # NoKey
    /\ attempt' = [attempt EXCEPT ![asking[q]] = Row("SETTLED", "none", receipt)]
    /\ asking' = [asking EXCEPT ![q] = NoKey]
    /\ UNCHANGED <<call, sent>>

\* No receipt (202, an error, or no answer), or the put of it throws: nothing is written.
StatusOpen(q) ==
    /\ asking[q] # NoKey
    /\ asking' = [asking EXCEPT ![q] = NoKey]
    /\ UNCHANGED <<attempt, call, sent>>

-----------------------------------------------------------------------------

\* The process dies; a new one opens the same database file.
Crash ==
    /\ CanCrash
    /\ \E c \in Calls : call[c] \in Awaits
    /\ call' = [c \in Calls |-> IF call[c] \in Awaits THEN "done" ELSE call[c]]
    /\ asking' = [q \in Reconcilers |-> NoKey]
    /\ UNCHANGED <<attempt, sent>>

\* What a call does up to the answer to its paid request.
Prepare(c) ==
    \/ NothingToPay(c) \/ RefuseDuplicate(c) \/ ReserveAttempt(c)
    \/ AuthorizeThrows(c) \/ Deny(c) \/ Validate(c)
    \/ BuildFails(c) \/ Sign(c)
    \/ Send(c)
    \/ AskVerify(c) \/ VerifyThrows(c) \/ VerifyRejects(c) \/ SubmitDirect(c)

PaidErrors == {"FACILITATOR_REJECTED", "SETTLEMENT_FAILED", "other"}

Answered(c) ==
    \/ PaidThrows(c) \/ PaidUnreadable(c) \/ PaidMismatch(c)
    \/ \E error \in PaidErrors : PaidRefused(c, error)
    \/ \E ok \in BOOLEAN : PaidReceipt(c, ok)
    \/ SettleReturns(c) \/ SettleThrows(c)

Next ==
    \/ \E c \in Calls : Prepare(c)
    \/ \E c \in Calls : Answered(c)
    \/ \E q \in Reconcilers, k \in Keys : AskStatus(q, k)
    \/ \E q \in Reconcilers :
        \/ \E receipt \in {"matching", "other"} : StatusSettled(q, receipt)
        \/ StatusOpen(q)
    \/ Crash

Spec == Init /\ [][Next]_sdkVars

-----------------------------------------------------------------------------
(* Properties *)

\* Whatever merchant and facilitator answer, whoever calls again and wherever the
\* process dies, the signed payments of an allowance and request reference are submitted
\* at most once: never a second payment for one challenge.
OneSubmissionPerAttempt ==
    \A c, d \in sent : KeyOf[c] = KeyOf[d] => c = d

\* A payment has only left the process if the table says so: an attempt found in an
\* earlier state after a restart has moved no money.
EvidenceBeforeSubmission ==
    \A c \in sent : attempt[KeyOf[c]].state \notin Before

\* One call at a time works on an attempt, so that no two of them overwrite each other's
\* states; only reconcile() writes beside it.
OneCallPerAttempt ==
    \A c, d \in Calls :
        KeyOf[c] = KeyOf[d] /\ call[c] \in Awaits /\ call[d] \in Awaits => c = d
=============================================================================
