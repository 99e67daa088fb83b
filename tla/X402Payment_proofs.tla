-------------------------- MODULE X402Payment_proofs --------------------------
(***************************************************************************)
(* The agent and the merchant together, for any calls, allowances and      *)
(* challenges, over crashes of both sides and lost or late messages: an    *)
(* allowance pays for a challenge at most once, and what the SDK has       *)
(* stored about a payment agrees with the ledger and with the merchant.    *)
(*                                                                         *)
(* Each side keeps its own inductive invariant, because its steps here are *)
(* steps of its own specification.  The merchant's ledger alone may grow   *)
(* without it: pay() settles with the facilitator.                         *)
(***************************************************************************)
EXTENDS X402Payment, TLAPS

SdkP == INSTANCE SdkPayment_proofs WITH CanCrash <- AgentCrashes

MerchantP == INSTANCE MerchantChallenge_proofs WITH
    Payloads <- Calls,
    Requests <- Calls,
    AlteredTerms <- {},
    CanCrash <- MerchantCrashes

\* What this composition assumes of its constants is what each side assumes of its own.
LEMMA SdkAssumed == SdkP!SdkAssumption
BY PaymentAssumption DEF SdkP!SdkAssumption, KeyOf, Keys

LEMMA MerchantAssumed == MerchantP!ChallengesAssumption
BY PaymentAssumption DEF MerchantP!ChallengesAssumption

\* The definitions of a side are the same whether they are taken with its proofs or not.
LEMMA SdkIsSdk ==
    /\ Sdk!Init <=> SdkP!Init
    /\ [Sdk!Next]_sdkVars <=> [SdkP!Next]_(SdkP!sdkVars)
    /\ Sdk!OneSubmissionPerAttempt <=> SdkP!OneSubmissionPerAttempt
    /\ Sdk!TypeOK <=> SdkP!TypeOK
BY DEF sdkVars, Sdk!Prepare, SdkP!Prepare, Sdk!NothingToPay, SdkP!NothingToPay,
       Sdk!RefuseDuplicate, SdkP!RefuseDuplicate, Sdk!ReserveAttempt,
       SdkP!ReserveAttempt, Sdk!AuthorizeThrows, SdkP!AuthorizeThrows, Sdk!Deny,
       SdkP!Deny, Sdk!Validate, SdkP!Validate, Sdk!BuildFails, SdkP!BuildFails,
       Sdk!Sign, SdkP!Sign, Sdk!Send, SdkP!Send, Sdk!AskVerify, SdkP!AskVerify,
       Sdk!VerifyThrows, SdkP!VerifyThrows, Sdk!VerifyRejects, SdkP!VerifyRejects,
       Sdk!SubmitDirect, SdkP!SubmitDirect, Sdk!Answered, SdkP!Answered,
       Sdk!PaidThrows, SdkP!PaidThrows, Sdk!PaidUnreadable, SdkP!PaidUnreadable,
       Sdk!PaidMismatch, SdkP!PaidMismatch, Sdk!PaidErrors, SdkP!PaidErrors,
       Sdk!PaidRefused, SdkP!PaidRefused, Sdk!PaidReceipt, SdkP!PaidReceipt,
       Sdk!SettleReturns, SdkP!SettleReturns, Sdk!SettleThrows, SdkP!SettleThrows,
       Sdk!AskStatus, SdkP!AskStatus, Sdk!StatusSettled, SdkP!StatusSettled,
       Sdk!StatusOpen, SdkP!StatusOpen, Sdk!Crash, SdkP!Crash, Sdk!Init, SdkP!Init,
       Sdk!Next, SdkP!Next, Sdk!sdkVars, SdkP!sdkVars, Sdk!PutAttempt, SdkP!PutAttempt,
       Sdk!Goto, SdkP!Goto, Sdk!Finish, SdkP!Finish, Sdk!Throw, SdkP!Throw,
       Sdk!FailAttempt, SdkP!FailAttempt, Sdk!UnknownAttempt, SdkP!UnknownAttempt,
       Sdk!Row, SdkP!Row, Sdk!Ambiguous, SdkP!Ambiguous, Sdk!Awaits, SdkP!Awaits,
       Sdk!TypeOK, SdkP!TypeOK, Sdk!States, SdkP!States, Sdk!Before, SdkP!Before,
       Sdk!Reasons, SdkP!Reasons, Sdk!Receipts, SdkP!Receipts,
       Sdk!OneSubmissionPerAttempt, SdkP!OneSubmissionPerAttempt

LEMMA MerchantIsMerchant ==
    /\ Merchant!Init <=> MerchantP!Init
    /\ [Merchant!Next]_merchantVars <=> [MerchantP!Next]_(MerchantP!vars)
    /\ Merchant!TypeOK <=> MerchantP!TypeOK
BY DEF merchantVars, Merchant!Issue, MerchantP!Issue, Merchant!RefuseMalformed,
       MerchantP!RefuseMalformed, Merchant!Submit, MerchantP!Submit,
       Merchant!RefuseUnclaimed, MerchantP!RefuseUnclaimed, Merchant!RefuseClaimed,
       MerchantP!RefuseClaimed, Merchant!ReplaySettled, MerchantP!ReplaySettled,
       Merchant!Acquire, MerchantP!Acquire, Merchant!VerifyAnswer,
       MerchantP!VerifyAnswer, Merchant!VerifyFails, MerchantP!VerifyFails,
       Merchant!VerifyAccepts, MerchantP!VerifyAccepts, Merchant!SettleAnswer,
       MerchantP!SettleAnswer, Merchant!SettleFails, MerchantP!SettleFails,
       Merchant!SettleReturns, MerchantP!SettleReturns, Merchant!LedgerAnswer,
       MerchantP!LedgerAnswer, Merchant!Unlock, MerchantP!Unlock, Merchant!LedgerFails,
       MerchantP!LedgerFails, Merchant!Poll, MerchantP!Poll, Merchant!Confirm,
       MerchantP!Confirm, Merchant!Tick, MerchantP!Tick, Merchant!Crash,
       MerchantP!Crash, Merchant!Init, MerchantP!Init, Merchant!Next, MerchantP!Next,
       Merchant!vars, MerchantP!vars, Merchant!storeVars, MerchantP!storeVars,
       Merchant!requestVars, MerchantP!requestVars, Merchant!Create, MerchantP!Create,
       Merchant!Expired, MerchantP!Expired, Merchant!ClaimStatus,
       MerchantP!ClaimStatus, Merchant!Release, MerchantP!Release, Merchant!Settle,
       MerchantP!Settle, Merchant!Await, MerchantP!Await, Merchant!Respond,
       MerchantP!Respond, Merchant!Precheck, MerchantP!Precheck,
       Merchant!PaymentStatus, MerchantP!PaymentStatus, Merchant!Awaiting,
       MerchantP!Awaiting, Merchant!ReqChallenge, MerchantP!ReqChallenge,
       Merchant!TypeOK, MerchantP!TypeOK, Merchant!Refusals, MerchantP!Refusals,
       Merchant!Answers, MerchantP!Answers

-----------------------------------------------------------------------------
(***************************************************************************)
(* The steps of the two sides.                                             *)
(***************************************************************************)

\* Whatever the merchant has answered, the SDK takes it as one of the errors it knows.
LEMMA RefusedIsAnError ==
    ASSUME NEW c \in Calls, NEW error, Sdk!PaidRefused(c, error)
    PROVE  Sdk!Answered(c)
<1>1. CASE error \in {"FACILITATOR_REJECTED", "SETTLEMENT_FAILED"}
  BY <1>1 DEF Sdk!Answered, Sdk!PaidErrors
<1>2. CASE error \notin {"FACILITATOR_REJECTED", "SETTLEMENT_FAILED"}
  <2>1. Sdk!PaidRefused(c, "other")
    BY <1>2 DEF Sdk!PaidRefused
  <2> QED BY <2>1 DEF Sdk!Answered, Sdk!PaidErrors
<1> QED
  BY <1>1, <1>2

\* Every step is a step of the SDK, or leaves it alone.
LEMMA SdkSide == [Next]_vars => [Sdk!Next]_sdkVars
<1> SUFFICES ASSUME [Next]_vars PROVE [Sdk!Next]_sdkVars
  OBVIOUS
<1>1. ASSUME NEW c \in Calls, AgentStep(c) \/ Begin(c) PROVE Sdk!Next
  BY <1>1 DEF AgentStep, Begin, Sdk!Next, Sdk!Prepare
<1>2. ASSUME NEW c \in Calls, Deliver(c) PROVE Sdk!Next
  <2>1. Sdk!Answered(c)
    BY <1>2, RefusedIsAnError DEF Deliver, Sdk!Answered
  <2> QED BY <2>1 DEF Sdk!Next
<1>3. ASSUME NEW c \in Calls, GiveUp(c) \/ DirectAnswer(c) PROVE Sdk!Next
  BY <1>3 DEF GiveUp, DirectAnswer, Sdk!Next, Sdk!Answered
<1>4. ASSUME NEW q \in Reconcilers, StatusReceipt(q) \/ StatusPending(q) PROVE Sdk!Next
  BY <1>4 DEF StatusReceipt, StatusPending, Sdk!Next
<1>5. ASSUME NEW q \in Reconcilers, NEW c \in Calls, AskStatus(q, c) PROVE Sdk!Next
  BY <1>5 DEF AskStatus, Keys, Sdk!Next
<1>6. CASE \/ \E c \in Calls : MerchantStep(c) \/ Challenge(c) \/ Arrive(c) \/ Confirm(c)
           \/ UNCHANGED vars
  BY <1>6 DEF MerchantStep, Challenge, Arrive, Confirm, vars
<1>7. CASE Environment
  BY <1>7 DEF Environment, Sdk!Next
<1> QED
  BY <1>1, <1>2, <1>3, <1>4, <1>5, <1>6, <1>7 DEF Next

\* A transfer that pay() has handed to the facilitator reaches the ledger.
Settles(c) ==
    /\ c \in sent \cap Direct
    /\ chain' = chain \cup {c}
    /\ UNCHANGED <<now, rows, expiresAt, payloadHash, receipt, pc, sig, carried, answer, ordered>>

\* Every step is a step of the merchant, leaves it alone, or only lets the ledger grow.
LEMMA MerchantSide == [Next]_vars => [Merchant!Next]_merchantVars \/ \E c \in Calls : Settles(c)
<1> SUFFICES ASSUME [Next]_vars PROVE [Merchant!Next]_merchantVars \/ \E c \in Calls : Settles(c)
  OBVIOUS
<1> USE PaymentAssumption
<1>1. ASSUME NEW c \in Calls, MerchantStep(c) \/ Challenge(c) \/ Arrive(c) PROVE Merchant!Next
  BY <1>1 DEF MerchantStep, Challenge, Arrive, Merchant!Next
<1>2. ASSUME NEW c \in Calls, Confirm(c) PROVE Merchant!Next \/ Settles(c)
  BY <1>2 DEF Confirm, Settles, Merchant!Next
<1>3. CASE Environment
  BY <1>3 DEF Environment, Merchant!Next
<1>4. CASE \/ \E c \in Calls : AgentStep(c) \/ Begin(c) \/ Deliver(c) \/ GiveUp(c) \/ DirectAnswer(c)
           \/ \E q \in Reconcilers : StatusReceipt(q) \/ StatusPending(q)
           \/ \E q \in Reconcilers, c \in Calls : AskStatus(q, c)
           \/ UNCHANGED vars
  BY <1>4 DEF AgentStep, Begin, Deliver, GiveUp, DirectAnswer, StatusReceipt, StatusPending, AskStatus, vars
<1> QED
  BY <1>1, <1>2, <1>3, <1>4 DEF Next

-----------------------------------------------------------------------------
(***************************************************************************)
(* The inductive invariant.                                                *)
(***************************************************************************)

\* A request the merchant works on is the paid request of its call; and only payments
\* that have left the SDK are ever executed.
LinkInv ==
    /\ \A c \in Calls :
        /\ pc[c] # "idle" => c \in sent
        /\ sig[c] \in {c, NoPayload}
    /\ chain \subseteq sent

IInv == MerchantP!CoreInv /\ SdkP!IInv /\ LinkInv /\ EvidenceIsTrue /\ UnlockAgrees

\* Nothing is stored, sent or paid.
LEMMA InitEstablishes == Init => IInv
<1> SUFFICES ASSUME Init PROVE IInv
  OBVIOUS
<1>1. MerchantP!CoreInv
  BY MerchantAssumed, MerchantIsMerchant, MerchantP!InitIInv DEF Init, MerchantP!IInv
<1>2. SdkP!IInv
  BY SdkAssumed, SdkIsSdk, SdkP!InitEstablishes DEF Init
<1>3. LinkInv /\ EvidenceIsTrue /\ UnlockAgrees
  BY DEF Init, Merchant!Init, Sdk!Init, Sdk!Row, LinkInv, EvidenceIsTrue, UnlockAgrees, KeyOf, Keys
<1> QED
  BY <1>1, <1>2, <1>3 DEF IInv

\* The SDK's own invariant is kept.
LEMMA SdkKept == IInv /\ [Next]_vars => SdkP!IInv'
BY SdkSide, SdkAssumed, SdkIsSdk, SdkP!StepPreserves DEF IInv

\* The merchant's own invariant is kept, apart from who ordered what is paid.
LEMMA MerchantKept == IInv /\ [Next]_vars => MerchantP!CoreInv'
<1> SUFFICES ASSUME IInv, [Next]_vars PROVE MerchantP!CoreInv'
  OBVIOUS
<1>1. CASE [Merchant!Next]_merchantVars
  BY <1>1, MerchantAssumed, MerchantIsMerchant, MerchantP!NextCore DEF IInv
<1>2. ASSUME NEW c \in Calls, Settles(c) PROVE MerchantP!CoreInv'
  <2>1. chain \subseteq chain' /\ chain' \subseteq Calls
    BY <1>2 DEF Settles, IInv, MerchantP!CoreInv, MerchantP!TypeOK
  <2>2. UNCHANGED <<now, MerchantP!storeVars, MerchantP!requestVars, ordered>>
    BY <1>2 DEF Settles, MerchantP!storeVars, MerchantP!requestVars
  <2> QED BY <2>1, <2>2, MerchantAssumed, MerchantP!ChainGrows DEF IInv
<1> QED
  BY <1>1, <1>2, MerchantSide

\* What a side knows about the other: a paid request is answered with the resource only
\* if its own transfer is executed and its receipt stored.
LEMMA ServedIsPaid ==
    ASSUME IInv, NEW c \in Calls, answer[c] = "PAID_AND_UNLOCKED"
    PROVE  carried[c] = c /\ receipt[ChallengeOf[c]] = c /\ c \in chain
<1>1. sig[c] \in Calls /\ carried[c] = sig[c] /\ receipt[ChallengeOf[sig[c]]] = sig[c]
  BY DEF IInv, MerchantP!CoreInv, MerchantP!HandlerInv, MerchantP!ReqChallenge
<1>2. ChallengeOf[c] \in Challenges /\ c # NoPayload /\ sig[c] = c
  BY <1>1, PaymentAssumption DEF IInv, LinkInv
<1> QED
  BY <1>1, <1>2 DEF IInv, MerchantP!CoreInv, MerchantP!TableInv

\* A stored receipt is for an executed transfer that pays its challenge.
LEMMA ReceiptIsPaid ==
    ASSUME IInv, NEW k \in Keys, receipt[k[2]] # NoPayload
    PROVE  receipt[k[2]] \in chain /\ ChallengeOf[receipt[k[2]]] = k[2]
<1>1. k[2] \in Challenges
  BY PaymentAssumption DEF Keys, KeyOf
<1> QED
  BY <1>1 DEF IInv, MerchantP!CoreInv, MerchantP!TableInv

-----------------------------------------------------------------------------
(***************************************************************************)
(* The link between the sides.                                             *)
(***************************************************************************)

\* No step takes a sent payment back.
LEMMA SentGrows == IInv /\ [Next]_vars => sent \subseteq sent'
<1> SUFFICES ASSUME [Next]_vars PROVE sent \subseteq sent'
  OBVIOUS
<1> QED
  BY SdkSide
     DEF Sdk!Next, Sdk!Prepare, Sdk!NothingToPay, Sdk!RefuseDuplicate,
         Sdk!ReserveAttempt, Sdk!AuthorizeThrows, Sdk!Deny, Sdk!Validate,
         Sdk!BuildFails, Sdk!Sign, Sdk!Send, Sdk!AskVerify, Sdk!VerifyThrows,
         Sdk!VerifyRejects, Sdk!SubmitDirect, Sdk!Answered, Sdk!PaidThrows,
         Sdk!PaidUnreadable, Sdk!PaidMismatch, Sdk!PaidRefused, Sdk!PaidReceipt,
         Sdk!SettleReturns, Sdk!SettleThrows, Sdk!AskStatus, Sdk!StatusSettled,
         Sdk!StatusOpen, Sdk!Crash, Sdk!Finish, Sdk!Throw, Sdk!FailAttempt,
         Sdk!UnknownAttempt, sdkVars

\* Only the paid request of a call begins its handler, and the ledger executes what was
\* sent.
LEMMA LinkKept == IInv /\ [Next]_vars => LinkInv'
<1> SUFFICES ASSUME IInv, [Next]_vars PROVE LinkInv'
  OBVIOUS
<1>1. sent \subseteq sent'
  BY SentGrows
<1>2. /\ pc \in [Calls -> {"idle", "done"} \cup MerchantP!Awaiting] /\ sig \in [Calls -> Calls \cup {NoPayload}]
      /\ \A c \in ordered : c \in Calls /\ pc[c] # "idle" /\ sig[c] \in Calls
  BY DEF IInv, MerchantP!CoreInv, MerchantP!TypeOK, MerchantP!HandlerInv, MerchantP!OrderInv
<1>3. \A c \in ordered : sig[c] = c /\ c \in sent
  BY <1>2, PaymentAssumption DEF IInv, LinkInv
<1>4. ASSUME NEW c \in Calls, MerchantStep(c) PROVE LinkInv'
  <2>1. /\ pc[c] # "idle" /\ UNCHANGED <<sig, chain>>
        /\ \E point \in {"done", "settle", "ledger"} : pc' = [pc EXCEPT ![c] = point]
    BY <1>4 DEF MerchantStep, Merchant!VerifyAnswer, Merchant!VerifyFails, Merchant!VerifyAccepts,
         Merchant!SettleAnswer, Merchant!SettleFails, Merchant!SettleReturns, Merchant!LedgerAnswer,
         Merchant!Unlock, Merchant!LedgerFails, Merchant!Await, Merchant!Respond
  <2> QED BY <1>1, <1>2, <2>1 DEF IInv, LinkInv
<1>5. ASSUME NEW c \in Calls, Arrive(c) PROVE LinkInv'
  <2>1. /\ c \in sent /\ UNCHANGED chain /\ sig' = [sig EXCEPT ![c] = c]
        /\ \E point \in {"done", "verify", "ledger"} : pc' = [pc EXCEPT ![c] = point]
    BY <1>5 DEF Arrive, Merchant!Submit, Merchant!RefuseUnclaimed, Merchant!RefuseClaimed,
         Merchant!ReplaySettled, Merchant!Acquire, Merchant!Await, Merchant!Respond
  <2> QED BY <1>1, <1>2, <2>1 DEF IInv, LinkInv
<1>6. ASSUME NEW c \in Calls, Confirm(c) PROVE LinkInv'
  <2>1. chain' \subseteq chain \cup {c} /\ UNCHANGED <<pc, sig>> /\ c \in sent
    BY <1>3, <1>6 DEF Confirm, Merchant!Confirm, Merchant!requestVars
  <2> QED BY <1>1, <2>1 DEF IInv, LinkInv
<1>7. CASE Merchant!Crash
  BY <1>1, <1>2, <1>7 DEF Merchant!Crash, Merchant!Awaiting, IInv, LinkInv
<1>8. CASE UNCHANGED <<pc, sig, chain>>
  BY <1>1, <1>8 DEF IInv, LinkInv
<1>9. CASE \/ \E c \in Calls : AgentStep(c) \/ Challenge(c) \/ Begin(c) \/ Deliver(c) \/ GiveUp(c) \/ DirectAnswer(c)
           \/ \E q \in Reconcilers : StatusReceipt(q) \/ StatusPending(q)
           \/ \E q \in Reconcilers, c \in Calls : AskStatus(q, c)
           \/ UNCHANGED vars
  BY <1>8, <1>9 DEF AgentStep, Challenge, Begin, Deliver, GiveUp, DirectAnswer, StatusReceipt, StatusPending,
     AskStatus, vars, merchantVars, Merchant!Issue, Merchant!requestVars
<1>10. CASE Environment
  BY <1>7, <1>8, <1>10 DEF Environment, Merchant!Tick, Merchant!requestVars, merchantVars
<1> QED
  BY <1>4, <1>5, <1>6, <1>9, <1>10 DEF Next

\* The ledger forgets nothing, and a stored receipt is final.
LEMMA PaidStays ==
    ASSUME IInv, [Next]_vars
    PROVE  /\ chain \subseteq chain'
           /\ \A c \in Challenges : receipt[c] # NoPayload => receipt'[c] = receipt[c]
<1>1. CASE [Merchant!Next]_merchantVars
  <2>1. \A c \in Challenges : receipt[c] # NoPayload => receipt'[c] = receipt[c]
    BY <1>1, MerchantAssumed, MerchantIsMerchant, MerchantP!SettledStays DEF IInv
  <2>2. chain \subseteq chain'
    BY <1>1 DEF Merchant!Next, Merchant!Issue, Merchant!RefuseMalformed, Merchant!Submit,
         Merchant!RefuseUnclaimed, Merchant!RefuseClaimed, Merchant!ReplaySettled,
         Merchant!Acquire, Merchant!VerifyAnswer, Merchant!VerifyFails,
         Merchant!VerifyAccepts, Merchant!SettleAnswer, Merchant!SettleFails,
         Merchant!SettleReturns, Merchant!LedgerAnswer, Merchant!Unlock,
         Merchant!LedgerFails, Merchant!Poll, Merchant!Confirm, Merchant!Tick,
         Merchant!Crash, merchantVars
  <2> QED BY <2>1, <2>2
<1>2. CASE \E c \in Calls : Settles(c)
  BY <1>2 DEF Settles
<1> QED
  BY <1>1, <1>2, MerchantSide

-----------------------------------------------------------------------------
(***************************************************************************)
(* What the SDK stores.                                                    *)
(***************************************************************************)

\* A row may be written if what it says of the payment is so.
LEMMA RowWritten ==
    ASSUME IInv, [Next]_vars, NEW k \in Keys, NEW row,
           attempt' = [attempt EXCEPT ![k] = row],
           row.state \in {"SETTLED", "UNLOCKED"} => PaidAs(row, k),
           row.state = "UNLOCKED" =>
               \A c \in Calls \ Direct : c \in sent' /\ KeyOf[c] = k => receipt[ChallengeOf[c]] = c,
           \A c \in sent' \ sent : KeyOf[c] = k
    PROVE  EvidenceIsTrue' /\ UnlockAgrees'
<1>1. attempt'[k] = row /\ \A j \in Keys \ {k} : attempt'[j] = attempt[j]
  BY DEF IInv, SdkP!IInv, SdkP!TypeOK
<1>2. EvidenceIsTrue'
  BY <1>1, PaidStays DEF IInv, EvidenceIsTrue, PaidAs
<1>3. ASSUME NEW c \in Calls \ Direct, attempt'[KeyOf[c]].state = "UNLOCKED", c \in sent'
      PROVE  receipt'[ChallengeOf[c]] = c
  <2>1. KeyOf[c] \in Keys /\ ChallengeOf[c] \in Challenges /\ c # NoPayload
    BY PaymentAssumption DEF Keys
  <2>2. receipt[ChallengeOf[c]] = c
    BY <1>1, <1>3, <2>1 DEF IInv, UnlockAgrees
  <2> QED BY <2>1, <2>2, PaidStays
<1> QED
  BY <1>2, <1>3 DEF UnlockAgrees

\* A step that writes no row and sends nothing.
LEMMA NothingWritten ==
    ASSUME IInv, [Next]_vars, UNCHANGED <<attempt, sent>>
    PROVE  EvidenceIsTrue' /\ UnlockAgrees'
<1>1. EvidenceIsTrue'
  BY PaidStays DEF IInv, EvidenceIsTrue, PaidAs
<1>2. \A c \in Calls : ChallengeOf[c] \in Challenges /\ c # NoPayload
  BY PaymentAssumption
<1> QED
  BY <1>1, <1>2, PaidStays DEF IInv, UnlockAgrees

\* What a call stores before it has a receipt claims nothing.
LEMMA PlainWrites ==
    ASSUME IInv, [Next]_vars, NEW c \in Calls,
           \/ Sdk!Prepare(c) \/ Sdk!PaidThrows(c) \/ Sdk!PaidUnreadable(c) \/ Sdk!SettleThrows(c)
           \/ Sdk!PaidRefused(c, answer[c])
    PROVE  EvidenceIsTrue' /\ UnlockAgrees'
<1>1. \/ UNCHANGED <<attempt, sent>>
      \/ \E state \in {"CREATED", "VALIDATED", "SIGNED", "SUBMITTED", "UNKNOWN", "BLOCKED"},
            reason \in Sdk!Reasons :
            /\ attempt' = [attempt EXCEPT ![KeyOf[c]] = Sdk!Row(state, reason, "none")]
            /\ sent' \subseteq sent \cup {c}
  <2>1. CASE Sdk!Prepare(c)
    BY <2>1 DEF Sdk!Prepare, Sdk!NothingToPay, Sdk!RefuseDuplicate, Sdk!ReserveAttempt,
         Sdk!AuthorizeThrows, Sdk!Deny, Sdk!Validate, Sdk!BuildFails, Sdk!Sign, Sdk!Send, Sdk!AskVerify,
         Sdk!VerifyThrows, Sdk!VerifyRejects, Sdk!SubmitDirect, Sdk!PutAttempt, Sdk!Finish, Sdk!Throw,
         Sdk!FailAttempt, Sdk!Reasons
  <2>2. CASE Sdk!PaidThrows(c) \/ Sdk!PaidUnreadable(c) \/ Sdk!SettleThrows(c)
    BY <2>2 DEF Sdk!PaidThrows, Sdk!PaidUnreadable, Sdk!SettleThrows, Sdk!UnknownAttempt,
         Sdk!PutAttempt, Sdk!Finish, Sdk!Throw, Sdk!Reasons
  <2>3. CASE Sdk!PaidRefused(c, answer[c])
    BY <2>3 DEF Sdk!PaidRefused, Sdk!UnknownAttempt, Sdk!FailAttempt, Sdk!PutAttempt, Sdk!Finish, Sdk!Reasons
  <2> QED BY <2>1, <2>2, <2>3
<1>2. KeyOf[c] \in Keys
  BY DEF Keys
<1>3. ASSUME NEW state \in {"CREATED", "VALIDATED", "SIGNED", "SUBMITTED", "UNKNOWN", "BLOCKED"},
             NEW reason,
             attempt' = [attempt EXCEPT ![KeyOf[c]] = Sdk!Row(state, reason, "none")],
             sent' \subseteq sent \cup {c}
      PROVE  EvidenceIsTrue' /\ UnlockAgrees'
  <2> DEFINE row == Sdk!Row(state, reason, "none")
  <2>1. row.state \notin {"SETTLED", "UNLOCKED"}
    BY DEF Sdk!Row
  <2>2. \A d \in sent' \ sent : KeyOf[d] = KeyOf[c]
    BY <1>3
  <2> HIDE DEF row
  <2> QED BY <1>2, <1>3, <2>1, <2>2, RowWritten DEF row
<1> QED
  BY <1>1, <1>3, NothingWritten

\* The merchant's answer is stored as UNLOCKED only if the merchant unlocked.
LEMMA DeliverWrites ==
    ASSUME IInv, [Next]_vars, NEW c \in Calls, Deliver(c)
    PROVE  EvidenceIsTrue' /\ UnlockAgrees'
<1>1. CASE answer[c] = "PAID_AND_UNLOCKED" /\ Sdk!PaidReceipt(c, TRUE)
  <2> DEFINE row == Sdk!Row("UNLOCKED", "none", "matching")
  <2>1. call[c] = "paid" /\ attempt' = [attempt EXCEPT ![KeyOf[c]] = row] /\ sent' = sent
    BY <1>1 DEF Sdk!PaidReceipt, Sdk!Finish, Sdk!PutAttempt
  <2>2. c \in sent /\ c \in chain /\ receipt[ChallengeOf[c]] = c
    BY <1>1, <2>1, ServedIsPaid DEF IInv, SdkP!IInv, SdkP!CallInv
  <2>3. \A d \in sent : KeyOf[d] = KeyOf[c] => d = c
    BY <2>2 DEF IInv, SdkP!IInv, SdkP!OneSubmissionPerAttempt
  <2>4. KeyOf[c] \in Keys /\ KeyOf[c][2] = ChallengeOf[c]
    BY DEF Keys, KeyOf
  <2>5. PaidAs(row, KeyOf[c])
    BY <2>2, <2>4 DEF PaidAs
  <2> HIDE DEF row
  <2> QED BY <2>1, <2>2, <2>3, <2>4, <2>5, RowWritten
<1> QED
  BY <1>1, PlainWrites DEF Deliver

\* pay() stores a receipt only for a transfer that has executed.
LEMMA DirectWrites ==
    ASSUME IInv, [Next]_vars, NEW c \in Calls, DirectAnswer(c)
    PROVE  EvidenceIsTrue' /\ UnlockAgrees'
<1>1. CASE c \in chain /\ Sdk!SettleReturns(c)
  <2> DEFINE row == Sdk!Row("SETTLED", "none", "matching")
  <2>1. /\ attempt' = [attempt EXCEPT ![KeyOf[c]] = row] /\ sent' = sent
        /\ KeyOf[c] \in Keys /\ KeyOf[c][2] = ChallengeOf[c]
    BY <1>1 DEF Sdk!SettleReturns, Sdk!Finish, Sdk!PutAttempt, Keys, KeyOf
  <2>2. row.state # "UNLOCKED"
    BY DEF Sdk!Row
  <2>3. PaidAs(row, KeyOf[c])
    BY <1>1, <2>1 DEF PaidAs
  <2> HIDE DEF row
  <2> QED BY <1>1, <2>1, <2>2, <2>3, RowWritten
<1> QED
  BY <1>1, PlainWrites DEF DirectAnswer

\* reconcile() stores the merchant's receipt, which is for an executed transfer.
LEMMA ReconcileWrites ==
    ASSUME IInv, [Next]_vars, NEW q \in Reconcilers, StatusReceipt(q)
    PROVE  EvidenceIsTrue' /\ UnlockAgrees'
<1>1. PICK k \in Keys :
        /\ asking[q] = k /\ Merchant!PaymentStatus(k[2]) = "RECEIPT"
        /\ Sdk!StatusSettled(q, IF KeyOf[receipt[k[2]]] = k THEN "matching" ELSE "other")
  BY DEF StatusReceipt
<1> DEFINE row == Sdk!Row("SETTLED", "none", IF KeyOf[receipt[k[2]]] = k THEN "matching" ELSE "other")
<1>2. attempt' = [attempt EXCEPT ![k] = row] /\ sent' = sent
  BY <1>1 DEF Sdk!StatusSettled
<1>3. receipt[k[2]] \in chain /\ ChallengeOf[receipt[k[2]]] = k[2]
  BY <1>1, ReceiptIsPaid DEF Merchant!PaymentStatus
<1>4. row.state # "UNLOCKED" /\ (row.receipt = "matching" => KeyOf[receipt[k[2]]] = k)
  BY DEF Sdk!Row
<1>5. PaidAs(row, k)
  BY <1>3, <1>4 DEF PaidAs
<1> HIDE DEF row
<1> QED
  BY <1>2, <1>3, <1>4, <1>5, RowWritten

\* The invariant is inductive.
LEMMA StepPreserves == IInv /\ [Next]_vars => IInv'
<1> SUFFICES ASSUME IInv, [Next]_vars PROVE EvidenceIsTrue' /\ UnlockAgrees'
  BY SdkKept, MerchantKept, LinkKept DEF IInv
<1>1. ASSUME NEW c \in Calls, AgentStep(c) \/ Begin(c) \/ GiveUp(c) PROVE EvidenceIsTrue' /\ UnlockAgrees'
  BY <1>1, PlainWrites DEF AgentStep, Begin, GiveUp, Sdk!Prepare
<1>2. CASE \/ \E c \in Calls : MerchantStep(c) \/ Challenge(c) \/ Arrive(c) \/ Confirm(c)
           \/ \E q \in Reconcilers : StatusPending(q)
           \/ \E q \in Reconcilers, c \in Calls : AskStatus(q, c)
           \/ Environment \/ UNCHANGED vars
  <2>1. UNCHANGED <<attempt, sent>>
    BY <1>2 DEF MerchantStep, Challenge, Arrive, Confirm, StatusPending, AskStatus, Environment,
         Sdk!StatusOpen, Sdk!AskStatus, Sdk!Crash, vars, sdkVars
  <2> QED BY <2>1, NothingWritten
<1> QED
  BY <1>1, <1>2, DeliverWrites, DirectWrites, ReconcileWrites DEF Next

LEMMA Invariance == Spec => []IInv
BY InitEstablishes, StepPreserves, PTL DEF Spec

-----------------------------------------------------------------------------
(***************************************************************************)
(* The theorems.                                                           *)
(***************************************************************************)

\* Each side's variables keep their types when the two run together.
THEOREM TypeCorrect == Spec => [](Merchant!TypeOK /\ Sdk!TypeOK)
<1>1. IInv => Merchant!TypeOK /\ Sdk!TypeOK
  BY SdkIsSdk, MerchantIsMerchant DEF IInv, SdkP!IInv, MerchantP!CoreInv
<1> QED BY <1>1, Invariance, PTL

\* Seen through the SDK's table and calls, the composition is a run of the SDK: its
\* actions answer everything the real merchant, facilitator and ledger can answer.
THEOREM ImplementsSdk == Spec => Sdk!Spec
<1>1. Init => Sdk!Init
  BY DEF Init
<1>2. [Next]_vars => [Sdk!Next]_(Sdk!sdkVars)
  BY SdkSide DEF sdkVars, Sdk!sdkVars
<1> QED BY <1>1, <1>2, PTL DEF Spec, Sdk!Spec

\* No two transfers of one allowance for one challenge are ever executed: fetch, pay,
\* retries, crashes and reconciliation together (agent-allowance.ts, reserveAttempt).
THEOREM NoDoublePayment == Spec => []OnePaymentPerAttempt
<1>1. IInv => OnePaymentPerAttempt
  BY DEF IInv, LinkInv, SdkP!IInv, SdkP!OneSubmissionPerAttempt, OnePaymentPerAttempt
<1> QED BY <1>1, Invariance, PTL

\* An attempt the table shows as SETTLED or UNLOCKED has its challenge paid on the ledger,
\* by itself wherever its receipt was compared with it.
THEOREM StoredEvidenceIsTrue == Spec => []EvidenceIsTrue
<1>1. IInv => EvidenceIsTrue
  BY DEF IInv
<1> QED BY <1>1, Invariance, PTL

\* The SDK says UNLOCKED only of a challenge that the merchant has recorded as settled
\* by the same payment.
THEOREM BothSidesAgree == Spec => []UnlockAgrees
<1>1. IInv => UnlockAgrees
  BY DEF IInv
<1> QED BY <1>1, Invariance, PTL
=============================================================================
