---------------------- MODULE MerchantChallenge_proofs ----------------------
(***************************************************************************)
(* For every set of challenges, payloads and requests: MerchantChallenge   *)
(* pays a challenge at most once, serves only the payer, and implements    *)
(* the one-time sale.                                                      *)
(***************************************************************************)
EXTENDS MerchantChallenge, TLAPS

(***************************************************************************)
(* The inductive invariant.                                                *)
(***************************************************************************)

Working(r) == pc[r] \in {"verify", "settle"}

\* What each suspension point of a handler knows about the table.
HandlerInv ==
    \A r \in Requests :
        /\ pc[r] = "idle" => sig[r] = NoPayload /\ r \notin ordered
        /\ Working(r) =>
            /\ sig[r] \in Payloads
            /\ payloadHash[ReqChallenge(r)] = sig[r]
            /\ receipt[ReqChallenge(r)] = NoPayload
        /\ pc[r] = "verify" => \A s \in ordered : ReqChallenge(s) # ReqChallenge(r)
        /\ pc[r] = "settle" => r \in ordered
        /\ pc[r] = "ledger" \/ answer[r] = "PAID_AND_UNLOCKED" =>
            /\ sig[r] \in Payloads
            /\ carried[r] = sig[r]
            /\ receipt[ReqChallenge(r)] = sig[r]
        /\ answer[r] = "PAID_AND_UNLOCKED" => pc[r] = "done"

\* One handler works on a challenge at a time.
ExclusiveInv ==
    \A r, s \in Requests :
        Working(r) /\ Working(s) /\ ReqChallenge(r) = ReqChallenge(s) => r = s

\* Settlement is ordered once per challenge, under a claim that stays.
OrderInv ==
    /\ \A r \in ordered : sig[r] \in Payloads
    /\ OrderedKeepsClaim
    /\ OneSettleCallPerChallenge

\* A row is only touched once issued; a claim is by a payload for this challenge;
\* a receipt is for the holder, and for an executed transfer.
TableInv ==
    \A c \in Challenges :
        /\ payloadHash[c] # NoPayload => c \in rows /\ ChallengeOf[payloadHash[c]] = c
        /\ receipt[c] # NoPayload => receipt[c] = payloadHash[c] /\ receipt[c] \in chain

CoreInv == TypeOK /\ HandlerInv /\ ExclusiveInv /\ OrderInv /\ TableInv

\* The ledger executes only what the server has ordered.  This alone does not hold of
\* a server whose buyers may settle by themselves; CoreInv does.
OnlyOrdered == \A p \in chain : \E r \in ordered : sig[r] = p

IInv == CoreInv /\ OnlyOrdered

-----------------------------------------------------------------------------

\* The initial states satisfy the invariant.
LEMMA InitIInv == Init => IInv
  BY ChallengesAssumption
     DEF Init, IInv, OnlyOrdered, CoreInv, TypeOK, HandlerInv, ExclusiveInv, OrderInv, TableInv, Working, Awaiting, Answers, Refusals,
         OrderedKeepsClaim, OneSettleCallPerChallenge

\* A claim is only ever acquired on a row that nobody holds.
LEMMA AcquiredIsFree ==
    ASSUME NEW c \in Challenges, NEW p \in Payloads, CoreInv, ClaimStatus(c, p) = "acquired"
    PROVE  payloadHash[c] = NoPayload /\ receipt[c] = NoPayload
  BY ChallengesAssumption DEF ClaimStatus, CoreInv, TypeOK, TableInv

\* A settled claim is the asker's own.
LEMMA SettledIsOwn ==
    ASSUME NEW c \in Challenges, NEW p \in Payloads, CoreInv, ClaimStatus(c, p) = "settled"
    PROVE  receipt[c] = p
  BY ChallengesAssumption DEF ClaimStatus, CoreInv, TypeOK, TableInv

\* Only an issued, unexpired challenge with unaltered terms passes the prechecks.
LEMMA PrecheckedIsIssued ==
    ASSUME NEW p \in Payloads, Precheck(p) = "ok"
    PROVE  ChallengeOf[p] \in rows
  BY DEF Precheck

USE ChallengesAssumption

\* No action of a handler, of the ledger or of a crash leaves the declared types.
LEMMA TypeStep == CoreInv /\ [Next]_vars => TypeOK'
<1> SUFFICES ASSUME TypeOK, OrderInv, [Next]_vars PROVE TypeOK'
  BY DEF CoreInv
<1> USE DEF TypeOK, Awaiting, Answers, Refusals, storeVars, requestVars, Await, Respond
<1>1. ASSUME NEW c \in Challenges, Issue(c) PROVE TypeOK'
  BY <1>1 DEF Issue, Create
<1>2. ASSUME NEW r \in Requests, RefuseMalformed(r) PROVE TypeOK'
  BY <1>2 DEF RefuseMalformed
<1>3. ASSUME NEW r \in Requests, NEW p \in Payloads, Submit(r, p) PROVE TypeOK'
  <2>1. CASE RefuseUnclaimed(r, p)
    <3>1. Precheck(p) \in Refusals
      BY <2>1 DEF RefuseUnclaimed, Precheck
    <3> QED BY <2>1, <3>1 DEF RefuseUnclaimed
  <2>2. CASE RefuseClaimed(r, p)
    BY <2>2 DEF RefuseClaimed
  <2>3. CASE ReplaySettled(r, p)
    BY <2>3 DEF ReplaySettled
  <2>4. CASE Acquire(r, p)
    BY <2>4 DEF Acquire
  <2> QED BY <1>3, <2>1, <2>2, <2>3, <2>4 DEF Submit
<1>4. ASSUME NEW r \in Requests, VerifyAnswer(r) PROVE TypeOK'
  BY <1>4 DEF VerifyAnswer, VerifyFails, VerifyAccepts, Release
<1>5. ASSUME NEW r \in Requests, SettleAnswer(r) PROVE TypeOK'
  BY <1>5 DEF SettleAnswer, SettleFails, SettleReturns, Settle
<1>6. ASSUME NEW r \in Requests, LedgerAnswer(r) PROVE TypeOK'
  BY <1>6 DEF LedgerAnswer, Unlock, LedgerFails
<1>7. ASSUME NEW r \in Requests, NEW c \in Challenges, Poll(r, c) PROVE TypeOK'
  <2>1. PaymentStatus(c) \in Answers
    BY DEF PaymentStatus
  <2> QED BY <1>7, <2>1 DEF Poll
<1>8. ASSUME NEW r \in Requests, Confirm(r) PROVE TypeOK'
  BY <1>8 DEF Confirm, OrderInv
<1>9. CASE Tick
  BY <1>9 DEF Tick
<1>10. CASE Crash
  BY <1>10 DEF Crash
<1>11. CASE UNCHANGED vars
  BY <1>11 DEF vars
<1> QED
  BY <1>1, <1>2, <1>3, <1>4, <1>5, <1>6, <1>7, <1>8, <1>9, <1>10, <1>11 DEF Next

(***************************************************************************)
(* Preservation.  InvParts names the conjuncts beyond the types.           *)
(***************************************************************************)

InvParts == HandlerInv /\ ExclusiveInv /\ OrderInv /\ TableInv

\* Issuing a challenge touches only a row nobody refers to.
LEMMA IssueStep == ASSUME CoreInv, NEW c \in Challenges, Issue(c) PROVE InvParts'
  BY DEF Issue, Create, InvParts, CoreInv, TypeOK, HandlerInv, ExclusiveInv, OrderInv, TableInv, Working, ReqChallenge,
         OrderedKeepsClaim, OneSettleCallPerChallenge, requestVars

\* A request refused before the claim changes nothing but itself.
LEMMA RefuseStep ==
    ASSUME CoreInv, NEW r \in Requests, NEW p \in Payloads,
           RefuseMalformed(r) \/ RefuseUnclaimed(r, p) \/ RefuseClaimed(r, p)
    PROVE  InvParts'
<1>1. /\ pc[r] = "idle" /\ pc' = [pc EXCEPT ![r] = "done"]
      /\ \E a \in Refusals : answer' = [answer EXCEPT ![r] = a]
      /\ sig' = sig \/ sig' = [sig EXCEPT ![r] = p]
      /\ UNCHANGED <<rows, expiresAt, payloadHash, receipt, carried, ordered, chain>>
  BY DEF RefuseMalformed, RefuseUnclaimed, RefuseClaimed, Respond, storeVars, Precheck, Refusals
<1> QED
  BY <1>1 DEF InvParts, CoreInv, TypeOK, HandlerInv, ExclusiveInv, OrderInv, TableInv, Working, ReqChallenge,
         OrderedKeepsClaim, OneSettleCallPerChallenge, Refusals

\* A replay carries the receipt it found, which is for its own payload.
LEMMA ReplayStep ==
    ASSUME CoreInv, NEW r \in Requests, NEW p \in Payloads, ReplaySettled(r, p)
    PROVE  InvParts'
<1>1. receipt[ChallengeOf[p]] = p
  BY SettledIsOwn DEF ReplaySettled
<1> QED
  BY <1>1 DEF ReplaySettled, Await, storeVars, InvParts, CoreInv, TypeOK, HandlerInv, ExclusiveInv, OrderInv,
         TableInv, Working, ReqChallenge, OrderedKeepsClaim, OneSettleCallPerChallenge

\* The winner of the claim is alone on a challenge nobody has ordered.
LEMMA AcquireStep ==
    ASSUME CoreInv, NEW r \in Requests, NEW p \in Payloads, Acquire(r, p)
    PROVE  InvParts'
<1> DEFINE c == ChallengeOf[p]
<1>1. payloadHash[c] = NoPayload /\ receipt[c] = NoPayload /\ c \in rows
  BY AcquiredIsFree, PrecheckedIsIssued DEF Acquire
<1>2. \A s \in Requests : Working(s) \/ s \in ordered => ReqChallenge(s) # c
  BY <1>1 DEF CoreInv, TypeOK, HandlerInv, OrderInv, OrderedKeepsClaim, Working, ReqChallenge
<1>3. /\ pc[r] = "idle" /\ pc' = [pc EXCEPT ![r] = "verify"] /\ answer' = answer
      /\ sig' = [sig EXCEPT ![r] = p] /\ payloadHash' = [payloadHash EXCEPT ![c] = p]
      /\ UNCHANGED <<rows, receipt, carried, ordered, chain>>
  BY DEF Acquire, Await
<1>4. HandlerInv'
  BY <1>1, <1>2, <1>3 DEF CoreInv, TypeOK, HandlerInv, Working, ReqChallenge
<1>5. ExclusiveInv' /\ OrderInv' /\ TableInv'
  BY <1>1, <1>2, <1>3 DEF CoreInv, TypeOK, HandlerInv, ExclusiveInv, OrderInv, TableInv, Working, ReqChallenge,
         OrderedKeepsClaim, OneSettleCallPerChallenge
<1> QED BY <1>4, <1>5 DEF InvParts

\* A failed verification gives back its own claim, and no transfer was ordered.
LEMMA VerifyStep ==
    ASSUME CoreInv, NEW r \in Requests, VerifyAnswer(r)
    PROVE  InvParts'
<1>1. CASE VerifyAccepts(r)
  BY <1>1 DEF VerifyAccepts, Await, storeVars, InvParts, CoreInv, TypeOK, HandlerInv, ExclusiveInv, OrderInv,
         TableInv, Working, ReqChallenge, OrderedKeepsClaim, OneSettleCallPerChallenge
<1>2. CASE VerifyFails(r)
  <2> DEFINE c == ReqChallenge(r)
  <2>1. /\ pc[r] = "verify" /\ pc' = [pc EXCEPT ![r] = "done"]
        /\ \E a \in Refusals : answer' = [answer EXCEPT ![r] = a]
        /\ payloadHash' = [payloadHash EXCEPT ![c] = NoPayload] /\ receipt[c] = NoPayload
        /\ UNCHANGED <<rows, receipt, sig, carried, ordered, chain>>
    BY <1>2 DEF VerifyFails, Release, Respond, Refusals, CoreInv, HandlerInv, Working
  <2>2. c \in Challenges
    BY <2>1 DEF CoreInv, TypeOK, HandlerInv, Working, ReqChallenge
  <2>3. \A s \in Requests \ {r} : Working(s) \/ s \in ordered => ReqChallenge(s) # c
    BY <2>1 DEF CoreInv, HandlerInv, ExclusiveInv, Working
  <2>4. HandlerInv'
    BY <2>1, <2>2, <2>3 DEF CoreInv, TypeOK, HandlerInv, Working, ReqChallenge, Refusals
  <2>5. ExclusiveInv' /\ OrderInv' /\ TableInv'
    BY <2>1, <2>2, <2>3 DEF CoreInv, TypeOK, HandlerInv, ExclusiveInv, OrderInv, TableInv, Working,
         ReqChallenge, OrderedKeepsClaim, OneSettleCallPerChallenge
  <2> QED BY <2>4, <2>5 DEF InvParts
<1> QED BY <1>1, <1>2 DEF VerifyAnswer

\* The receipt is stored under the settler's own claim; a failure leaves the claim.
LEMMA SettleStep ==
    ASSUME CoreInv, NEW r \in Requests, SettleAnswer(r)
    PROVE  InvParts'
<1>1. CASE SettleFails(r)
  BY <1>1 DEF SettleFails, Respond, storeVars, InvParts, CoreInv, TypeOK, HandlerInv, ExclusiveInv, OrderInv,
         TableInv, Working, ReqChallenge, OrderedKeepsClaim, OneSettleCallPerChallenge
<1>2. CASE SettleReturns(r)
  <2> DEFINE c == ReqChallenge(r)
  <2>1. /\ pc[r] = "settle" /\ pc' = [pc EXCEPT ![r] = "ledger"] /\ answer' = answer
        /\ receipt' = [receipt EXCEPT ![c] = sig[r]] /\ carried' = [carried EXCEPT ![r] = sig[r]]
        /\ sig[r] \in chain /\ sig[r] = payloadHash[c] /\ receipt[c] = NoPayload
        /\ UNCHANGED <<rows, payloadHash, sig, ordered, chain>>
    BY <1>2 DEF SettleReturns, Settle, Await, CoreInv, HandlerInv, Working
  <2>2. c \in Challenges /\ sig[r] \in Payloads
    BY <2>1 DEF CoreInv, TypeOK, HandlerInv, Working, ReqChallenge
  <2>3. HandlerInv'
    BY <2>1, <2>2 DEF CoreInv, TypeOK, HandlerInv, ExclusiveInv, Working, ReqChallenge
  <2>4. ExclusiveInv' /\ OrderInv' /\ TableInv'
    BY <2>1, <2>2 DEF CoreInv, TypeOK, HandlerInv, ExclusiveInv, OrderInv, TableInv, Working,
         ReqChallenge, OrderedKeepsClaim, OneSettleCallPerChallenge
  <2> QED BY <2>3, <2>4 DEF InvParts
<1> QED BY <1>1, <1>2 DEF SettleAnswer

\* Answering after the ledger read, polling, and a crash touch no row.
LEMMA AnswerStep ==
    ASSUME CoreInv, (\E r \in Requests : LedgerAnswer(r)) \/ Crash
    PROVE  InvParts'
<1>1. ASSUME NEW r \in Requests, LedgerAnswer(r) PROVE InvParts'
  BY <1>1 DEF LedgerAnswer, Unlock, LedgerFails, Respond, storeVars, InvParts, CoreInv, TypeOK, HandlerInv,
         ExclusiveInv, OrderInv, TableInv, Working, ReqChallenge, OrderedKeepsClaim, OneSettleCallPerChallenge
<1>2. CASE Crash
  BY <1>2 DEF Crash, Awaiting, storeVars, InvParts, CoreInv, TypeOK, HandlerInv,
         ExclusiveInv, OrderInv, TableInv, Working, ReqChallenge, OrderedKeepsClaim, OneSettleCallPerChallenge
<1> QED BY <1>1, <1>2

\* A poll answers its own request.
LEMMA PollStep ==
    ASSUME CoreInv, NEW r \in Requests, NEW c \in Challenges, Poll(r, c)
    PROVE  InvParts'
  BY DEF Poll, PaymentStatus, Respond, storeVars, InvParts, CoreInv, TypeOK, HandlerInv, ExclusiveInv, OrderInv,
         TableInv, Working, ReqChallenge, OrderedKeepsClaim, OneSettleCallPerChallenge

\* The ledger only ever executes ordered transfers.
LEMMA ConfirmStep ==
    ASSUME CoreInv, NEW r \in Requests, Confirm(r)
    PROVE  InvParts'
  BY DEF Confirm, storeVars, requestVars, InvParts, CoreInv, TypeOK, HandlerInv, ExclusiveInv, OrderInv,
         TableInv, Working, ReqChallenge, OrderedKeepsClaim, OneSettleCallPerChallenge

\* The invariant is inductive, and so is its core without what the ledger executes.
LEMMA NextCore == CoreInv /\ [Next]_vars => CoreInv'
<1> SUFFICES ASSUME CoreInv, [Next]_vars PROVE InvParts'
  BY TypeStep DEF CoreInv, InvParts
<1>1. CASE \E c \in Challenges : Issue(c)
  BY <1>1, IssueStep
<1>2. CASE \E r \in Requests : RefuseMalformed(r)
  <2>1. CASE Payloads # {}
    BY <1>2, <2>1, RefuseStep
  <2>2. CASE Payloads = {}
    BY <1>2, <2>2 DEF RefuseMalformed, Respond, storeVars, InvParts, CoreInv, TypeOK, HandlerInv, ExclusiveInv,
         OrderInv, TableInv, Working, ReqChallenge, OrderedKeepsClaim, OneSettleCallPerChallenge
  <2> QED BY <2>1, <2>2
<1>3. ASSUME NEW r \in Requests, NEW p \in Payloads, Submit(r, p) PROVE InvParts'
  BY <1>3, RefuseStep, ReplayStep, AcquireStep DEF Submit
<1>4. CASE \E r \in Requests : VerifyAnswer(r)
  BY <1>4, VerifyStep
<1>5. CASE \E r \in Requests : SettleAnswer(r)
  BY <1>5, SettleStep
<1>6. CASE (\E r \in Requests : LedgerAnswer(r)) \/ Crash
  BY <1>6, AnswerStep
<1>7. CASE \E r \in Requests, c \in Challenges : Poll(r, c)
  BY <1>7, PollStep
<1>8. CASE \E r \in Requests : Confirm(r)
  BY <1>8, ConfirmStep
<1>9. CASE Tick \/ UNCHANGED vars
  BY <1>9 DEF Tick, vars, storeVars, requestVars, InvParts, CoreInv, HandlerInv, ExclusiveInv, OrderInv, TableInv,
         Working, ReqChallenge, OrderedKeepsClaim, OneSettleCallPerChallenge
<1> QED
  BY <1>1, <1>2, <1>3, <1>4, <1>5, <1>6, <1>7, <1>8, <1>9 DEF Next

\* A transfer that somebody else hands to the ledger leaves the core as it is.
LEMMA ChainGrows ==
    ASSUME CoreInv, chain \subseteq chain', chain' \subseteq Payloads,
           UNCHANGED <<now, storeVars, requestVars, ordered>>
    PROVE  CoreInv'
  BY DEF storeVars, requestVars, CoreInv, TypeOK, HandlerInv, ExclusiveInv, OrderInv, TableInv, Working,
         ReqChallenge, OrderedKeepsClaim, OneSettleCallPerChallenge

\* An order is for good, and so is the payload of a request that has one.
LEMMA OrdersStay ==
    ASSUME CoreInv, [Next]_vars
    PROVE  ordered \subseteq ordered' /\ \A r \in ordered : sig'[r] = sig[r]
  BY DEF CoreInv, TypeOK, HandlerInv, Next, vars, Issue, RefuseMalformed, Submit, RefuseUnclaimed, RefuseClaimed,
         ReplaySettled, Acquire, VerifyAnswer, VerifyFails, VerifyAccepts, SettleAnswer, SettleFails,
         SettleReturns, LedgerAnswer, Unlock, LedgerFails, Poll, Confirm, Tick, Crash, requestVars

LEMMA NextIInv == IInv /\ [Next]_vars => IInv'
<1> SUFFICES ASSUME IInv, [Next]_vars PROVE OnlyOrdered'
  BY NextCore DEF IInv
<1>1. chain' = chain \/ \E r \in ordered : chain' = chain \cup {sig[r]}
  BY DEF Next, vars, Issue, RefuseMalformed, Submit, RefuseUnclaimed, RefuseClaimed,
         ReplaySettled, Acquire, VerifyAnswer, VerifyFails, VerifyAccepts, SettleAnswer, SettleFails,
         SettleReturns, LedgerAnswer, Unlock, LedgerFails, Poll, Confirm, Tick, Crash
<1> QED
  BY <1>1, OrdersStay DEF IInv, OnlyOrdered

\* A stored receipt stays, and its claim: release and settle leave a settled row alone,
\* and a new claim needs a row nobody holds.
LEMMA SettledStays ==
    ASSUME CoreInv, [Next]_vars, NEW c \in Challenges, receipt[c] # NoPayload
    PROVE  receipt'[c] = receipt[c] /\ payloadHash'[c] = payloadHash[c]
<1>1. ASSUME NEW d \in Challenges, Issue(d) PROVE UNCHANGED <<payloadHash, receipt>>
  BY <1>1 DEF Issue, Create
<1>2. ASSUME NEW r \in Requests, NEW p \in Payloads, Submit(r, p)
      PROVE  receipt' = receipt /\ payloadHash'[c] = payloadHash[c]
  <2>1. CASE Acquire(r, p)
    BY <2>1, AcquiredIsFree DEF Acquire, CoreInv, TypeOK
  <2> QED
    BY <1>2, <2>1 DEF Submit, RefuseUnclaimed, RefuseClaimed, ReplaySettled, storeVars
<1>3. ASSUME NEW r \in Requests, VerifyAnswer(r)
      PROVE  receipt' = receipt /\ payloadHash'[c] = payloadHash[c]
  BY <1>3 DEF VerifyAnswer, VerifyFails, VerifyAccepts, Release, storeVars, CoreInv, TypeOK
<1>4. ASSUME NEW r \in Requests, SettleAnswer(r)
      PROVE  receipt'[c] = receipt[c] /\ payloadHash' = payloadHash
  BY <1>4 DEF SettleAnswer, SettleFails, SettleReturns, Settle, storeVars, CoreInv, TypeOK
<1>5. CASE \/ \E r \in Requests : RefuseMalformed(r) \/ LedgerAnswer(r) \/ Confirm(r)
           \/ \E r \in Requests, d \in Challenges : Poll(r, d)
           \/ Tick \/ Crash \/ UNCHANGED vars
  BY <1>5 DEF RefuseMalformed, LedgerAnswer, Unlock, LedgerFails, Confirm, Poll, Tick, Crash, vars, storeVars
<1> QED BY <1>1, <1>2, <1>3, <1>4, <1>5 DEF Next

\* Every reachable state satisfies the invariant.
THEOREM Invariance == Spec => []IInv
  BY InitIInv, NextIInv, PTL DEF Spec

-----------------------------------------------------------------------------

\* The variables keep their types.
THEOREM TypeCorrect == Spec => []TypeOK
  BY Invariance, PTL DEF IInv, CoreInv

\* No request is ever answered with the resource unless its own payload has been
\* paid and recorded (app.ts, protectedResponse).
THEOREM OnlyPayersAreServed == Spec => []UnlockedIsPaidAndRecorded
<1>1. IInv => UnlockedIsPaidAndRecorded
  BY DEF IInv, CoreInv, TypeOK, HandlerInv, TableInv, UnlockedIsPaidAndRecorded, ReqChallenge
<1> QED BY <1>1, Invariance, PTL

\* No challenge is paid twice (store.ts, claim; app.ts, no release after settle).
THEOREM NoDoublePayment == Spec => []OnePaymentPerChallenge
<1>1. IInv => OnePaymentPerChallenge
  BY DEF IInv, CoreInv, OnlyOrdered, OrderInv, OneSettleCallPerChallenge, OnePaymentPerChallenge, ReqChallenge
<1> QED BY <1>1, Invariance, PTL

\* No challenge is handed to the facilitator for settlement twice.
THEOREM NoDoubleSettle == Spec => [](OneSettleCallPerChallenge /\ OrderedKeepsClaim)
<1>1. IInv => OneSettleCallPerChallenge /\ OrderedKeepsClaim
  BY DEF IInv, CoreInv, OrderInv
<1> QED BY <1>1, Invariance, PTL

\* A challenge with a receipt keeps it, and its claim, for good: release and settle
\* both leave a settled row alone, and a new claim needs a row nobody holds (store.ts,
\* claim, release and settle).
THEOREM SettledForGood == Spec => ReceiptIsFinal
<1>1. ASSUME IInv, [Next]_vars, NEW c \in Challenges, receipt[c] # NoPayload
      PROVE  receipt'[c] = receipt[c] /\ payloadHash'[c] = payloadHash[c]
  BY <1>1, SettledStays DEF IInv
<1>2. IInv /\ [Next]_vars =>
          [\A c \in Challenges : receipt[c] # NoPayload =>
              receipt'[c] = receipt[c] /\ payloadHash'[c] = payloadHash[c]]_vars
  BY <1>1
<1> QED BY <1>2, Invariance, PTL DEF Spec, ReceiptIsFinal

-----------------------------------------------------------------------------
(***************************************************************************)
(* The one-time sale.                                                      *)
(***************************************************************************)

SalePhase == [c \in Challenges |-> Phase(c)]
SaleServed == {sig[r] : r \in {s \in Requests : answer[s] = "PAID_AND_UNLOCKED"}}

\* A step that leaves the table, the orders, the ledger and the set of served
\* payloads alone is invisible to the sale.
LEMMA HiddenStep ==
    ASSUME IInv, IInv', UNCHANGED <<rows, payloadHash, chain>>,
           OrderedChallenges' = OrderedChallenges, SaleServed' = SaleServed
    PROVE  UNCHANGED Sale!saleVars
<1>1. \A c \in Challenges : Phase(c)' = Phase(c)
  BY DEF Phase
<1> QED BY <1>1 DEF Sale!saleVars, SaleServed

\* Orders only grow, and the challenge of an order never changes.
LEMMA OrderedStable ==
    ASSUME IInv, [Next]_vars, ordered' = ordered
    PROVE  OrderedChallenges' = OrderedChallenges
<1>1. \A r \in ordered : sig'[r] = sig[r]
  BY OrdersStay DEF IInv
<1> QED BY <1>1 DEF OrderedChallenges, ReqChallenge

\* Only Unlock serves anybody.
LEMMA ServedStable ==
    ASSUME IInv, [Next]_vars, \A r \in Requests : ~Unlock(r)
    PROVE  SaleServed' = SaleServed
<1>1. \A r \in Requests : (answer'[r] = "PAID_AND_UNLOCKED") <=> (answer[r] = "PAID_AND_UNLOCKED")
  <2>1. ASSUME NEW r \in Requests, NEW p \in Payloads, Submit(r, p)
        PROVE  \A s \in Requests : (answer'[s] = "PAID_AND_UNLOCKED") <=> (answer[s] = "PAID_AND_UNLOCKED")
    BY <2>1 DEF IInv, CoreInv, TypeOK, HandlerInv, Submit, RefuseUnclaimed, RefuseClaimed, ReplaySettled, Acquire,
         Respond, Await, Precheck
  <2>2. ASSUME NEW r \in Requests, NEW c \in Challenges, Poll(r, c)
        PROVE  \A s \in Requests : (answer'[s] = "PAID_AND_UNLOCKED") <=> (answer[s] = "PAID_AND_UNLOCKED")
    BY <2>2 DEF IInv, CoreInv, TypeOK, HandlerInv, Poll, PaymentStatus, Respond
  <2> QED
    BY <2>1, <2>2 DEF IInv, CoreInv, TypeOK, HandlerInv, Next, vars, Issue, RefuseMalformed,
         VerifyAnswer, VerifyFails, VerifyAccepts, SettleAnswer, SettleFails,
         SettleReturns, LedgerAnswer, LedgerFails, Confirm, Tick, Crash, Awaiting, requestVars, Respond, Await
<1>2. \A r \in Requests : answer[r] = "PAID_AND_UNLOCKED" => sig'[r] = sig[r]
  BY DEF IInv, CoreInv, TypeOK, HandlerInv, Next, vars, Issue, RefuseMalformed, Submit, RefuseUnclaimed, RefuseClaimed,
         ReplaySettled, Acquire, VerifyAnswer, VerifyFails, VerifyAccepts, SettleAnswer, SettleFails,
         SettleReturns, LedgerAnswer, Unlock, LedgerFails, Poll, Confirm, Tick, Crash, requestVars
<1> QED BY <1>1, <1>2 DEF SaleServed

\* Every step of the server is a step of the sale, or invisible to it.
LEMMA SaleStep == IInv /\ IInv' /\ [Next]_vars => [Sale!Next]_(Sale!saleVars)
<1> SUFFICES ASSUME IInv, IInv', [Next]_vars PROVE [Sale!Next]_(Sale!saleVars)
  OBVIOUS
<1> USE DEF SaleServed
<1>0. ASSUME NEW r \in Requests, VerifyFails(r) \/ VerifyAccepts(r) \/ Confirm(r) \/ Unlock(r)
      PROVE  ReqChallenge(r) \in Challenges
  BY <1>0 DEF IInv, CoreInv, TypeOK, HandlerInv, OrderInv, Working, ReqChallenge, VerifyFails, VerifyAccepts, Confirm, Unlock
<1>1. ASSUME NEW c \in Challenges, Issue(c) PROVE Sale!Offer(c)
  <2>1. ordered' = ordered /\ payloadHash' = payloadHash /\ chain' = chain /\ rows' = rows \cup {c} /\ c \notin rows
    BY <1>1 DEF Issue, Create
  <2>2. OrderedChallenges' = OrderedChallenges /\ SaleServed' = SaleServed
    BY <2>1, <1>1, OrderedStable DEF Issue, requestVars
  <2>3. payloadHash[c] = NoPayload
    BY <2>1 DEF IInv, CoreInv, TableInv
  <2>4. Phase(c) = "absent" /\ Phase(c)' = "open"
    BY <2>1, <2>3 DEF Phase
  <2>5. \A d \in Challenges \ {c} : Phase(d)' = Phase(d)
    BY <2>1, <2>2 DEF Phase
  <2> QED BY <2>1, <2>2, <2>4, <2>5 DEF Sale!Offer
<1>2. ASSUME NEW r \in Requests, NEW p \in Payloads, Acquire(r, p) PROVE Sale!Hold(ChallengeOf[p], p)
  <2> DEFINE c == ChallengeOf[p]
  <2>1. payloadHash[c] = NoPayload /\ c \in rows /\ c \in Challenges
    BY <1>2, AcquiredIsFree, PrecheckedIsIssued DEF Acquire, IInv
  <2>2. payloadHash' = [payloadHash EXCEPT ![c] = p] /\ UNCHANGED <<rows, ordered, chain>>
        /\ \A s \in Requests : ~Unlock(s)
    BY <1>2 DEF Acquire, Await, Unlock, Respond, IInv, CoreInv, TypeOK
  <2>3. OrderedChallenges' = OrderedChallenges /\ SaleServed' = SaleServed
    BY <2>2, OrderedStable, ServedStable
  <2>4. c \notin OrderedChallenges
    BY <2>1 DEF OrderedChallenges, IInv, CoreInv, OrderInv, OrderedKeepsClaim
  <2>5. Phase(c) = "open" /\ Phase(c)' = "held"
    BY <2>1, <2>2, <2>3, <2>4 DEF Phase, IInv, CoreInv, TypeOK
  <2>6. \A d \in Challenges \ {c} : Phase(d)' = Phase(d)
    BY <2>2, <2>3 DEF Phase, IInv, CoreInv, TypeOK
  <2> QED BY <2>1, <2>2, <2>3, <2>5, <2>6 DEF Sale!Hold
<1>3. ASSUME NEW r \in Requests, VerifyFails(r) PROVE \E c \in Challenges : Sale!Drop(c)
  <2> PICK c \in Challenges : c = ReqChallenge(r)
    BY <1>3, <1>0
  <2>1. pc[r] = "verify" /\ payloadHash[c] = sig[r] /\ sig[r] \in Payloads /\ c \in Challenges /\ c \in rows
    BY <1>3 DEF VerifyFails, IInv, CoreInv, TypeOK, HandlerInv, TableInv, Working, ReqChallenge
  <2>2. payloadHash' = [payloadHash EXCEPT ![c] = NoPayload] /\ UNCHANGED <<rows, ordered, chain>>
        /\ \A s \in Requests : ~Unlock(s)
    BY <1>3, <2>1 DEF VerifyFails, Release, Respond, Unlock, IInv, CoreInv, TypeOK, HandlerInv, Working
  <2>3. OrderedChallenges' = OrderedChallenges /\ SaleServed' = SaleServed
    BY <2>2, OrderedStable, ServedStable
  <2>4. c \notin OrderedChallenges
    BY <2>1 DEF OrderedChallenges, IInv, CoreInv, HandlerInv
  <2>5. Phase(c) = "held" /\ Phase(c)' = "open"
    BY <2>1, <2>2, <2>4 DEF Phase, IInv, CoreInv, TypeOK
  <2>6. \A d \in Challenges \ {c} : Phase(d)' = Phase(d)
    BY <2>2, <2>3 DEF Phase, IInv, CoreInv, TypeOK
  <2> QED BY <2>1, <2>2, <2>3, <2>5, <2>6 DEF Sale!Drop
<1>4. ASSUME NEW r \in Requests, VerifyAccepts(r) PROVE \E c \in Challenges : Sale!Order(c)
  <2> PICK c \in Challenges : c = ReqChallenge(r)
    BY <1>4, <1>0
  <2>1. pc[r] = "verify" /\ payloadHash[c] = sig[r] /\ sig[r] \in Payloads /\ c \in Challenges /\ c \in rows
    BY <1>4 DEF VerifyAccepts, IInv, CoreInv, TypeOK, HandlerInv, TableInv, Working, ReqChallenge
  <2>2. UNCHANGED <<rows, payloadHash, chain, sig>> /\ ordered' = ordered \cup {r}
        /\ \A s \in Requests : ~Unlock(s)
    BY <1>4 DEF VerifyAccepts, Await, storeVars, Unlock, Respond, IInv, CoreInv, TypeOK
  <2>3. OrderedChallenges' = OrderedChallenges \cup {c} /\ SaleServed' = SaleServed
    BY <2>2, ServedStable DEF OrderedChallenges, ReqChallenge
  <2>4. c \notin OrderedChallenges
    BY <2>1 DEF OrderedChallenges, IInv, CoreInv, HandlerInv
  <2>5. Phase(c) = "held" /\ Phase(c)' = "ordered"
    BY <2>1, <2>2, <2>3, <2>4 DEF Phase, IInv, CoreInv, TypeOK
  <2>6. \A d \in Challenges \ {c} : Phase(d)' = Phase(d)
    BY <2>2, <2>3 DEF Phase
  <2> QED BY <2>1, <2>2, <2>3, <2>5, <2>6 DEF Sale!Order
<1>5. ASSUME NEW r \in Requests, Confirm(r) PROVE \E c \in Challenges : Sale!Pay(c)
  <2> PICK c \in Challenges : c = ReqChallenge(r)
    BY <1>5, <1>0
  <2>1. r \in ordered /\ sig[r] \notin chain /\ chain' = chain \cup {sig[r]}
        /\ UNCHANGED <<rows, payloadHash, ordered, sig, answer>>
    BY <1>5 DEF Confirm, storeVars, requestVars
  <2>2. payloadHash[c] = sig[r] /\ sig[r] \in Payloads /\ c \in Challenges /\ c \in rows
    BY <2>1 DEF IInv, CoreInv, TypeOK, OrderInv, TableInv, OrderedKeepsClaim, ReqChallenge
  <2>3. OrderedChallenges' = OrderedChallenges /\ SaleServed' = SaleServed /\ c \in OrderedChallenges
    BY <2>1, OrderedStable DEF OrderedChallenges
  <2>4. Phase(c) = "ordered" /\ \A d \in Challenges : Phase(d)' = Phase(d)
    BY <2>1, <2>2, <2>3 DEF Phase
  <2> QED BY <2>1, <2>2, <2>3, <2>4 DEF Sale!Pay
<1>6. ASSUME NEW r \in Requests, Unlock(r) PROVE \E c \in Challenges : Sale!Serve(c)
  <2> PICK c \in Challenges : c = ReqChallenge(r)
    BY <1>6, <1>0
  <2>1. pc[r] = "ledger" /\ answer' = [answer EXCEPT ![r] = "PAID_AND_UNLOCKED"]
        /\ UNCHANGED <<rows, payloadHash, ordered, sig, chain>>
    BY <1>6 DEF Unlock, Respond, storeVars
  <2>2. sig[r] \in Payloads /\ c \in Challenges /\ payloadHash[c] = sig[r] /\ sig[r] \in chain /\ c \in rows
    BY <2>1 DEF IInv, CoreInv, TypeOK, HandlerInv, TableInv, ReqChallenge
  <2>3. OrderedChallenges' = OrderedChallenges
    BY <2>1, OrderedStable
  <2>4. c \in OrderedChallenges
    BY <2>2 DEF OrderedChallenges, IInv, OnlyOrdered, ReqChallenge
  <2>5. SaleServed' = SaleServed \cup {sig[r]}
    BY <2>1 DEF IInv, CoreInv, TypeOK
  <2>6. Phase(c) = "ordered" /\ \A d \in Challenges : Phase(d)' = Phase(d)
    BY <2>1, <2>2, <2>3, <2>4 DEF Phase
  <2> QED BY <2>1, <2>2, <2>5, <2>6 DEF Sale!Serve
<1>7. CASE \/ \E r \in Requests : RefuseMalformed(r) \/ SettleAnswer(r) \/ LedgerFails(r)
           \/ \E r \in Requests, p \in Payloads : RefuseUnclaimed(r, p) \/ RefuseClaimed(r, p) \/ ReplaySettled(r, p)
           \/ \E r \in Requests, c \in Challenges : Poll(r, c)
           \/ Tick \/ Crash \/ UNCHANGED vars
  <2>1. UNCHANGED <<rows, payloadHash, chain, ordered>>
    BY <1>7 DEF RefuseMalformed, SettleAnswer, SettleFails, SettleReturns, Settle, LedgerFails, RefuseUnclaimed,
         RefuseClaimed, ReplaySettled, Poll, Tick, Crash, vars, storeVars
  <2>2. CASE \E r \in Requests : Unlock(r)
    BY <1>6, <2>2 DEF Sale!Next
  <2>3. CASE \A r \in Requests : ~Unlock(r)
    BY <2>1, <2>3, OrderedStable, ServedStable, HiddenStep
  <2> QED BY <2>2, <2>3
<1>8. CASE \E r \in Requests, p \in Payloads : Submit(r, p)
  <2>1. CASE \E r \in Requests, p \in Payloads : Acquire(r, p)
    BY <1>2, <2>1 DEF Sale!Next
  <2>2. CASE ~ \E r \in Requests, p \in Payloads : Acquire(r, p)
    BY <1>7, <1>8, <2>2 DEF Submit
  <2> QED BY <2>1, <2>2
<1>9. CASE \E r \in Requests : VerifyAnswer(r)
  BY <1>3, <1>4, <1>9 DEF VerifyAnswer, Sale!Next
<1>10. CASE \E r \in Requests : Confirm(r)
  BY <1>5, <1>10 DEF Sale!Next
<1>11. CASE \E r \in Requests : LedgerAnswer(r)
  <2> PICK r \in Requests : LedgerAnswer(r)
    BY <1>11
  <2>1. CASE Unlock(r)
    BY <1>6, <2>1 DEF Sale!Next
  <2>2. CASE LedgerFails(r)
    BY <1>7, <2>2
  <2> QED BY <2>1, <2>2 DEF LedgerAnswer
<1>12. CASE \E c \in Challenges : Issue(c)
  BY <1>1, <1>12 DEF Sale!Next
<1> QED
  BY <1>7, <1>8, <1>9, <1>10, <1>11, <1>12 DEF Next

\* The server implements the one-time sale: every behaviour of the handlers, seen
\* through the table, the orders and the responses, is a behaviour of OneTimeSale.
THEOREM Refinement == Spec => ImplementsOneTimeSale
<1>1. Init => Sale!Init
  BY DEF Init, Sale!Init, Phase
<1>2. IInv /\ IInv' /\ [Next]_vars => [Sale!Next]_(Sale!saleVars)
  BY SaleStep
<1> QED BY <1>1, <1>2, Invariance, PTL DEF Spec, Sale!Spec, ImplementsOneTimeSale
=============================================================================
