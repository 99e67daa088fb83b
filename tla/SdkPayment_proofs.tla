------------------------- MODULE SdkPayment_proofs -------------------------
(***************************************************************************)
(* For any number of calls, attempts and reconcilers, and any merchant and *)
(* facilitator: an attempt is submitted at most once, and never before the *)
(* table says so.                                                          *)
(***************************************************************************)
EXTENDS SdkPayment, TLAPS

Preparing == {"authorize", "build", "signed", "verify"}

\* Where the calls of an attempt are says how far its row is.
CallInv ==
    /\ \A c \in Calls : call[c] \in Preparing =>
            attempt[KeyOf[c]].state \in Before \ {"none"}
    /\ \A c \in Calls : call[c] \in {"paid", "settle"} => c \in sent
    /\ \A c \in sent : call[c] \in {"paid", "settle", "done"}

\* reconcile() only writes rows that are past SIGNED.
AskingInv ==
    \A q \in Reconcilers : asking[q] # NoKey => attempt[asking[q]].state \notin Before

IInv ==
    /\ TypeOK
    /\ CallInv
    /\ AskingInv
    /\ OneCallPerAttempt
    /\ EvidenceBeforeSubmission
    /\ OneSubmissionPerAttempt

\* An empty table with no call running satisfies the invariant.
LEMMA InitEstablishes == Init => IInv
BY SdkAssumption
   DEF Init, IInv, TypeOK, CallInv, AskingInv, OneCallPerAttempt, EvidenceBeforeSubmission,
       OneSubmissionPerAttempt, Row, States, Reasons, Receipts, Before, Ambiguous, Awaits,
       Preparing

-----------------------------------------------------------------------------
(* The shapes a step can have. *)

\* A call that ends without storing anything.
LEMMA ThrowPreserves ==
    ASSUME IInv, NEW c \in Calls, Throw(c)
    PROVE  IInv'
BY SdkAssumption
   DEF Throw, Goto, IInv, TypeOK, CallInv, AskingInv, OneCallPerAttempt,
       EvidenceBeforeSubmission, OneSubmissionPerAttempt, Awaits, Preparing

\* A call that stores its attempt's last state and ends.
LEMMA FinishPreserves ==
    ASSUME IInv, NEW c \in Calls, call[c] \in Awaits,
           NEW row \in [state : States, reason : Reasons, receipt : Receipts],
           row.state \notin Before,
           Finish(c, row)
    PROVE  IInv'
<1>1. TypeOK'
  BY SdkAssumption DEF Finish, PutAttempt, Goto, IInv, TypeOK
<1>2. CallInv'
  BY SdkAssumption
     DEF Finish, PutAttempt, Goto, IInv, TypeOK, CallInv, OneCallPerAttempt, Awaits, Preparing
<1>3. AskingInv'
  BY SdkAssumption DEF Finish, PutAttempt, IInv, TypeOK, AskingInv
<1>4. OneCallPerAttempt'
  BY SdkAssumption DEF Finish, Goto, IInv, TypeOK, OneCallPerAttempt, Awaits
<1>5. EvidenceBeforeSubmission' /\ OneSubmissionPerAttempt'
  BY SdkAssumption
     DEF Finish, PutAttempt, IInv, TypeOK, EvidenceBeforeSubmission, OneSubmissionPerAttempt
<1>. QED
  BY <1>1, <1>2, <1>3, <1>4, <1>5 DEF IInv

\* A call that goes on preparing, with or without a new state before submission.
LEMMA PreparingPreserves ==
    ASSUME IInv, NEW c \in Calls, call[c] \in Preparing,
           NEW row \in [state : States, reason : Reasons, receipt : Receipts],
           row.state \in Before \ {"none"},
           NEW point \in Preparing,
           attempt' = [attempt EXCEPT ![KeyOf[c]] = row],
           Goto(c, point),
           UNCHANGED <<sent, asking>>
    PROVE  IInv'
<1>. DEFINE k == KeyOf[c]
<1>1. k \in Keys /\ attempt[k].state \in Before
  BY SdkAssumption DEF IInv, CallInv
<1>2. TypeOK'
  BY <1>1 DEF Goto, IInv, TypeOK, Preparing, Awaits
<1>3. CallInv'
  BY <1>1, SdkAssumption
     DEF Goto, IInv, TypeOK, CallInv, Preparing, Awaits, OneCallPerAttempt
<1>4. AskingInv'
  BY <1>1 DEF IInv, TypeOK, AskingInv
<1>5. OneCallPerAttempt'
  BY DEF Goto, IInv, TypeOK, OneCallPerAttempt, Preparing, Awaits
<1>6. EvidenceBeforeSubmission' /\ OneSubmissionPerAttempt'
  BY <1>1, SdkAssumption
     DEF IInv, TypeOK, EvidenceBeforeSubmission, OneSubmissionPerAttempt
<1>. QED
  BY <1>2, <1>3, <1>4, <1>5, <1>6 DEF IInv

\* A call that submits its payment.
LEMMA SubmitPreserves ==
    ASSUME IInv, NEW c \in Calls, call[c] \in Preparing,
           PutAttempt(c, Row("SUBMITTED", "none", "none")),
           sent' = sent \cup {c},
           NEW point \in {"paid", "settle"},
           Goto(c, point),
           UNCHANGED asking
    PROVE  IInv'
<1>. DEFINE k == KeyOf[c]
            row == Row("SUBMITTED", "none", "none")
<1>1. k \in Keys /\ attempt[k].state \in Before
  BY SdkAssumption DEF IInv, CallInv
<1>2. /\ row \in [state : States, reason : Reasons, receipt : Receipts]
      /\ row.state \notin Before
  BY DEF Row, States, Reasons, Receipts, Before, Ambiguous
<1>3. attempt' = [attempt EXCEPT ![k] = row]
  BY DEF PutAttempt
<1>4. \A d \in sent : KeyOf[d] # k
  BY <1>1, SdkAssumption DEF IInv, EvidenceBeforeSubmission
<1>. HIDE DEF row
<1>5. TypeOK'
  BY <1>1, <1>2, <1>3 DEF Goto, IInv, TypeOK, Awaits
<1>6. CallInv'
  BY <1>1, <1>2, <1>3, SdkAssumption
     DEF Goto, IInv, TypeOK, CallInv, Preparing, Awaits, OneCallPerAttempt
<1>7. AskingInv'
  BY <1>1, <1>2, <1>3 DEF IInv, TypeOK, AskingInv
<1>8. OneCallPerAttempt'
  BY DEF Goto, IInv, TypeOK, OneCallPerAttempt, Preparing, Awaits
<1>9. EvidenceBeforeSubmission'
  BY <1>1, <1>2, <1>3, SdkAssumption DEF IInv, TypeOK, EvidenceBeforeSubmission
<1>10. OneSubmissionPerAttempt'
  BY <1>4 DEF IInv, OneSubmissionPerAttempt
<1>. QED
  BY <1>5, <1>6, <1>7, <1>8, <1>9, <1>10 DEF IInv

-----------------------------------------------------------------------------
(* Every action has one of these shapes, or is reconcile's or a crash. *)

\* The row of a failed attempt is a row, and past submission.
LEMMA BlockedRow ==
    \A reason \in Reasons :
        /\ Row("BLOCKED", reason, "none") \in
                [state : States, reason : Reasons, receipt : Receipts]
        /\ Row("BLOCKED", reason, "none").state \notin Before
BY DEF Row, States, Reasons, Receipts, Before, Ambiguous

\* failAttempt ends the call with such a row.
LEMMA FailPreserves ==
    ASSUME IInv, NEW c \in Calls, call[c] \in Awaits, NEW reason \in Reasons,
           FailAttempt(c, reason)
    PROVE  IInv'
BY BlockedRow, FinishPreserves DEF FailAttempt

\* An attempt stored as UNKNOWN is past submission too.
LEMMA UnknownPreserves ==
    ASSUME IInv, NEW c \in Calls, call[c] \in Awaits, UnknownAttempt(c)
    PROVE  IInv'
<1>1. LET row == Row("UNKNOWN", "SETTLEMENT_UNKNOWN", "none") IN
        /\ row \in [state : States, reason : Reasons, receipt : Receipts]
        /\ row.state \notin Before
  BY DEF Row, States, Reasons, Receipts, Before, Ambiguous
<1>. QED
  BY <1>1, FinishPreserves DEF UnknownAttempt

\* reserveAttempt starts the only call of its attempt.
LEMMA ReservePreserves ==
    ASSUME IInv, NEW c \in Calls, ReserveAttempt(c)
    PROVE  IInv'
<1>. DEFINE k == KeyOf[c]
            row == Row("CREATED", "none", "none")
<1>1. k \in Keys /\ attempt[k].state = "none" /\ call[c] = "idle"
  BY SdkAssumption DEF ReserveAttempt
<1>2. /\ row \in [state : States, reason : Reasons, receipt : Receipts]
      /\ row.state \in Before \ {"none"}
  BY DEF Row, States, Reasons, Receipts, Before
<1>3. attempt' = [attempt EXCEPT ![k] = row]
  BY DEF ReserveAttempt, PutAttempt
<1>4. \A d \in Calls : KeyOf[d] = k => call[d] \notin Awaits
  <2> SUFFICES ASSUME NEW d \in Calls, KeyOf[d] = k, call[d] \in Awaits
               PROVE  FALSE
    OBVIOUS
  <2>1. CASE call[d] \in Preparing
    BY <1>1, <2>1 DEF IInv, CallInv
  <2>2. CASE call[d] \in {"paid", "settle"}
    BY <1>1, <2>2 DEF IInv, CallInv, EvidenceBeforeSubmission, Before
  <2>. QED
    BY <2>1, <2>2 DEF Awaits, Preparing
<1>5. \A d \in sent : KeyOf[d] # k
  BY <1>1 DEF IInv, EvidenceBeforeSubmission, Before
<1>6. \A q \in Reconcilers : asking[q] # k
  BY <1>1, SdkAssumption DEF IInv, AskingInv, Before
<1>. HIDE DEF row
<1>7. UNCHANGED <<sent, asking>> /\ call' = [call EXCEPT ![c] = "authorize"]
  BY DEF ReserveAttempt, Goto
<1>8. TypeOK'
  BY <1>1, <1>2, <1>3, <1>7 DEF IInv, TypeOK, Awaits
<1>9. CallInv'
  BY <1>1, <1>2, <1>3, <1>4, <1>5, <1>7, SdkAssumption
     DEF IInv, TypeOK, CallInv, Preparing, Awaits
<1>10. AskingInv'
  BY <1>3, <1>6, <1>7 DEF IInv, TypeOK, AskingInv
<1>11. OneCallPerAttempt'
  BY <1>4, <1>7 DEF IInv, TypeOK, OneCallPerAttempt
<1>12. EvidenceBeforeSubmission' /\ OneSubmissionPerAttempt'
  BY <1>3, <1>5, <1>7, SdkAssumption
     DEF IInv, TypeOK, EvidenceBeforeSubmission, OneSubmissionPerAttempt
<1>. QED
  BY <1>8, <1>9, <1>10, <1>11, <1>12 DEF IInv

\* Nothing before the submission sends anything.
LEMMA PreparePreserves ==
    ASSUME IInv, NEW c \in Calls, Prepare(c)
    PROVE  IInv'
<1>1. CASE NothingToPay(c)
  BY <1>1, ThrowPreserves DEF NothingToPay
<1>2. CASE RefuseDuplicate(c)
  BY <1>2, ThrowPreserves DEF RefuseDuplicate
<1>3. CASE ReserveAttempt(c)
  BY <1>3, ReservePreserves
<1>4. CASE AuthorizeThrows(c)
  BY <1>4, ThrowPreserves DEF AuthorizeThrows
<1>5. CASE Deny(c)
  BY <1>5, FailPreserves DEF Deny, Reasons, Awaits
<1>6. CASE Validate(c)
  <2>1. LET row == Row("VALIDATED", "none", "none") IN
          /\ row \in [state : States, reason : Reasons, receipt : Receipts]
          /\ row.state \in Before \ {"none"}
    BY DEF Row, States, Reasons, Receipts, Before
  <2>. QED
    BY <1>6, <2>1, PreparingPreserves DEF Validate, PutAttempt, Preparing
<1>7. CASE BuildFails(c)
  BY <1>7, FailPreserves DEF BuildFails, Reasons, Awaits
<1>8. CASE Sign(c)
  <2>1. LET row == Row("SIGNED", "none", "none") IN
          /\ row \in [state : States, reason : Reasons, receipt : Receipts]
          /\ row.state \in Before \ {"none"}
    BY DEF Row, States, Reasons, Receipts, Before
  <2>. QED
    BY <1>8, <2>1, PreparingPreserves DEF Sign, PutAttempt, Preparing
<1>9. CASE Send(c)
  BY <1>9, SubmitPreserves DEF Send, Preparing
<1>10. CASE AskVerify(c)
  <2>1. attempt[KeyOf[c]] \in [state : States, reason : Reasons, receipt : Receipts]
    BY SdkAssumption DEF IInv, TypeOK
  <2>2. attempt[KeyOf[c]].state \in Before \ {"none"}
    BY <1>10 DEF AskVerify, IInv, CallInv, Preparing
  <2>3. attempt' = [attempt EXCEPT ![KeyOf[c]] = attempt[KeyOf[c]]]
    BY <1>10 DEF AskVerify, IInv, TypeOK
  <2>. QED
    BY <1>10, <2>1, <2>2, <2>3, PreparingPreserves DEF AskVerify, Preparing
<1>11. CASE VerifyThrows(c)
  BY <1>11, ThrowPreserves DEF VerifyThrows
<1>12. CASE VerifyRejects(c)
  BY <1>12, FailPreserves DEF VerifyRejects, Reasons, Awaits
<1>13. CASE SubmitDirect(c)
  BY <1>13, SubmitPreserves DEF SubmitDirect, Preparing
<1>. QED
  BY <1>1, <1>2, <1>3, <1>4, <1>5, <1>6, <1>7, <1>8, <1>9, <1>10, <1>11, <1>12, <1>13
     DEF Prepare

\* A call whose payment has left only ever ends.
LEMMA AnsweredPreserves ==
    ASSUME IInv, NEW c \in Calls, Answered(c)
    PROVE  IInv'
<1>1. CASE PaidThrows(c)
  BY <1>1, UnknownPreserves DEF PaidThrows, Awaits
<1>2. CASE PaidUnreadable(c)
  BY <1>2, ThrowPreserves DEF PaidUnreadable
<1>3. CASE PaidMismatch(c)
  BY <1>3, FailPreserves DEF PaidMismatch, Reasons, Awaits
<1>4. ASSUME NEW error \in PaidErrors, PaidRefused(c, error)
      PROVE  IInv'
  <2>1. call[c] \in Awaits
    BY <1>4 DEF PaidRefused, Awaits
  <2>2. CASE error = "FACILITATOR_REJECTED"
    BY <1>4, <2>1, <2>2, FailPreserves DEF PaidRefused, Reasons
  <2>3. CASE error = "SETTLEMENT_FAILED"
    BY <1>4, <2>1, <2>3, UnknownPreserves DEF PaidRefused
  <2>4. CASE error = "other"
    BY <1>4, <2>1, <2>4, FailPreserves DEF PaidRefused, Reasons
  <2>. QED
    BY <2>2, <2>3, <2>4 DEF PaidErrors
<1>5. ASSUME NEW ok \in BOOLEAN, PaidReceipt(c, ok)
      PROVE  IInv'
  <2>1. LET row == IF ok THEN Row("UNLOCKED", "none", "matching")
                         ELSE Row("SETTLED", "RESOURCE_UNLOCK_FAILED", "matching") IN
          /\ row \in [state : States, reason : Reasons, receipt : Receipts]
          /\ row.state \notin Before
    BY DEF Row, States, Reasons, Receipts, Before, Ambiguous
  <2>. QED
    BY <1>5, <2>1, FinishPreserves DEF PaidReceipt, Awaits
<1>6. CASE SettleReturns(c)
  <2>1. LET row == Row("SETTLED", "none", "matching") IN
          /\ row \in [state : States, reason : Reasons, receipt : Receipts]
          /\ row.state \notin Before
    BY DEF Row, States, Reasons, Receipts, Before, Ambiguous
  <2>. QED
    BY <1>6, <2>1, FinishPreserves DEF SettleReturns, Awaits
<1>7. CASE SettleThrows(c)
  BY <1>7, UnknownPreserves DEF SettleThrows, Awaits
<1>. QED
  BY <1>1, <1>2, <1>3, <1>4, <1>5, <1>6, <1>7 DEF Answered

\* reconcile() rewrites rows that are past SIGNED, and sends nothing.
LEMMA ReconcilePreserves ==
    ASSUME IInv, NEW q \in Reconcilers
    PROVE  /\ \A k \in Keys : AskStatus(q, k) => IInv'
           /\ \A r \in {"matching", "other"} : StatusSettled(q, r) => IInv'
           /\ StatusOpen(q) => IInv'
<1>1. ASSUME NEW k \in Keys, AskStatus(q, k)
      PROVE  IInv'
  BY <1>1
     DEF AskStatus, IInv, TypeOK, CallInv, AskingInv, OneCallPerAttempt,
         EvidenceBeforeSubmission, OneSubmissionPerAttempt, Before, Ambiguous
<1>2. ASSUME NEW r \in {"matching", "other"}, StatusSettled(q, r)
      PROVE  IInv'
  <2>. DEFINE k == asking[q]
              row == Row("SETTLED", "none", r)
  <2>1. k \in Keys /\ attempt[k].state \notin Before
    BY <1>2 DEF StatusSettled, IInv, TypeOK, AskingInv
  <2>2. /\ row \in [state : States, reason : Reasons, receipt : Receipts]
        /\ row.state \notin Before
    BY DEF Row, States, Reasons, Receipts, Before, Ambiguous
  <2>3. /\ attempt' = [attempt EXCEPT ![k] = row]
        /\ asking' = [asking EXCEPT ![q] = NoKey]
        /\ UNCHANGED <<call, sent>>
    BY <1>2 DEF StatusSettled
  <2>. HIDE DEF k, row
  <2>4. TypeOK'
    BY <2>1, <2>2, <2>3 DEF IInv, TypeOK
  <2>5. CallInv'
    BY <2>1, <2>2, <2>3, SdkAssumption DEF IInv, TypeOK, CallInv
  <2>6. AskingInv'
    BY <2>1, <2>2, <2>3 DEF IInv, TypeOK, AskingInv
  <2>7. OneCallPerAttempt' /\ OneSubmissionPerAttempt'
    BY <2>3 DEF IInv, OneCallPerAttempt, OneSubmissionPerAttempt
  <2>8. EvidenceBeforeSubmission'
    BY <2>2, <2>3, SdkAssumption DEF IInv, TypeOK, EvidenceBeforeSubmission
  <2>. QED
    BY <2>4, <2>5, <2>6, <2>7, <2>8 DEF IInv
<1>3. ASSUME StatusOpen(q)
      PROVE  IInv'
  BY <1>3
     DEF StatusOpen, IInv, TypeOK, CallInv, AskingInv, OneCallPerAttempt,
         EvidenceBeforeSubmission, OneSubmissionPerAttempt
<1>. QED
  BY <1>1, <1>2, <1>3

\* A crash ends the calls and keeps the table.
LEMMA CrashPreserves == IInv /\ Crash => IInv'
BY SdkAssumption
   DEF Crash, IInv, TypeOK, CallInv, AskingInv, OneCallPerAttempt,
       EvidenceBeforeSubmission, OneSubmissionPerAttempt, Awaits, Preparing

\* The invariant is inductive.
LEMMA StepPreserves == IInv /\ [Next]_sdkVars => IInv'
<1> SUFFICES ASSUME IInv, [Next]_sdkVars
             PROVE  IInv'
  OBVIOUS
<1>1. CASE UNCHANGED sdkVars
  BY <1>1
     DEF sdkVars, IInv, TypeOK, CallInv, AskingInv, OneCallPerAttempt,
         EvidenceBeforeSubmission, OneSubmissionPerAttempt
<1>2. CASE Next
  BY <1>2, PreparePreserves, AnsweredPreserves, ReconcilePreserves, CrashPreserves DEF Next
<1>. QED
  BY <1>1, <1>2

-----------------------------------------------------------------------------

\* Every reachable state satisfies the inductive invariant.
THEOREM Invariance == Spec => []IInv
BY InitEstablishes, StepPreserves, PTL DEF Spec

\* Every variable of the SDK stays in its range.
THEOREM TypeCorrect == Spec => []TypeOK
BY Invariance, PTL DEF IInv

\* fetch and pay together submit an attempt at most once, for any merchant and any
\* number of concurrent calls and crashes.
THEOREM SubmittedOnce == Spec => []OneSubmissionPerAttempt
BY Invariance, PTL DEF IInv

\* The table is never behind a payment that has left the process.
THEOREM EvidenceFirst == Spec => []EvidenceBeforeSubmission
BY Invariance, PTL DEF IInv

\* Two calls never work on the same attempt at the same time.
THEOREM ExclusiveCall == Spec => []OneCallPerAttempt
BY Invariance, PTL DEF IInv
=============================================================================
