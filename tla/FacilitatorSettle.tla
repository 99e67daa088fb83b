------------------------- MODULE FacilitatorSettle -------------------------
(***************************************************************************)
(* One call of settle() in the facilitator plugin: verify again, submit    *)
(* through the channel service or the relayer, wait for the transaction,   *)
(* all within a time budget derived from the payment's maxTimeoutSeconds.  *)
(*                                                                         *)
(* Time is counted in quarters of a second, the unit of the shortest delay *)
(* in the code.  Every await is either a remote call, which takes at most  *)
(* Latency and may fail, or a timer, which fires when due.  No call has a  *)
(* timeout of its own.  verify() is a sequence of such calls: what it      *)
(* reads is in FacilitatorVerify, only their number and time count here.   *)
(* The submitted transaction is decided by the ledger at any time, or      *)
(* never.                                                                  *)
(*                                                                         *)
(* Its names are none of FacilitatorVerify's: the two are one facilitator, *)
(* and Facilitator_proofs extends both.                                    *)
(***************************************************************************)
EXTENDS Integers

CONSTANTS
    TimeoutSeconds,     \* paymentRequirements.maxTimeoutSeconds
    Latency,            \* longest time a remote call takes, in quarter seconds
    VerifyReads,        \* most reads one verification makes, one after the other
    Paths               \* ways of submitting that are configured

ASSUME SettleAssumption ==
    /\ TimeoutSeconds \in Nat \ {0}
    /\ Latency \in Nat
    /\ VerifyReads \in Nat /\ VerifyReads >= 3
    /\ Paths \subseteq {"channel", "relayer"}

Least(a, b) == IF a <= b THEN a ELSE b
Greatest(a, b) == IF a <= b THEN b ELSE a

Second == 4
Timeout == TimeoutSeconds * Second

\* timeoutMs - bufferMs, with bufferMs = min(BUFFER_MS, timeoutMs / 2).
Deadline == Timeout - Least(2 * Second, Timeout \div 2)

\* getRelayer, getLatestLedger and the simulation; without a profile no others.
LeastReads == 3
VerifyRetryDelays == <<1, 3>>               \* 250 ms, 750 ms
MaxSubmitRetries == 3
Backoff(n) == Second * <<1, 2, 4, 8>>[n + 1]    \* 2 ^ n seconds, n <= MaxSubmitRetries
ChannelPollInterval == Second
RelayerPollInterval == 2                    \* 500 ms

VARIABLES
    now,        \* time since settle() was called
    path,       \* "channel" or "relayer"
    at,         \* the await settle() is suspended in, or "start", "replied"
    due,        \* when that call returns or that timer fires
    tries,      \* verification retries done
    reads,      \* reads begun by the verification under way, 0 without one
    attempt,    \* submission retries done
    submitted,  \* the transaction: "none", "pending", "confirmed" or "failed" on the ledger
    seen,       \* what a status request in flight may still report
    reply,      \* "none", "success", "error" (a SettleResponse) or "thrown"
    accepted,   \* transactions the submission service has accepted
    inTime,     \* it was confirmed early enough for a poll to see it
    unclear     \* a status request failed, or its answer lacked status or hash

settleVars == <<now, path, at, due, tries, reads, attempt, submitted, seen, reply,
                accepted, inTime, unclear>>

Calls == {"info", "verify", "submit", "poll"}
Timers == {"verifyTimer", "submitTimer", "pollTimer"}
TxStates == {"none", "pending", "confirmed", "failed"}

SettleTypeOK ==
    /\ now \in Nat
    /\ path \in {"channel", "relayer"}
    /\ at \in {"start", "replied"} \cup Calls \cup Timers
    /\ due \in Nat
    /\ tries \in 0 .. 2
    /\ reads \in 0 .. VerifyReads
    /\ attempt \in 0 .. MaxSubmitRetries
    /\ submitted \in TxStates
    /\ seen \in TxStates
    /\ reply \in {"none", "success", "error", "thrown"}
    /\ accepted \in Nat
    /\ inTime \in BOOLEAN
    /\ unclear \in BOOLEAN

SettleInit ==
    /\ now = 0
    /\ path \in Paths
    /\ at = "start"
    /\ due = 0
    /\ tries = 0
    /\ reads = 0
    /\ attempt = 0
    /\ submitted = "none"
    /\ seen = "none"
    /\ reply = "none"
    /\ accepted = 0
    /\ inTime = FALSE
    /\ unclear = FALSE

-----------------------------------------------------------------------------
(* Suspending and replying. *)

Remaining == Deadline - now

PollInterval == IF path = "relayer" THEN RelayerPollInterval ELSE ChannelPollInterval

\* A transaction confirmed now is still there for one more poll.
InTimeNow == now + Latency + PollInterval < Deadline

Call(name) ==
    /\ at' = name
    /\ due' \in now .. now + Latency
    /\ seen' = submitted
    /\ UNCHANGED reply

Sleep(name, delay) ==
    /\ at' = name
    /\ due' = now + delay
    /\ UNCHANGED <<seen, reply>>

Reply(r) ==
    /\ at' = "replied"
    /\ reply' = r
    /\ UNCHANGED <<due, seen>>

Resumed(name) == at = name /\ due = now

NoSubmission == UNCHANGED <<attempt, submitted, accepted, inTime, unclear>>

\* The submission service takes the transaction.
Accept ==
    /\ submitted' = "pending"
    /\ accepted' = accepted + 1

-----------------------------------------------------------------------------
(* Checks and verification. *)

\* Malformed payload or a network mismatch: an error at once.  Otherwise the relayer
\* is asked for its network.
Start ==
    /\ at = "start"
    /\ Call("info") \/ Reply("error")
    /\ UNCHANGED <<now, path, tries, reads>>
    /\ NoSubmission

\* getRelayer is outside the try block: its failure leaves settle() as an exception.
RelayerInfo ==
    /\ Resumed("info")
    /\ \/ Call("verify") /\ reads' = 1
       \/ (Reply("error") \/ Reply("thrown")) /\ UNCHANGED reads
    /\ UNCHANGED <<now, path, tries>>
    /\ NoSubmission

\* verify() makes its next read: relayer, code hashes of each candidate profile, latest
\* ledger, simulation, code hashes of the profile, rule.
VerifyReadsOn ==
    /\ Resumed("verify")
    /\ reads < VerifyReads
    /\ Call("verify")
    /\ reads' = reads + 1
    /\ UNCHANGED <<now, path, tries>>
    /\ NoSubmission

VerifyValid ==
    /\ Resumed("verify")
    /\ reads >= LeastReads
    /\ Call("submit")
    /\ reads' = 0
    /\ UNCHANGED <<now, path, tries>>
    /\ NoSubmission

\* Definitely invalid, or not parseable as the one operation that can be submitted.
VerifyInvalid ==
    /\ Resumed("verify")
    /\ Reply("error")
    /\ reads' = 0
    /\ UNCHANGED <<now, path, tries>>
    /\ NoSubmission

\* Fault: the retry is bounded by the deadline alone and not paced.
VerifyTransientUnpaced ==
    /\ Resumed("verify")
    /\ IF now >= Deadline THEN Reply("error") ELSE Sleep("verifyTimer", 0)
    /\ reads' = 0
    /\ UNCHANGED <<now, path, tries>>
    /\ NoSubmission

\* invalidReason unexpected_verify_error: retried twice, if the delay ends in time.
VerifyTransient ==
    /\ Resumed("verify")
    /\ IF tries = 2 \/ now + VerifyRetryDelays[tries + 1] >= Deadline
         THEN Reply("error") /\ UNCHANGED tries
         ELSE Sleep("verifyTimer", VerifyRetryDelays[tries + 1]) /\ tries' = tries + 1
    /\ reads' = 0
    /\ UNCHANGED <<now, path>>
    /\ NoSubmission

VerifyAgain ==
    /\ Resumed("verifyTimer")
    /\ Call("verify")
    /\ reads' = 1
    /\ UNCHANGED <<now, path, tries>>
    /\ NoSubmission

-----------------------------------------------------------------------------
(* Submission. *)

\* Fault: any failed submission is retried.
SubmitFailsRetrying ==
    /\ Resumed("submit")
    /\ (Accept \/ UNCHANGED <<submitted, accepted>>)
    /\ IF attempt = MaxSubmitRetries \/ Remaining <= Backoff(attempt)
         THEN Reply("error") /\ UNCHANGED attempt
         ELSE Sleep("submitTimer", Backoff(attempt)) /\ attempt' = attempt + 1
    /\ UNCHANGED <<now, path, tries, reads, inTime, unclear>>

\* The service refuses, its answer is lost, or it answers without hash and id: final,
\* although a transaction may have been accepted.
SubmitFails ==
    /\ Resumed("submit")
    /\ Reply("error")
    /\ (Accept \/ UNCHANGED <<submitted, accepted>>)
    /\ UNCHANGED <<now, path, tries, reads, attempt, inTime, unclear>>

\* Fault: the backoff is slept whatever the budget.
PoolCapacityUntimed ==
    /\ Resumed("submit")
    /\ path = "channel"
    /\ IF attempt = MaxSubmitRetries
         THEN Reply("error") /\ UNCHANGED attempt
         ELSE Sleep("submitTimer", Backoff(attempt)) /\ attempt' = attempt + 1
    /\ UNCHANGED <<now, path, tries, reads, submitted, accepted, inTime, unclear>>

\* POOL_CAPACITY: nothing was accepted; back off and retry while the budget allows.
PoolCapacity ==
    /\ Resumed("submit")
    /\ path = "channel"
    /\ IF attempt = MaxSubmitRetries \/ Remaining <= Backoff(attempt)
         THEN Reply("error") /\ UNCHANGED attempt
         ELSE Sleep("submitTimer", Backoff(attempt)) /\ attempt' = attempt + 1
    /\ UNCHANGED <<now, path, tries, reads, submitted, accepted, inTime, unclear>>

SubmitAgain ==
    /\ Resumed("submitTimer")
    /\ Call("submit")
    /\ UNCHANGED <<now, path, tries, reads>>
    /\ NoSubmission

\* Legacy channel service: it waits itself and returns the hash of a confirmed transaction.
SubmitConfirmed ==
    /\ Resumed("submit")
    /\ path = "channel"
    /\ submitted' = "confirmed"
    /\ accepted' = accepted + 1
    /\ inTime' = InTimeNow
    /\ Reply("success")
    /\ UNCHANGED <<now, path, tries, reads, attempt, unclear>>

\* A transaction id: poll it if there is time left.  The relayer's wait() with no time
\* left does not poll at all and throws.
SubmitAccepted ==
    /\ Resumed("submit")
    /\ Accept
    /\ IF Remaining <= 0
         THEN Reply("error")
         ELSE at' = "poll" /\ due' \in now .. now + Latency /\ seen' = "pending" /\ UNCHANGED reply
    /\ UNCHANGED <<now, path, tries, reads, attempt, inTime, unclear>>

-----------------------------------------------------------------------------
(* Polling: pollTransactionStatus for the channel service, wait() for the relayer. *)

\* Fault: a submitted transaction is taken for a settled one.
PollDecidedEarly ==
    /\ Resumed("poll")
    /\ \E status \in {seen, submitted} :
        Reply(IF status \in {"pending", "confirmed"} THEN "success" ELSE "error")
    /\ UNCHANGED <<now, path, tries, reads>>
    /\ NoSubmission

\* The status is final; a request in flight may report the older of the two.
PollDecided ==
    /\ Resumed("poll")
    /\ \E status \in {seen, submitted} \ {"pending"} :
        Reply(IF status = "confirmed" THEN "success" ELSE "error")
    /\ UNCHANGED <<now, path, tries, reads>>
    /\ NoSubmission

\* The channel service reports "confirmed" without a hash: final, and an error.
PollConfirmedWithoutHash ==
    /\ Resumed("poll")
    /\ path = "channel"
    /\ "confirmed" \in {seen, submitted}
    /\ Reply("error")
    /\ unclear' = TRUE
    /\ UNCHANGED <<now, path, tries, reads, attempt, submitted, accepted, inTime>>

\* Fault: one long sleep instead of several short ones.
PollPendingOversleeping ==
    /\ Resumed("poll")
    /\ "pending" \in {seen, submitted}
    /\ IF Remaining <= 0 THEN Reply("error") ELSE Sleep("pollTimer", Remaining)
    /\ UNCHANGED <<now, path, tries, reads>>
    /\ NoSubmission

\* Sleep, the channel's poller never past the deadline, the relayer's by its fixed
\* interval.
PollLater ==
    IF path = "relayer" THEN Sleep("pollTimer", RelayerPollInterval)
    ELSE IF Remaining <= 0 THEN Reply("error")
    ELSE Sleep("pollTimer", Least(ChannelPollInterval, Remaining))

PollPending ==
    /\ Resumed("poll")
    /\ "pending" \in {seen, submitted}
    /\ PollLater
    /\ UNCHANGED <<now, path, tries, reads>>
    /\ NoSubmission

\* The channel service answers without a status: polled on, whatever the ledger holds.
PollWithoutStatus ==
    /\ Resumed("poll")
    /\ path = "channel"
    /\ PollLater
    /\ unclear' = TRUE
    /\ UNCHANGED <<now, path, tries, reads, attempt, submitted, accepted, inTime>>

\* The loop condition is read again after the sleep.
PollAgain ==
    /\ Resumed("pollTimer")
    /\ IF now < Deadline THEN Call("poll") ELSE Reply("error")
    /\ UNCHANGED <<now, path, tries, reads>>
    /\ NoSubmission

\* One failed status request ends the wait, on both paths, and on the relayer's an answer
\* without a status does too.
PollFails ==
    /\ Resumed("poll")
    /\ Reply("error")
    /\ unclear' = TRUE
    /\ UNCHANGED <<now, path, tries, reads, attempt, submitted, accepted, inTime>>

-----------------------------------------------------------------------------
(* The ledger and the clock. *)

LedgerDecides ==
    /\ submitted = "pending"
    /\ submitted' \in {"confirmed", "failed"}
    /\ inTime' = (submitted' = "confirmed" /\ InTimeNow)
    /\ UNCHANGED <<now, path, at, due, tries, reads, attempt, seen, reply, accepted, unclear>>

\* Time passes while settle() waits, and no further than to what it waits for.
Tick ==
    /\ at \in Calls \cup Timers
    /\ now < due
    /\ now' = now + 1
    /\ UNCHANGED <<path, at, due, tries, reads, attempt, submitted, seen, reply, accepted, inTime, unclear>>

Progress ==
    \/ Start
    \/ RelayerInfo
    \/ VerifyReadsOn \/ VerifyValid \/ VerifyInvalid \/ VerifyTransient \/ VerifyAgain
    \/ SubmitFails \/ PoolCapacity \/ SubmitAgain \/ SubmitConfirmed \/ SubmitAccepted
    \/ PollDecided \/ PollConfirmedWithoutHash
    \/ PollPending \/ PollWithoutStatus \/ PollAgain \/ PollFails
    \/ Tick

SettleNext == Progress \/ LedgerDecides

SettleSpec == SettleInit /\ [][SettleNext]_settleVars

\* Calls return, timers fire and time passes; the ledger owes nothing.
FairSpec == SettleSpec /\ WF_settleVars(Progress)

-----------------------------------------------------------------------------
(* Properties *)

\* success is only ever answered for a transaction the ledger has confirmed: a lost
\* answer, a timeout or a pending status never turns into a receipt.
SuccessIsConfirmed == reply = "success" => submitted = "confirmed"

\* Whatever is retried, the signed authorization is accepted for submission at most
\* once: only a refusal that accepted nothing is followed by another submission.
SubmittedOnce == accepted <= 1

\* The backoffs and the sleeps between polls never outlive the budget; the relayer's
\* fixed interval may overshoot it by less than itself.
TimersKeepDeadline ==
    at \in Timers =>
        \/ due <= Deadline
        \/ path = "relayer" /\ at = "pollTimer" /\ due < Deadline + Latency + RelayerPollInterval

\* The latest time of an answer: a verification that begins with the call, or at the
\* last moment before the deadline, takes all its reads and is followed by one
\* submission; a poll that begins then is followed by one pause of the relayer's.
LatestAnswer ==
    Greatest(Deadline, Latency)
        + Greatest((VerifyReads + 1) * Latency, Latency + RelayerPollInterval)

\* settle() overruns the deadline it derived by no more than what it had begun before it,
\* whatever it retries: deadlineMs bounds its pauses and its polls, and no remote call.
\* Whether the buffer covers that depends on the latency (README).
OverrunIsBounded == at # "replied" => now <= LatestAnswer

\* The transaction was accepted and its status asked for at least once.
Polled == seen # "none"

\* A transaction confirmed early enough for one more poll is reported as settled,
\* unless a status request failed or was answered without a status, or without the hash
\* of the confirmed transaction: the pauses between polls never hide a settled payment.
InTimeIsReported ==
    at = "replied" /\ Polled /\ inTime /\ ~unclear => reply = "success"

\* How far settle() is from its answer at the most: the stages left, the reads of a
\* verification among them, and the time left, counted to the end of the pause it is in.
\* A quarter of a second weighs more than a verification that starts again.
TimeWeight(t) == (VerifyReads + 2) * t
Stage ==
    [replied |-> 0, poll |-> 1, submit |-> 2, verify |-> 3 + VerifyReads - reads,
     pollTimer |-> 2, submitTimer |-> 3, verifyTimer |-> VerifyReads + 3,
     info |-> VerifyReads + 3, start |-> VerifyReads + 4]
StepsLeft ==
    IF at = "replied" THEN 0
    ELSE IF at \in Timers THEN Stage[at] + TimeWeight(LatestAnswer - due) + (due - now)
    ELSE Stage[at] + TimeWeight(LatestAnswer - now)

\* Every step of settle() and of its clock brings the answer nearer: no failure, refusal
\* or pending status sends it round a loop that takes no time, and what the ledger
\* decides does not set it back.
EveryStepNears ==
    [][\/ StepsLeft' \in 0 .. StepsLeft - 1
       \/ LedgerDecides /\ StepsLeft' = StepsLeft]_settleVars

\* settle() always answers.
AlwaysAnswers == <>(at = "replied")
=============================================================================
