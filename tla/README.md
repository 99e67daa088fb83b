# Verification of AgentAllowance

AgentAllowance lets an autonomous agent pay for HTTP resources (x402) from a
treasury contract on Stellar, within an allowance that the treasury's owner can
revoke. This directory holds TLA+ models of the parts that keep state across
awaits, processes and failures, the TLC configurations that check them, and
proofs checked by TLAPS. `PROJECT.json` lists the runs, the code each definition
stands for, the hazards and the theorems.

    tlc -workers 2 -config MCMerchantChallenge.cfg MCMerchantChallenge
    tlapm MerchantChallenge_proofs.tla

Each run ends within two minutes on two workers.

## 1. The system

| Component | Code | State | Operations |
| --- | --- | --- | --- |
| Merchant API | `apps/x402-demo-api/src/app.ts`, `store.ts` | SQLite table of challenges: expiry, claiming payload, receipt | `GET /premium` (402 challenge; paid request), `GET /payments/:id`; store `create`, `claim`, `release`, `settle` |
| Facilitator settlement | `packages/relayer-plugin-x402-facilitator/src/stellar/settle.ts` | none between calls; budget, retries and polling within one | `settle` through the channel service or the relayer |
| Relayer adapter | `deploy/render/adapter.cjs` | none | `wait`, the polling of the relayer path; HTTP shim |
| Facilitator verification and policy | the plugin's `verify.ts`, `packages/facilitator-policy` | none | decide whether a payload may be settled |
| Smart account authorization | `packages/stellar-smart-account-auth` | none | build and validate authorization entries |
| SDK payment attempts | `packages/sdk/src/agent-allowance.ts`, `store.ts` | SQLite table of attempts | `fetch`, `pay`, `reconcile` |
| SDK allowances | the same files | SQLite table of allowances | `create`, `get`, `list`, `revoke` |
| Chain administration | `packages/sdk/src/stellar-admin.ts`, `treasury-deployment.ts` | the fee payer's sequence number | simulate, sign, send, poll an admin transaction; deploy a treasury |
| Owner onboarding | `apps/console/src/server.ts`, `owner-operations.ts`, `owner-funding.ts` | prepared operations, caches of profiles and scopes, queue of the sponsor's transactions | onboard, fund, hydrate, prepare and submit wallet-signed operations |
| Console API | `apps/console/src/app.ts` | login challenges, sessions, demo cooldowns | login, owner routes, public demo |
| Treasury contracts | `contracts/*` | context rules, policy data on the ledger | rule administration, `enforce` of the policies |

How they interact. The SDK's `fetch` gets a 402 from the merchant, reserves an
attempt row, simulates and signs, writes `SUBMITTED` and repeats the request with
the payload. The merchant claims the challenge for that payload, calls the
facilitator's `/verify` and `/settle`, stores the receipt and unlocks the resource.
`pay` calls the facilitator itself. `reconcile` asks the merchant's
`/payments/:id` about ambiguous attempts. The facilitator verifies again, submits
to a channel service or relayer and polls it. The owner's console creates and
revokes rules with transactions paid by one account, and records them in the same
kind of table the SDK uses.

What makes it hard. Every process is one event loop: code runs to its next await
and anything may happen at the await. Both tables are on disk and survive a
process; locals do not. A submission can fail after it took effect. A paid request
can be aborted, answered late, or handled after its sender has died. The ledger
decides on its own schedule. Several writers replace whole rows from copies they
read before an await.

What makes each part correct:

- merchant: one payment per challenge; the resource only for the payer; receipts final;
- settlement: one accepted submission, no success without confirmation, always an answer, and a bounded overrun of the budget;
- SDK attempts: at most one submission per allowance and request, the table never behind what was sent, true evidence, ambiguous attempts resolvable;
- allowances: rows describe the rule of their id; REVOKED means removed; a removed rule is not reported usable;
- verification: an accepted payment moves exactly the price, by whom and under what it says;
- owner console: caches and profiles true of the ledger, treasuries not funded twice, prepared operations used once by their owner;
- contracts and SDK: spending within the window's limit, only to the policy's recipient; a decision the contracts share.

## 2. Modules

| Module | Models |
| --- | --- |
| `OneTimeSale` | Abstract: each challenge is offered, held by one payload, ordered, paid and served, a hold given back only before the order |
| `MerchantChallenge` | Merchant handlers and their table |
| `FacilitatorSettle` | One `settle()` call with its clock |
| `FacilitatorVerify` | One `/verify` call: configuration, request, and every check of `verify()` cut at its awaits |
| `SmartAccountAuth` | Authorization entries: what the payer builds and the facilitator validates |
| `SimulationEvents` | The two judges of simulated events, strict and policy-aware |
| `SdkPayment` | `fetch`, `pay`, `reconcile` and the attempts table, against an arbitrary merchant and facilitator |
| `X402Payment` | Composition (INSTANCE) of `SdkPayment` and `MerchantChallenge` over a lossy network |
| `AllowanceSpending` | Payments under context rules: the SDK's decision, the simulation and the execution at ledgers of their own |
| `AllowanceIndex` | The allowances table against the rules on the ledger: SDK and wallet operations, hydration, admin transactions |
| `OwnerOnboarding` | The console's owner service: profile, onboard, scope, caches, the sponsor's queue, funding, the first row |
| `ConsoleSession` | The console's API: challenges, cookies, prepared operations, the public demo's cooldown |
| `MC*` | Small instances for TLC |
| `*_proofs` | Theorems and TLAPS proofs |

An action is the code between two awaits, store calls and error handling
included; where a call is suspended is `pc` (merchant, verification, allowances,
onboarding, spending), `at` (settlement, console) or `call` (SDK attempts). Operators
named in a comment "Fault: ..." are plausible mistakes in the operator that follows;
they are not used by any specification and serve to show that a property can fail.

**MerchantChallenge.** `rows`, `expiresAt`, `payloadHash` and `receipt` are the
columns of the challenges table. `Issue` is the unsigned request; `RefuseMalformed`,
`RefuseUnclaimed`, `RefuseClaimed`, `ReplaySettled` and `Acquire` are the signed
request up to its first await; `VerifyFails`/`VerifyAccepts` and
`SettleFails`/`SettleReturns` resume it after the facilitator; `Unlock`/`LedgerFails`
after the ledger read of `protectedResponse`; `Poll` is `GET /payments/:id`. A payload
is a model value with the challenge it names; equality of payloads is equality of
their hashes. `ordered` and `chain` are history: who called `facilitator.settle`, and
what the ledger executed.

**FacilitatorSettle.** Time is in quarters of a second. A remote call takes at
most `Latency` and may fail; a timer fires when due; `Tick` does not pass the event
awaited. No call has a timeout. `verify()` is here the reads it makes one after the
other, three to `VerifyReads` of them (`VerifyReadsOn`), each a call of its own and the
last followed by the verdict; what they say is in `FacilitatorVerify`. `SubmitFails` covers a service that accepted the transaction and whose
answer was lost. A status request may report the state at its start or at its end; the
channel service may also answer without a status, which is polled on, or confirm
without a hash, which is an error (`PollWithoutStatus`, `PollConfirmedWithoutHash`).
The network check, the second verification and its retries, `POOL_CAPACITY`
backoffs, the legacy answer with a hash, and both pollers are actions.

**FacilitatorVerify**, with `SmartAccountAuth` and `SimulationEvents`. `handler.ts`
and `verify()` are lists of checks cut by reads of the relayer. A list is a sequence
of `Check(ok, why)` rows in the source's order, so `FirstFailure` is the answer's
reason; an action is one list and the read that precedes it, and a read may fail,
throw, or be answered after the ledger has closed or a rule was removed. The lookup of
the rule is two actions, the RPC's evaluation (`EvaluateRule`) and the arrival of its
answer (`ReadRule`): `found` is the answer in flight, and a rule removed meanwhile is in
`late`, since the code cannot know. The profile that is found (`profile`), the ledger of the authorization's expiry
(`latest`) and the simulation (`sim`) are the locals a later check relies on. A
hash is injective, so a digest is the record of what was hashed; XDR values are
kept as far as a check tells them apart. The parts of an event list and the
profiles still to be tried are sets of indices, as the order of what is left decides
only which one is tried next (`Min`).

**SdkPayment.** A row is state, reason code and receipt, and a put replaces all of
it. Every answer a merchant or facilitator can give has an action, the failures
included. `sent` is history: the payloads that have left.

**X402Payment.** Calls, payloads and merchant requests share names, since a call
has one paid request. `Arrive` may come long after the sender gave up; `Deliver`
may never come. `TxFree` is UNIQUE(tx_hash). A second allowance given the same 402
is an over-approximation that lets a rival pay for one challenge.

**AllowanceSpending.** `live`, `removed` and `data` are the treasury's rules and the
spending policy's storage; `Execute` is `__check_auth` with the recipient policy and
the forwarding of the spending policy. `BeginPay`, `Get*` and `Preflight` are the
decision of `fetch` and `pay` on a stored sum (`seen`); `ReadLatest`, `Simulate` and
`BuildFails` are `buildSmartAccountPayment`, which `BeginBuild` enters directly, as a
caller of the package may. The accounting of the window is in the contracts'
library: a transfer drops what has left the window, compares, and stores the sum
(`CleanedUp`, `Total`); reading changes nothing. An entry is the payment with its
ledger and amount, so a rule's history is a set.

**AllowanceIndex.** `row` is the table, `author`/`remover` the rules on the ledger,
`sequence` the fee payer's sequence number, on which an admin transaction is valid
only once. `LoadAccount`, `Simulate*`, `Send`, `*Confirmed`, `AdminThrows` are
`submitAdminCall` and `submitWalletAdminCall`, which make the same calls in the same
order; the wallet path's additional queue only restricts the interleavings.
`Hydrate*` rebuild the table when the console opens an owner's scope. `BeginGet`,
`ReadRule` and `StoreStatus` are `get`; `list` is a `get` per row.

**OwnerOnboarding.** A call of the service asks for a profile, to onboard, or for a
scope; `profiles` and `scopes` are its caches, `queue` is `serializeSource`. A
transaction (`tx`) is loaded with the account's sequence number, handed over, and
executes, fails, or is outdated by another one, before or after the call has given
it up after 60 s. `Deployed`, `FundingEnds`, `ProfileEnds` and `OnboardEnds` are the
code after the queue's operations, with the row `putInitialRecord` writes and the
cache entries it sets and deletes. A scope is the call that creates it: others join
it. A restart loses caches, queue and calls, not what was handed over.

**ConsoleSession.** A cookie is signed with a key derived from the operator's
password, so it survives a restart; challenges, prepared operations and cooldowns do
not. `Take` is `PendingOwnerOperations.take`, `Execute` the ledger accepting the
wallet's authorization, `Record` the end of `submitCreate`/`submitRevoke`. `logins`,
`taken`, `refused` and `paid` are history.

## 3. Runs

| Run | Question | Instance |
| --- | --- | --- |
| `merchant` | Is a challenge sold and settled once, are receipts final, are claims decided, is it a one-time sale? | 2 challenges, 4 payloads (2 rivals, 1 with altered terms, 1 for the other challenge), 3 requests, crashes, expiry |
| `settle` | One acceptance, true success, a bounded overrun, always an answer, and every step towards it? | 10 s timeout, latency 0.5 s for each call, 5 reads in a verification, both paths |
| `verify` | What does an accepted payment guarantee, under each kind of profile, while the chain moves? | an honest account and an honest treasury payment, and every request, signature, entry and event list that deviates from them in one place, entries in up to two; 13 configurations; 2 ledgers |
| `sdk` | At most one submission, never unrecorded, for any counterpart? | 3 calls on one attempt, 1 on another, 2 reconcilers, crashes |
| `payment` | Do SDK and merchant agree over lost and late messages and crashes of both, and is every ambiguous attempt resolved? | 2 fetches from two allowances and a pay for one challenge, a reconciler |
| `spending` | Is the window's limit kept, is a removal final, and does preflight agree with the contracts? | 3 payments of 2 under 2 rules with a limit of 5, window of 2 ledgers, 4 ledgers, removals |
| `allowances` | Do rows describe their rules and revocations? | 2 creations, 2 revocations, a get, 3 rules, crashes |
| `onboarding` | Do caches, profiles and the first row agree with the ledger, and does the queue move on? | 3 calls of any kind of 2 owners, target 1, a restart, transactions that execute late, fail or are outdated |
| `sessions` | Are challenges and operations used once and by their wallet, is what executed recorded, does the cooldown hold? | 2 wallets, 2 challenges, 2 operations, 2 submissions, 2 demos, at most 4 of these together, a restart |

Bounds. Three requests suffice for two rivals and a late third party, or for a
settlement, its replay and a rival; the properties quantify over pairs. `Ttl` = 0
with a clock of two values already separates before and after expiry, which is
all `app.ts` asks. In `settle` 10 s is the interesting range: the backoffs
(1, 2, 4 s) can outgrow the 8 s budget; with 60 s they cannot. Five reads are a
verification under one profile (relayer, code, ledger, simulation, rule), and each
further profile that is tried adds one. `OverrunIsBounded` says how late the answer can
be: `LatestAnswer`, here 11 s. The payer's own timeout of 10 s is therefore not
guaranteed, and the code does not claim it: the buffer of 2 s covers a verification
begun at the deadline and the submission after it as long as
`(VerifyReads + 1) * Latency` is at most 2 s, a third of a second per call. In `verify` one
deviation at a time reaches every row of every list of checks, and two in the
entries let one deviation mask another; two ledgers suffice for a read that is one
ledger old and an expiry on either edge. In `spending` two payments of 2 fit the
limit of 5 and three do not, in windows that overlap at every offset within 4
ledgers; `ValidUntil` 3 lies inside. In `allowances`
three rule ids give two concurrent creations a next id each, and leave a gap after
a removal. In `onboarding` three calls are an onboarding, the older scope it races
and the later one that is promised service, or two operations in the queue and one
behind them; other transactions of the sponsor come from `OtherTransaction`. In
`sessions` the properties relate two requests and what they share, and times of 1
and 2 put every expiry and cooldown before, at and after a request. Deadlock is not
checked (`CHECK_DEADLOCK FALSE`) because requests and calls are made once each and
the instances really stop. Symmetry is used in `allowances`, `sessions` and
`spending`, over requests and names the module does not order, and never with
liveness.

Some properties are proved and not checked again by TLC, because the proof covers
more and another property earned the run: the types of `MerchantChallenge`,
`FacilitatorVerify`, `FacilitatorSettle`, `SdkPayment`, `AllowanceIndex` and
`ConsoleSession`, and `OneSettleCallPerChallenge`, `TimersKeepDeadline`, `OneCallPerAttempt` and
`OneLoginPerChallenge`, of which the checked properties are consequences or
companions.

Each remaining run checks one sentence of the documentation and finds it violated:

| Run | Statement | What happens |
| --- | --- | --- |
| `payment_blocked` | `BLOCKED` is a definitive denial (`sdk/reconciliation.md`) | an HTTP 500 after settlement makes a paid attempt `BLOCKED` for good |
| `payment_settled` | `SETTLED`: the payment has a valid receipt (`sdk/reconciliation.md`) | `reconcile` stores the receipt of a rival for the same challenge, though the attempt itself paid nothing |
| `allowance_exhausted` | `BUDGET_EXCEEDED`: the amount exceeds the remaining rolling budget; wait for reset (`sdk/errors.md`) | the stored sum only shrinks at a transfer: after the window has passed preflight still refuses, so no transfer comes |

## 4. Fairness

Liveness is checked under what the code's scheduling gives. The merchant
(`ClaimIsDecided`): a handler resumes after its outgoing call, and every outgoing
call ends, by an answer or a rejection; callers, clock, ledger and crashes are not
fair, and a request lost in a crash is an admitted outcome. `settle`
(`AlwaysAnswers`): remote calls return within the latency, timers fire and time
passes; the ledger owes nothing. `payment` (`ReconcileResolves`): in addition the SDK's
awaits end and the caller of each ambiguous attempt reconciles it again and again, as
the documentation tells it to, with an answer getting through in the end (strong
fairness of asking, since one reconciler serves all attempts, and of that answer).
`onboarding` (`QueueMoves`): every remote call of the process ends and a poll ends
after 60 s; nothing is owed by wallets, the ledger or the operator, so a transaction
may stay in flight for ever and the queue still moves.

## 5. Proofs

Proved for every value of the constants, from the assumptions named in the modules
(`ChallengesAssumption`, `SettleAssumption`, `SdkAssumption`, `IndexAssumption`,
`SessionAssumption`, `OnboardingAssumption`, `SpendingAssumption`, `PaymentAssumption`,
`VerifyAssumption`), which only type the constants and keep NULL apart from values.

- `MerchantChallenge_proofs`: types, `UnlockedIsPaidAndRecorded`,
  `OnePaymentPerChallenge`, `OneSettleCallPerChallenge` and `OrderedKeepsClaim`, and
  that the server implements `OneTimeSale`. These properties are not inductive: that
  a second claim cannot be acquired needs to know that a suspended handler still
  holds the claim in the table, and that nobody else is suspended on that challenge.
  The invariant relates each `pc` to the row. The refinement maps a row without
  claim to "open", with one to "held", with a settle call to "ordered"; every action
  is shown to be a step of the sale or a stutter.
  `ReceiptIsFinal` follows as an action property: release and settle leave a row with a
  receipt alone, and a new claim needs a row nobody holds.
- `Facilitator_proofs`, on `verify()`: types, `AcceptedMovesExactlyThePrice`,
  `ProfiledPaymentIsBound`, `ProfileIsNoWeaker` and `PinnedPayerIsJudgedByProfile`, for
  every configuration, request, code and simulation. First, what each list of checks
  says when it passes (`PassesBoth` splits a list that is put together; then one lemma
  per list). The invariant then says for each place between two reads which lists have
  passed, with which profile and at which ledger (`PlaceInv`), and how the profile was
  found (`PinInv`): a candidate that is no longer to be tried did not match the payer's
  code. `CloseLedger` and `RemoveRule` keep it because it only speaks of what was read;
  `FoundInv` says that what the lookup found was installed when the RPC looked, and is
  either still installed or was removed while the answer was in flight (`late`). Proving it showed an exception the run had
  missed: ledger entries answered without keys are matched by position only when none
  is missing, so a profile naming a contract without code does not recognise its payer,
  who is judged by the strict check, as after a failed lookup. `PinsPayer` says so, and
  the run's configurations now include one (`Undeployed`).
- `Facilitator_proofs`, on `settle()`: types, `SubmittedOnce`, `SuccessIsConfirmed`,
  `TimersKeepDeadline`, `InTimeIsReported`, `EveryStepNears`, and `OverrunIsBounded`, with
  no assumption on latency, reads or timeout. The invariant says for each await what the service
  can have accepted, how far beyond the deadline its end can lie (`ClockInv`), and that
  a poll or pause under way when the transaction is confirmed in time ends before the
  deadline (`InTimeInv`). `EveryStepNears` is what `AlwaysAnswers` needs besides
  fairness: a measure, the time left to a bound beyond the deadline and the stages left,
  which every step but the ledger's decreases and which is never negative.
- `SdkPayment_proofs`: types, `OneSubmissionPerAttempt`, `EvidenceBeforeSubmission`,
  `OneCallPerAttempt`. The invariant adds that a call preparing a payment has a row
  in a state before submission, and that `reconcile` only works on rows past it.
- `AllowanceIndex_proofs`: types, `RowNamesItsRule`, `RevokedIsRemoved`,
  `RemovedIsNotUsable`. The heart is `SequenceInv`: the id returned by a simulation is
  still the next id as long as the account's sequence number is the one loaded before
  the simulation, and a transaction executes at no other.
- `ConsoleSession_proofs`: types, `OneLoginPerChallenge`, `PreparedIsWalletBound`,
  `ConfirmedIsRecorded`, `DemoPaysOncePerCooldown` and the action property
  `PreparedIsOneTime`. The invariant keeps what `take` removed removed: an operation
  that was taken or refused has been prepared and is no longer pending, so its id
  never comes back; a request past `take` has the kind and owner of what it took;
  the map of cooldowns holds the latest payment of each client.
- `OwnerOnboarding_proofs`: `ProfileIsTrue`, `FailedScopeIsNotCached`,
  `OnboardedOwnerIsServed`, `InitialAllowanceIsListed`; types and
  `LoneFundingReachesTarget`. The first four do not rest on the
  queue: deployments and executed transactions are never undone, so what an await
  has found stays true (`OperationAt`). The delicate one is the scope: a cached
  scope belongs to its owner and is on its way or served (`ScopeInv`), no cached
  scope of a welcomed owner has missed the treasury (`WelcomeInv`), because
  `onboardOwner` deletes the entry in the step in which it answers; so whatever a
  later request creates or joins cannot end as "not onboarded" (`PromiseInv`).
  A second invariant, `SponsorInv`, is about the sponsor's account. The type invariant
  says that an unsettled operation is in the queue, once; that needs the queue to hold
  nothing else, and every call past its first await to be the head, or the step that
  settles it would drop another call's operation (`QueueInv`, with a lemma each for a
  queue that stays, grows and advances). For the funding (`FundInv`), at most one call
  or transaction can still add to the balance of an owner who is not overlapped, and
  it adds no more than is missing: a transaction that was given up after 60 s or by a
  restart still counts, since it may execute.
- `AllowanceSpending_proofs`: types, `RemovedSpendsNoMore` (ids are never given again, and a
  removed rule is not live), that a payment executes once, the budget (`WindowWithinLimit`) and `AllowedIsPermitted`. A sum over a set is
  reasoned about by the lemmas on `Total` (of one entry more, of a subset, of nothing),
  proved by well-founded induction on the subsets of a finite set. The invariant says
  that the policy's entries are the transfers of the rule that may still count, that
  the stored total is their sum, and that a record which a `get` has read and nothing
  has outdated is at least what counts now; so what fits the record's remainder fits
  the policy's.
- `X402Payment_proofs`: `OnePaymentPerAttempt`, `EvidenceIsTrue`, `UnlockAgrees`, and
  that the composition implements the SDK's specification. Every step is a step of the
  SDK or leaves it alone (`SdkSide`), and a step of the merchant or a direct
  settlement that adds to the chain (`MerchantSide`), so the two sides' own
  invariants are kept by their own proofs. Three facts link them (`LinkInv`): requests
  and transfers are of payments the SDK has sent, and a request carries what its call
  signed. `EvidenceIsTrue` separates the receipts that were compared with the attempt from
  those `reconcile` stored, which are only known to be of its challenge. For this the merchant's invariant is split: `CoreInv` survives a transfer the
  merchant did not order, which `direct` payments make, and `OnlyOrdered` (nobody else
  pays) holds for the merchant alone.

Only model-checked: liveness (`ClaimIsDecided`, `AlwaysAnswers`, `ReconcileResolves`,
`QueueMoves`), which the prover does not handle under fairness. Every invariant and every
action property of the passing runs, and every refinement, is a theorem. The three runs that
expect a violation show theirs by a counterexample.

## 6. Assumptions and limits

- Challenge, attempt and operation ids are fresh (uuids, random numbers); a payload's
  hash identifies it; hashes are injective and signatures are not forged.
- The ledger executes a transfer at most once (nonces), and only if it was handed over.
- A legacy channel service that returns a hash returns that of a confirmed transaction.
- One account pays for all admin transactions of a treasury, and the account's
  sequence number (Horizon) is not read from a later ledger than the one the
  simulation (RPC) runs on. If it were, `RowNamesItsRule` would not follow.
- A removed rule has no spending data; a live one does; the rolling sum is stored by
  transfers and only by them. This is the behaviour of the contracts' library, outside
  the repository.
- The parallel reads of `get` are answered within one ledger of each other.
- The order in which owners of `OwnerOnboarding` first call is fixed, without loss.
- Fee headroom, encodings, the lifetime of storage entries and wording are left out.

Not modelled, because nothing changes state there: `/health`, `/supported`,
bootstraps, the overviews; the console's React client; the command line tools and
examples (sequential scripts run by hand); the keystore tool; the documentation
site. `packages/shared` is declarations and encodings. The HTTP shim of the relayer
adapter keeps no state; its polling is in `FacilitatorSettle`. The library behind the
treasury contracts is external.

Seen in the models and not checked as properties of their own, because no sentence of
the repository promises otherwise precisely enough, or a property states the part
that holds:

- The merchant never asks again about a settlement that failed after submission
  (`docs/security.md` leaves reconciliation to an unnamed party), and refuses the
  retry of an unlock that is already paid once the challenge has expired: the expiry
  check precedes the claim. `RESOURCE_UNLOCK_FAILED` is also stored for answers given
  before any settlement.
- The polling of `settle.ts` ends at the first failed status request, and takes a
  confirmation without a hash for a failure: a settled payment is reported as failed.
  No remote call of the facilitator has a timeout, so the answer can come after the
  payer's.
- An aborted `fetch` overwrites with `UNKNOWN` what `reconcile` stored meanwhile, and has
  to be reconciled again. An `UNKNOWN` attempt of `pay` can never be resolved, since the
  merchant never sees it, nor can one whose challenge was paid by another attempt of the
  same table: UNIQUE(tx_hash) makes the write fail (`ReconcileResolves` says so).
- A `get` in flight writes its old record back over `REVOKED`; the next `get` finds
  the rule gone.
- The payer authorizes at least two ledgers, while the facilitator's window for
  timeouts up to 5 s is one: such a payment is refused.
- Two overlapping balance reads fund a treasury beyond its target
  (`LoneFundingReachesTarget` states when they do not); `onboardOwner` caches a profile
  whose funding failed until the next restart; a hydration that overlaps an
  onboarding overwrites the initial row, and its creation hash.
- Hydration looks up ids below the number of live rules and misses rules above a gap.
- Challenges and prepared operations that are never used are kept until a restart.

## 7. Plan

Done: the payment path, verification with its policies, spending, allowances,
onboarding and the console, each with its runs; proofs for all of them.

Left, in the order of use:

1. Composition of `FacilitatorVerify` and `FacilitatorSettle` with the merchant, so
   that what the merchant takes for a failed settlement is what `settle()` answers,
   and the transaction settled is the one verified.
2. The same measure for the sponsor's queue, and what `QueueMoves` needs besides fairness.
