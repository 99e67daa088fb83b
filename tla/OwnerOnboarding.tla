--------------------------- MODULE OwnerOnboarding ---------------------------
(***************************************************************************)
(* The console's ownerService: profile, onboard and scope, with the caches *)
(* of profiles and scopes, the queue that serializes the transactions of   *)
(* the sponsor's account, the sponsored funding of treasuries, and the     *)
(* first row of an owner's table of allowances.                            *)
(*                                                                         *)
(* One process serves all owners.  An action is the code between two       *)
(* awaits.  A transaction is handed to the ledger and executes later, or   *)
(* never; another transaction of the sponsor's account that executes first *)
(* uses its sequence number and makes it invalid.  A restart loses the     *)
(* caches, the queue and the calls, and not what has been handed over.     *)
(***************************************************************************)
EXTENDS Integers, Sequences

CONSTANTS
    MaxOwners,      \* bound: wallets; each has one deterministic treasury
    MaxCalls,       \* bound: calls of the service
    None,           \* no call: an absent map entry, an undefined transaction hash
    Target,         \* OWNER_TREASURY_TARGET_BALANCE_ATOMIC
    MaxRestarts     \* bound: restarts of the process

Calls == 1 .. MaxCalls      \* in the order in which they begin
Owners == 1 .. MaxOwners    \* in the order in which they first call

ASSUME OnboardingAssumption ==
    /\ MaxCalls \in Nat /\ MaxOwners \in Nat /\ Target \in Nat /\ MaxRestarts \in Nat
    /\ None \notin Nat

VARIABLES
    deployed,       \* ledger: the treasury of an owner exists
    balance,        \* ledger: its balance
    executed,       \* ledger: which call's deployment or funding has executed
    row,            \* the row of allowance 1 in the owner's table, and who wrote it
    profiles,       \* ownerProfiles
    scopes,         \* ownerScopes: the call that is creating, or has created, the scope
    queue,          \* sourceQueue: the calls whose operation runs (the head) or waits
    owner,          \* for whom each call is
    pc,             \* the await it is suspended at
    cached,         \* ownerProfile found a profile before its first await
    joined,         \* the call whose scope promise it awaits
    deployment,     \* onboardOwner's `result`: not made, or found or created
    tx,             \* its last transaction
    answer,         \* how it ended, if it asked for a scope
    restarts,
    welcomed,       \* history: owners whose onboardOwner has deployed and answered
    promised,       \* history: scope calls that began after that
    overlapped,     \* history: owners whose balance was read with a funding under way
    unread          \* history: owners whose rules could not be read by a hydration

ledger == <<deployed, balance, executed>>
caches == <<profiles, scopes>>
history == <<welcomed, promised, overlapped, unread>>
locals == <<owner, cached, joined>>
vars == <<deployed, balance, executed, row, profiles, scopes, queue, owner, pc, cached,
          joined, deployment, tx, answer, restarts, welcomed, promised,
          overlapped, unread>>

Queued == {"deployQueued", "deployLoad", "deploySend", "deployPoll", "deployCheck",
           "fundQueued", "fundSend", "fundPoll"}
Awaits == Queued \cup {"profileExists", "onboardExists", "latest", "balance", "scopeExists",
                       "scopeMissing", "hydrateCount", "hydrateRead", "joined"}
Operations == {"none", "deploy", "fund"}
TxStates == {"none", "loaded", "sent", "executed", "failed"}
NoTx == [of |-> "none", amount |-> 0, state |-> "none"]
NoProfile == [exists |-> FALSE, deployment |-> None, funding |-> None]

\* The variables and the caches have their types; a call at an await of its
\* operation is in the queue, once.
TypeOK ==
    /\ deployed \in [Owners -> BOOLEAN] /\ balance \in [Owners -> Nat]
    /\ executed \subseteq {"deploy", "fund"} \X Calls
    /\ row \in [Owners -> {"none", "created", "hydrated"}]
    /\ profiles \in [Owners -> [exists : BOOLEAN, deployment : Calls \cup {None},
                                funding : Calls \cup {None}]]
    /\ scopes \in [Owners -> Calls \cup {None}]
    /\ \A c \in Calls :
        /\ pc[c] \in Awaits \cup {"new", "done", "lost"}
        /\ tx[c] \in [of : Operations, amount : Nat, state : TxStates]
        /\ pc[c] # "new" => owner[c] \in Owners
        /\ deployment[c] \in {"none", "found", "created"}
    /\ \A c \in Calls : pc[c] \in Queued => \E i \in 1 .. Len(queue) : queue[i] = c
    /\ \A i, j \in 1 .. Len(queue) : queue[i] = queue[j] => i = j

-----------------------------------------------------------------------------
Init ==
    /\ deployed = [o \in Owners |-> FALSE] /\ balance = [o \in Owners |-> 0]
    /\ executed = {}
    /\ row = [o \in Owners |-> "none"]
    /\ profiles = [o \in Owners |-> NoProfile]
    /\ scopes = [o \in Owners |-> None]
    /\ queue = <<>>
    /\ owner = [c \in Calls |-> 0]
    /\ pc = [c \in Calls |-> "new"]
    /\ cached = [c \in Calls |-> FALSE] /\ joined = [c \in Calls |-> None]
    /\ deployment = [c \in Calls |-> "none"]
    /\ tx = [c \in Calls |-> NoTx]
    /\ answer = [c \in Calls |-> "none"]
    /\ restarts = 0
    /\ welcomed = {} /\ promised = {} /\ overlapped = {} /\ unread = {}

Begins(c, o) ==
    /\ pc[c] = "new" /\ \A d \in 1 .. c - 1 : pc[d] # "new"
    /\ \A p \in 1 .. o - 1 : \E d \in Calls : owner[d] = p
    /\ owner' = [owner EXCEPT ![c] = o]
Goto(c, await) == pc' = [pc EXCEPT ![c] = await]
Ends(c, how) == Goto(c, "done") /\ answer' = [answer EXCEPT ![c] = how]
Returns(c) == Goto(c, "done") /\ UNCHANGED answer

\* serializeSource: an operation runs when the one before it has settled, however
\* it settled.
Enqueue(c, await) == queue' = Append(queue, c) /\ Goto(c, await)
Running(c) == queue # <<>> /\ Head(queue) = c
\* Fault: the newest operation is dropped.
NewestOperationLeaves(succeeded) == SubSeq(queue, 1, Len(queue) - 1)
\* Fault: what waits follows only an operation that succeeds.
NextOperationAfterSuccess(succeeded) == IF succeeded THEN Tail(queue) ELSE queue
NextOperation(succeeded) == Tail(queue)

-----------------------------------------------------------------------------
(* The sponsor's transactions. *)

\* Handed over, and the sequence number it carries is still the account's next.
InFlight == {c \in Calls : tx[c].state = "sent"}
\* What becomes of it matters to a call that waits for it.
Spent(c, state) == IF pc[c] \in {"done", "lost"} THEN NoTx
                   ELSE [of |-> tx[c].of, amount |-> 0, state |-> state]
\* An executing transaction of the account outdates the others built on its number.
Outdated(but) ==
    [d \in Calls |-> IF d \notin but /\ tx[d].state \in {"loaded", "sent"}
                     THEN Spent(d, "failed") ELSE tx[d]]

\* Succeeds, unless the contract to create exists: then it fails.
Execute(c) ==
    /\ c \in InFlight
    /\ LET o == owner[c]
           succeeds == tx[c].of = "deploy" => ~deployed[o] IN
        /\ tx' = [Outdated({c}) EXCEPT ![c] = Spent(c, IF succeeds THEN "executed" ELSE "failed")]
        /\ executed' = IF succeeds THEN executed \cup {<<tx[c].of, c>>} ELSE executed
        /\ deployed' = [deployed EXCEPT ![o] = TRUE]
        /\ balance' = [balance EXCEPT ![o] = @ + tx[c].amount]
    /\ UNCHANGED <<row, caches, queue, locals, pc, deployment, answer, restarts, history>>

\* It fails on the ledger for another reason, as when the sponsor cannot pay.
ExecuteFails(c) ==
    /\ c \in InFlight
    /\ tx' = [Outdated({c}) EXCEPT ![c] = Spent(c, "failed")]
    /\ UNCHANGED <<ledger, row, caches, queue, locals, pc, deployment, answer, restarts,
                   history>>

\* A transaction of the same account that is not in the queue: an admin call of the
\* public treasury.
OtherTransaction ==
    /\ \E c \in Calls : tx[c].state \in {"loaded", "sent"}
    /\ tx' = Outdated({})
    /\ UNCHANGED <<ledger, row, caches, queue, locals, pc, deployment, answer, restarts,
                   history>>

\* The treasury pays from its balance.
Spend(o) ==
    /\ balance[o] > 0
    /\ balance' = [balance EXCEPT ![o] = @ - 1]
    /\ UNCHANGED <<deployed, executed, row, caches, queue, locals, pc, deployment, tx,
                   answer, restarts, history>>

-----------------------------------------------------------------------------
(* Ends of ownerProfile and onboardOwner, after the funding: `funding` is the  *)
(* funding transaction, `error` whether there is a fundingError.               *)

\* ownerProfile, called as such or by onboardOwner, which returns what it got.
ProfileEnds(c, funding, error) ==
    /\ profiles' = IF error THEN profiles
                   ELSE [profiles EXCEPT ![owner[c]] =
                            [exists |-> TRUE, deployment |-> None, funding |-> funding]]
    /\ UNCHANGED <<row, scopes, welcomed>>

\* Fault: the entry of a scope whose creation began before the deployment stays.
ForgetNoScope(o) == scopes
ForgetScope(o) == [scopes EXCEPT ![o] = None]

\* onboardOwner after deployDeterministicTreasury: the profile is cached with or
\* without an error; putInitialRecord writes no row that exists.
OnboardEnds(c, made, funding) ==
    LET o == owner[c] IN
    /\ profiles' = [profiles EXCEPT ![o] =
                        [exists |-> TRUE, funding |-> funding,
                         deployment |-> IF made = "created" THEN c ELSE None]]
    /\ row' = IF made = "created" /\ row[o] = "none"
              THEN [row EXCEPT ![o] = "created"] ELSE row
    /\ scopes' = ForgetScope(o)
    /\ welcomed' = welcomed \cup {o}

FundingEnds(c, funding, error) ==
    /\ Returns(c)
    /\ IF deployment[c] = "none" THEN ProfileEnds(c, funding, error)
                                 ELSE OnboardEnds(c, deployment[c], funding)
    /\ deployment' = [deployment EXCEPT ![c] = "none"]
    /\ UNCHANGED <<ledger, locals, restarts, promised, unread>>

\* The operation at the head of the queue rejects: a deployment fails the call, a
\* funding only leaves a fundingError.
OperationRejects(c) ==
    /\ queue' = NextOperation(FALSE)
    /\ IF pc[c] \in {"fundQueued", "fundSend", "fundPoll"}
       THEN FundingEnds(c, None, TRUE)
       ELSE /\ Returns(c)
            /\ UNCHANGED <<ledger, row, caches, locals, deployment, restarts, welcomed,
                           promised, unread>>
    /\ UNCHANGED overlapped

-----------------------------------------------------------------------------
(* ownerProfile and onboardOwner. *)

\* onboardOwner first calls ownerProfile; both begin with the cache and the read
\* of the treasury.
BeginProfile(c, o) ==
    /\ Begins(c, o)
    /\ cached' = [cached EXCEPT ![c] = profiles[o].exists]
    /\ \E await \in {"profileExists", "onboardExists"} : Goto(c, await)
    /\ UNCHANGED <<ledger, row, caches, queue, joined, deployment, tx, answer, restarts, history>>

ExistsAnswers(c) ==
    /\ pc[c] \in {"profileExists", "onboardExists"}
    /\ \/ deployed[owner[c]] /\ cached[c] /\ Goto(c, "done")
       \/ deployed[owner[c]] /\ ~cached[c] /\ Goto(c, "balance")
       \/ ~deployed[owner[c]] /\ pc[c] = "profileExists" /\ Goto(c, "done")
       \/ ~deployed[owner[c]] /\ pc[c] = "onboardExists" /\ Goto(c, "latest")
    /\ cached' = [cached EXCEPT ![c] = FALSE]
    /\ UNCHANGED <<ledger, row, caches, queue, owner, joined, deployment, tx, answer, restarts, history>>

\* treasuryExists or getLatestLedger rejects.
ReadFails(c) ==
    /\ pc[c] \in {"profileExists", "onboardExists", "latest"}
    /\ Returns(c)
    /\ cached' = [cached EXCEPT ![c] = FALSE]
    /\ UNCHANGED <<ledger, row, caches, queue, owner, joined, deployment, tx, restarts, history>>

LatestAnswers(c) ==
    /\ pc[c] = "latest"
    /\ Enqueue(c, "deployQueued")
    /\ UNCHANGED <<ledger, row, caches, locals, deployment, tx, answer, restarts, history>>

\* deployDeterministicTreasury has settled; the funding follows, if any.
Deployed(c, made) ==
    /\ queue' = NextOperation(TRUE)
    /\ \/ /\ Target > 0
          /\ Goto(c, "balance") /\ deployment' = [deployment EXCEPT ![c] = made]
          /\ UNCHANGED <<row, caches, answer, welcomed>>
       \/ /\ Target = 0
          /\ Returns(c) /\ OnboardEnds(c, made, None)
          /\ UNCHANGED deployment
    /\ UNCHANGED <<ledger, locals, tx, restarts, promised, overlapped, unread>>

\* It reads again whether the treasury exists, now alone in the queue.
DeployFinds(c) ==
    /\ pc[c] = "deployQueued" /\ Running(c) /\ deployed[owner[c]]
    /\ Deployed(c, "found")

DeployMissing(c) ==
    /\ pc[c] = "deployQueued" /\ Running(c) /\ ~deployed[owner[c]]
    /\ Goto(c, "deployLoad")
    /\ UNCHANGED <<ledger, row, caches, queue, locals, deployment, tx, answer, restarts, history>>

\* loadAccount: the transaction gets the account's next sequence number.
Loads(c) ==
    /\ \/ /\ pc[c] = "deployLoad" /\ Goto(c, "deploySend")
          /\ tx' = [tx EXCEPT ![c] = [of |-> "deploy", amount |-> 0, state |-> "loaded"]]
       \/ /\ pc[c] = "fundQueued" /\ Running(c) /\ Goto(c, "fundSend")
          /\ tx' = [tx EXCEPT ![c] = [@ EXCEPT !.of = "fund", !.state = "loaded"]]
    /\ UNCHANGED <<ledger, row, caches, queue, locals, deployment, answer, restarts, history>>

\* Any read of the operation rejects before something is handed over.
OperationReadFails(c) ==
    /\ pc[c] \in {"deployQueued", "deployLoad", "deployCheck", "fundQueued"} /\ Running(c)
    /\ tx' = [tx EXCEPT ![c] = NoTx]
    /\ OperationRejects(c)

\* submitPreparedTransaction: prepareTransaction simulates, sendTransaction refuses
\* a stale sequence number.
Sends(c) ==
    /\ pc[c] \in {"deploySend", "fundSend"} /\ tx[c].state = "loaded"
    /\ pc[c] = "deploySend" => ~deployed[owner[c]]
    /\ tx' = [tx EXCEPT ![c].state = "sent"]
    /\ Goto(c, IF pc[c] = "deploySend" THEN "deployPoll" ELSE "fundPoll")
    /\ UNCHANGED <<ledger, row, caches, queue, locals, deployment, answer, restarts, history>>

\* It is refused, or it is handed over and the answer is lost.
SendFails(c) ==
    /\ pc[c] \in {"deploySend", "fundSend"}
    /\ \/ tx' = [tx EXCEPT ![c] = NoTx]
       \/ tx[c].state = "loaded" /\ tx' = [tx EXCEPT ![c].state = "sent"]
    /\ OperationRejects(c)

PollConfirms(c) ==
    /\ tx[c].state = "executed" /\ tx' = [tx EXCEPT ![c] = NoTx]
    /\ \/ /\ pc[c] = "deployPoll" /\ Goto(c, "deployCheck")
          /\ UNCHANGED <<ledger, row, caches, queue, locals, deployment, answer, restarts, history>>
       \/ /\ pc[c] = "fundPoll" /\ queue' = NextOperation(TRUE)
          /\ FundingEnds(c, c, FALSE) /\ UNCHANGED overlapped

\* Fault: a result that is unknown after 60 s counts as a success.
GivesUpOptimistically(c) ==
    /\ pc[c] \in {"deployPoll", "fundPoll"}
    /\ tx' = IF tx[c].state = "sent" THEN tx ELSE [tx EXCEPT ![c] = NoTx]
    /\ \/ pc[c] = "deployPoll" /\ OperationRejects(c)
       \/ /\ pc[c] = "fundPoll" /\ FundingEnds(c, c, FALSE)
          /\ queue' = NextOperation(TRUE) /\ UNCHANGED overlapped
\* The transaction failed, the 60 s are over, or a status request rejects.
GivesUp(c) ==
    /\ pc[c] \in {"deployPoll", "fundPoll"}
    /\ tx' = IF tx[c].state = "sent" THEN tx ELSE [tx EXCEPT ![c] = NoTx]
    /\ OperationRejects(c)

\* The contract is there.
DeployChecks(c) == pc[c] = "deployCheck" /\ Deployed(c, "created")

-----------------------------------------------------------------------------
(* ensureOwnerTreasuryFunding: the balance is read outside the queue. *)

\* Fault: the whole target is sent, whatever the treasury holds.
WholeTarget(held) == Target
Missing(held) == IF Target > held THEN Target - held ELSE 0

\* The calls and transactions that will still add to the balance.
FundingsUnderWay(o) ==
    {d \in Calls : /\ owner[d] = o
                   /\ \/ pc[d] \in {"fundQueued", "fundSend", "fundPoll"}
                      \/ tx[d].of = "fund" /\ tx[d].state = "sent"}

BalanceAnswers(c) ==
    LET o == owner[c]
        missing == Missing(balance[o]) IN
    /\ pc[c] = "balance"
    /\ overlapped' = IF FundingsUnderWay(o) = {} THEN overlapped ELSE overlapped \cup {o}
    /\ \/ /\ missing > 0
          /\ Enqueue(c, "fundQueued")
          /\ tx' = [tx EXCEPT ![c] = [NoTx EXCEPT !.amount = missing]]
          /\ UNCHANGED <<ledger, row, caches, locals, deployment, answer, restarts,
                         welcomed, promised, unread>>
       \/ /\ missing = 0
          /\ FundingEnds(c, None, FALSE) /\ UNCHANGED <<queue, tx>>

\* A fundingError.
BalanceFails(c) ==
    /\ pc[c] = "balance"
    /\ FundingEnds(c, None, TRUE) /\ UNCHANGED <<queue, tx, overlapped>>

-----------------------------------------------------------------------------
(* ownerScope, createOwnerScope and hydrateOwnerStore. *)

BeginScope(c, o) ==
    /\ Begins(c, o)
    /\ promised' = IF o \in welcomed THEN promised \cup {c} ELSE promised
    /\ \/ /\ scopes[o] # None
          /\ joined' = [joined EXCEPT ![c] = scopes[o]] /\ Goto(c, "joined")
          /\ UNCHANGED scopes
       \/ /\ scopes[o] = None
          /\ scopes' = [scopes EXCEPT ![o] = c] /\ Goto(c, "scopeExists")
          /\ UNCHANGED joined
    /\ UNCHANGED <<ledger, row, profiles, queue, cached, deployment, tx, answer, restarts,
                   welcomed, overlapped, unread>>

\* The answer may arrive long after the ledger was read.
ScopeExistsAnswers(c) ==
    /\ pc[c] = "scopeExists"
    /\ Goto(c, IF deployed[owner[c]] THEN "hydrateCount" ELSE "scopeMissing")
    /\ UNCHANGED <<ledger, row, caches, queue, locals, deployment, tx, answer, restarts, history>>

\* The promise rejects; its handler deletes the entry of the owner, whosever it is.
\* Fault: the rejected promise stays in the map.
KeepRejectedScope(o) == scopes
DropRejectedScope(o) == [scopes EXCEPT ![o] = None]
ScopeFails(c) ==
    /\ \/ pc[c] = "scopeMissing" /\ Ends(c, "notOnboarded")
       \/ pc[c] = "scopeExists" /\ Ends(c, "failed")
    /\ scopes' = DropRejectedScope(owner[c])
    /\ UNCHANGED <<ledger, row, profiles, queue, locals, deployment, tx, restarts, history>>

JoinedEnds(c) ==
    /\ pc[c] = "joined" /\ pc[joined[c]] = "done"
    /\ Ends(c, answer[joined[c]])
    /\ joined' = [joined EXCEPT ![c] = None]
    /\ UNCHANGED <<ledger, row, caches, queue, owner, cached, deployment, tx, restarts, history>>

\* Rule 1 is below the count of rules, which is 2.
\* Fault: the loop ends one rule early.
SkipsTheLastRule(o) == FALSE
Unlisted(o) == row[o] = "none"
HydrateCounts(c) ==
    /\ pc[c] = "hydrateCount"
    /\ IF Unlisted(owner[c]) THEN Goto(c, "hydrateRead") /\ UNCHANGED answer
                             ELSE Ends(c, "served")
    /\ UNCHANGED <<ledger, row, caches, queue, locals, deployment, tx, restarts, history>>

\* The row is written without another look at the table.
HydrateReads(c) ==
    /\ pc[c] = "hydrateRead"
    /\ row' = [row EXCEPT ![owner[c]] = "hydrated"]
    /\ Ends(c, "served")
    /\ UNCHANGED <<ledger, caches, queue, locals, deployment, tx, restarts, history>>

\* Both failures are swallowed: the scope is served without the row.
HydrateFails(c) ==
    /\ pc[c] \in {"hydrateCount", "hydrateRead"}
    /\ unread' = unread \cup {owner[c]}
    /\ Ends(c, "served")
    /\ UNCHANGED <<ledger, row, caches, queue, locals, deployment, tx, restarts, welcomed,
                   promised, overlapped>>

-----------------------------------------------------------------------------
Restart ==
    /\ restarts < MaxRestarts
    /\ restarts' = restarts + 1
    /\ profiles' = [o \in Owners |-> NoProfile] /\ scopes' = [o \in Owners |-> None]
    /\ queue' = <<>>
    /\ pc' = [c \in Calls |-> IF pc[c] \in Awaits THEN "lost" ELSE pc[c]]
    /\ tx' = [c \in Calls |-> IF tx[c].state \in {"none", "loaded"} THEN NoTx ELSE tx[c]]
    /\ cached' = [c \in Calls |-> FALSE] /\ joined' = [c \in Calls |-> None]
    /\ deployment' = [c \in Calls |-> "none"]
    /\ UNCHANGED <<ledger, row, owner, answer, history>>

ProfileStep(c) ==
    \/ ExistsAnswers(c) \/ ReadFails(c) \/ LatestAnswers(c)
    \/ DeployFinds(c) \/ DeployMissing(c) \/ Loads(c) \/ OperationReadFails(c)
    \/ Sends(c) \/ SendFails(c) \/ PollConfirms(c) \/ GivesUp(c) \/ DeployChecks(c)
    \/ BalanceAnswers(c) \/ BalanceFails(c)
ScopeStep(c) ==
    \/ ScopeExistsAnswers(c) \/ ScopeFails(c) \/ JoinedEnds(c)
    \/ HydrateCounts(c) \/ HydrateReads(c) \/ HydrateFails(c)

Next ==
    \/ \E c \in Calls, o \in Owners : BeginProfile(c, o) \/ BeginScope(c, o)
    \/ \E c \in Calls : ProfileStep(c) \/ ScopeStep(c)
    \/ \E c \in Calls : Execute(c) \/ ExecuteFails(c)
    \/ \E o \in Owners : Spend(o)
    \/ OtherTransaction
    \/ Restart

\* Every remote call of the process ends, by an answer or a rejection, and a poll
\* ends after 60 s.  Nothing is owed by wallets, the ledger or the operator.
Spec == Init /\ [][Next]_vars /\ \A c \in Calls : WF_vars(ProfileStep(c) \/ ScopeStep(c))

-----------------------------------------------------------------------------
(* Properties. *)

\* An owner who has been answered after a deployment is not told "not onboarded" by
\* a later request for its scope, though an older creation of the scope, which
\* read the ledger before the deployment, may still be pending.
OnboardedOwnerIsServed == \A c \in promised : answer[c] # "notOnboarded"

\* A scope in the cache is being created or has been created: a failure does not
\* lock the owner out until the next restart.
FailedScopeIsNotCached ==
    \A o \in Owners : scopes[o] # None /\ pc[scopes[o]] = "done" => answer[scopes[o]] = "served"

\* What a cached profile says of the ledger is true: the treasury exists, by the
\* transaction it names, and was funded by the transaction it names.
ProfileIsTrue ==
    \A o \in Owners : profiles[o].exists =>
        /\ deployed[o]
        /\ profiles[o].deployment # None => <<"deploy", profiles[o].deployment>> \in executed
        /\ profiles[o].funding # None => <<"fund", profiles[o].funding>> \in executed

\* A served scope lists the initial allowance, also when the process died or the
\* call failed between the deployment and putInitialRecord, unless a read of the
\* owner's rules has failed.
InitialAllowanceIsListed ==
    \A c \in Calls : answer[c] = "served" /\ owner[c] \notin unread => row[owner[c]] # "none"

\* A treasury that was never read with another funding under way holds no more
\* than the target, across restarts, spending, and transactions given up.
LoneFundingReachesTarget == \A o \in Owners \ overlapped : balance[o] <= Target

\* An operation of the sponsor's account does not wait for ever, whatever becomes
\* of the operations before it.
QueueMoves == \A c \in Calls : (pc[c] \in Queued) ~> (pc[c] \notin Queued)
=============================================================================
