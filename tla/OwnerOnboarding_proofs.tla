------------------------ MODULE OwnerOnboarding_proofs ------------------------
(***************************************************************************)
(* For any number of owners, calls and restarts: a cached profile is true, *)
(* a failed scope is not cached, an onboarded owner is served, and a       *)
(* served scope lists the initial allowance.  None of it rests on the      *)
(* queue: what a call has read stays true because deployments and executed *)
(* transactions are never undone.                                          *)
(*                                                                         *)
(* Of the sponsor: the queue holds every unsettled operation once and runs *)
(* its first alone, and a treasury whose fundings do not overlap holds no  *)
(* more than the target.                                                   *)
(***************************************************************************)
EXTENDS OwnerOnboarding, TLAPS

Places == Awaits \cup {"new", "done", "lost"}
ProfilePlaces == Queued \cup {"profileExists", "onboardExists", "latest", "balance"}
ScopePlaces == {"scopeExists", "scopeMissing", "hydrateCount", "hydrateRead"}
Profiles == [exists : BOOLEAN, deployment : Calls \cup {None}, funding : Calls \cup {None}]
Transactions == [of : Operations, amount : Nat, state : TxStates]
Made == {"none", "found", "created"}
Answers == {"none", "notOnboarded", "failed", "served"}

TypeInv ==
    /\ deployed \in [Owners -> BOOLEAN] /\ balance \in [Owners -> Nat]
    /\ row \in [Owners -> {"none", "created", "hydrated"}]
    /\ profiles \in [Owners -> Profiles] /\ scopes \in [Owners -> Calls \cup {None}]
    /\ owner \in [Calls -> Owners \cup {0}] /\ pc \in [Calls -> Places]
    /\ joined \in [Calls -> Calls \cup {None}]
    /\ deployment \in [Calls -> Made]
    /\ tx \in [Calls -> Transactions]
    /\ answer \in [Calls -> Answers]

\* A call that has begun has an owner; one that has not ended has no answer.
CallInv ==
    \A c \in Calls : /\ pc[c] # "new" => owner[c] \in Owners
                     /\ pc[c] = "new" => tx[c] = NoTx
                     /\ pc[c] # "done" => answer[c] = "none"

\* What a call has found or done on the ledger is still so.
OperationAt(c) ==
    /\ pc[c] \in {"balance", "fundQueued", "fundSend", "fundPoll", "deployCheck"} => deployed[owner[c]]
    /\ deployment[c] = "created" \/ pc[c] = "deployCheck" => <<"deploy", c>> \in executed
    /\ tx[c].state = "executed" => <<tx[c].of, c>> \in executed
    /\ pc[c] \in {"deploySend", "deployPoll"} => tx[c].of = "deploy"
    /\ pc[c] \in {"fundSend", "fundPoll"} => tx[c].of = "fund"
    /\ <<"deploy", c>> \in executed => deployed[owner[c]] /\ pc[c] # "new"
OperationInv == \A c \in Calls : OperationAt(c)

\* A cached scope is its owner's, and on its way or served.
ScopeInv ==
    \A o \in Owners : scopes[o] # None =>
        /\ owner[scopes[o]] = o
        /\ \/ pc[scopes[o]] \in ScopePlaces
           \/ pc[scopes[o]] = "done" /\ answer[scopes[o]] = "served"

\* No cached scope of a welcomed owner has missed the treasury.
WelcomeInv ==
    \A o \in welcomed : /\ o \in Owners /\ deployed[o]
                        /\ scopes[o] # None => pc[scopes[o]] # "scopeMissing"

JoinedInv ==
    \A c \in Calls : pc[c] = "joined" => /\ joined[c] \in Calls /\ pc[joined[c]] # "new"
                                         /\ owner[joined[c]] = owner[c]

\* Such a call of a welcomed owner cannot end as "notOnboarded".
Serving(c) ==
    /\ pc[c] \in {"scopeExists", "hydrateCount", "hydrateRead", "done", "lost"}
    /\ answer[c] # "notOnboarded"
PromiseInv ==
    \A c \in promised : /\ c \in Calls /\ owner[c] \in welcomed
                        /\ Serving(c) \/ (pc[c] = "joined" /\ Serving(joined[c]))

IInv ==
    /\ TypeInv /\ CallInv /\ OperationInv
    /\ ProfileIsTrue /\ InitialAllowanceIsListed
    /\ ScopeInv /\ WelcomeInv /\ JoinedInv /\ PromiseInv

-----------------------------------------------------------------------------
\* The absent call is none of the calls.
LEMMA NoneIsNoCall == None \notin Calls
BY OnboardingAssumption DEF Calls

\* No transaction is a record like the others.
LEMMA NoTxTyped == NoTx \in Transactions
BY DEF NoTx, Transactions, Operations, TxStates

\* Nothing has been called, and nothing is cached.
LEMMA InitEstablishes == Init => IInv
<1> SUFFICES ASSUME Init PROVE IInv
    OBVIOUS
<1> USE DEF Init
<1>1. TypeInv
    BY NoTxTyped DEF TypeInv, Places, Profiles, NoProfile, Made, Answers
<1>2. CallInv /\ OperationInv
    BY DEF CallInv, OperationInv, OperationAt, NoTx
<1>3. ProfileIsTrue /\ InitialAllowanceIsListed
    BY DEF ProfileIsTrue, InitialAllowanceIsListed, NoProfile
<1>4. ScopeInv /\ WelcomeInv /\ JoinedInv /\ PromiseInv
    BY DEF ScopeInv, WelcomeInv, JoinedInv, PromiseInv
<1> QED
    BY <1>1, <1>2, <1>3, <1>4 DEF IInv

-----------------------------------------------------------------------------
(* What the steps of profile calls and of the ledger leave true of scopes.     *)

\* They take no scope call further, and forget a scope when they welcome its owner.
LEMMA ScopeFrame ==
    ASSUME IInv, TypeInv',
           UNCHANGED <<owner, joined, answer, promised, unread>>,
           welcomed \subseteq welcomed',
           \A o \in Owners : deployed[o] => deployed'[o],
           \A o \in Owners : row[o] # "none" => row'[o] # "none",
           \A o \in Owners : scopes'[o] = scopes[o] \/ scopes'[o] = None,
           \A o \in welcomed' \ welcomed : o \in Owners /\ deployed'[o] /\ scopes'[o] = None,
           \A d \in Calls : \/ pc'[d] = pc[d]
                            \/ pc[d] \in ProfilePlaces /\ pc'[d] \in ProfilePlaces \cup {"done"}
    PROVE  ScopeInv' /\ WelcomeInv' /\ JoinedInv' /\ PromiseInv' /\ InitialAllowanceIsListed'
<1> USE NoneIsNoCall
<1>1. \A d \in Calls : pc[d] \notin ProfilePlaces => pc'[d] = pc[d]
    OBVIOUS
<1>2. \A o \in Owners : scopes[o] # None => scopes[o] \in Calls
    BY DEF IInv, TypeInv
<1>3. ScopeInv'
    BY <1>1, <1>2 DEF IInv, ScopeInv, ScopePlaces, ProfilePlaces, Queued
<1>4. WelcomeInv'
    <2>1. ASSUME NEW o \in welcomed PROVE scopes'[o] # None => pc'[scopes'[o]] # "scopeMissing"
        BY <1>2 DEF IInv, WelcomeInv, ProfilePlaces, Queued
    <2> QED
        BY <2>1 DEF IInv, WelcomeInv
<1>5. JoinedInv'
    BY DEF IInv, JoinedInv, ProfilePlaces, Queued
<1>6. \A d \in Calls : Serving(d) => Serving(d)'
    BY <1>1 DEF Serving, ProfilePlaces, Queued
<1>7. PromiseInv'
    BY <1>1, <1>6 DEF IInv, PromiseInv, JoinedInv, ProfilePlaces, Queued
<1>8. InitialAllowanceIsListed'
    <2>1. \A c \in Calls : answer[c] = "served" => owner[c] \in Owners
        BY DEF IInv, CallInv
    <2> QED
        BY <2>1 DEF IInv, InitialAllowanceIsListed
<1> QED
    BY <1>3, <1>4, <1>5, <1>7, <1>8

\* A call of ownerProfile or onboardOwner goes on, or ends without touching a cache.
LEMMA CallMoves ==
    ASSUME IInv, NEW c \in Calls, pc[c] \in ProfilePlaces,
           NEW place \in ProfilePlaces \cup {"done"}, pc' = [pc EXCEPT ![c] = place],
           UNCHANGED <<ledger, row, caches, owner, joined, answer, welcomed, promised, unread>>,
           tx' \in [Calls -> Transactions], \A d \in Calls \ {c} : tx'[d] = tx[d],
           deployment' \in [Calls -> Made], \A d \in Calls \ {c} : deployment'[d] = deployment[d],
           OperationAt(c)'
    PROVE  IInv'
<1>1. TypeInv'
    BY DEF IInv, TypeInv, ledger, caches, ProfilePlaces, Places, Awaits
<1>2. CallInv'
    BY DEF IInv, TypeInv, CallInv, ProfilePlaces, Queued
<1>3. OperationInv'
    BY DEF IInv, TypeInv, OperationInv, OperationAt, ledger
<1>4. ProfileIsTrue'
    BY DEF IInv, ProfileIsTrue, ledger, caches
<1>5. ScopeInv' /\ WelcomeInv' /\ JoinedInv' /\ PromiseInv' /\ InitialAllowanceIsListed'
    BY <1>1, ScopeFrame DEF IInv, TypeInv, ledger, caches
<1> QED
    BY <1>1, <1>2, <1>3, <1>4, <1>5 DEF IInv

\* A call of them ends with a profile: what it found and did is on the ledger.
LEMMA CallReturns ==
    ASSUME IInv, NEW c \in Calls, pc[c] \in ProfilePlaces, deployed[owner[c]],
           NEW funding \in Calls \cup {None}, NEW error \in BOOLEAN, NEW made \in Made,
           funding # None => <<"fund", funding>> \in executed,
           made = "created" => <<"deploy", c>> \in executed,
           pc' = [pc EXCEPT ![c] = "done"],
           ProfileEnds(c, funding, error) \/ OnboardEnds(c, made, funding),
           UNCHANGED <<ledger, owner, joined, answer, promised, unread>>,
           tx' \in [Calls -> Transactions], \A d \in Calls \ {c} : tx'[d] = tx[d],
           tx'[c].state = "executed" => <<tx'[c].of, c>> \in executed,
           deployment' \in [Calls -> Made], \A d \in Calls \ {c} : deployment'[d] = deployment[d],
           deployment'[c] = "created" => <<"deploy", c>> \in executed
    PROVE  IInv'
<1> DEFINE o == owner[c]
<1>1. o \in Owners
    BY DEF IInv, CallInv, ProfilePlaces, Queued
<1>2. \/ profiles' = profiles
      \/ \E p \in Profiles : /\ profiles' = [profiles EXCEPT ![o] = p]
                             /\ p.funding = funding
                             /\ p.deployment # None => p.deployment = c /\ made = "created"
    <2> DEFINE found == [exists |-> TRUE, deployment |-> None, funding |-> funding]
               created == [exists |-> TRUE, funding |-> funding,
                           deployment |-> IF made = "created" THEN c ELSE None]
    <2>1. found \in Profiles /\ created \in Profiles
        BY DEF Profiles
    <2>2. CASE ProfileEnds(c, funding, error)
        BY <2>1, <2>2 DEF ProfileEnds
    <2>3. CASE OnboardEnds(c, made, funding)
        <3>1. profiles' = [profiles EXCEPT ![o] = created]
            BY <2>3 DEF OnboardEnds
        <3>2. created.funding = funding /\ (created.deployment # None => created.deployment = c /\ made = "created")
            OBVIOUS
        <3> HIDE DEF created
        <3> QED
            BY <2>1, <3>1, <3>2
    <2> QED
        BY <2>2, <2>3
<1>3. \/ UNCHANGED <<row, scopes, welcomed>>
      \/ /\ scopes' = [scopes EXCEPT ![o] = None] /\ welcomed' = welcomed \cup {o}
         /\ row' = row \/ row' = [row EXCEPT ![o] = "created"]
    BY DEF ProfileEnds, OnboardEnds, ForgetScope
<1>4. profiles' \in [Owners -> Profiles]
    BY <1>1, <1>2 DEF IInv, TypeInv
<1>5. row' \in [Owners -> {"none", "created", "hydrated"}] /\ scopes' \in [Owners -> Calls \cup {None}]
    BY <1>1, <1>3 DEF IInv, TypeInv
<1>6. TypeInv'
    BY <1>4, <1>5 DEF IInv, TypeInv, ledger, Places
<1>7. CallInv'
    BY DEF IInv, TypeInv, CallInv, ProfilePlaces, Queued
<1>8. OperationInv'
    BY DEF IInv, TypeInv, OperationInv, OperationAt, ledger
<1>9. ProfileIsTrue'
    BY <1>1, <1>2 DEF IInv, TypeInv, ProfileIsTrue, ledger
<1>10. \A q \in Owners : scopes'[q] = scopes[q] \/ scopes'[q] = None
    BY <1>1, <1>3 DEF IInv, TypeInv
<1>11. \A q \in Owners : row[q] # "none" => row'[q] # "none"
    BY <1>1, <1>3 DEF IInv, TypeInv
<1>12. welcomed \subseteq welcomed' /\ \A q \in welcomed' \ welcomed : q = o /\ scopes'[q] = None
    BY <1>1, <1>3 DEF IInv, TypeInv
<1>13. ScopeInv' /\ WelcomeInv' /\ JoinedInv' /\ PromiseInv' /\ InitialAllowanceIsListed'
    BY <1>1, <1>6, <1>10, <1>11, <1>12, ScopeFrame DEF IInv, TypeInv, ledger
<1> QED
    BY <1>6, <1>7, <1>8, <1>9, <1>13 DEF IInv

\* The end of the funding, for either of them.
LEMMA FundingReturns ==
    ASSUME IInv, NEW c \in Calls, pc[c] \in {"balance", "fundQueued", "fundSend", "fundPoll"},
           NEW funding \in Calls \cup {None}, NEW error \in BOOLEAN,
           funding # None => <<"fund", funding>> \in executed,
           FundingEnds(c, funding, error),
           tx' \in [Calls -> Transactions], \A d \in Calls \ {c} : tx'[d] = tx[d],
           tx'[c].state = "executed" => <<tx'[c].of, c>> \in executed
    PROVE  IInv'
<1>1. deployed[owner[c]] /\ (deployment[c] = "created" => <<"deploy", c>> \in executed)
    BY DEF IInv, OperationInv, OperationAt
<1>2. pc' = [pc EXCEPT ![c] = "done"] /\ answer' = answer
    BY DEF FundingEnds, Returns, Goto
<1>3. ProfileEnds(c, funding, error) \/ OnboardEnds(c, deployment[c], funding)
    BY DEF FundingEnds
<1>4. UNCHANGED <<ledger, owner, joined, promised, unread>>
    BY DEF FundingEnds, locals
<1>5. /\ deployment' \in [Calls -> Made] /\ deployment'[c] # "created"
      /\ \A d \in Calls \ {c} : deployment'[d] = deployment[d]
    BY DEF FundingEnds, IInv, TypeInv, Made
<1>6. pc[c] \in ProfilePlaces /\ deployment[c] \in Made
    BY DEF ProfilePlaces, Queued, IInv, TypeInv
<1> QED
    BY <1>1, <1>2, <1>3, <1>4, <1>5, <1>6, CallReturns

\* serializeSource's operation rejects.
LEMMA RejectionReturns ==
    ASSUME IInv, NEW c \in Calls, pc[c] \in Queued, OperationRejects(c),
           tx' \in [Calls -> Transactions], \A d \in Calls \ {c} : tx'[d] = tx[d],
           tx'[c].state # "executed"
    PROVE  IInv'
<1>1. CASE pc[c] \in {"fundQueued", "fundSend", "fundPoll"}
    BY <1>1, FundingReturns DEF OperationRejects
<1>2. CASE pc[c] \notin {"fundQueued", "fundSend", "fundPoll"}
    <2>1. /\ pc' = [pc EXCEPT ![c] = "done"] /\ UNCHANGED <<answer, deployment>>
          /\ UNCHANGED <<ledger, row, caches, owner, joined, welcomed, promised, unread>>
        BY <1>2 DEF OperationRejects, Returns, Goto, locals
    <2>2. OperationAt(c)'
        BY <2>1 DEF IInv, TypeInv, OperationInv, OperationAt, ledger
    <2> QED
        BY <2>1, <2>2, CallMoves DEF IInv, TypeInv, ProfilePlaces
<1> QED
    BY <1>1, <1>2

-----------------------------------------------------------------------------
(* The steps of profile calls. *)

\* A call that begins has no transaction and no answer.
LEMMA BeginProfilePreserves ==
    ASSUME IInv, NEW c \in Calls, NEW o \in Owners, BeginProfile(c, o)
    PROVE  IInv'
<1>1. /\ pc[c] = "new" /\ owner' = [owner EXCEPT ![c] = o]
      /\ UNCHANGED <<ledger, row, caches, joined, deployment, tx, answer, history>>
    BY DEF BeginProfile, Begins
<1>2. PICK place \in {"profileExists", "onboardExists"} : pc' = [pc EXCEPT ![c] = place]
    BY DEF BeginProfile, Goto
<1>3. TypeInv'
    BY <1>1, <1>2 DEF IInv, TypeInv, ledger, caches, Places, Awaits
<1>4. CallInv'
    BY <1>1, <1>2 DEF IInv, TypeInv, CallInv
<1>5. OperationInv'
    BY <1>1, <1>2 DEF IInv, TypeInv, OperationInv, OperationAt, ledger
<1>6. ProfileIsTrue'
    BY <1>1 DEF IInv, ProfileIsTrue, ledger, caches
<1>7. InitialAllowanceIsListed'
    BY <1>1 DEF IInv, TypeInv, CallInv, InitialAllowanceIsListed, history
<1>8. ScopeInv' /\ WelcomeInv'
    BY <1>1, <1>2, NoneIsNoCall DEF IInv, TypeInv, ScopeInv, WelcomeInv, ScopePlaces, ledger, caches, history
<1>9. JoinedInv'
    BY <1>1, <1>2 DEF IInv, TypeInv, JoinedInv
<1>10. PromiseInv'
    BY <1>1, <1>2 DEF IInv, TypeInv, JoinedInv, PromiseInv, Serving, history
<1> QED
    BY <1>3, <1>4, <1>5, <1>6, <1>7, <1>8, <1>9, <1>10 DEF IInv

\* The reads before the queue.
LEMMA ReadsPreserve ==
    ASSUME IInv, NEW c \in Calls,
           ExistsAnswers(c) \/ ReadFails(c) \/ LatestAnswers(c) \/ DeployMissing(c)
    PROVE  IInv'
<1>1. UNCHANGED <<ledger, row, caches, owner, joined, answer, tx, deployment, welcomed, promised, unread>>
    BY DEF ExistsAnswers, ReadFails, LatestAnswers, DeployMissing, Returns, locals, history
<1>2. PICK place \in {"done", "balance", "latest", "deployQueued", "deployLoad"} :
            /\ pc' = [pc EXCEPT ![c] = place]
            /\ place = "balance" => deployed[owner[c]]
    BY DEF ExistsAnswers, ReadFails, LatestAnswers, DeployMissing, Enqueue, Returns, Goto
<1>3. pc[c] \in ProfilePlaces
    BY DEF ExistsAnswers, ReadFails, LatestAnswers, DeployMissing, ProfilePlaces, Queued
<1>4. OperationAt(c)'
    BY <1>1, <1>2 DEF IInv, TypeInv, OperationInv, OperationAt, ledger
<1>5. place \in ProfilePlaces \cup {"done"}
    BY <1>2 DEF ProfilePlaces, Queued
<1> QED
    BY <1>1, <1>2, <1>3, <1>4, <1>5, CallMoves DEF IInv, TypeInv

\* loadAccount, and the transaction handed over.
LEMMA LoadsPreserves ==
    ASSUME IInv, NEW c \in Calls, Loads(c)
    PROVE  IInv'
<1>1. PICK of \in {"deploy", "fund"}, place \in {"deploySend", "fundSend"} :
        /\ pc' = [pc EXCEPT ![c] = place] /\ (of = "deploy" <=> place = "deploySend")
        /\ tx'[c] \in Transactions /\ tx'[c].of = of /\ tx'[c].state = "loaded"
        /\ tx' = [tx EXCEPT ![c] = tx'[c]]
        /\ of = "fund" => deployed[owner[c]]
    <2>1. CASE pc[c] = "deployLoad"
        BY <2>1 DEF Loads, Goto, IInv, TypeInv, Transactions, Operations, TxStates
    <2>2. CASE pc[c] = "fundQueued"
        <3> DEFINE loaded == [tx[c] EXCEPT !.of = "fund", !.state = "loaded"]
        <3>1. tx[c] \in Transactions /\ deployed[owner[c]]
            BY <2>2 DEF IInv, TypeInv, OperationInv, OperationAt
        <3>2. loaded \in Transactions /\ loaded.of = "fund" /\ loaded.state = "loaded"
            BY <3>1 DEF Transactions, Operations, TxStates
        <3>3. tx' = [tx EXCEPT ![c] = loaded] /\ pc' = [pc EXCEPT ![c] = "fundSend"]
            BY <2>2 DEF Loads, Goto
        <3> HIDE DEF loaded
        <3>4. tx'[c] = loaded
            BY <3>3 DEF IInv, TypeInv
        <3> QED
            BY <3>1, <3>2, <3>3, <3>4
    <2> QED
        BY <2>1, <2>2 DEF Loads
<1>2. UNCHANGED <<ledger, row, caches, owner, joined, answer, deployment, welcomed, promised, unread>>
    BY DEF Loads, locals, history
<1>3. pc[c] \in ProfilePlaces /\ place \in ProfilePlaces
    BY <1>1 DEF Loads, ProfilePlaces, Queued
<1>4. OperationAt(c)'
    BY <1>1, <1>2 DEF IInv, TypeInv, OperationInv, OperationAt, ledger
<1>5. tx' \in [Calls -> Transactions] /\ \A d \in Calls \ {c} : tx'[d] = tx[d]
    BY <1>1 DEF IInv, TypeInv
<1> QED
    BY <1>1, <1>2, <1>3, <1>4, <1>5, CallMoves DEF IInv, TypeInv

\* A transaction in another state is a transaction.
LEMMA TxMoves ==
    ASSUME IInv, NEW c \in Calls, NEW state \in TxStates,
           tx' = [tx EXCEPT ![c].state = state]
    PROVE  /\ tx' \in [Calls -> Transactions] /\ \A d \in Calls \ {c} : tx'[d] = tx[d]
           /\ tx'[c].of = tx[c].of /\ tx'[c].state = state
<1>1. [tx[c] EXCEPT !.state = state] \in Transactions
    BY DEF IInv, TypeInv, Transactions
<1> QED
    BY <1>1 DEF IInv, TypeInv, Transactions

\* A transaction nobody waits for any more.
LEMMA TxForgotten ==
    ASSUME IInv, NEW c \in Calls, tx' = [tx EXCEPT ![c] = NoTx]
    PROVE  /\ tx' \in [Calls -> Transactions] /\ \A d \in Calls \ {c} : tx'[d] = tx[d]
           /\ tx'[c].state = "none"
BY NoTxTyped DEF IInv, TypeInv, NoTx

\* submitPreparedTransaction hands it over.
LEMMA SendsPreserves ==
    ASSUME IInv, NEW c \in Calls, Sends(c)
    PROVE  IInv'
<1>1. tx' \in [Calls -> Transactions] /\ (\A d \in Calls \ {c} : tx'[d] = tx[d])
      /\ tx'[c].of = tx[c].of /\ tx'[c].state = "sent"
    BY TxMoves DEF Sends, TxStates
<1>2. UNCHANGED <<ledger, row, caches, owner, joined, answer, deployment, welcomed, promised, unread>>
    BY DEF Sends, locals, history
<1>3. PICK place \in {"deployPoll", "fundPoll"} :
        /\ pc' = [pc EXCEPT ![c] = place]
        /\ IF place = "deployPoll" THEN pc[c] = "deploySend" ELSE pc[c] = "fundSend"
    BY DEF Sends, Goto
<1>4. pc[c] \in ProfilePlaces /\ place \in ProfilePlaces
    BY <1>3 DEF ProfilePlaces, Queued
<1>5. OperationAt(c)'
    BY <1>1, <1>2, <1>3 DEF IInv, TypeInv, OperationInv, OperationAt, ledger
<1> QED
    BY <1>1, <1>2, <1>3, <1>4, <1>5, CallMoves DEF IInv, TypeInv

\* The ways in which an operation rejects; a transaction that is still in flight stays.
LEMMA RejectionsPreserve ==
    ASSUME IInv, NEW c \in Calls, OperationReadFails(c) \/ SendFails(c) \/ GivesUp(c)
    PROVE  IInv'
<1>1. pc[c] \in Queued /\ OperationRejects(c)
    BY DEF OperationReadFails, SendFails, GivesUp, Queued
<1>2. \/ tx' = tx /\ tx[c].state = "sent"
      \/ tx' = [tx EXCEPT ![c] = NoTx]
      \/ tx' = [tx EXCEPT ![c].state = "sent"]
    BY DEF OperationReadFails, SendFails, GivesUp
<1>3. CASE tx' = tx /\ tx[c].state = "sent"
    BY <1>1, <1>3, RejectionReturns DEF IInv, TypeInv
<1>4. CASE tx' = [tx EXCEPT ![c] = NoTx]
    BY <1>1, <1>4, TxForgotten, RejectionReturns
<1>5. CASE tx' = [tx EXCEPT ![c].state = "sent"]
    <2>1. "sent" \in TxStates
        BY DEF TxStates
    <2> QED
        BY <1>1, <1>5, <2>1, TxMoves, RejectionReturns
<1> QED
    BY <1>2, <1>3, <1>4, <1>5

\* deployDeterministicTreasury settles with a treasury that exists.
LEMMA DeployedPreserves ==
    ASSUME IInv, NEW c \in Calls, pc[c] \in Queued, NEW made \in {"found", "created"},
           deployed[owner[c]], made = "created" => <<"deploy", c>> \in executed,
           Deployed(c, made)
    PROVE  IInv'
<1>1. pc[c] \in ProfilePlaces
    BY DEF ProfilePlaces
<1>2. UNCHANGED <<ledger, owner, joined, tx, promised, unread>>
    BY DEF Deployed, locals
<1>3. CASE Target > 0
    <2>1. /\ pc' = [pc EXCEPT ![c] = "balance"] /\ deployment' = [deployment EXCEPT ![c] = made]
          /\ UNCHANGED <<row, caches, answer, welcomed>>
        BY <1>3 DEF Deployed, Goto
    <2>2. OperationAt(c)'
        BY <1>2, <2>1 DEF IInv, TypeInv, OperationInv, OperationAt, ledger
    <2>3. "balance" \in ProfilePlaces
        BY DEF ProfilePlaces
    <2>4. deployment' \in [Calls -> Made] /\ \A d \in Calls \ {c} : deployment'[d] = deployment[d]
        BY <2>1 DEF IInv, TypeInv, Made
    <2> QED
        BY <1>1, <1>2, <2>1, <2>2, <2>3, <2>4, CallMoves DEF IInv, TypeInv
<1>4. CASE Target = 0
    <2>1. /\ pc' = [pc EXCEPT ![c] = "done"] /\ UNCHANGED <<answer, deployment>>
          /\ OnboardEnds(c, made, None)
        BY <1>4 DEF Deployed, Returns, Goto
    <2>2. /\ deployment[c] = "created" => <<"deploy", c>> \in executed
          /\ tx[c].state = "executed" => <<tx[c].of, c>> \in executed
        BY DEF IInv, OperationInv, OperationAt
    <2> QED
        BY <1>1, <1>2, <2>1, <2>2, CallReturns DEF IInv, TypeInv, Made
<1> QED
    BY <1>3, <1>4 DEF Deployed

\* It finds the treasury; or it reads that the contract it created is there.
LEMMA DeploySettles ==
    ASSUME IInv, NEW c \in Calls, DeployFinds(c) \/ DeployChecks(c)
    PROVE  IInv'
<1>1. CASE DeployFinds(c)
    BY <1>1, DeployedPreserves DEF DeployFinds, Queued
<1>2. CASE DeployChecks(c)
    <2>1. deployed[owner[c]] /\ <<"deploy", c>> \in executed
        BY <1>2 DEF DeployChecks, IInv, OperationInv, OperationAt
    <2> QED
        BY <1>2, <2>1, DeployedPreserves DEF DeployChecks, Queued
<1> QED
    BY <1>1, <1>2

\* The transaction has executed: the contract exists, or the funding is on the ledger.
LEMMA PollConfirmsPreserves ==
    ASSUME IInv, NEW c \in Calls, PollConfirms(c)
    PROVE  IInv'
<1>1. /\ tx' \in [Calls -> Transactions] /\ (\A d \in Calls \ {c} : tx'[d] = tx[d])
      /\ tx'[c].state = "none"
    BY TxForgotten DEF PollConfirms
<1>2. <<tx[c].of, c>> \in executed
    BY DEF PollConfirms, IInv, OperationInv, OperationAt
<1>3. CASE pc[c] = "deployPoll"
    <2>1. <<"deploy", c>> \in executed /\ deployed[owner[c]]
        BY <1>2, <1>3 DEF IInv, OperationInv, OperationAt
    <2>2. /\ pc' = [pc EXCEPT ![c] = "deployCheck"]
          /\ UNCHANGED <<ledger, row, caches, owner, joined, answer, deployment, welcomed, promised, unread>>
        BY <1>3 DEF PollConfirms, Goto, locals, history
    <2>3. OperationAt(c)'
        BY <1>1, <2>1, <2>2 DEF IInv, TypeInv, OperationAt, ledger
    <2>4. pc[c] \in ProfilePlaces /\ "deployCheck" \in ProfilePlaces
        BY <1>3 DEF ProfilePlaces, Queued
    <2> QED
        BY <1>1, <2>2, <2>3, <2>4, CallMoves DEF IInv, TypeInv
<1>4. CASE pc[c] = "fundPoll"
    <2>1. <<"fund", c>> \in executed
        BY <1>2, <1>4 DEF IInv, OperationInv, OperationAt
    <2>2. FundingEnds(c, c, FALSE)
        BY <1>4 DEF PollConfirms
    <2> QED
        BY <1>1, <1>4, <2>1, <2>2, FundingReturns
<1> QED
    BY <1>3, <1>4 DEF PollConfirms

\* The balance was read, or could not be: a funding is queued, or the call ends.
LEMMA BalancePreserves ==
    ASSUME IInv, NEW c \in Calls, BalanceAnswers(c) \/ BalanceFails(c)
    PROVE  IInv'
<1> DEFINE missing == Missing(balance[owner[c]])
<1>1. pc[c] = "balance" /\ pc[c] \in ProfilePlaces /\ deployed[owner[c]] /\ owner[c] \in Owners
    BY DEF BalanceAnswers, BalanceFails, ProfilePlaces, IInv, OperationInv, OperationAt, CallInv
<1>2. missing \in Nat
    BY <1>1, OnboardingAssumption DEF Missing, IInv, TypeInv
<1>3. CASE /\ pc' = [pc EXCEPT ![c] = "fundQueued"]
           /\ tx' = [tx EXCEPT ![c] = [NoTx EXCEPT !.amount = missing]]
           /\ UNCHANGED <<ledger, row, caches, locals, deployment, answer, restarts,
                          welcomed, promised, unread>>
    <2> DEFINE ordered == [NoTx EXCEPT !.amount = missing]
    <2>1. ordered \in Transactions /\ ordered.state = "none"
        BY <1>2 DEF NoTx, Transactions, Operations, TxStates
    <2> HIDE DEF ordered
    <2>2. /\ tx' \in [Calls -> Transactions] /\ (\A d \in Calls \ {c} : tx'[d] = tx[d])
          /\ tx'[c].state = "none"
        BY <1>3, <2>1 DEF IInv, TypeInv, ordered
    <2>3. OperationAt(c)'
        BY <1>1, <1>3, <2>2 DEF IInv, TypeInv, OperationInv, OperationAt, ledger, locals
    <2>4. "fundQueued" \in ProfilePlaces
        BY DEF ProfilePlaces, Queued
    <2> QED
        BY <1>1, <1>3, <2>2, <2>3, <2>4, CallMoves DEF IInv, TypeInv, locals
<1>4. CASE \E error \in BOOLEAN : FundingEnds(c, None, error) /\ tx' = tx
    <2>1. tx[c].state = "executed" => <<tx[c].of, c>> \in executed
        BY DEF IInv, OperationInv, OperationAt
    <2>2. PICK error \in BOOLEAN : FundingEnds(c, None, error)
        BY <1>4
    <2>3. tx' = tx /\ tx \in [Calls -> Transactions]
        BY <1>4 DEF IInv, TypeInv
    <2> QED
        BY <1>1, <2>1, <2>2, <2>3, FundingReturns
<1> QED
    BY <1>3, <1>4 DEF BalanceAnswers, BalanceFails, Enqueue, Goto

-----------------------------------------------------------------------------
(* The ledger. *)

\* The ledger takes a transaction; what it did to calls is in their tx only.
LEMMA LedgerMoves ==
    ASSUME IInv, UNCHANGED <<row, caches, locals, pc, deployment, answer, history>>,
           deployed' \in [Owners -> BOOLEAN], \A o \in Owners : deployed[o] => deployed'[o],
           balance' \in [Owners -> Nat], executed \subseteq executed',
           \A d \in Calls : <<"deploy", d>> \in executed' \ executed => deployed'[owner[d]] /\ pc[d] # "new",
           tx' \in [Calls -> Transactions],
           \A d \in Calls : \/ tx'[d] = tx[d]
                            \/ tx[d] # NoTx /\ pc[d] \in {"done", "lost"} /\ tx'[d] = NoTx
                            \/ /\ tx[d] # NoTx /\ tx'[d].of = tx[d].of
                               /\ tx'[d].state = "executed" => <<tx[d].of, d>> \in executed'
    PROVE  IInv'
<1>1. TypeInv'
    BY DEF IInv, TypeInv, caches, locals
<1>2. CallInv'
    BY DEF IInv, CallInv, locals
<1>3. \A d \in Calls : pc[d] # "new" => owner[d] \in Owners
    BY DEF IInv, CallInv
<1>4. ASSUME NEW d \in Calls PROVE OperationAt(d)'
    <2>1. tx'[d].state = "executed" => <<tx'[d].of, d>> \in executed'
        <3>1. tx[d].state = "executed" => <<tx[d].of, d>> \in executed
            BY DEF IInv, OperationInv, OperationAt
        <3>2. NoTx.state # "executed"
            BY DEF NoTx
        <3> QED
            BY <3>1, <3>2
    <2>2. pc[d] \notin {"done", "lost"} => tx'[d].of = tx[d].of
        OBVIOUS
    <2>3. <<"deploy", d>> \in executed' => deployed'[owner[d]] /\ pc[d] # "new"
        BY <1>3 DEF IInv, OperationInv, OperationAt
    <2> QED
        BY <1>3, <2>1, <2>2, <2>3 DEF IInv, OperationInv, OperationAt, locals
<1>5. ProfileIsTrue'
    BY DEF IInv, ProfileIsTrue, caches
<1>6. ScopeInv' /\ WelcomeInv' /\ JoinedInv' /\ PromiseInv' /\ InitialAllowanceIsListed'
    BY <1>1, ScopeFrame DEF caches, locals, history
<1> QED
    BY <1>1, <1>2, <1>4, <1>5, <1>6 DEF IInv, OperationInv

\* What a transaction becomes is a transaction of the same operation, or forgotten.
LEMMA SpentTyped ==
    ASSUME IInv, NEW d \in Calls, NEW state \in TxStates
    PROVE  /\ Spent(d, state) \in Transactions
           /\ IF pc[d] \in {"done", "lost"} THEN Spent(d, state) = NoTx
              ELSE Spent(d, state).of = tx[d].of /\ Spent(d, state).state = state
<1>1. tx[d].of \in Operations
    BY DEF IInv, TypeInv, Transactions
<1> QED
    BY <1>1, NoTxTyped DEF Spent, Transactions

\* The transactions that lose their sequence number stay transactions.
LEMMA OutdatedTyped ==
    ASSUME IInv, NEW but
    PROVE  /\ Outdated(but) \in [Calls -> Transactions]
           /\ \A d \in Calls : \/ Outdated(but)[d] = tx[d]
                               \/ tx[d] # NoTx /\ Outdated(but)[d] = Spent(d, "failed")
<1>1. \A d \in Calls : Spent(d, "failed") \in Transactions
    <2>1. "failed" \in TxStates
        BY DEF TxStates
    <2> QED
        BY <2>1, SpentTyped
<1>2. \A d \in Calls : tx[d] \in Transactions
    BY DEF IInv, TypeInv
<1>3. \A d \in Calls : tx[d].state \in {"loaded", "sent"} => tx[d] # NoTx
    BY DEF NoTx
<1>4. ASSUME NEW d \in Calls
      PROVE  \/ Outdated(but)[d] = tx[d]
             \/ tx[d] # NoTx /\ Outdated(but)[d] = Spent(d, "failed")
    BY <1>3 DEF Outdated
<1>5. Outdated(but) \in [Calls -> Transactions]
    BY <1>1, <1>2 DEF Outdated
<1> QED
    BY <1>4, <1>5

\* A deployment or a funding executes, or a second deployment fails.
LEMMA ExecutePreserves ==
    ASSUME IInv, NEW c \in Calls, Execute(c)
    PROVE  IInv'
<1> DEFINE o == owner[c]
           succeeds == tx[c].of = "deploy" => ~deployed[o]
           state == IF succeeds THEN "executed" ELSE "failed"
<1>1. c \in InFlight /\ tx[c] # NoTx /\ pc[c] # "new" /\ o \in Owners
    BY DEF Execute, InFlight, NoTx, IInv, CallInv
<1>2. /\ tx' = [Outdated({c}) EXCEPT ![c] = Spent(c, state)]
      /\ executed' = IF succeeds THEN executed \cup {<<tx[c].of, c>>} ELSE executed
      /\ deployed' = [deployed EXCEPT ![o] = TRUE]
      /\ balance' = [balance EXCEPT ![o] = @ + tx[c].amount]
      /\ UNCHANGED <<row, caches, locals, pc, deployment, answer, history>>
    BY DEF Execute
<1>3. deployed' \in [Owners -> BOOLEAN] /\ \A q \in Owners : deployed[q] => deployed'[q]
    BY <1>1, <1>2 DEF IInv, TypeInv
<1>4. balance' \in [Owners -> Nat]
    BY <1>1, <1>2 DEF IInv, TypeInv, Transactions
<1>5. /\ executed \subseteq executed'
      /\ \A d \in Calls : <<"deploy", d>> \in executed' \ executed => deployed'[owner[d]] /\ pc[d] # "new"
    BY <1>1, <1>2 DEF IInv, TypeInv
<1>6. state \in TxStates /\ (state = "executed" => <<tx[c].of, c>> \in executed')
    BY <1>2 DEF TxStates
<1> HIDE DEF state, succeeds
<1>7. tx' \in [Calls -> Transactions] /\ tx'[c] = Spent(c, state)
      /\ \A d \in Calls \ {c} : tx'[d] = Outdated({c})[d]
    BY <1>2, <1>6, OutdatedTyped, SpentTyped
<1>8. ASSUME NEW d \in Calls
      PROVE  \/ tx'[d] = tx[d]
             \/ tx[d] # NoTx /\ pc[d] \in {"done", "lost"} /\ tx'[d] = NoTx
             \/ /\ tx[d] # NoTx /\ tx'[d].of = tx[d].of
                /\ tx'[d].state = "executed" => <<tx[d].of, d>> \in executed'
    <2>1. CASE d = c
        BY <1>1, <1>6, <1>7, <2>1, SpentTyped
    <2>2. CASE d # c
        <3>1. "failed" \in TxStates
            BY DEF TxStates
        <3> QED
            BY <1>7, <2>2, <3>1, SpentTyped, OutdatedTyped
    <2> QED
        BY <2>1, <2>2
<1> QED
    BY <1>2, <1>3, <1>4, <1>5, <1>7, <1>8, LedgerMoves

\* A transaction that fails or is outdated does nothing but that.
LEMMA FailuresPreserve ==
    ASSUME IInv, (\E c \in Calls : ExecuteFails(c)) \/ OtherTransaction
    PROVE  IInv'
<1>1. UNCHANGED <<ledger, row, caches, locals, pc, deployment, answer, history>>
    BY DEF ExecuteFails, OtherTransaction
<1>2. "failed" \in TxStates
    BY DEF TxStates
<1>3. /\ tx' \in [Calls -> Transactions]
      /\ \A d \in Calls : tx'[d] = tx[d] \/ (tx[d] # NoTx /\ tx'[d] = Spent(d, "failed"))
    <2>1. ASSUME NEW c \in Calls, ExecuteFails(c)
          PROVE  /\ tx' \in [Calls -> Transactions]
                 /\ \A d \in Calls : tx'[d] = tx[d] \/ (tx[d] # NoTx /\ tx'[d] = Spent(d, "failed"))
        <3>1. tx[c] # NoTx /\ tx' = [Outdated({c}) EXCEPT ![c] = Spent(c, "failed")]
            BY <2>1 DEF ExecuteFails, InFlight, NoTx
        <3> QED
            BY <1>2, <3>1, SpentTyped, OutdatedTyped
    <2>2. ASSUME OtherTransaction
          PROVE  /\ tx' \in [Calls -> Transactions]
                 /\ \A d \in Calls : tx'[d] = tx[d] \/ (tx[d] # NoTx /\ tx'[d] = Spent(d, "failed"))
        BY <2>2, OutdatedTyped DEF OtherTransaction
    <2> QED
        BY <2>1, <2>2
<1>4. \A d \in Calls : \/ tx'[d] = tx[d]
                       \/ tx[d] # NoTx /\ pc[d] \in {"done", "lost"} /\ tx'[d] = NoTx
                       \/ /\ tx[d] # NoTx /\ tx'[d].of = tx[d].of
                          /\ tx'[d].state = "executed" => <<tx[d].of, d>> \in executed'
    BY <1>2, <1>3, SpentTyped
<1> QED
    BY <1>1, <1>3, <1>4, LedgerMoves DEF ledger, IInv, TypeInv

\* The treasury pays.
LEMMA SpendPreserves ==
    ASSUME IInv, NEW o \in Owners, Spend(o)
    PROVE  IInv'
<1>1. balance' \in [Owners -> Nat]
    BY DEF Spend, IInv, TypeInv
<1> QED
    BY <1>1, LedgerMoves DEF Spend, IInv, TypeInv

-----------------------------------------------------------------------------
(* The steps of scope calls. *)

\* What a scope call's step leaves alone stays true: nothing of the ledger and of the
\* profiles changes, and the call stays away from the awaits of an operation.
LEMMA ProfileFrame ==
    ASSUME IInv, NEW c \in Calls, NEW place \in ScopePlaces \cup {"joined", "done"},
           pc' = [pc EXCEPT ![c] = place], UNCHANGED <<ledger, profiles, tx, deployment>>,
           \A d \in Calls : pc[d] # "new" => owner'[d] = owner[d]
    PROVE  OperationInv' /\ ProfileIsTrue'
<1>1. OperationInv'
    BY DEF IInv, TypeInv, OperationInv, OperationAt, ScopePlaces, ledger
<1>2. ProfileIsTrue'
    BY DEF IInv, ProfileIsTrue, ledger
<1> QED
    BY <1>1, <1>2

\* A scope that is new in the cache has missed nothing yet; one that is joined is not
\* missing its treasury if its owner is welcome.
LEMMA BeginScopePreserves ==
    ASSUME IInv, NEW c \in Calls, NEW o \in Owners, BeginScope(c, o)
    PROVE  IInv'
<1> USE NoneIsNoCall
<1>1. /\ pc[c] = "new" /\ answer[c] = "none" /\ owner' = [owner EXCEPT ![c] = o]
      /\ UNCHANGED <<ledger, row, profiles, deployment, tx, answer, welcomed, unread>>
      /\ promised' = IF o \in welcomed THEN promised \cup {c} ELSE promised
    BY DEF BeginScope, Begins, IInv, CallInv
<1>2. \A d \in Calls : pc[d] # "new" => owner'[d] = owner[d]
    BY <1>1 DEF IInv, TypeInv
<1>3. \A q \in Owners : scopes[q] # None =>
            scopes[q] \in Calls /\ scopes[q] # c /\ owner[scopes[q]] = q
    BY <1>1 DEF IInv, TypeInv, ScopeInv, ScopePlaces
<1>4. CASE scopes[o] # None
    <2>1. /\ joined' = [joined EXCEPT ![c] = scopes[o]] /\ pc' = [pc EXCEPT ![c] = "joined"]
          /\ scopes' = scopes
        BY <1>4 DEF BeginScope, Goto
    <2>2. TypeInv' /\ CallInv'
        BY <1>1, <1>3, <1>4, <2>1 DEF IInv, TypeInv, CallInv, ledger, Places, Awaits
    <2>3. OperationInv' /\ ProfileIsTrue'
        BY <1>1, <1>2, <2>1, ProfileFrame
    <2>4. ScopeInv' /\ WelcomeInv'
        BY <1>1, <1>2, <1>3, <2>1 DEF IInv, TypeInv, ScopeInv, WelcomeInv, ScopePlaces, ledger
    <2>5. pc[scopes[o]] # "new"
        BY <1>4 DEF IInv, ScopeInv, ScopePlaces
    <2>6. JoinedInv'
        BY <1>1, <1>2, <1>3, <1>4, <2>1, <2>5 DEF IInv, TypeInv, JoinedInv
    <2>7. o \in welcomed => Serving(scopes[o])
        BY <1>3, <1>4 DEF IInv, TypeInv, CallInv, ScopeInv, WelcomeInv, Serving, ScopePlaces
    <2>8. \A d \in Calls : Serving(d) => d # c /\ Serving(d)'
        BY <1>1, <2>1 DEF Serving, IInv, TypeInv
    <2>9. PromiseInv'
        <3>1. ASSUME NEW d \in promised, d # c
              PROVE  /\ owner'[d] \in welcomed'
                     /\ Serving(d)' \/ (pc'[d] = "joined" /\ Serving(joined[d])' /\ joined'[d] = joined[d])
            BY <1>1, <1>2, <2>1, <2>8, <3>1 DEF IInv, TypeInv, PromiseInv, JoinedInv, Serving
        <3>2. c \notin promised
            BY <1>1 DEF IInv, PromiseInv, Serving
        <3>3. o \in welcomed => pc'[c] = "joined" /\ Serving(joined[c])'
            <4>1. joined'[c] = scopes[o] /\ pc'[c] = "joined"
                BY <2>1 DEF IInv, TypeInv
            <4> QED
                BY <1>3, <1>4, <2>7, <2>8, <4>1 DEF Serving
        <3>4. ASSUME NEW d \in promised'
              PROVE  /\ d \in Calls /\ owner'[d] \in welcomed'
                     /\ Serving(d)' \/ (pc'[d] = "joined" /\ Serving(joined[d])')
            <4>1. CASE d = c
                BY <1>1, <3>2, <3>3, <4>1 DEF IInv, TypeInv
            <4>2. CASE d # c
                BY <1>1, <3>1, <4>2 DEF IInv, PromiseInv
            <4> QED
                BY <4>1, <4>2
        <3> QED
            BY <3>4 DEF PromiseInv
    <2>10. InitialAllowanceIsListed'
        BY <1>1 DEF IInv, TypeInv, InitialAllowanceIsListed
    <2> QED
        BY <2>2, <2>3, <2>4, <2>6, <2>9, <2>10 DEF IInv
<1>5. CASE scopes[o] = None
    <2>1. /\ scopes' = [scopes EXCEPT ![o] = c] /\ pc' = [pc EXCEPT ![c] = "scopeExists"]
          /\ joined' = joined
        BY <1>5 DEF BeginScope, Goto
    <2>2. TypeInv' /\ CallInv'
        BY <1>1, <2>1 DEF IInv, TypeInv, CallInv, ledger, Places, Awaits
    <2>3. OperationInv' /\ ProfileIsTrue'
        BY <1>1, <1>2, <2>1, ProfileFrame DEF ScopePlaces
    <2>4. ScopeInv' /\ WelcomeInv'
        BY <1>1, <1>2, <1>3, <2>1 DEF IInv, TypeInv, ScopeInv, WelcomeInv, ScopePlaces, ledger
    <2>5. JoinedInv'
        BY <1>1, <1>2, <2>1 DEF IInv, TypeInv, JoinedInv
    <2>6. \A d \in Calls : Serving(d) => d # c /\ Serving(d)'
        BY <1>1, <2>1 DEF Serving, IInv, TypeInv
    <2>7. PromiseInv'
        <3>1. c \notin promised
            BY <1>1 DEF IInv, PromiseInv, Serving
        <3>2. Serving(c)'
            BY <1>1, <2>1 DEF Serving, IInv, TypeInv
        <3> QED
            BY <1>1, <1>2, <2>1, <2>6, <3>1, <3>2 DEF IInv, TypeInv, PromiseInv, JoinedInv, Serving
    <2>8. InitialAllowanceIsListed'
        BY <1>1 DEF IInv, TypeInv, InitialAllowanceIsListed
    <2> QED
        BY <2>2, <2>3, <2>4, <2>5, <2>7, <2>8 DEF IInv
<1> QED
    BY <1>4, <1>5

\* A scope call is answered, or fails: what it has on the way stays a scope call.
LEMMA ScopeMoves ==
    ASSUME IInv, NEW c \in Calls, pc[c] \in ScopePlaces,
           NEW place \in ScopePlaces \cup {"done"}, NEW how \in Answers,
           pc' = [pc EXCEPT ![c] = place], answer' = [answer EXCEPT ![c] = how],
           place # "done" => how = "none",
           place = "scopeMissing" => ~deployed[owner[c]],
           how = "notOnboarded" => pc[c] = "scopeMissing",
           UNCHANGED <<ledger, profiles, owner, joined, tx, deployment, welcomed, promised>>,
           \/ UNCHANGED scopes /\ (place = "done" => how = "served")
           \/ scopes' = [scopes EXCEPT ![owner[c]] = None],
           row' \in [Owners -> {"none", "created", "hydrated"}],
           \A o \in Owners : row[o] # "none" => row'[o] # "none",
           unread \subseteq unread',
           how = "served" => row'[owner[c]] # "none" \/ owner[c] \in unread'
    PROVE  IInv'
<1> USE NoneIsNoCall
<1>1. pc[c] # "new" /\ owner[c] \in Owners /\ answer[c] = "none"
    BY DEF ScopePlaces, IInv, CallInv
<1>2. scopes' \in [Owners -> Calls \cup {None}]
    BY DEF IInv, TypeInv
<1>3. TypeInv'
    BY <1>2 DEF IInv, TypeInv, ledger, ScopePlaces, Places, Awaits
<1>4. CallInv'
    BY <1>1 DEF IInv, TypeInv, CallInv, ScopePlaces
<1>5. OperationInv' /\ ProfileIsTrue'
    BY ProfileFrame
<1>6. \A o \in Owners : scopes[o] # None => scopes[o] \in Calls
    BY DEF IInv, TypeInv
<1>7. \A o \in Owners : scopes'[o] # None =>
            /\ scopes'[o] = scopes[o]
            /\ scopes[o] = c /\ place = "done" => how = "served"
    BY <1>1, <1>6 DEF IInv, TypeInv, ScopeInv
<1>8. ScopeInv'
    BY <1>6, <1>7 DEF IInv, TypeInv, ScopeInv
<1>9. WelcomeInv'
    BY <1>6, <1>7 DEF IInv, TypeInv, ScopeInv, WelcomeInv, ledger
<1>10. JoinedInv'
    BY <1>1 DEF IInv, TypeInv, JoinedInv, ScopePlaces
<1>11. ASSUME NEW d \in Calls, owner[d] \in welcomed, Serving(d) PROVE Serving(d)'
    BY <1>11 DEF Serving, ScopePlaces, IInv, TypeInv, WelcomeInv
<1>12. PromiseInv'
    <2>1. ASSUME NEW d \in promised PROVE Serving(d)' \/ (pc'[d] = "joined" /\ Serving(joined[d])')
        <3>1. d \in Calls /\ owner[d] \in welcomed
            BY DEF IInv, PromiseInv
        <3>2. CASE Serving(d)
            BY <1>11, <3>1, <3>2
        <3>3. CASE pc[d] = "joined" /\ Serving(joined[d])
            <4>1. joined[d] \in Calls /\ owner[joined[d]] = owner[d] /\ d # c
                BY <3>1, <3>3 DEF IInv, JoinedInv, ScopePlaces
            <4>2. Serving(joined[d])'
                BY <1>11, <3>1, <3>3, <4>1 DEF Serving
            <4> QED
                BY <3>1, <3>3, <4>1, <4>2 DEF IInv, TypeInv
        <3> QED
            BY <3>2, <3>3 DEF IInv, PromiseInv
    <2> QED
        BY <2>1 DEF IInv, PromiseInv
<1>13. InitialAllowanceIsListed'
    <2>1. \A d \in Calls : answer[d] = "served" => owner[d] \in Owners
        BY DEF IInv, CallInv
    <2> QED
        BY <1>1, <2>1 DEF IInv, TypeInv, InitialAllowanceIsListed
<1> QED
    BY <1>3, <1>4, <1>5, <1>8, <1>9, <1>10, <1>12, <1>13 DEF IInv

\* createOwnerScope and hydrateOwnerStore.
LEMMA ScopeStepPreserves ==
    ASSUME IInv, NEW c \in Calls, ScopeExistsAnswers(c) \/ ScopeFails(c) \/ HydrateCounts(c)
                                  \/ HydrateReads(c) \/ HydrateFails(c)
    PROVE  IInv'
<1> USE DEF ScopePlaces, Answers
<1>1. /\ pc[c] \in ScopePlaces /\ answer[c] = "none" /\ owner[c] \in Owners
      /\ row \in [Owners -> {"none", "created", "hydrated"}]
      /\ answer = [answer EXCEPT ![c] = "none"]
    BY DEF ScopeExistsAnswers, ScopeFails, HydrateCounts, HydrateReads, HydrateFails, IInv, TypeInv, CallInv
<1>2. CASE ScopeExistsAnswers(c)
    <2>1. PICK place \in {"hydrateCount", "scopeMissing"} :
            /\ pc' = [pc EXCEPT ![c] = place]
            /\ place = "scopeMissing" => ~deployed[owner[c]]
        BY <1>2 DEF ScopeExistsAnswers, Goto
    <2>2. UNCHANGED <<ledger, profiles, scopes, row, owner, joined, tx, deployment, answer,
                      welcomed, promised, unread>>
        BY <1>2 DEF ScopeExistsAnswers, caches, locals, history
    <2> QED
        BY <1>1, <2>1, <2>2, ScopeMoves
<1>3. CASE ScopeFails(c)
    <2>1. PICK how \in {"notOnboarded", "failed"} :
            /\ pc' = [pc EXCEPT ![c] = "done"] /\ answer' = [answer EXCEPT ![c] = how]
            /\ how = "notOnboarded" => pc[c] = "scopeMissing"
        BY <1>3 DEF ScopeFails, Ends, Goto
    <2>2. /\ scopes' = [scopes EXCEPT ![owner[c]] = None]
          /\ UNCHANGED <<ledger, profiles, row, owner, joined, tx, deployment, welcomed, promised, unread>>
        BY <1>3 DEF ScopeFails, DropRejectedScope, locals, history
    <2> QED
        BY <1>1, <2>1, <2>2, ScopeMoves
<1>4. CASE HydrateCounts(c)
    <2>1. UNCHANGED <<ledger, profiles, scopes, row, owner, joined, tx, deployment, welcomed,
                      promised, unread>>
        BY <1>4 DEF HydrateCounts, caches, locals, history
    <2>2. CASE row[owner[c]] = "none"
        <3>1. pc' = [pc EXCEPT ![c] = "hydrateRead"] /\ answer' = answer
            BY <1>4, <2>2 DEF HydrateCounts, Unlisted, Goto
        <3> QED
            BY <1>1, <2>1, <3>1, ScopeMoves
    <2>3. CASE row[owner[c]] # "none"
        <3>1. pc' = [pc EXCEPT ![c] = "done"] /\ answer' = [answer EXCEPT ![c] = "served"]
            BY <1>4, <2>3 DEF HydrateCounts, Unlisted, Ends, Goto
        <3> QED
            BY <1>1, <2>1, <2>3, <3>1, ScopeMoves
    <2> QED
        BY <2>2, <2>3
<1>5. CASE HydrateReads(c)
    <2>1. /\ row' = [row EXCEPT ![owner[c]] = "hydrated"]
          /\ pc' = [pc EXCEPT ![c] = "done"] /\ answer' = [answer EXCEPT ![c] = "served"]
          /\ UNCHANGED <<ledger, profiles, scopes, owner, joined, tx, deployment, welcomed,
                         promised, unread>>
        BY <1>5 DEF HydrateReads, Ends, Goto, caches, locals, history
    <2>2. /\ row' \in [Owners -> {"none", "created", "hydrated"}] /\ row'[owner[c]] # "none"
          /\ \A o \in Owners : row[o] # "none" => row'[o] # "none"
        BY <1>1, <2>1
    <2> QED
        BY <1>1, <2>1, <2>2, ScopeMoves
<1>6. CASE HydrateFails(c)
    <2>1. /\ unread' = unread \cup {owner[c]}
          /\ pc' = [pc EXCEPT ![c] = "done"] /\ answer' = [answer EXCEPT ![c] = "served"]
          /\ UNCHANGED <<ledger, profiles, scopes, row, owner, joined, tx, deployment, welcomed,
                         promised>>
        BY <1>6 DEF HydrateFails, Ends, Goto, caches, locals
    <2> QED
        BY <1>1, <2>1, ScopeMoves
<1> QED
    BY <1>2, <1>3, <1>4, <1>5, <1>6

\* A joined call ends as the one it waited for.
LEMMA JoinedEndsPreserves ==
    ASSUME IInv, NEW c \in Calls, JoinedEnds(c)
    PROVE  IInv'
<1> USE NoneIsNoCall
<1>1. /\ pc[c] = "joined" /\ joined[c] \in Calls /\ owner[joined[c]] = owner[c]
      /\ owner[c] \in Owners /\ answer[joined[c]] \in Answers
    BY DEF JoinedEnds, IInv, TypeInv, CallInv, JoinedInv
<1>2. /\ pc' = [pc EXCEPT ![c] = "done"] /\ answer' = [answer EXCEPT ![c] = answer[joined[c]]]
      /\ joined' = [joined EXCEPT ![c] = None]
      /\ UNCHANGED <<ledger, row, caches, owner, deployment, tx, history>>
    BY DEF JoinedEnds, Ends, Goto
<1>3. TypeInv'
    BY <1>1, <1>2 DEF IInv, TypeInv, ledger, caches, Places
<1>4. CallInv'
    BY <1>1, <1>2 DEF IInv, TypeInv, CallInv
<1>5. OperationInv' /\ ProfileIsTrue'
    BY <1>2, ProfileFrame DEF caches
<1>6. \A o \in Owners : scopes[o] # None => scopes[o] \in Calls /\ scopes[o] # c
    BY <1>1 DEF IInv, TypeInv, ScopeInv, ScopePlaces
<1>7. ScopeInv' /\ WelcomeInv'
    BY <1>2, <1>6 DEF IInv, TypeInv, ScopeInv, WelcomeInv, ledger, caches, history
<1>8. JoinedInv'
    BY <1>1, <1>2 DEF IInv, TypeInv, JoinedInv
<1>9. PromiseInv'
    <2>1. \A d \in Calls : Serving(d) => d # c /\ Serving(d)'
        BY <1>1, <1>2 DEF Serving, IInv, TypeInv
    <2>2. ASSUME NEW d \in promised PROVE Serving(d)' \/ (pc'[d] = "joined" /\ Serving(joined[d])')
        <3>1. CASE d = c
            BY <1>1, <1>2, <3>1 DEF IInv, TypeInv, PromiseInv, Serving
        <3>2. CASE d # c
            <4>1. d \in Calls /\ joined'[d] = joined[d] /\ pc'[d] = pc[d]
                BY <1>2, <3>2 DEF IInv, TypeInv, PromiseInv
            <4>2. CASE Serving(d)
                BY <2>1, <4>1, <4>2
            <4>3. CASE pc[d] = "joined" /\ Serving(joined[d])
                <5>1. joined[d] \in Calls
                    BY <4>1, <4>3 DEF IInv, JoinedInv
                <5> QED
                    BY <2>1, <4>1, <4>3, <5>1 DEF Serving
            <4> QED
                BY <4>2, <4>3 DEF IInv, PromiseInv
        <3> QED
            BY <3>1, <3>2
    <2> QED
        BY <1>2, <2>2 DEF IInv, PromiseInv, history
<1>10. InitialAllowanceIsListed'
    BY <1>1, <1>2 DEF IInv, TypeInv, InitialAllowanceIsListed, history
<1> QED
    BY <1>3, <1>4, <1>5, <1>7, <1>8, <1>9, <1>10 DEF IInv

-----------------------------------------------------------------------------
\* A restart ends every call, and the caches are empty.
LEMMA RestartPreserves ==
    ASSUME IInv, Restart
    PROVE  IInv'
<1> USE NoneIsNoCall
<1>1. /\ profiles' = [o \in Owners |-> NoProfile] /\ scopes' = [o \in Owners |-> None]
      /\ pc' = [c \in Calls |-> IF pc[c] \in Awaits THEN "lost" ELSE pc[c]]
      /\ tx' = [c \in Calls |-> IF tx[c].state \in {"none", "loaded"} THEN NoTx ELSE tx[c]]
      /\ joined' = [c \in Calls |-> None] /\ deployment' = [c \in Calls |-> "none"]
      /\ UNCHANGED <<ledger, row, owner, answer, history>>
    BY DEF Restart
<1>2. \A c \in Calls : \/ pc'[c] = pc[c] /\ pc[c] \in {"new", "done", "lost"}
                       \/ pc'[c] = "lost" /\ pc[c] \in Awaits
    BY <1>1 DEF IInv, TypeInv, Places
<1>3. "new" \notin Awaits /\ "done" \notin Awaits
    BY DEF Awaits, Queued
<1>4. TypeInv'
    <2>1. NoProfile \in Profiles
        BY DEF NoProfile, Profiles
    <2> QED
        BY <1>1, <2>1, NoTxTyped DEF IInv, TypeInv, ledger, Places, Made
<1>5. CallInv'
    BY <1>1, <1>2, <1>3 DEF IInv, CallInv
<1>6. OperationInv'
    <2>1. ASSUME NEW c \in Calls PROVE OperationAt(c)'
        <3>1. tx'[c].state = "executed" => tx'[c] = tx[c]
            BY <1>1 DEF NoTx
        <3>2. pc'[c] \in {"new", "done", "lost"} /\ (pc'[c] = "new" => pc[c] = "new")
            BY <1>2
        <3> QED
            BY <1>1, <3>1, <3>2 DEF IInv, OperationInv, OperationAt, ledger
    <2> QED
        BY <2>1 DEF OperationInv
<1>7. ProfileIsTrue'
    BY <1>1 DEF ProfileIsTrue, NoProfile
<1>8. ScopeInv' /\ WelcomeInv'
    BY <1>1 DEF IInv, ScopeInv, WelcomeInv, ledger, history
<1>9. JoinedInv'
    BY <1>2 DEF JoinedInv
<1>10. PromiseInv'
    <2>1. \A c \in Calls : Serving(c) => Serving(c)'
        BY <1>1, <1>2 DEF Serving
    <2>2. \A c \in Calls : pc[c] = "joined" => Serving(c)'
        BY <1>1, <1>2 DEF IInv, CallInv, Serving
    <2> QED
        BY <1>1, <2>1, <2>2 DEF IInv, PromiseInv, history
<1>11. InitialAllowanceIsListed'
    BY <1>1 DEF IInv, InitialAllowanceIsListed, history
<1> QED
    BY <1>4, <1>5, <1>6, <1>7, <1>8, <1>9, <1>10, <1>11 DEF IInv

\* A step of others.
LEMMA StutterPreserves == IInv /\ UNCHANGED vars => IInv'
BY DEF vars, IInv, TypeInv, CallInv, OperationInv, OperationAt, ProfileIsTrue, InitialAllowanceIsListed,
       ScopeInv, WelcomeInv, JoinedInv, PromiseInv, Serving

\* Each step of the specification.
LEMMA StepPreserves == IInv /\ [Next]_vars => IInv'
<1> SUFFICES ASSUME IInv, [Next]_vars PROVE IInv'
    OBVIOUS
<1>1. ASSUME NEW c \in Calls, NEW o \in Owners, BeginProfile(c, o) \/ BeginScope(c, o) PROVE IInv'
    BY <1>1, BeginProfilePreserves, BeginScopePreserves
<1>2. ASSUME NEW c \in Calls, ProfileStep(c) PROVE IInv'
    BY <1>2, ReadsPreserve, LoadsPreserves, SendsPreserves, RejectionsPreserve, DeploySettles,
       PollConfirmsPreserves, BalancePreserves DEF ProfileStep
<1>3. ASSUME NEW c \in Calls, ScopeStep(c) PROVE IInv'
    BY <1>3, ScopeStepPreserves, JoinedEndsPreserves DEF ScopeStep
<1>4. ASSUME NEW c \in Calls, Execute(c) \/ ExecuteFails(c) PROVE IInv'
    BY <1>4, ExecutePreserves, FailuresPreserve
<1>5. ASSUME NEW o \in Owners, Spend(o) PROVE IInv'
    BY <1>5, SpendPreserves
<1>6. CASE OtherTransaction
    BY <1>6, FailuresPreserve
<1> QED
    BY <1>1, <1>2, <1>3, <1>4, <1>5, <1>6, RestartPreserves, StutterPreserves DEF Next

\* The invariant holds in every reachable state.
THEOREM InvariantHolds == Spec => []IInv
BY InitEstablishes, StepPreserves, PTL DEF Spec

\* What ownerProfile and onboardOwner cache is true of the ledger: the treasury exists,
\* by the transactions the profile names.
THEOREM CachedProfileIsTrue == Spec => []ProfileIsTrue
<1>1. IInv => ProfileIsTrue
    BY DEF IInv
<1> QED
    BY <1>1, InvariantHolds, PTL

\* ownerScope: no failed scope stays in the cache.
THEOREM OnlyServedScopesStay == Spec => []FailedScopeIsNotCached
<1>1. IInv => FailedScopeIsNotCached
    BY DEF IInv, ScopeInv, ScopePlaces, FailedScopeIsNotCached
<1> QED
    BY <1>1, InvariantHolds, PTL

\* onboardOwner, ownerScope: once the deployment is answered, no later request is told
\* that the owner is not onboarded.
THEOREM WelcomedIsServed == Spec => []OnboardedOwnerIsServed
<1>1. IInv => OnboardedOwnerIsServed
    BY DEF IInv, PromiseInv, Serving, CallInv, OnboardedOwnerIsServed
<1> QED
    BY <1>1, InvariantHolds, PTL

\* createOwnerScope, hydrateOwnerStore: a served scope has the row of the initial
\* allowance, unless the owner's rules could not be read.
THEOREM ServedListsAllowance == Spec => []InitialAllowanceIsListed
<1>1. IInv => InitialAllowanceIsListed
    BY DEF IInv
<1> QED
    BY <1>1, InvariantHolds, PTL
-----------------------------------------------------------------------------
(***************************************************************************)
(* The sponsor: its queue and its funding.                                 *)
(***************************************************************************)
FundPlaces == {"fundQueued", "fundSend", "fundPoll"}
RunningPlaces == {"deployLoad", "deploySend", "deployPoll", "deployCheck", "fundSend", "fundPoll"}

\* A transaction handed over has a purpose, and a deployment carries no amount.
Purposeful(t) == (t.state = "sent" => t.of # "none") /\ (t.of = "deploy" => t.amount = 0)

\* The queue holds the calls at an operation, once each; only the first goes on.
QueueInv ==
    /\ queue \in Seq(Calls)
    /\ \A i \in 1 .. Len(queue) : pc[queue[i]] \in Queued
    /\ \A i, j \in 1 .. Len(queue) : queue[i] = queue[j] => i = j
    /\ \A c \in Calls : pc[c] \in Queued => \E i \in 1 .. Len(queue) : queue[i] = c
    /\ \A c \in Calls : pc[c] \in RunningPlaces => Running(c)

\* The call will add to its owner's balance, or its transaction still may.
Adding(c) == pc[c] \in FundPlaces \/ (tx[c].of = "fund" /\ tx[c].state = "sent")

\* At most one call adds to such a balance, and no more than what is missing.
FundInv ==
    \A o \in Owners \ overlapped :
        /\ balance[o] <= Target
        /\ \A c \in Calls : Adding(c) /\ owner[c] = o =>
              /\ balance[o] + tx[c].amount <= Target
              /\ \A d \in Calls : Adding(d) /\ owner[d] = o => c = d

SponsorInv ==
    /\ executed \subseteq {"deploy", "fund"} \X Calls
    /\ \A c \in Calls : Purposeful(tx[c])
    /\ QueueInv /\ FundInv

\* A transaction that is none has no amount.
LEMMA NoTxAddsNothing == Purposeful(NoTx) /\ NoTx.amount = 0 /\ NoTx.of = "none" /\ NoTx.state = "none"
BY DEF NoTx, Purposeful

-----------------------------------------------------------------------------
(* serializeSource. *)

\* The queue does not change, and only its first call goes on.
LEMMA QueueStays ==
    ASSUME QueueInv, queue' = queue,
           \A c \in Calls : pc'[c] \in Queued <=> pc[c] \in Queued,
           \A c \in Calls : pc'[c] \in RunningPlaces => pc[c] \in RunningPlaces \/ Running(c)
    PROVE  QueueInv'
<1>1. \A i \in 1 .. Len(queue) : queue[i] \in Calls
    BY DEF QueueInv
<1> QED
    BY <1>1 DEF QueueInv, Running

\* An operation is appended.
LEMMA QueueGrows ==
    ASSUME QueueInv, NEW c \in Calls, pc[c] \notin Queued, queue' = Append(queue, c),
           pc'[c] \in Queued \ RunningPlaces, \A d \in Calls \ {c} : pc'[d] = pc[d]
    PROVE  QueueInv'
<1> DEFINE n == Len(queue)
<1>1. n \in Nat /\ queue \in Seq(Calls) /\ \A i \in 1 .. n : queue[i] \in Calls
    BY DEF QueueInv
<1>2. /\ queue' \in Seq(Calls) /\ Len(queue') = n + 1 /\ queue'[n + 1] = c
      /\ \A i \in 1 .. n : queue'[i] = queue[i]
    BY <1>1
<1>3. \A i \in 1 .. n : queue[i] # c
    BY DEF QueueInv
<1>4. \A i \in 1 .. n + 1 : i \in 1 .. n \/ i = n + 1
    BY <1>1
<1>5. \A i \in 1 .. Len(queue') : pc'[queue'[i]] \in Queued
    BY <1>1, <1>2, <1>3, <1>4 DEF QueueInv
<1>6. \A i, j \in 1 .. Len(queue') : queue'[i] = queue'[j] => i = j
    <2>1. ASSUME NEW i \in 1 .. n + 1, NEW j \in 1 .. n + 1, queue'[i] = queue'[j] PROVE i = j
        <3>1. CASE i \in 1 .. n /\ j \in 1 .. n
            BY <1>2, <2>1, <3>1 DEF QueueInv
        <3>2. CASE i = n + 1 \/ j = n + 1
            BY <1>2, <1>3, <1>4, <2>1, <3>2
        <3> QED
            BY <1>4, <3>1, <3>2
    <2> QED
        BY <1>2, <2>1
<1>7. \A d \in Calls : pc'[d] \in Queued => \E i \in 1 .. Len(queue') : queue'[i] = d
    <2>1. ASSUME NEW d \in Calls, pc'[d] \in Queued PROVE \E i \in 1 .. n + 1 : queue'[i] = d
        <3>1. CASE d = c
            BY <1>1, <1>2, <3>1
        <3>2. CASE d # c
            <4>1. PICK i \in 1 .. n : queue[i] = d
                BY <2>1, <3>2 DEF QueueInv
            <4>2. i \in 1 .. n + 1
                BY <1>1
            <4> QED
                BY <1>2, <4>1, <4>2
        <3> QED
            BY <3>1, <3>2
    <2> QED
        BY <1>2, <2>1
<1>8. \A d \in Calls : pc'[d] \in RunningPlaces => Running(d)'
    <2>1. ASSUME NEW d \in Calls, pc'[d] \in RunningPlaces PROVE Running(d)'
        <3>1. queue # <<>> /\ Head(queue) = d
            BY <2>1 DEF QueueInv, Running
        <3>2. queue' # <<>> /\ Head(queue') = Head(queue)
            BY <1>1, <1>2, <3>1
        <3> QED
            BY <3>1, <3>2 DEF Running
    <2> QED
        BY <2>1
<1> QED
    BY <1>2, <1>5, <1>6, <1>7, <1>8 DEF QueueInv

\* The first operation settles.
LEMMA QueueAdvances ==
    ASSUME QueueInv, NEW c \in Calls, Running(c), queue' = Tail(queue),
           pc'[c] \notin Queued, \A d \in Calls \ {c} : pc'[d] = pc[d]
    PROVE  QueueInv'
<1> DEFINE n == Len(queue)
<1>1. n \in Nat \ {0} /\ queue \in Seq(Calls) /\ \A i \in 1 .. n : queue[i] \in Calls
    BY DEF QueueInv, Running
<1>2. queue[1] = c
    BY <1>1 DEF Running
<1>3. /\ queue' \in Seq(Calls) /\ Len(queue') = n - 1
      /\ \A i \in 1 .. n - 1 : queue'[i] = queue[i + 1] /\ i + 1 \in 1 .. n
    BY <1>1
<1>4. \A i \in 1 .. n - 1 : queue[i + 1] # c
    BY <1>1, <1>2, <1>3 DEF QueueInv
<1>5. \A i \in 1 .. n - 1 : pc'[queue'[i]] \in Queued
    BY <1>1, <1>3, <1>4 DEF QueueInv
<1>6. \A i, j \in 1 .. n - 1 : queue'[i] = queue'[j] => i = j
    <2>1. ASSUME NEW i \in 1 .. n - 1, NEW j \in 1 .. n - 1, queue'[i] = queue'[j] PROVE i = j
        <3>1. i + 1 = j + 1
            BY <1>3, <2>1 DEF QueueInv
        <3> QED
            BY <1>1, <3>1
    <2> QED
        BY <2>1
<1>7. \A d \in Calls : pc'[d] \in Queued => \E i \in 1 .. n - 1 : queue'[i] = d
    <2>1. ASSUME NEW d \in Calls, pc'[d] \in Queued PROVE \E i \in 1 .. n - 1 : queue'[i] = d
        <3>1. d # c /\ pc[d] \in Queued
            BY <2>1
        <3>2. PICK i \in 1 .. n : queue[i] = d
            BY <3>1 DEF QueueInv
        <3>3. i # 1 /\ i - 1 \in 1 .. n - 1 /\ (i - 1) + 1 = i
            BY <1>1, <1>2, <3>1, <3>2
        <3> QED
            BY <1>3, <3>2, <3>3
    <2> QED
        BY <2>1
<1>8. \A d \in Calls : pc'[d] \notin RunningPlaces
    <2>1. RunningPlaces \subseteq Queued
        BY DEF RunningPlaces, Queued
    <2> QED
        BY <2>1 DEF QueueInv, Running
<1> QED
    BY <1>3, <1>5, <1>6, <1>7, <1>8 DEF QueueInv

-----------------------------------------------------------------------------
(* ensureOwnerTreasuryFunding. *)

\* Nothing more is added, and no balance grows.
LEMMA FundKept ==
    ASSUME TypeInv, TypeInv', FundInv, overlapped \subseteq overlapped',
           \A o \in Owners : balance'[o] <= balance[o],
           \A d \in Calls : Adding(d)' => /\ Adding(d) /\ owner'[d] = owner[d]
                                         /\ tx'[d].amount <= tx[d].amount
    PROVE  FundInv'
<1>1. \A d \in Calls : tx[d].amount \in Nat /\ tx'[d].amount \in Nat
    BY DEF TypeInv, Transactions
<1>2. \A o \in Owners : balance[o] \in Nat /\ balance'[o] \in Nat
    BY DEF TypeInv
<1>3. ASSUME NEW o \in Owners \ overlapped' PROVE balance'[o] <= Target
    BY <1>2, OnboardingAssumption DEF FundInv
<1>4. ASSUME NEW o \in Owners \ overlapped', NEW c \in Calls, Adding(c)', owner'[c] = o
      PROVE  balance'[o] + tx'[c].amount <= Target
    <2>1. balance[o] + tx[c].amount <= Target /\ tx'[c].amount <= tx[c].amount
        BY <1>4 DEF FundInv
    <2> QED
        BY <1>1, <1>2, <2>1, OnboardingAssumption
<1>5. ASSUME NEW o \in Owners \ overlapped', NEW c \in Calls, Adding(c)', owner'[c] = o,
             NEW d \in Calls, Adding(d)', owner'[d] = o
      PROVE  c = d
    BY <1>5 DEF FundInv
<1> QED
    BY <1>3, <1>4, <1>5 DEF FundInv

\* A step of one call, which adds nothing more than before.
LEMMA CallKeeps ==
    ASSUME TypeInv, TypeInv', SponsorInv, NEW c \in Calls, UNCHANGED <<ledger, owner>>,
           overlapped \subseteq overlapped',
           \A d \in Calls \ {c} : pc'[d] = pc[d] /\ tx'[d] = tx[d],
           Purposeful(tx[c])',
           Adding(c)' => Adding(c) /\ tx'[c].amount <= tx[c].amount,
           QueueInv'
    PROVE  SponsorInv'
<1>1. \A d \in Calls : tx[d].amount \in Nat /\ tx'[d].amount \in Nat
    BY DEF TypeInv, Transactions
<1>2. \A o \in Owners : balance[o] \in Nat /\ balance'[o] = balance[o]
    BY DEF TypeInv, ledger
<1>3. ASSUME NEW d \in Calls, Adding(d)'
      PROVE  Adding(d) /\ owner'[d] = owner[d] /\ tx'[d].amount <= tx[d].amount
    BY <1>1, <1>3 DEF Adding
<1>4. FundInv'
    BY <1>2, <1>3, FundKept DEF SponsorInv
<1>5. \A d \in Calls : Purposeful(tx[d])'
    BY DEF SponsorInv
<1> QED
    BY <1>4, <1>5 DEF SponsorInv, ledger

-----------------------------------------------------------------------------
(* The steps. *)

\* A call that begins has no transaction and is not in the queue.
LEMMA BeginSponsor ==
    ASSUME IInv, TypeInv', SponsorInv, NEW c \in Calls, NEW o \in Owners,
           BeginProfile(c, o) \/ BeginScope(c, o)
    PROVE  SponsorInv'
<1>1. /\ pc[c] = "new" /\ tx[c] = NoTx
      /\ UNCHANGED <<ledger, queue, tx, overlapped>>
      /\ owner' = [owner EXCEPT ![c] = o]
    BY DEF BeginProfile, BeginScope, Begins, history, IInv, CallInv
<1>2. PICK place \in {"profileExists", "onboardExists", "joined", "scopeExists"} :
            pc' = [pc EXCEPT ![c] = place]
    BY DEF BeginProfile, BeginScope, Goto
<1>3. \A d \in Calls : d # c => pc'[d] = pc[d] /\ owner'[d] = owner[d]
    BY <1>1, <1>2 DEF IInv, TypeInv
<1>4. pc[c] \notin Queued /\ pc'[c] \notin Queued /\ pc'[c] \notin RunningPlaces
    BY <1>1, <1>2 DEF IInv, TypeInv, Queued, RunningPlaces
<1>5. QueueInv'
    BY <1>1, <1>3, <1>4, QueueStays DEF SponsorInv
<1>6. \A d \in Calls : Adding(d)' => Adding(d) /\ d # c
    BY <1>1, <1>2, <1>3, NoTxAddsNothing DEF Adding, FundPlaces, IInv, TypeInv
<1>7. FundInv'
    <2>1. \A d \in Calls : tx[d].amount \in Nat
        BY DEF IInv, TypeInv, Transactions
    <2>2. \A p \in Owners : balance'[p] = balance[p] /\ balance[p] \in Nat
        BY <1>1 DEF IInv, TypeInv, ledger
    <2> QED
        BY <1>1, <1>3, <1>6, <2>1, <2>2, FundKept DEF IInv, SponsorInv
<1> QED
    BY <1>1, <1>5, <1>7 DEF SponsorInv, ledger, Purposeful

\* The reads before the queue, and the entry into it.
LEMMA ReadsSponsor ==
    ASSUME IInv, TypeInv', SponsorInv, NEW c \in Calls,
           ExistsAnswers(c) \/ ReadFails(c) \/ LatestAnswers(c) \/ DeployMissing(c)
    PROVE  SponsorInv'
<1>1. UNCHANGED <<ledger, owner, tx, overlapped>>
    BY DEF ExistsAnswers, ReadFails, LatestAnswers, DeployMissing, locals, history
<1>2. PICK place \in {"done", "balance", "latest", "deployQueued", "deployLoad"} :
            pc' = [pc EXCEPT ![c] = place]
    BY DEF ExistsAnswers, ReadFails, LatestAnswers, DeployMissing, Enqueue, Returns, Goto
<1>3. pc'[c] = place /\ \A d \in Calls \ {c} : pc'[d] = pc[d]
    BY <1>2 DEF IInv, TypeInv
<1>4. QueueInv'
    <2>1. CASE ExistsAnswers(c) \/ ReadFails(c)
        <3>1. place \in {"done", "balance", "latest"} /\ queue' = queue
            BY <1>3, <2>1 DEF ExistsAnswers, ReadFails, Returns, Goto, IInv, TypeInv
        <3>2. pc[c] \notin Queued
            BY <2>1 DEF ExistsAnswers, ReadFails, Queued
        <3> QED
            BY <1>3, <3>1, <3>2, QueueStays DEF SponsorInv, Queued, RunningPlaces
    <2>2. CASE LatestAnswers(c)
        <3>1. queue' = Append(queue, c) /\ pc[c] \notin Queued /\ pc'[c] \in Queued \ RunningPlaces
            BY <2>2 DEF LatestAnswers, Enqueue, Goto, Queued, RunningPlaces, IInv, TypeInv
        <3> QED
            BY <1>3, <3>1, QueueGrows DEF SponsorInv
    <2>3. CASE DeployMissing(c)
        <3>1. queue' = queue /\ Running(c) /\ pc[c] \in Queued /\ pc'[c] \in Queued
            BY <2>3 DEF DeployMissing, Goto, Queued, IInv, TypeInv
        <3> QED
            BY <1>3, <3>1, QueueStays DEF SponsorInv
    <2> QED
        BY <2>1, <2>2, <2>3
<1>5. Purposeful(tx[c])' /\ (Adding(c)' => Adding(c) /\ tx'[c].amount <= tx[c].amount)
    <2>1. tx[c].amount \in Nat
        BY DEF IInv, TypeInv, Transactions
    <2> QED
        BY <1>1, <1>2, <1>3, <2>1 DEF Adding, FundPlaces, SponsorInv, Purposeful
<1> QED
    BY <1>1, <1>3, <1>4, <1>5, CallKeeps DEF IInv

\* loadAccount and sendTransaction: the first operation goes on.
LEMMA SendsSponsor ==
    ASSUME IInv, TypeInv', SponsorInv, NEW c \in Calls, Loads(c) \/ Sends(c)
    PROVE  SponsorInv'
<1>1. UNCHANGED <<ledger, owner, queue, overlapped>>
    BY DEF Loads, Sends, locals, history
<1>2. PICK place \in {"deploySend", "fundSend", "deployPoll", "fundPoll"} :
            pc' = [pc EXCEPT ![c] = place]
    BY DEF Loads, Sends, Goto
<1>3. pc'[c] = place /\ \A d \in Calls \ {c} : pc'[d] = pc[d]
    BY <1>2 DEF IInv, TypeInv
<1>4. pc[c] \in Queued /\ pc'[c] \in Queued /\ (pc[c] \in RunningPlaces \/ Running(c))
    BY <1>2, <1>3 DEF Loads, Sends, Queued, RunningPlaces
<1>5. QueueInv'
    BY <1>1, <1>3, <1>4, QueueStays DEF SponsorInv
<1>6. /\ \A d \in Calls \ {c} : tx'[d] = tx[d]
      /\ tx'[c].amount = tx[c].amount \/ (tx'[c].of = "deploy" /\ tx'[c].amount = 0)
      /\ tx'[c].of \in {"deploy", "fund"}
      /\ tx'[c].of = "fund" => Adding(c) /\ tx'[c].amount = tx[c].amount
      /\ tx'[c].of = "deploy" => pc'[c] \in {"deploySend", "deployPoll"} /\ tx'[c].amount = 0
    <2>1. CASE Loads(c) /\ pc[c] = "deployLoad"
        BY <2>1 DEF Loads, Goto, IInv, TypeInv
    <2>2. CASE Loads(c) /\ pc[c] = "fundQueued"
        <3> DEFINE loaded == [tx[c] EXCEPT !.of = "fund", !.state = "loaded"]
        <3>1. tx[c] \in Transactions
            BY DEF IInv, TypeInv
        <3>2. loaded.of = "fund" /\ loaded.amount = tx[c].amount
            BY <3>1 DEF Transactions
        <3>3. tx' = [tx EXCEPT ![c] = loaded]
            BY <2>2 DEF Loads
        <3> HIDE DEF loaded
        <3>4. tx'[c] = loaded /\ \A d \in Calls \ {c} : tx'[d] = tx[d]
            BY <3>3 DEF IInv, TypeInv
        <3> QED
            BY <2>2, <3>2, <3>4 DEF Adding, FundPlaces
    <2>3. CASE Sends(c)
        <3>1. /\ tx' = [tx EXCEPT ![c].state = "sent"] /\ pc[c] \in {"deploySend", "fundSend"}
              /\ pc[c] = "deploySend" => pc' = [pc EXCEPT ![c] = "deployPoll"]
            BY <2>3 DEF Sends, Goto
        <3>2. /\ tx[c] \in Transactions /\ (pc[c] = "deploySend" => tx[c].of = "deploy")
              /\ pc[c] = "fundSend" => tx[c].of = "fund"
            BY DEF IInv, TypeInv, OperationInv, OperationAt
        <3> DEFINE sent == [tx[c] EXCEPT !.state = "sent"]
        <3>3. sent.of = tx[c].of /\ sent.amount = tx[c].amount
            BY <3>2 DEF Transactions
        <3>4. tx' = [tx EXCEPT ![c] = sent]
            BY <3>1
        <3> HIDE DEF sent
        <3>5. tx'[c] = sent /\ \A d \in Calls \ {c} : tx'[d] = tx[d]
            BY <3>4 DEF IInv, TypeInv
        <3>6. tx[c].of = "deploy" => tx[c].amount = 0
            BY DEF SponsorInv, Purposeful
        <3> QED
            BY <3>1, <3>2, <3>3, <3>5, <3>6 DEF Adding, FundPlaces, IInv, TypeInv
    <2> QED
        BY <2>1, <2>2, <2>3 DEF Loads
<1>7. Purposeful(tx[c])' /\ (Adding(c)' => Adding(c) /\ tx'[c].amount <= tx[c].amount)
    <2>1. tx[c].amount \in Nat
        BY DEF IInv, TypeInv, Transactions
    <2> QED
        BY <1>6, <2>1 DEF Adding, FundPlaces, Purposeful
<1> QED
    BY <1>1, <1>3, <1>5, <1>6, <1>7, CallKeeps DEF IInv

\* The operation rejects: what it has handed over keeps its purpose and its amount.
LEMMA RejectionsSponsor ==
    ASSUME IInv, TypeInv', SponsorInv, NEW c \in Calls,
           OperationReadFails(c) \/ SendFails(c) \/ GivesUp(c)
    PROVE  SponsorInv'
<1>1. OperationRejects(c) /\ pc[c] \in Queued
    BY DEF OperationReadFails, SendFails, GivesUp, Queued
<1>2. Running(c)
    BY DEF OperationReadFails, SendFails, GivesUp, SponsorInv, QueueInv, RunningPlaces
<1>3. /\ pc' = [pc EXCEPT ![c] = "done"] /\ queue' = Tail(queue)
      /\ UNCHANGED <<ledger, owner, overlapped>>
    BY <1>1 DEF OperationRejects, FundingEnds, Returns, Goto, NextOperation, locals
<1>4. pc'[c] = "done" /\ \A d \in Calls \ {c} : pc'[d] = pc[d]
    BY <1>3 DEF IInv, TypeInv
<1>5. QueueInv'
    BY <1>2, <1>3, <1>4, QueueAdvances DEF SponsorInv, Queued
<1>6. \/ tx' = tx
      \/ tx' = [tx EXCEPT ![c] = NoTx]
      \/ tx' = [tx EXCEPT ![c].state = "sent"] /\ pc[c] \in {"deploySend", "fundSend"}
    BY DEF OperationReadFails, SendFails, GivesUp
<1>7. /\ \A d \in Calls \ {c} : tx'[d] = tx[d]
      /\ Purposeful(tx[c])' /\ (Adding(c)' => Adding(c) /\ tx'[c].amount <= tx[c].amount)
    <2>1. /\ tx[c] \in Transactions /\ tx[c].amount \in Nat
          /\ pc[c] = "deploySend" => tx[c].of = "deploy"
          /\ pc[c] = "fundSend" => tx[c].of = "fund"
          /\ Purposeful(tx[c])
        BY DEF IInv, TypeInv, OperationInv, OperationAt, Transactions, SponsorInv
    <2>2. CASE tx' = tx
        BY <1>4, <2>1, <2>2 DEF Adding, FundPlaces, Purposeful
    <2>3. CASE tx' = [tx EXCEPT ![c] = NoTx]
        <3>1. tx'[c] = NoTx /\ \A d \in Calls \ {c} : tx'[d] = tx[d]
            BY <2>3 DEF IInv, TypeInv
        <3> QED
            BY <1>4, <3>1, NoTxAddsNothing DEF Adding, FundPlaces, Purposeful
    <2>4. CASE tx' = [tx EXCEPT ![c].state = "sent"] /\ pc[c] \in {"deploySend", "fundSend"}
        <3> DEFINE sent == [tx[c] EXCEPT !.state = "sent"]
        <3>1. sent.of = tx[c].of /\ sent.amount = tx[c].amount
            BY <2>1 DEF Transactions
        <3>2. tx' = [tx EXCEPT ![c] = sent]
            BY <2>4
        <3> HIDE DEF sent
        <3>3. tx'[c] = sent /\ \A d \in Calls \ {c} : tx'[d] = tx[d]
            BY <3>2 DEF IInv, TypeInv
        <3> QED
            BY <1>4, <2>1, <2>4, <3>1, <3>3 DEF Adding, FundPlaces, Purposeful
    <2> QED
        BY <1>6, <2>2, <2>3, <2>4
<1> QED
    BY <1>3, <1>4, <1>5, <1>7, CallKeeps DEF IInv

\* The operation settles with a treasury, or is confirmed.
LEMMA SettlesSponsor ==
    ASSUME IInv, TypeInv', SponsorInv, NEW c \in Calls,
           DeployFinds(c) \/ DeployChecks(c) \/ PollConfirms(c)
    PROVE  SponsorInv'
<1>1. UNCHANGED <<ledger, owner, overlapped>>
    BY DEF DeployFinds, DeployChecks, PollConfirms, Deployed, FundingEnds, locals, history
<1>2. PICK place \in {"balance", "done", "deployCheck"} : pc' = [pc EXCEPT ![c] = place]
    BY DEF DeployFinds, DeployChecks, PollConfirms, Deployed, FundingEnds, Returns, Goto
<1>3. pc'[c] = place /\ \A d \in Calls \ {c} : pc'[d] = pc[d]
    BY <1>2 DEF IInv, TypeInv
<1>4. Running(c) /\ pc[c] \in Queued
    BY DEF DeployFinds, DeployChecks, PollConfirms, SponsorInv, QueueInv, RunningPlaces, Queued
<1>5. QueueInv'
    <2>1. CASE place = "deployCheck"
        <3>1. queue' = queue
            BY <1>3, <2>1 DEF DeployFinds, DeployChecks, PollConfirms, Deployed, FundingEnds,
                              Returns, Goto, IInv, TypeInv
        <3> QED
            BY <1>3, <1>4, <2>1, <3>1, QueueStays DEF SponsorInv, Queued
    <2>2. CASE place # "deployCheck"
        <3>1. queue' = Tail(queue)
            BY <1>3, <2>2 DEF DeployFinds, DeployChecks, PollConfirms, Deployed, NextOperation,
                              Goto, IInv, TypeInv
        <3> QED
            BY <1>2, <1>3, <1>4, <2>2, <3>1, QueueAdvances DEF SponsorInv, Queued
    <2> QED
        BY <2>1, <2>2
<1>6. /\ \A d \in Calls \ {c} : tx'[d] = tx[d]
      /\ tx'[c] = tx[c] \/ tx'[c] = NoTx
    BY DEF DeployFinds, DeployChecks, PollConfirms, Deployed, IInv, TypeInv
<1>7. Purposeful(tx[c])' /\ (Adding(c)' => Adding(c) /\ tx'[c].amount <= tx[c].amount)
    <2>1. tx[c].amount \in Nat /\ Purposeful(tx[c])
        BY DEF IInv, TypeInv, Transactions, SponsorInv
    <2> QED
        BY <1>2, <1>3, <1>6, <2>1, NoTxAddsNothing DEF Adding, FundPlaces, Purposeful
<1> QED
    BY <1>1, <1>3, <1>5, <1>6, <1>7, CallKeeps DEF IInv

\* The balance is read: with a funding under way the owner is overlapped; without, the
\* call asks for what is missing.
LEMMA BalanceSponsor ==
    ASSUME IInv, TypeInv', SponsorInv, NEW c \in Calls, BalanceAnswers(c) \/ BalanceFails(c)
    PROVE  SponsorInv'
<1> DEFINE o == owner[c]
<1>1. /\ UNCHANGED <<ledger, owner>> /\ overlapped \subseteq overlapped'
      /\ pc[c] = "balance" /\ o \in Owners /\ pc[c] \notin Queued
    BY DEF BalanceAnswers, BalanceFails, FundingEnds, locals, Queued, IInv, CallInv
<1>2. CASE UNCHANGED <<queue, tx>> /\ pc' = [pc EXCEPT ![c] = "done"]
    <2>1. pc'[c] = "done" /\ \A d \in Calls \ {c} : pc'[d] = pc[d]
        BY <1>2 DEF IInv, TypeInv
    <2>2. QueueInv'
        BY <1>1, <1>2, <2>1, QueueStays DEF SponsorInv, Queued, RunningPlaces
    <2>3. Purposeful(tx[c])' /\ (Adding(c)' => Adding(c) /\ tx'[c].amount <= tx[c].amount)
        <3>1. tx[c].amount \in Nat /\ Purposeful(tx[c])
            BY DEF IInv, TypeInv, Transactions, SponsorInv
        <3> QED
            BY <1>2, <2>1, <3>1 DEF Adding, FundPlaces, Purposeful
    <2> QED
        BY <1>1, <1>2, <2>1, <2>2, <2>3, CallKeeps DEF IInv
<1>3. CASE /\ Missing(balance[o]) > 0 /\ Enqueue(c, "fundQueued")
           /\ tx' = [tx EXCEPT ![c] = [NoTx EXCEPT !.amount = Missing(balance[o])]]
           /\ overlapped' = IF FundingsUnderWay(o) = {} THEN overlapped ELSE overlapped \cup {o}
    <2>1. /\ pc'[c] = "fundQueued" /\ queue' = Append(queue, c)
          /\ \A d \in Calls \ {c} : pc'[d] = pc[d]
          /\ \A d \in Calls \ {c} : tx'[d] = tx[d]
          /\ tx'[c].of = "none" /\ tx'[c].state = "none" /\ tx'[c].amount = Missing(balance[o])
        BY <1>3 DEF Enqueue, Goto, NoTx, IInv, TypeInv
    <2>2. QueueInv'
        BY <1>1, <2>1, QueueGrows DEF SponsorInv, Queued, RunningPlaces
    <2>3. \A d \in Calls : Purposeful(tx[d])'
        BY <2>1 DEF SponsorInv, Purposeful
    <2>4. \A p \in Owners : balance'[p] = balance[p] /\ balance[p] \in Nat
        BY <1>1 DEF IInv, TypeInv, ledger
    <2>5. \A d \in Calls \ {c} : Adding(d)' => Adding(d)
        BY <2>1 DEF Adding
    <2>6. balance[o] + tx'[c].amount = Target \/ o \in overlapped'
        BY <1>1, <1>3, <2>1, <2>4, OnboardingAssumption DEF Missing
    <2>7. \A d \in Calls : Adding(d) /\ owner[d] = o => o \in overlapped'
        BY <1>3 DEF Adding, FundPlaces, FundingsUnderWay
    <2>8. ASSUME NEW p \in Owners \ overlapped' PROVE balance'[p] <= Target
        BY <1>1, <2>4, <2>8 DEF SponsorInv, FundInv
    <2>9. ASSUME NEW p \in Owners \ overlapped', NEW d \in Calls, Adding(d)', owner'[d] = p
          PROVE  balance'[p] + tx'[d].amount <= Target
        <3>1. CASE d = c
            BY <1>1, <2>4, <2>6, <2>9, <3>1, OnboardingAssumption
        <3>2. CASE d # c
            BY <1>1, <2>1, <2>4, <2>5, <2>9, <3>2 DEF SponsorInv, FundInv
        <3> QED
            BY <3>1, <3>2
    <2>10. ASSUME NEW p \in Owners \ overlapped', NEW d \in Calls, Adding(d)', owner'[d] = p,
                  NEW e \in Calls, Adding(e)', owner'[e] = p
           PROVE  d = e
        <3>1. CASE p = o
            BY <1>1, <2>5, <2>7, <2>10, <3>1
        <3>2. CASE p # o
            BY <1>1, <2>5, <2>10, <3>2 DEF SponsorInv, FundInv
        <3> QED
            BY <3>1, <3>2
    <2>11. FundInv'
        BY <2>8, <2>9, <2>10 DEF FundInv
    <2> QED
        BY <1>1, <2>2, <2>3, <2>11 DEF SponsorInv, ledger
<1> QED
    BY <1>2, <1>3 DEF BalanceAnswers, BalanceFails, FundingEnds, Returns, Goto

\* A scope does not touch the sponsor.
LEMMA ScopeSponsor ==
    ASSUME IInv, TypeInv', SponsorInv, NEW c \in Calls, ScopeStep(c)
    PROVE  SponsorInv'
<1>1. UNCHANGED <<ledger, owner, queue, tx, overlapped>> /\ pc[c] \in ScopePlaces \cup {"joined"}
    BY DEF ScopeStep, ScopeExistsAnswers, ScopeFails, JoinedEnds, HydrateCounts, HydrateReads,
           HydrateFails, locals, history, ScopePlaces
<1>2. PICK place \in ScopePlaces \cup {"done"} : pc' = [pc EXCEPT ![c] = place]
    BY DEF ScopeStep, ScopeExistsAnswers, ScopeFails, JoinedEnds, HydrateCounts, HydrateReads,
           HydrateFails, Ends, Goto, ScopePlaces
<1>3. pc'[c] = place /\ \A d \in Calls \ {c} : pc'[d] = pc[d]
    BY <1>2 DEF IInv, TypeInv
<1>4. QueueInv'
    BY <1>1, <1>2, <1>3, QueueStays DEF SponsorInv, ScopePlaces, Queued, RunningPlaces
<1>5. Purposeful(tx[c])' /\ (Adding(c)' => Adding(c) /\ tx'[c].amount <= tx[c].amount)
    <2>1. tx[c].amount \in Nat /\ Purposeful(tx[c])
        BY DEF IInv, TypeInv, Transactions, SponsorInv
    <2> QED
        BY <1>1, <1>2, <1>3, <2>1 DEF Adding, FundPlaces, Purposeful, ScopePlaces
<1> QED
    BY <1>1, <1>3, <1>4, <1>5, CallKeeps DEF IInv

-----------------------------------------------------------------------------
\* A transaction that is spent or outdated adds nothing more.
LEMMA SpentAddsNothing ==
    ASSUME NEW c \in Calls, NEW state \in TxStates \ {"sent"}
    PROVE  /\ Spent(c, state).amount = 0 /\ Spent(c, state).state # "sent"
           /\ Purposeful(Spent(c, state))
BY NoTxAddsNothing DEF Spent, Purposeful

LEMMA OutdatedAddsNothing ==
    ASSUME TypeInv, NEW but, NEW c \in Calls
    PROVE  \/ Outdated(but)[c] = tx[c]
           \/ Outdated(but)[c] = Spent(c, "failed")
BY DEF Outdated

\* The ledger executes one transaction, or none, and outdates the others.
LEMMA LedgerSponsor ==
    ASSUME IInv, TypeInv', SponsorInv,
           \/ \E c \in Calls : Execute(c) \/ ExecuteFails(c)
           \/ OtherTransaction
    PROVE  SponsorInv'
<1>1. UNCHANGED <<queue, pc, owner, overlapped>>
    BY DEF Execute, ExecuteFails, OtherTransaction, locals, history
<1>2. QueueInv'
    BY <1>1 DEF SponsorInv, QueueInv, Running
<1>3. \A d \in Calls : tx[d].amount \in Nat /\ Purposeful(tx[d])
    BY DEF IInv, TypeInv, Transactions, SponsorInv
<1>4. \A d \in Calls : \/ tx'[d] = tx[d]
                       \/ \E state \in TxStates \ {"sent"} : tx'[d] = Spent(d, state)
    <2>1. "failed" \in TxStates \ {"sent"} /\ "executed" \in TxStates \ {"sent"}
        BY DEF TxStates
    <2>2. CASE OtherTransaction
        BY <2>1, <2>2, OutdatedAddsNothing DEF OtherTransaction, IInv
    <2>3. ASSUME NEW c \in Calls, Execute(c) \/ ExecuteFails(c), NEW d \in Calls
          PROVE  \/ tx'[d] = tx[d]
                 \/ \E state \in TxStates \ {"sent"} : tx'[d] = Spent(d, state)
        <3>1. PICK state \in {"failed", "executed"} : tx' = [Outdated({c}) EXCEPT ![c] = Spent(c, state)]
            BY <2>3 DEF Execute, ExecuteFails
        <3>2. tx'[d] = IF d = c THEN Spent(c, state) ELSE Outdated({c})[d]
            BY <3>1 DEF Outdated
        <3> QED
            BY <2>1, <3>2, OutdatedAddsNothing DEF IInv
    <2> QED
        BY <2>2, <2>3
<1>5. \A d \in Calls : Purposeful(tx[d])' /\ tx'[d].amount <= tx[d].amount
    BY <1>3, <1>4, SpentAddsNothing
<1>6. \A d \in Calls : Adding(d)' => Adding(d)
    BY <1>1, <1>4, SpentAddsNothing DEF Adding
<1>7. CASE UNCHANGED ledger
    <2>1. \A o \in Owners : balance'[o] <= balance[o]
        BY <1>7 DEF IInv, TypeInv, ledger
    <2>2. FundInv'
        BY <1>1, <1>5, <1>6, <2>1, FundKept DEF IInv, SponsorInv
    <2> QED
        BY <1>2, <1>5, <1>7, <2>2 DEF SponsorInv, ledger
<1>8. ASSUME NEW c \in Calls, Execute(c) PROVE SponsorInv'
    <2> DEFINE o == owner[c]
    <2>1. /\ tx[c].state = "sent" /\ tx[c].of \in {"deploy", "fund"} /\ o \in Owners
          /\ pc[c] # "new"
        BY <1>3, <1>8, NoTxAddsNothing
           DEF Execute, InFlight, Purposeful, IInv, TypeInv, CallInv, Transactions, Operations
    <2>2. executed' \subseteq {"deploy", "fund"} \X Calls
        BY <1>8, <2>1 DEF Execute, SponsorInv
    <2>3. /\ balance'[o] = balance[o] + tx[c].amount
          /\ \A p \in Owners \ {o} : balance'[p] = balance[p]
          /\ \A p \in Owners : balance[p] \in Nat
        BY <1>8, <2>1 DEF Execute, IInv, TypeInv
    <2>4. tx'[c].amount = 0 /\ (tx[c].of = "deploy" => tx[c].amount = 0)
        <3>1. PICK state \in {"failed", "executed"} : tx' = [Outdated({c}) EXCEPT ![c] = Spent(c, state)]
            BY <1>8 DEF Execute
        <3>2. tx'[c] = Spent(c, state) /\ state \in TxStates \ {"sent"}
            BY <3>1 DEF Outdated, TxStates
        <3> QED
            BY <1>3, <3>2, SpentAddsNothing DEF Purposeful
    <2>5. CASE tx[c].of = "deploy"
        <3>1. \A p \in Owners : balance'[p] <= balance[p]
            BY <2>3, <2>4, <2>5
        <3> QED
            BY <1>1, <1>2, <1>5, <1>6, <2>2, <3>1, FundKept DEF IInv, SponsorInv
    <2>6. CASE tx[c].of = "fund"
        <3>1. Adding(c)
            BY <2>1, <2>6 DEF Adding
        <3>2. ASSUME NEW p \in Owners \ overlapped PROVE balance'[p] <= Target
            BY <2>3, <3>1 DEF SponsorInv, FundInv
        <3>3. ASSUME NEW p \in Owners \ overlapped, NEW d \in Calls, Adding(d)', owner[d] = p
              PROVE  balance'[p] + tx'[d].amount <= Target
            <4>1. CASE p = o
                <5>1. d = c
                    BY <1>6, <3>1, <3>3, <4>1 DEF SponsorInv, FundInv
                <5> QED
                    BY <1>3, <2>3, <2>4, <3>2, <3>3, <4>1, <5>1, OnboardingAssumption
            <4>2. CASE p # o
                <5>1. balance[p] + tx[d].amount <= Target
                    BY <1>6, <3>3 DEF SponsorInv, FundInv
                <5>2. balance'[p] = balance[p] /\ balance[p] \in Nat /\ tx'[d].amount \in Nat
                    BY <2>3, <4>2 DEF TypeInv, Transactions
                <5> QED
                    BY <1>3, <1>5, <5>1, <5>2, OnboardingAssumption
            <4> QED
                BY <4>1, <4>2
        <3>4. ASSUME NEW p \in Owners \ overlapped, NEW d \in Calls, Adding(d)', owner[d] = p,
                     NEW e \in Calls, Adding(e)', owner[e] = p
              PROVE  d = e
            BY <1>6, <3>4 DEF SponsorInv, FundInv
        <3>5. FundInv'
            BY <1>1, <3>2, <3>3, <3>4 DEF FundInv
        <3> QED
            BY <1>2, <1>5, <2>2, <3>5 DEF SponsorInv
    <2> QED
        BY <2>1, <2>5, <2>6
<1> QED
    BY <1>7, <1>8 DEF ExecuteFails, OtherTransaction

\* A treasury spends.
LEMMA SpendSponsor ==
    ASSUME IInv, TypeInv', SponsorInv, NEW o \in Owners, Spend(o)
    PROVE  SponsorInv'
<1>1. UNCHANGED <<executed, queue, owner, pc, tx, overlapped>>
    BY DEF Spend, locals, history
<1>2. \A p \in Owners : balance'[p] <= balance[p]
    BY DEF Spend, IInv, TypeInv
<1>3. \A d \in Calls : Adding(d)' => Adding(d) /\ owner'[d] = owner[d] /\ tx'[d].amount <= tx[d].amount
    BY <1>1 DEF Adding, IInv, TypeInv, Transactions
<1>4. FundInv'
    BY <1>1, <1>2, <1>3, FundKept DEF IInv, SponsorInv
<1> QED
    BY <1>1, <1>4 DEF SponsorInv, QueueInv, Running

\* The queue is lost; what was handed over is not.
LEMMA RestartSponsor ==
    ASSUME IInv, TypeInv', SponsorInv, Restart
    PROVE  SponsorInv'
<1>1. /\ queue' = <<>> /\ UNCHANGED <<ledger, owner, overlapped>>
      /\ pc' = [c \in Calls |-> IF pc[c] \in Awaits THEN "lost" ELSE pc[c]]
      /\ tx' = [c \in Calls |-> IF tx[c].state \in {"none", "loaded"} THEN NoTx ELSE tx[c]]
    BY DEF Restart, history
<1>2. \A c \in Calls : pc'[c] \notin Queued /\ pc'[c] \notin RunningPlaces /\ pc'[c] \notin FundPlaces
    BY <1>1 DEF Awaits, Queued, RunningPlaces, FundPlaces
<1>3. QueueInv'
    BY <1>1, <1>2 DEF QueueInv
<1>4. \A c \in Calls : Purposeful(tx[c])'
    BY <1>1, NoTxAddsNothing DEF SponsorInv
<1>5. \A d \in Calls : Adding(d)' => Adding(d) /\ owner'[d] = owner[d] /\ tx'[d].amount <= tx[d].amount
    BY <1>1, <1>2, NoTxAddsNothing DEF Adding, IInv, TypeInv, Transactions
<1>6. \A o \in Owners : balance'[o] <= balance[o]
    BY <1>1 DEF ledger, IInv, TypeInv
<1>7. FundInv'
    BY <1>1, <1>5, <1>6, FundKept DEF IInv, SponsorInv
<1> QED
    BY <1>1, <1>3, <1>4, <1>7 DEF SponsorInv, ledger

\* Each step of the specification.
LEMMA SponsorKept ==
    ASSUME IInv, TypeInv', SponsorInv, [Next]_vars
    PROVE  SponsorInv'
<1>1. ASSUME NEW c \in Calls, ProfileStep(c) PROVE SponsorInv'
    BY <1>1, ReadsSponsor, SendsSponsor, RejectionsSponsor, SettlesSponsor, BalanceSponsor
       DEF ProfileStep
<1>2. CASE UNCHANGED vars
    BY <1>2 DEF vars, SponsorInv, QueueInv, Running, FundInv, Adding
<1> QED
    BY <1>1, <1>2, BeginSponsor, ScopeSponsor, LedgerSponsor, SpendSponsor, RestartSponsor
       DEF Next

\* Nothing is queued, and nothing is added.
LEMMA SponsorBegins == Init => SponsorInv
<1> SUFFICES ASSUME Init PROVE SponsorInv
    OBVIOUS
<1>1. QueueInv
    BY DEF Init, QueueInv, Queued, RunningPlaces
<1>2. FundInv
    BY OnboardingAssumption, NoTxAddsNothing DEF Init, FundInv, Adding, FundPlaces
<1> QED
    BY <1>1, <1>2, NoTxAddsNothing DEF Init, SponsorInv

\* Both invariants hold in every reachable state.
THEOREM SponsorHolds == Spec => [](IInv /\ SponsorInv)
<1>1. Init => IInv /\ SponsorInv
    BY InitEstablishes, SponsorBegins
<1>2. IInv /\ SponsorInv /\ [Next]_vars => (IInv /\ SponsorInv)'
    <2>1. IInv' => TypeInv'
        BY DEF IInv
    <2> QED
        BY <2>1, StepPreserves, SponsorKept
<1> QED
    BY <1>1, <1>2, PTL DEF Spec

\* Every variable of ownerService stays in its type, and a call is in serializeSource's
\* queue, once, as long as its operation is not settled: no operation is dropped and none
\* runs beside another.
THEOREM TypeCorrect == Spec => []TypeOK
<1>1. IInv /\ SponsorInv => TypeOK
    BY DEF IInv, TypeInv, CallInv, SponsorInv, QueueInv, TypeOK, Places, Profiles, Transactions, Made
<1> QED
    BY <1>1, SponsorHolds, PTL

\* ensureOwnerTreasuryFunding: however transactions are delayed, given up and executed
\* late, a treasury whose balance was never read with another funding under way holds no
\* more than the target.
THEOREM LoneFundingIsExact == Spec => []LoneFundingReachesTarget
<1>1. SponsorInv => LoneFundingReachesTarget
    BY DEF SponsorInv, FundInv, LoneFundingReachesTarget
<1> QED
    BY <1>1, SponsorHolds, PTL
=============================================================================
