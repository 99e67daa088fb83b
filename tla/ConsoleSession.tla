--------------------------- MODULE ConsoleSession ---------------------------
(***************************************************************************)
(* The console's HTTP API where it keeps state: login challenges and       *)
(* session cookies, prepared wallet operations from their preparation to   *)
(* the row that records them, and the cooldown of the public demo.         *)
(*                                                                         *)
(* A cookie is signed with a key derived from the operator's password: it  *)
(* is valid wherever it is kept and survives a restart, which loses the    *)
(* challenges, the prepared operations and the requests.  A request is     *)
(* made by whoever holds a cookie, with any operation id and a signature   *)
(* of any wallet.  An action is the code between two awaits.               *)
(***************************************************************************)
EXTENDS Integers, FiniteSets

CONSTANTS
    Owners,         \* wallets
    Nonces,         \* login challenges, fresh random numbers
    Operations,     \* ids of prepared operations, fresh uuids
    Submits,        \* requests to submit a prepared operation, each made once
    Demos, Clients, \* requests of the public demo, and where they come from
    None,           \* an absent map entry
    ChallengeTtl,   \* 120 s
    SessionTtl,     \* 24 h
    PreparedTtl,    \* 60 s
    AuthTtl,        \* the 12 ledgers a prepared authorization is valid for
    Cooldown,       \* publicDemo.successCooldownMs
    MaxTime, MaxRestarts, MaxLogins,    \* bounds
    MaxRequests     \* bound: challenges, preparations, submissions and demos together

ASSUME SessionAssumption ==
    /\ None \notin Owners
    /\ {ChallengeTtl, SessionTtl, PreparedTtl, AuthTtl} \subseteq Nat
    /\ Cooldown \in Nat \ {0}
    /\ {MaxTime, MaxRestarts, MaxLogins, MaxRequests} \subseteq Nat

Kinds == {"create", "revoke"}
Scenarios == {"success", "over-limit"}      \* "unapproved-recipient" is like the second
Never == -Cooldown                          \* publicSuccesses.get(client) ?? 0

VARIABLES
    now, restarts,
    challenges,     \* the wallet and expiry of each login challenge
    cookies,        \* sessions that have been handed out: wallet and expiry
    logins,         \* history: how often each challenge was logged in with
    pending,        \* pendingAdminOperations
    prepared,       \* history: what was prepared under each id
    submit,         \* the submit requests: where they wait, and what they carry
    taken,          \* history: which owner took an operation to submit it
    refused,        \* history: operations a request was refused for
    executed,       \* ledger: operations that have executed
    recorded,       \* table: operations recorded as created or revoked
    successes,      \* publicSuccesses
    demo,           \* the demo requests
    paid            \* history: when this process has begun to pay for a client's demo

loginVars == <<challenges, cookies, logins>>
adminVars == <<pending, prepared, submit, taken, refused, executed, recorded>>
demoVars == <<successes, demo, paid>>
vars == <<now, restarts, challenges, cookies, logins, pending, prepared, submit, taken,
          refused, executed, recorded, successes, demo, paid>>

NoChallenge == [address |-> None, expiresAt |-> 0]
NoOperation == [owner |-> None, kind |-> "none", expiresAt |-> 0, validUntil |-> 0]
NoSubmit == [at |-> "new", owner |-> None, kind |-> "none", operation |-> None, signer |-> None]
NoDemo == [at |-> "new", client |-> None, scenario |-> "none"]

OperationRecords == [owner : Owners \cup {None}, kind : Kinds \cup {"none"},
                     expiresAt : Nat, validUntil : Nat]
SubmitSteps == {"new", "scope", "queued", "confirmed", "answered", "ended"}
SubmitRecords == [at : SubmitSteps, owner : Owners \cup {None}, kind : Kinds \cup {"none"},
                  operation : Operations \cup {None}, signer : Owners \cup {None}]
DemoSteps == {"new", "listing", "paying", "ended"}
DemoRecords == [at : DemoSteps, client : Clients \cup {None}, scenario : Scenarios \cup {"none"}]

\* The variables have their types; a pending operation is the one that was prepared.
TypeOK ==
    /\ now \in Nat /\ restarts \in Nat
    /\ challenges \in [Nonces -> [address : Owners \cup {None}, expiresAt : Nat]]
    /\ cookies \subseteq [address : Owners, expiresAt : Nat]
    /\ logins \in [Nonces -> Nat]
    /\ prepared \in [Operations -> OperationRecords]
    /\ pending \in [Operations -> OperationRecords]
    /\ \A op \in Operations : pending[op] \in {NoOperation, prepared[op]}
    /\ submit \in [Submits -> SubmitRecords]
    /\ taken \subseteq Submits \X Operations
    /\ refused \subseteq Operations /\ executed \subseteq Operations /\ recorded \subseteq Operations
    /\ successes \in [Clients -> Int]
    /\ demo \in [Demos -> DemoRecords]
    /\ paid \subseteq Clients \X Nat \X Demos

Init ==
    /\ now = 0 /\ restarts = 0
    /\ challenges = [n \in Nonces |-> NoChallenge]
    /\ cookies = {} /\ logins = [n \in Nonces |-> 0]
    /\ pending = [op \in Operations |-> NoOperation]
    /\ prepared = [op \in Operations |-> NoOperation]
    /\ submit = [s \in Submits |-> NoSubmit]
    /\ taken = {} /\ refused = {} /\ executed = {} /\ recorded = {}
    /\ successes = [c \in Clients |-> Never]
    /\ demo = [d \in Demos |-> NoDemo]
    /\ paid = {}

RequestsMade ==
    Cardinality({n \in Nonces : challenges[n] # NoChallenge \/ logins[n] > 0})
    + Cardinality({op \in Operations : prepared[op] # NoOperation})
    + Cardinality({s \in Submits : submit[s] # NoSubmit})
    + Cardinality({d \in Demos : demo[d] # NoDemo})
MayRequest == RequestsMade < MaxRequests

-----------------------------------------------------------------------------
(* Login. *)

\* GET /api/owner/challenge
IssueChallenge(n, o) ==
    /\ MayRequest
    /\ challenges[n] = NoChallenge /\ logins[n] = 0
    /\ challenges' = [challenges EXCEPT ![n] = [address |-> o, expiresAt |-> now + ChallengeTtl]]
    /\ UNCHANGED <<now, restarts, cookies, logins, adminVars, demoVars>>

DropChallenge(n) == [challenges EXCEPT ![n] = NoChallenge]

\* POST /api/owner/login for address o, with o's signature of the message; every
\* other answer is a 401 and changes nothing.
Login(n, o) ==
    /\ challenges[n].address = o /\ challenges[n].expiresAt >= now
    /\ logins[n] < MaxLogins
    /\ challenges' = DropChallenge(n)
    /\ cookies' = cookies \cup {[address |-> o, expiresAt |-> now + SessionTtl]}
    /\ logins' = [logins EXCEPT ![n] = @ + 1]
    /\ UNCHANGED <<now, restarts, adminVars, demoVars>>

\* ownerSessionAddress, by requireOwner and currentOwner: the wallets that can be
\* authenticated now.
SessionOwners == {cookie.address : cookie \in {k \in cookies : k.expiresAt >= now}}

-----------------------------------------------------------------------------
(* Wallet-signed operations. *)

\* prepareCreate, prepareRevoke: the authorization is simulated and the operation put.
\* What they await before the put reads and writes none of this state.
Prepare(op, o, kind) ==
    LET operation == [owner |-> o, kind |-> kind, expiresAt |-> now + PreparedTtl,
                      validUntil |-> now + AuthTtl] IN
    /\ o \in SessionOwners
    /\ MayRequest /\ prepared[op] = NoOperation
    /\ pending' = [pending EXCEPT ![op] = operation]
    /\ prepared' = [prepared EXCEPT ![op] = operation]
    /\ UNCHANGED <<now, restarts, loginVars, submit, taken, refused, executed, recorded, demoVars>>

\* POST .../submit: the session is checked, then the owner's scope is awaited.
BeginSubmit(s, o, kind, op, signer) ==
    /\ MayRequest /\ submit[s].at = "new"
    /\ o \in SessionOwners
    /\ submit' = [submit EXCEPT ![s] = [at |-> "scope", owner |-> o, kind |-> kind,
                                        operation |-> op, signer |-> signer]]
    /\ UNCHANGED <<now, restarts, loginVars, pending, prepared, taken, refused, executed,
                   recorded, demoVars>>

\* PendingOwnerOperations.take: present, of this owner, of this kind, in time.
\* Fault: the kind of the operation is not compared.
UsableForAnyKind(operation, s) ==
    /\ operation # NoOperation /\ operation.expiresAt >= now
    /\ operation.owner = submit[s].owner
\* Fault: the owner of the operation is not compared.
UsableByAnyOwner(operation, s) ==
    /\ operation # NoOperation /\ operation.expiresAt >= now
    /\ operation.kind = submit[s].kind
Usable(operation, s) ==
    /\ operation # NoOperation /\ operation.expiresAt >= now
    /\ operation.owner = submit[s].owner
    /\ operation.kind = submit[s].kind

\* Fault: a refused request does not delete the entry.
DropUsable(op) ==
    IF \E s \in Submits : submit[s].operation = op /\ submit[s].at = "scope" /\ Usable(pending[op], s)
    THEN [pending EXCEPT ![op] = NoOperation] ELSE pending
DropOperation(op) == [pending EXCEPT ![op] = NoOperation]

Take(s) ==
    LET op == submit[s].operation IN
    /\ submit[s].at = "scope"
    /\ pending' = DropOperation(op)
    /\ \/ /\ Usable(pending[op], s)
          /\ submit' = [submit EXCEPT ![s].at = "queued"]
          /\ taken' = taken \cup {<<s, op>>} /\ UNCHANGED refused
       \/ /\ ~Usable(pending[op], s)
          /\ submit' = [submit EXCEPT ![s].at = "ended"]
          /\ refused' = IF prepared[op] = NoOperation THEN refused ELSE refused \cup {op}
          /\ UNCHANGED taken
    /\ UNCHANGED <<now, restarts, loginVars, prepared, executed, recorded, demoVars>>

\* submitWalletAdminCall, when it is its turn in the queue: the signature is the
\* admin's over this very preimage, and the ledger accepts the authorization of
\* that admin's treasury, once and in time.
Authorized(s) ==
    LET op == submit[s].operation IN
    /\ submit[s].signer = submit[s].owner
    /\ prepared[op].owner = submit[s].owner
    /\ now <= prepared[op].validUntil /\ op \notin executed

Execute(s) ==
    /\ submit[s].at = "queued" /\ Authorized(s)
    /\ executed' = executed \cup {submit[s].operation}
    /\ \E at \in {"confirmed", "ended"} : submit' = [submit EXCEPT ![s].at = at]
    /\ UNCHANGED <<now, restarts, loginVars, pending, prepared, taken, refused, recorded, demoVars>>

\* The scope is not to be had, or the call fails or stays unknown.
SubmitFails(s) ==
    /\ submit[s].at \in {"scope", "queued"}
    /\ submit' = [submit EXCEPT ![s].at = "ended"]
    /\ UNCHANGED <<now, restarts, loginVars, pending, prepared, taken, refused, executed,
                   recorded, demoVars>>

\* submitCreate needs the id of a new rule in the result and throws without one;
\* submitRevoke marks the row of the prepared allowanceId.
Record(s) ==
    LET op == submit[s].operation IN
    /\ submit[s].at = "confirmed"
    /\ submit' = [submit EXCEPT ![s].at = "answered"]
    /\ recorded' = IF submit[s].kind = prepared[op].kind THEN recorded \cup {op} ELSE recorded
    /\ UNCHANGED <<now, restarts, loginVars, pending, prepared, taken, refused, executed, demoVars>>

-----------------------------------------------------------------------------
(* POST /api/public-demo/run *)

BeginDemo(d, client, scenario) ==
    /\ MayRequest /\ demo[d].at = "new"
    /\ demo' = [demo EXCEPT ![d] = [at |-> "listing", client |-> client, scenario |-> scenario]]
    /\ UNCHANGED <<now, restarts, loginVars, adminVars, successes, paid>>

DemoRefused(d) == demo' = [demo EXCEPT ![d].at = "ended"] /\ UNCHANGED <<successes, paid>>

\* The allowances have been listed, and one is ACTIVE or none is.
Listed(d) ==
    LET client == demo[d].client
        cooling == now - successes[client] < Cooldown IN
    /\ demo[d].at = "listing"
    /\ \/ DemoRefused(d)
       \/ /\ demo[d].scenario = "over-limit"
          /\ demo' = [demo EXCEPT ![d].at = "paying"] /\ UNCHANGED <<successes, paid>>
       \/ /\ demo[d].scenario = "success" /\ ~cooling
          /\ successes' = [successes EXCEPT ![client] = now]
          /\ demo' = [demo EXCEPT ![d].at = "paying"]
          /\ paid' = paid \cup {<<client, now, d>>}
    /\ UNCHANGED <<now, restarts, loginVars, adminVars>>

\* fetch() has ended; a failure may hide a payment.
\* Fault: a failed demo does not count.
CooldownEnds(d) ==
    IF demo[d].scenario = "success" THEN [successes EXCEPT ![demo[d].client] = Never] ELSE successes
CooldownStays(d) == successes

DemoSucceeds(d) ==
    /\ demo[d].at = "paying"
    /\ demo' = [demo EXCEPT ![d].at = "ended"]
    /\ UNCHANGED <<now, restarts, loginVars, adminVars, successes, paid>>
DemoFails(d) ==
    /\ demo[d].at = "paying"
    /\ demo' = [demo EXCEPT ![d].at = "ended"]
    /\ successes' = CooldownStays(d)
    /\ UNCHANGED <<now, restarts, loginVars, adminVars, paid>>

-----------------------------------------------------------------------------
Tick ==
    /\ now < MaxTime /\ now' = now + 1
    /\ UNCHANGED <<restarts, loginVars, adminVars, demoVars>>

Restart ==
    /\ restarts < MaxRestarts /\ restarts' = restarts + 1
    /\ challenges' = [n \in Nonces |-> NoChallenge]
    /\ pending' = [op \in Operations |-> NoOperation]
    /\ submit' = [s \in Submits |-> IF submit[s].at = "new" THEN NoSubmit
                                    ELSE [submit[s] EXCEPT !.at =
                                              IF @ = "answered" THEN @ ELSE "ended"]]
    /\ successes' = [c \in Clients |-> Never] /\ paid' = {}
    /\ demo' = [d \in Demos |-> IF demo[d].at = "new" THEN NoDemo
                                ELSE [demo[d] EXCEPT !.at = "ended"]]
    /\ UNCHANGED <<now, cookies, logins, prepared, taken, refused, executed, recorded>>

Next ==
    \/ \E n \in Nonces, o \in Owners : IssueChallenge(n, o) \/ Login(n, o)
    \/ \E op \in Operations, o \in Owners, kind \in Kinds : Prepare(op, o, kind)
    \/ \E s \in Submits, o \in Owners, kind \in Kinds, op \in Operations, signer \in Owners :
           BeginSubmit(s, o, kind, op, signer)
    \/ \E s \in Submits : Take(s) \/ Execute(s) \/ SubmitFails(s) \/ Record(s)
    \/ \E d \in Demos, client \in Clients, scenario \in Scenarios : BeginDemo(d, client, scenario)
    \/ \E d \in Demos : Listed(d) \/ DemoSucceeds(d) \/ DemoFails(d)
    \/ Tick
    \/ Restart

Spec == Init /\ [][Next]_vars

-----------------------------------------------------------------------------
(* Properties. *)

\* A login challenge is single-use: of several logins with one signed message only
\* one is given a session.
OneLoginPerChallenge == \A n \in Nonces : logins[n] <= 1

\* A prepared operation is one-time: two requests never both submit it, and none
\* does after a request with it has been refused.
PreparedIsOneTime ==
    [][\A t \in taken' \ taken : /\ t[2] \notin refused
                                 /\ \A u \in taken : u[2] # t[2]]_vars

\* An operation is submitted by its own wallet only: in the scope of the owner who
\* prepared it, and it executes with that owner's signature.
PreparedIsWalletBound ==
    \A t \in taken :
        /\ submit[t[1]].owner = prepared[t[2]].owner
        /\ submit[t[1]].at \in {"confirmed", "answered"} => submit[t[1]].signer = prepared[t[2]].owner

\* A rule that the console saw created or removed is in the table when the request
\* is answered: no confirmed operation ends in a handler that cannot record it.
ConfirmedIsRecorded ==
    \A s \in Submits : submit[s].at = "answered" => submit[s].operation \in recorded

\* Within one life of the process no client has the public treasury pay twice within
\* the cooldown, however its requests overlap and however the first one ends.
DemoPaysOncePerCooldown ==
    \A p, q \in paid : p[1] = q[1] /\ p[3] # q[3] => p[2] - q[2] \notin (1 - Cooldown) .. (Cooldown - 1)
=============================================================================
