----------------------- MODULE ConsoleSession_proofs -----------------------
(***************************************************************************)
(* For any number of wallets, challenges, operations and requests: a login *)
(* challenge opens one session, a prepared operation is submitted once, by *)
(* its wallet, and recorded if it is confirmed; and no client has the      *)
(* public treasury pay twice within the cooldown.                          *)
(***************************************************************************)
EXTENDS ConsoleSession, TLAPS

\* What a request carries, once it has begun.
RequestInv ==
    /\ \A s \in Submits : submit[s].at # "new" =>
            submit[s].owner \in Owners /\ submit[s].operation \in Operations
    /\ \A d \in Demos : demo[d].at # "new" => demo[d].client \in Clients
    /\ \A op \in Operations : prepared[op] # NoOperation => prepared[op].owner \in Owners

\* A challenge that has been logged in with is gone.
LoginInv == \A n \in Nonces : logins[n] > 0 => challenges[n] = NoChallenge

\* An operation a request was taken or refused for has been prepared, and is no longer
\* pending.
PendingInv ==
    /\ \A t \in taken : prepared[t[2]] # NoOperation /\ pending[t[2]] = NoOperation
    /\ \A op \in refused : prepared[op] # NoOperation /\ pending[op] = NoOperation

\* A request is past take() with the operation it took, which is of its kind and owner.
TakenInv ==
    /\ \A s \in Submits : submit[s].at \in {"queued", "confirmed"} =>
            /\ <<s, submit[s].operation>> \in taken
            /\ submit[s].kind = prepared[submit[s].operation].kind
    /\ \A t \in taken :
            /\ submit[t[1]].at \in {"queued", "confirmed", "answered", "ended"}
            /\ submit[t[1]].operation = t[2]

\* The map holds the latest payment of each client.
DemoInv ==
    /\ \A c \in Clients : successes[c] <= now
    /\ \A p \in paid : p[2] <= successes[p[1]]

IInv ==
    /\ TypeOK /\ RequestInv
    /\ LoginInv /\ OneLoginPerChallenge
    /\ PendingInv /\ TakenInv
    /\ PreparedIsWalletBound /\ ConfirmedIsRecorded
    /\ DemoInv /\ DemoPaysOncePerCooldown

\* An absent entry is a record like the others.
LEMMA NoOperationTyped == NoOperation \in OperationRecords
BY DEF NoOperation, OperationRecords

\* A request that moves on keeps its type.
LEMMA SubmitMoves ==
    ASSUME submit \in [Submits -> SubmitRecords], NEW s \in Submits, NEW at \in SubmitSteps
    PROVE  [submit EXCEPT ![s].at = at] \in [Submits -> SubmitRecords]
<1>1. [submit[s] EXCEPT !.at = at] \in SubmitRecords
    BY DEF SubmitRecords
<1> QED
    BY <1>1

\* So does a demo request.
LEMMA DemoMoves ==
    ASSUME demo \in [Demos -> DemoRecords], NEW d \in Demos, NEW at \in DemoSteps
    PROVE  [demo EXCEPT ![d].at = at] \in [Demos -> DemoRecords]
<1>1. [demo[d] EXCEPT !.at = at] \in DemoRecords
    BY DEF DemoRecords
<1> QED
    BY <1>1

\* A process that has just started, with an empty table and ledger.
LEMMA InitEstablishes == Init => IInv
<1> SUFFICES ASSUME Init PROVE IInv
    OBVIOUS
<1> USE SessionAssumption DEF Init
<1>1. TypeOK
    BY NoOperationTyped DEF TypeOK, NoChallenge, SubmitRecords, SubmitSteps, NoSubmit,
       DemoRecords, DemoSteps, NoDemo, Never
<1>2. RequestInv /\ LoginInv /\ OneLoginPerChallenge
    BY DEF RequestInv, LoginInv, OneLoginPerChallenge, NoSubmit, NoDemo
<1>3. PendingInv /\ TakenInv /\ PreparedIsWalletBound /\ ConfirmedIsRecorded
    BY DEF PendingInv, TakenInv, PreparedIsWalletBound, ConfirmedIsRecorded, NoSubmit
<1>4. DemoInv /\ DemoPaysOncePerCooldown
    BY DEF DemoInv, DemoPaysOncePerCooldown, Never
<1> QED
    BY <1>1, <1>2, <1>3, <1>4 DEF IInv

-----------------------------------------------------------------------------
(* Login: nothing of the operations and the demo changes, and the other way    *)
(* round.                                                                      *)

\* The part of the invariant about prepared operations survives a step that leaves them.
LEMMA AdminFrame ==
    ASSUME IInv, UNCHANGED adminVars
    PROVE  PendingInv' /\ TakenInv' /\ PreparedIsWalletBound' /\ ConfirmedIsRecorded'
BY DEF IInv, adminVars, PendingInv, TakenInv, PreparedIsWalletBound, ConfirmedIsRecorded

\* The part about logins survives a step that leaves challenges and logins.
LEMMA LoginFrame ==
    ASSUME IInv, UNCHANGED loginVars
    PROVE  LoginInv' /\ OneLoginPerChallenge'
BY DEF IInv, loginVars, LoginInv, OneLoginPerChallenge

\* The part about the demo survives a step that leaves it while time does not go back.
LEMMA DemoFrame ==
    ASSUME IInv, UNCHANGED demoVars, now' \in Nat, now <= now'
    PROVE  DemoInv' /\ DemoPaysOncePerCooldown'
<1>1. DemoInv'
    BY DEF IInv, TypeOK, demoVars, DemoInv
<1>2. DemoPaysOncePerCooldown'
    BY DEF IInv, demoVars, DemoPaysOncePerCooldown
<1> QED
    BY <1>1, <1>2

\* GET /api/owner/challenge.
LEMMA IssueChallengePreserves ==
    ASSUME IInv, NEW n \in Nonces, NEW o \in Owners, IssueChallenge(n, o)
    PROVE  IInv'
<1> USE SessionAssumption DEF IssueChallenge
<1>1. TypeOK'
    BY DEF IInv, TypeOK, loginVars, adminVars, demoVars
<1>2. RequestInv'
    BY DEF IInv, RequestInv, adminVars, demoVars
<1>3. LoginInv' /\ OneLoginPerChallenge'
    BY DEF IInv, TypeOK, LoginInv, OneLoginPerChallenge
<1>4. DemoInv' /\ DemoPaysOncePerCooldown'
    BY DemoFrame DEF IInv, TypeOK
<1> QED
    BY <1>1, <1>2, <1>3, <1>4, AdminFrame DEF IInv

\* POST /api/owner/login.
LEMMA LoginPreserves ==
    ASSUME IInv, NEW n \in Nonces, NEW o \in Owners, Login(n, o)
    PROVE  IInv'
<1> USE SessionAssumption DEF Login, DropChallenge
<1>1. TypeOK'
    BY DEF IInv, TypeOK, adminVars, demoVars, NoChallenge
<1>2. RequestInv'
    BY DEF IInv, RequestInv, adminVars, demoVars
<1>3. challenges[n] # NoChallenge
    BY DEF NoChallenge
<1>4. logins[n] = 0
    BY <1>3 DEF IInv, TypeOK, LoginInv
<1>5. LoginInv' /\ OneLoginPerChallenge'
    BY <1>4 DEF IInv, TypeOK, LoginInv, OneLoginPerChallenge
<1>6. DemoInv' /\ DemoPaysOncePerCooldown'
    BY DemoFrame DEF IInv, TypeOK
<1> QED
    BY <1>1, <1>2, <1>5, <1>6, AdminFrame DEF IInv

-----------------------------------------------------------------------------
(* Wallet-signed operations. *)

\* A new operation touches none that was taken or refused, since those were prepared.
LEMMA PreparePreserves ==
    ASSUME IInv, NEW op \in Operations, NEW o \in Owners, NEW kind \in Kinds, Prepare(op, o, kind)
    PROVE  IInv'
<1> DEFINE operation == [owner |-> o, kind |-> kind, expiresAt |-> now + PreparedTtl,
                         validUntil |-> now + AuthTtl]
<1> USE SessionAssumption DEF Prepare
<1>1. operation \in OperationRecords /\ operation # NoOperation
    BY DEF IInv, TypeOK, OperationRecords, NoOperation
<1>2. /\ pending' = [pending EXCEPT ![op] = operation]
      /\ prepared' = [prepared EXCEPT ![op] = operation]
      /\ prepared[op] = NoOperation
    OBVIOUS
<1> HIDE DEF operation
<1>3. TypeOK'
    BY <1>1, <1>2 DEF IInv, TypeOK, loginVars, demoVars
<1>4. operation.owner = o
    BY DEF operation
<1>5. RequestInv'
    BY <1>2, <1>4 DEF IInv, TypeOK, RequestInv, demoVars
<1>6. \A t \in taken : t[2] # op
    BY <1>2 DEF IInv, PendingInv
<1>7. op \notin refused
    BY <1>2 DEF IInv, PendingInv
<1>8. \A t \in taken : t[2] \in Operations
    BY DEF IInv, TypeOK
<1>9. PendingInv'
    BY <1>2, <1>6, <1>7, <1>8 DEF IInv, TypeOK, PendingInv
<1>10. \A s \in Submits : submit[s].at \in {"queued", "confirmed"} =>
            submit[s].operation \in Operations /\ submit[s].operation # op
    BY <1>6 DEF IInv, TakenInv, RequestInv
<1>11. TakenInv'
    BY <1>2, <1>10 DEF IInv, TypeOK, TakenInv
<1>12. PreparedIsWalletBound' /\ ConfirmedIsRecorded'
    BY <1>2, <1>6, <1>8 DEF IInv, TypeOK, PreparedIsWalletBound, ConfirmedIsRecorded
<1>13. DemoInv' /\ DemoPaysOncePerCooldown'
    BY DemoFrame DEF IInv, TypeOK
<1> QED
    BY <1>3, <1>5, <1>9, <1>11, <1>12, <1>13, LoginFrame DEF IInv

\* A request that has only begun has taken nothing.
LEMMA BeginSubmitPreserves ==
    ASSUME IInv, NEW s \in Submits, NEW o \in Owners, NEW kind \in Kinds, NEW op \in Operations,
           NEW signer \in Owners, BeginSubmit(s, o, kind, op, signer)
    PROVE  IInv'
<1> USE SessionAssumption DEF BeginSubmit
<1>1. TypeOK'
    BY DEF IInv, TypeOK, loginVars, demoVars, SubmitRecords, SubmitSteps
<1>2. RequestInv'
    BY DEF IInv, TypeOK, RequestInv, demoVars
<1>3. \A t \in taken : t[1] \in Submits /\ t[1] # s
    BY DEF IInv, TypeOK, TakenInv
<1>4. PendingInv' /\ TakenInv'
    BY <1>3 DEF IInv, TypeOK, PendingInv, TakenInv
<1>5. PreparedIsWalletBound' /\ ConfirmedIsRecorded'
    BY <1>3 DEF IInv, TypeOK, PreparedIsWalletBound, ConfirmedIsRecorded
<1>6. DemoInv' /\ DemoPaysOncePerCooldown'
    BY DemoFrame DEF IInv, TypeOK
<1> QED
    BY <1>1, <1>2, <1>4, <1>5, <1>6, LoginFrame DEF IInv

\* take(): the operation is no longer pending, whatever becomes of the request.
LEMMA TakePreserves ==
    ASSUME IInv, NEW s \in Submits, Take(s)
    PROVE  IInv'
<1> DEFINE op == submit[s].operation
<1> USE SessionAssumption
<1>1. op \in Operations /\ submit[s].owner \in Owners
    BY DEF Take, IInv, RequestInv
<1>2. /\ pending' = [pending EXCEPT ![op] = NoOperation]
      /\ UNCHANGED <<now, restarts, loginVars, prepared, executed, recorded, demoVars>>
    BY DEF Take, DropOperation
<1>3. \A t \in taken : t[1] \in Submits /\ t[1] # s /\ t[2] \in Operations
    BY DEF Take, IInv, TypeOK, TakenInv
<1>4. DemoInv' /\ DemoPaysOncePerCooldown'
    BY <1>2, DemoFrame DEF IInv, TypeOK
<1>5. LoginInv' /\ OneLoginPerChallenge'
    BY <1>2, LoginFrame
<1>6. CASE Usable(pending[op], s)
    <2>1. /\ submit' = [submit EXCEPT ![s].at = "queued"]
          /\ taken' = taken \cup {<<s, op>>} /\ refused' = refused
        BY <1>6 DEF Take
    <2>2. /\ prepared[op] = pending[op] /\ prepared[op] # NoOperation
          /\ prepared[op].owner = submit[s].owner /\ prepared[op].kind = submit[s].kind
        BY <1>1, <1>6 DEF Usable, IInv, TypeOK
    <2>3. TypeOK'
        <3>1. submit' \in [Submits -> SubmitRecords]
            BY <2>1, SubmitMoves DEF IInv, TypeOK, SubmitSteps
        <3>2. pending' \in [Operations -> OperationRecords]
            BY <1>1, <1>2, NoOperationTyped DEF IInv, TypeOK
        <3>3. \A o \in Operations : pending'[o] \in {NoOperation, prepared'[o]}
            BY <1>1, <1>2 DEF IInv, TypeOK
        <3>4. taken' \subseteq Submits \X Operations
            BY <1>1, <2>1 DEF IInv, TypeOK
        <3> QED
            BY <1>2, <2>1, <3>1, <3>2, <3>3, <3>4 DEF IInv, TypeOK, loginVars, demoVars
    <2>4. RequestInv'
        BY <1>2, <2>1 DEF IInv, TypeOK, RequestInv, Take, demoVars
    <2>5. PendingInv'
        BY <1>1, <1>2, <1>3, <2>1, <2>2 DEF IInv, TypeOK, PendingInv
    <2>6. TakenInv'
        BY <1>1, <1>2, <1>3, <2>1, <2>2 DEF IInv, TypeOK, TakenInv
    <2>7. PreparedIsWalletBound' /\ ConfirmedIsRecorded'
        BY <1>1, <1>2, <1>3, <2>1, <2>2 DEF IInv, TypeOK, PreparedIsWalletBound, ConfirmedIsRecorded
    <2> QED
        BY <1>4, <1>5, <2>3, <2>4, <2>5, <2>6, <2>7 DEF IInv
<1>7. CASE ~Usable(pending[op], s)
    <2>1. /\ submit' = [submit EXCEPT ![s].at = "ended"] /\ taken' = taken
          /\ refused' = IF prepared[op] = NoOperation THEN refused ELSE refused \cup {op}
        BY <1>7 DEF Take
    <2>2. TypeOK'
        BY <1>1, <1>2, <2>1, NoOperationTyped, SubmitMoves DEF IInv, TypeOK, loginVars, demoVars, SubmitSteps
    <2>3. RequestInv'
        BY <1>2, <2>1 DEF IInv, TypeOK, RequestInv, Take, demoVars
    <2>4. PendingInv'
        BY <1>1, <1>2, <1>3, <2>1 DEF IInv, TypeOK, PendingInv
    <2>5. TakenInv'
        BY <1>2, <1>3, <2>1 DEF IInv, TypeOK, TakenInv
    <2>6. PreparedIsWalletBound' /\ ConfirmedIsRecorded'
        BY <1>2, <1>3, <2>1 DEF IInv, TypeOK, PreparedIsWalletBound, ConfirmedIsRecorded
    <2> QED
        BY <1>4, <1>5, <2>2, <2>3, <2>4, <2>5, <2>6 DEF IInv
<1> QED
    BY <1>6, <1>7

\* The ledger executes a request's operation, and the request learns of it or not.
LEMMA ExecutePreserves ==
    ASSUME IInv, NEW s \in Submits, Execute(s)
    PROVE  IInv'
<1> USE SessionAssumption
<1>1. /\ submit[s].at = "queued" /\ submit[s].operation \in Operations
      /\ prepared[submit[s].operation].owner = submit[s].owner
      /\ submit[s].signer = submit[s].owner
    BY DEF Execute, Authorized, IInv, RequestInv
<1>2. PICK at \in {"confirmed", "ended"} : submit' = [submit EXCEPT ![s].at = at]
    BY DEF Execute
<1>3. /\ executed' = executed \cup {submit[s].operation}
      /\ UNCHANGED <<now, restarts, loginVars, pending, prepared, taken, refused, recorded, demoVars>>
    BY DEF Execute
<1>4. TypeOK'
    BY <1>1, <1>2, <1>3, SubmitMoves DEF IInv, TypeOK, loginVars, demoVars, SubmitSteps
<1>5. RequestInv'
    BY <1>1, <1>2, <1>3 DEF IInv, TypeOK, RequestInv, demoVars
<1>6. PendingInv' /\ TakenInv'
    BY <1>1, <1>2, <1>3 DEF IInv, TypeOK, PendingInv, TakenInv
<1>7. PreparedIsWalletBound' /\ ConfirmedIsRecorded'
    BY <1>1, <1>2, <1>3 DEF IInv, TypeOK, TakenInv, PreparedIsWalletBound, ConfirmedIsRecorded
<1>8. DemoInv' /\ DemoPaysOncePerCooldown'
    BY <1>3, DemoFrame DEF IInv, TypeOK
<1> QED
    BY <1>3, <1>4, <1>5, <1>6, <1>7, <1>8, LoginFrame DEF IInv

\* A request ends without an answer.
LEMMA SubmitFailsPreserves ==
    ASSUME IInv, NEW s \in Submits, SubmitFails(s)
    PROVE  IInv'
<1> USE SessionAssumption DEF SubmitFails
<1>1. TypeOK'
    BY SubmitMoves DEF IInv, TypeOK, loginVars, demoVars, SubmitSteps
<1>2. RequestInv'
    BY DEF IInv, TypeOK, RequestInv, demoVars
<1>3. PendingInv' /\ TakenInv'
    BY DEF IInv, TypeOK, PendingInv, TakenInv
<1>4. PreparedIsWalletBound' /\ ConfirmedIsRecorded'
    BY DEF IInv, TypeOK, TakenInv, PreparedIsWalletBound, ConfirmedIsRecorded
<1>5. DemoInv' /\ DemoPaysOncePerCooldown'
    BY DemoFrame DEF IInv, TypeOK
<1> QED
    BY <1>1, <1>2, <1>3, <1>4, <1>5, LoginFrame DEF IInv

\* A confirmed request records its operation: TakenInv says that the kinds agree.
LEMMA RecordPreserves ==
    ASSUME IInv, NEW s \in Submits, Record(s)
    PROVE  IInv'
<1> USE SessionAssumption
<1>1. /\ submit[s].at = "confirmed" /\ submit[s].operation \in Operations
      /\ submit' = [submit EXCEPT ![s].at = "answered"]
      /\ UNCHANGED <<now, restarts, loginVars, pending, prepared, taken, refused, executed, demoVars>>
    BY DEF Record, IInv, RequestInv
<1>2. recorded' = recorded \cup {submit[s].operation}
    BY <1>1 DEF Record, IInv, TakenInv
<1>3. TypeOK'
    BY <1>1, <1>2, SubmitMoves DEF IInv, TypeOK, loginVars, demoVars, SubmitSteps
<1>4. RequestInv'
    BY <1>1 DEF IInv, TypeOK, RequestInv, demoVars
<1>5. PendingInv' /\ TakenInv'
    BY <1>1 DEF IInv, TypeOK, PendingInv, TakenInv
<1>6. PreparedIsWalletBound' /\ ConfirmedIsRecorded'
    BY <1>1, <1>2 DEF IInv, TypeOK, TakenInv, PreparedIsWalletBound, ConfirmedIsRecorded
<1>7. DemoInv' /\ DemoPaysOncePerCooldown'
    BY <1>1, DemoFrame DEF IInv, TypeOK
<1> QED
    BY <1>1, <1>3, <1>4, <1>5, <1>6, <1>7, LoginFrame DEF IInv

-----------------------------------------------------------------------------
(* The public demo. *)

\* The whole invariant, from the parts that a demo's step can disturb.
LEMMA DemoStepPreserves ==
    ASSUME IInv, UNCHANGED <<now, restarts, loginVars, adminVars>>,
           demo' \in [Demos -> DemoRecords],
           \A d \in Demos : demo'[d].at # "new" => demo'[d].client \in Clients,
           successes' \in [Clients -> Int], paid' \subseteq Clients \X Nat \X Demos,
           DemoInv', DemoPaysOncePerCooldown'
    PROVE  IInv'
<1>1. TypeOK'
    BY DEF IInv, TypeOK, loginVars, adminVars
<1>2. RequestInv'
    BY DEF IInv, RequestInv, adminVars
<1> QED
    BY <1>1, <1>2, LoginFrame, AdminFrame DEF IInv

\* A demo request begins.
LEMMA BeginDemoPreserves ==
    ASSUME IInv, NEW d \in Demos, NEW client \in Clients, NEW scenario \in Scenarios,
           BeginDemo(d, client, scenario)
    PROVE  IInv'
<1> USE DEF BeginDemo
<1>1. DemoInv' /\ DemoPaysOncePerCooldown'
    BY DEF IInv, DemoInv, DemoPaysOncePerCooldown
<1>2. demo' \in [Demos -> DemoRecords]
    BY DEF IInv, TypeOK, DemoRecords, DemoSteps
<1>3. \A e \in Demos : demo'[e].at # "new" => demo'[e].client \in Clients
    BY DEF IInv, TypeOK, RequestInv
<1> QED
    BY <1>1, <1>2, <1>3, DemoStepPreserves DEF IInv, TypeOK

\* The payment that begins now is a cooldown after the latest of its client, and so
\* after each of them.
LEMMA ListedPreserves ==
    ASSUME IInv, NEW d \in Demos, Listed(d)
    PROVE  IInv'
<1> DEFINE client == demo[d].client
<1> USE SessionAssumption
<1>1. client \in Clients /\ demo[d].at = "listing"
    BY DEF Listed, IInv, RequestInv
<1>2. PICK at \in {"paying", "ended"} : demo' = [demo EXCEPT ![d].at = at]
    BY DEF Listed, DemoRefused
<1>3. demo' \in [Demos -> DemoRecords]
    BY <1>2, DemoMoves DEF IInv, TypeOK, DemoSteps
<1>4. \A e \in Demos : demo'[e].at # "new" => demo'[e].client \in Clients
    BY <1>1, <1>2 DEF IInv, TypeOK, RequestInv
<1>5. UNCHANGED <<now, restarts, loginVars, adminVars>>
    BY DEF Listed
<1>6. CASE UNCHANGED <<successes, paid>>
    <2>1. DemoInv' /\ DemoPaysOncePerCooldown'
        BY <1>5, <1>6 DEF IInv, DemoInv, DemoPaysOncePerCooldown
    <2> QED
        BY <1>3, <1>4, <1>5, <1>6, <2>1, DemoStepPreserves DEF IInv, TypeOK
<1>7. CASE /\ successes' = [successes EXCEPT ![client] = now]
           /\ paid' = paid \cup {<<client, now, d>>}
           /\ ~(now - successes[client] < Cooldown)
    <2>1. successes' \in [Clients -> Int] /\ paid' \subseteq Clients \X Nat \X Demos
        BY <1>1, <1>7 DEF IInv, TypeOK
    <2>2. \A p \in paid : p[1] \in Clients /\ p[2] \in Nat /\ p[2] <= now
        BY DEF IInv, TypeOK, DemoInv
    <2>3. DemoInv'
        BY <1>1, <1>5, <1>7, <2>2 DEF IInv, TypeOK, DemoInv
    <2>4. \A p \in paid : p[1] = client => now - p[2] >= Cooldown
        BY <1>1, <1>7, <2>2 DEF IInv, TypeOK, DemoInv
    <2>5. ASSUME NEW p \in paid', NEW q \in paid', p[1] = q[1], p[3] # q[3]
          PROVE  p[2] - q[2] \notin (1 - Cooldown) .. (Cooldown - 1)
        <3>1. CASE p \in paid /\ q \in paid
            BY <2>5, <3>1 DEF IInv, DemoPaysOncePerCooldown
        <3>2. CASE p \in paid /\ q = <<client, now, d>>
            BY <2>2, <2>4, <2>5, <3>2 DEF IInv, TypeOK
        <3>3. CASE p = <<client, now, d>> /\ q \in paid
            BY <2>2, <2>4, <2>5, <3>3 DEF IInv, TypeOK
        <3> QED
            BY <1>7, <2>5, <3>1, <3>2, <3>3
    <2>6. DemoPaysOncePerCooldown'
        BY <2>5 DEF DemoPaysOncePerCooldown
    <2> QED
        BY <1>3, <1>4, <1>5, <2>1, <2>3, <2>6, DemoStepPreserves
<1> QED
    BY <1>6, <1>7 DEF Listed, DemoRefused

\* A demo ends, well or not; the cooldown stays.
LEMMA DemoEndsPreserves ==
    ASSUME IInv, NEW d \in Demos, DemoSucceeds(d) \/ DemoFails(d)
    PROVE  IInv'
<1>1. /\ demo[d].at = "paying" /\ demo' = [demo EXCEPT ![d].at = "ended"]
      /\ UNCHANGED <<now, restarts, loginVars, adminVars, successes, paid>>
    BY DEF DemoSucceeds, DemoFails, CooldownStays
<1>2. demo' \in [Demos -> DemoRecords]
    BY <1>1, DemoMoves DEF IInv, TypeOK, DemoSteps
<1>3. \A e \in Demos : demo'[e].at # "new" => demo'[e].client \in Clients
    BY <1>1 DEF IInv, TypeOK, RequestInv
<1>4. DemoInv' /\ DemoPaysOncePerCooldown'
    BY <1>1 DEF IInv, DemoInv, DemoPaysOncePerCooldown
<1> QED
    BY <1>1, <1>2, <1>3, <1>4, DemoStepPreserves DEF IInv, TypeOK

-----------------------------------------------------------------------------
(* The clock and the process. *)

\* Time passes.
LEMMA TickPreserves == IInv /\ Tick => IInv'
<1> SUFFICES ASSUME IInv, Tick PROVE IInv'
    OBVIOUS
<1> USE SessionAssumption DEF Tick
<1>1. TypeOK'
    BY DEF IInv, TypeOK, loginVars, adminVars, demoVars
<1>2. RequestInv'
    BY DEF IInv, RequestInv, adminVars, demoVars
<1>3. DemoInv' /\ DemoPaysOncePerCooldown'
    BY DemoFrame DEF IInv, TypeOK
<1> QED
    BY <1>1, <1>2, <1>3, LoginFrame, AdminFrame DEF IInv

\* A restart forgets challenges, operations and cooldowns; the histories stay, except
\* that of the cooldown.
LEMMA RestartPreserves == IInv /\ Restart => IInv'
<1> SUFFICES ASSUME IInv, Restart PROVE IInv'
    OBVIOUS
<1> USE SessionAssumption DEF Restart
<1>1. \A s \in Submits :
        /\ submit[s].at = "new" => submit'[s] = NoSubmit
        /\ submit[s].at # "new" =>
            /\ submit'[s].at = IF submit[s].at = "answered" THEN "answered" ELSE "ended"
            /\ submit'[s].owner = submit[s].owner /\ submit'[s].kind = submit[s].kind
            /\ submit'[s].operation = submit[s].operation /\ submit'[s].signer = submit[s].signer
    BY DEF IInv, TypeOK
<1>2. TypeOK'
    <2>1. submit' \in [Submits -> SubmitRecords]
        <3>1. NoSubmit \in SubmitRecords
            BY DEF NoSubmit, SubmitRecords, SubmitSteps
        <3>2. ASSUME NEW r \in SubmitRecords, NEW at \in SubmitSteps
              PROVE  [r EXCEPT !.at = at] \in SubmitRecords
            BY DEF SubmitRecords
        <3>3. {"answered", "ended"} \subseteq SubmitSteps
            BY DEF SubmitSteps
        <3> QED
            BY <3>1, <3>2, <3>3 DEF IInv, TypeOK
    <2>2. demo' \in [Demos -> DemoRecords]
        BY DEF IInv, TypeOK, DemoRecords, DemoSteps, NoDemo
    <2>3. challenges' \in [Nonces -> [address : Owners \cup {None}, expiresAt : Nat]]
        BY DEF NoChallenge
    <2>4. successes' \in [Clients -> Int]
        BY DEF Never
    <2> QED
        BY <2>1, <2>2, <2>3, <2>4, NoOperationTyped DEF IInv, TypeOK
<1>3. RequestInv'
    BY <1>1 DEF IInv, TypeOK, RequestInv, NoSubmit, NoDemo
<1>4. LoginInv' /\ OneLoginPerChallenge'
    BY DEF IInv, LoginInv, OneLoginPerChallenge
<1>5. \A t \in taken : t[1] \in Submits /\ t[2] \in Operations
    BY DEF IInv, TypeOK
<1>6. PendingInv' /\ TakenInv'
    <2>1. PendingInv'
        BY <1>5 DEF IInv, TypeOK, PendingInv
    <2>2. TakenInv'
        BY <1>1, <1>5 DEF IInv, TakenInv, NoSubmit
    <2> QED
        BY <2>1, <2>2
<1>7. PreparedIsWalletBound' /\ ConfirmedIsRecorded'
    BY <1>1, <1>5 DEF IInv, TypeOK, TakenInv, PreparedIsWalletBound, ConfirmedIsRecorded, NoSubmit
<1>8. DemoInv' /\ DemoPaysOncePerCooldown'
    BY DEF IInv, TypeOK, DemoInv, DemoPaysOncePerCooldown, Never
<1> QED
    BY <1>2, <1>3, <1>4, <1>6, <1>7, <1>8 DEF IInv

\* A step of others.
LEMMA StutterPreserves == IInv /\ UNCHANGED vars => IInv'
<1> SUFFICES ASSUME IInv, UNCHANGED vars PROVE IInv'
    OBVIOUS
<1>1. TypeOK' /\ RequestInv'
    BY DEF IInv, TypeOK, RequestInv, vars
<1>2. UNCHANGED <<loginVars, adminVars, demoVars>> /\ now' = now
    BY DEF vars, loginVars, adminVars, demoVars
<1>3. DemoInv' /\ DemoPaysOncePerCooldown'
    BY <1>2, DemoFrame DEF IInv, TypeOK
<1> QED
    BY <1>1, <1>2, <1>3, LoginFrame, AdminFrame DEF IInv

\* Each step of the specification.
LEMMA StepPreserves == IInv /\ [Next]_vars => IInv'
<1> SUFFICES ASSUME IInv, [Next]_vars PROVE IInv'
    OBVIOUS
<1>1. ASSUME NEW n \in Nonces, NEW o \in Owners, IssueChallenge(n, o) \/ Login(n, o) PROVE IInv'
    BY <1>1, IssueChallengePreserves, LoginPreserves
<1>2. ASSUME NEW op \in Operations, NEW o \in Owners, NEW kind \in Kinds, Prepare(op, o, kind)
      PROVE IInv'
    BY <1>2, PreparePreserves
<1>3. ASSUME NEW s \in Submits, NEW o \in Owners, NEW kind \in Kinds, NEW op \in Operations,
             NEW signer \in Owners, BeginSubmit(s, o, kind, op, signer)
      PROVE IInv'
    BY <1>3, BeginSubmitPreserves
<1>4. ASSUME NEW s \in Submits, Take(s) \/ Execute(s) \/ SubmitFails(s) \/ Record(s) PROVE IInv'
    BY <1>4, TakePreserves, ExecutePreserves, SubmitFailsPreserves, RecordPreserves
<1>5. ASSUME NEW d \in Demos, NEW client \in Clients, NEW scenario \in Scenarios,
             BeginDemo(d, client, scenario)
      PROVE IInv'
    BY <1>5, BeginDemoPreserves
<1>6. ASSUME NEW d \in Demos, Listed(d) \/ DemoSucceeds(d) \/ DemoFails(d) PROVE IInv'
    BY <1>6, ListedPreserves, DemoEndsPreserves
<1> QED
    BY <1>1, <1>2, <1>3, <1>4, <1>5, <1>6, TickPreserves, RestartPreserves, StutterPreserves DEF Next

\* The invariant holds in every reachable state.
THEOREM InvariantHolds == Spec => []IInv
BY InitEstablishes, StepPreserves, PTL DEF Spec

\* The variables have their types; a pending operation is the one that was prepared
\* (PendingOwnerOperations.put never replaces).
THEOREM TypeCorrect == Spec => []TypeOK
<1>1. IInv => TypeOK
    BY DEF IInv
<1> QED
    BY <1>1, InvariantHolds, PTL

\* POST /api/owner/login: one session for each challenge.
THEOREM LoginIsSingleUse == Spec => []OneLoginPerChallenge
<1>1. IInv => OneLoginPerChallenge
    BY DEF IInv
<1> QED
    BY <1>1, InvariantHolds, PTL

\* PendingOwnerOperations.take: only the wallet that prepared an operation submits it.
THEOREM OperationIsWalletBound == Spec => []PreparedIsWalletBound
<1>1. IInv => PreparedIsWalletBound
    BY DEF IInv
<1> QED
    BY <1>1, InvariantHolds, PTL

\* submitCreate, submitRevoke: an answered request has recorded its operation.
THEOREM ConfirmedHasRow == Spec => []ConfirmedIsRecorded
<1>1. IInv => ConfirmedIsRecorded
    BY DEF IInv
<1> QED
    BY <1>1, InvariantHolds, PTL

\* POST /api/public-demo/run: one payment of a client within each cooldown.
THEOREM CooldownHolds == Spec => []DemoPaysOncePerCooldown
<1>1. IInv => DemoPaysOncePerCooldown
    BY DEF IInv
<1> QED
    BY <1>1, InvariantHolds, PTL

\* A request only takes an operation that is pending, and what was taken or refused
\* before is not.
LEMMA StepTakesOnce ==
    ASSUME IInv, [Next]_vars, NEW t \in taken' \ taken
    PROVE  /\ t[2] \notin refused
           /\ \A u \in taken : u[2] # t[2]
<1>1. PICK s \in Submits : Take(s)
    BY DEF Next, vars, IssueChallenge, Login, Prepare, BeginSubmit, Execute, SubmitFails, Record,
           BeginDemo, Listed, DemoSucceeds, DemoFails, Tick, Restart, adminVars
<1>2. /\ t = <<s, submit[s].operation>>
      /\ pending[submit[s].operation] # NoOperation
    BY <1>1 DEF Take, Usable
<1> QED
    BY <1>2 DEF IInv, PendingInv

\* PendingOwnerOperations.take: an operation is submitted by one request only, and by
\* none after a refused one.
THEOREM OperationIsOneTime == Spec => PreparedIsOneTime
<1>1. IInv /\ [Next]_vars =>
        [\A t \in taken' \ taken : /\ t[2] \notin refused
                                   /\ \A u \in taken : u[2] # t[2]]_vars
    BY StepTakesOnce
<1> QED
    BY <1>1, InvariantHolds, PTL DEF Spec, PreparedIsOneTime
=============================================================================
