----------------------- MODULE AllowanceIndex_proofs -----------------------
(***************************************************************************)
(* Safety of AllowanceIndex for any calls and any number of rules.         *)
(*                                                                         *)
(* The argument for RowNamesItsRule is in SequenceInv: a simulated id is   *)
(* still the next one as long as the account's sequence number is the one  *)
(* read before the simulation, and a transaction executes at no other.     *)
(***************************************************************************)
EXTENDS AllowanceIndex, FiniteSetTheorems, TLAPS

\* Rule ids are given out in order, and only created rules are removed.
ChainInv ==
    /\ nextId \in 2 .. MaxRules + 1
    /\ \A id \in Ids : author[id] # Nobody <=> id < nextId

\* A transaction exists only once it is sent, and is built with a sequence number the
\* account has had.
SentInv ==
    \A c \in AdminCalls :
        /\ sequenceRead[c] <= sequence
        /\ pc[c] \in {"idle", "load", "simulate", "send"} => tx[c] = "none"

\* The id of a creation that may still execute is the next one; an executed creation is
\* the author of its id.
SequenceInv ==
    \A c \in Creates :
        /\ pc[c] = "send" \/ tx[c] = "sent" =>
            /\ target[c] \in Ids
            /\ sequenceRead[c] = sequence => target[c] = nextId
        /\ tx[c] = "executed" => target[c] \in Ids /\ author[target[c]] = c

\* Revocations and gets work on a row that exists; an executed revocation removed it.
WorkInv ==
    /\ \A c \in Revokes \cup Gets :
        pc[c] \in Awaits => target[c] \in Ids /\ row[target[c]].status # "none"
    /\ \A c \in Revokes : tx[c] # "none" => target[c] \in Ids
    /\ \A c \in Revokes : tx[c] = "executed" => remover[target[c]] = c

\* A row belongs to a rule that was created.
RowInv ==
    \A id \in Ids : row[id].status # "none" =>
        row[id].terms = author[id] /\ author[id] # Nobody

\* A get that began after a removal reads a removed rule.
GetInv ==
    /\ \A g \in Gets : pc[g] = "idle" => reported[g] = "none" /\ g \notin sawRemoved
    /\ \A g \in Gets : pc[g] = "read" => reported[g] # "REVOKED"
    /\ \A g \in sawRemoved : target[g] \in Ids /\ remover[target[g]] # Nobody

\* The rule that hydration has read was created.
ScopeInv == scope = "reading" => cursor \in Ids /\ author[cursor] # Nobody

SafeInv == /\ ScopeInv /\ ChainInv /\ SentInv /\ SequenceInv /\ WorkInv /\ RowInv /\ GetInv
           /\ RevokedIsRemoved /\ RemovedIsNotUsable

IInv == TypeOK /\ SafeInv

\* Cardinality(Live) is at most MaxRules, so hydration never looks beyond the ids.
LEMMA LiveBounded == Cardinality(Live) \in 0 .. MaxRules
<1>1. IsFiniteSet(Ids) /\ Cardinality(Ids) = MaxRules
    BY FS_Interval, IndexAssumption DEF Ids
<1>2. Live \subseteq Ids
    BY DEF Live
<1>3. IsFiniteSet(Live) /\ Cardinality(Live) <= Cardinality(Ids) /\ Cardinality(Live) \in Nat
    BY <1>1, <1>2, FS_Subset, FS_CardinalityType
<1> QED
    BY <1>1, <1>3, IndexAssumption

USE DEF AdminCalls, Calls, Ids

\* The initial states, with or without the row of the first rule, satisfy the invariant.
LEMMA InitInv == Init => IInv
<1> SUFFICES ASSUME Init PROVE IInv
    OBVIOUS
<1>1. TypeOK
    BY IndexAssumption DEF Init, TypeOK, NoRow, Row, Statuses, Awaits
<1>2. ScopeInv /\ ChainInv /\ SentInv /\ SequenceInv /\ WorkInv
    BY IndexAssumption DEF Init, ScopeInv, ChainInv, SentInv, SequenceInv, WorkInv, Awaits
<1>3. RowInv /\ GetInv /\ RevokedIsRemoved /\ RemovedIsNotUsable
    BY IndexAssumption DEF Init, RowInv, GetInv, RevokedIsRemoved, RemovedIsNotUsable, NoRow, Row
<1> QED
    BY <1>1, <1>2, <1>3 DEF IInv, SafeInv

\* No step of a call, the hydration, the ledger or a crash leaves the declared types.
LEMMA TypeStep == TypeOK /\ ScopeInv /\ [Next]_vars => TypeOK'
<1> SUFFICES ASSUME TypeOK, ScopeInv, [Next]_vars PROVE TypeOK'
    OBVIOUS
<1> USE IndexAssumption DEF TypeOK, chainVars, callVars, getVars, scopeVars, Goto, Statuses, Awaits
<1>1. ASSUME NEW c \in Creates, Create(c) PROVE TypeOK'
    <2>1. CASE BeginCreate(c) BY <2>1 DEF BeginCreate
    <2>2. CASE SimulateCreate(c) BY <2>2 DEF SimulateCreate
    <2>3. CASE CreateConfirmed(c) BY <2>3 DEF CreateConfirmed, PutAllowance, Row
    <2>4. CASE ExecuteCreate(c) BY <2>4 DEF ExecuteCreate, Executable
    <2> HIDE DEF TypeOK
    <2> QED BY <1>1, <2>1, <2>2, <2>3, <2>4 DEF Create
<1>2. ASSUME NEW c \in Revokes, Revoke(c) PROVE TypeOK'
    <2>1. ASSUME NEW id \in Ids, BeginRevoke(c, id) PROVE TypeOK' BY <2>1 DEF BeginRevoke
    <2>2. CASE SimulateRevoke(c) BY <2>2 DEF SimulateRevoke
    <2>3. CASE RevokeConfirmed(c) BY <2>3 DEF RevokeConfirmed, PutAllowance, Row
    <2>4. CASE ExecuteRevoke(c) BY <2>4 DEF ExecuteRevoke, Executable, Live
    <2> HIDE DEF TypeOK
    <2> QED BY <1>2, <2>1, <2>2, <2>3, <2>4 DEF Revoke
<1>3. ASSUME NEW c \in AdminCalls, Admin(c) PROVE TypeOK'
    <2>1. CASE LoadAccount(c) BY <2>1 DEF LoadAccount
    <2>2. CASE Send(c) BY <2>2 DEF Send
    <2>3. CASE AdminThrows(c) BY <2>3 DEF AdminThrows
    <2>4. CASE ExecuteFails(c) BY <2>4 DEF ExecuteFails, Executable
    <2> HIDE DEF TypeOK
    <2> QED BY <1>3, <2>1, <2>2, <2>3, <2>4 DEF Admin
<1>4. ASSUME NEW g \in Gets, Get(g) PROVE TypeOK'
    <2>1. ASSUME NEW id \in Ids, BeginGet(g, id) PROVE TypeOK' BY <2>1 DEF BeginGet
    <2>2. CASE ReadRule(g) BY <2>2 DEF ReadRule
    <2>3. CASE StoreStatus(g) BY <2>3 DEF StoreStatus, PutAllowance, Row
    <2> HIDE DEF TypeOK
    <2> QED BY <1>4, <2>1, <2>2, <2>3 DEF Get
<1>5. CASE Hydrate
    <2>1. CASE HydrateCount BY <2>1, LiveBounded DEF HydrateCount
    <2>2. CASE HydrateNext BY <2>2 DEF HydrateNext
    <2>3. CASE HydrateDone BY <2>3 DEF HydrateDone
    <2>4. CASE HydrateStore
        <3>1. Row("ACTIVE", author[cursor], Nobody) \in
                [status : Statuses, terms : Creates \cup {Initial, Nobody},
                 revokedBy : Revokes \cup {Nobody}]
            BY <2>4 DEF HydrateStore, Row, ScopeInv
        <3>2. row' \in [Ids -> [status : Statuses, terms : Creates \cup {Initial, Nobody},
                                revokedBy : Revokes \cup {Nobody}]]
            BY <2>4, <3>1 DEF HydrateStore, PutAllowance, ScopeInv
        <3>3. cursor' \in 1 .. MaxRules + 1
            BY <2>4 DEF HydrateStore, ScopeInv
        <3> QED BY <2>4, <3>2, <3>3 DEF HydrateStore
    <2> HIDE DEF TypeOK
    <2> QED BY <1>5, <2>1, <2>2, <2>3, <2>4 DEF Hydrate
<1>6. CASE Crash
    BY <1>6 DEF Crash
<1>7. CASE UNCHANGED vars
    BY <1>7 DEF vars
<1> HIDE DEF TypeOK
<1> QED
    BY <1>1, <1>2, <1>3, <1>4, <1>5, <1>6, <1>7 DEF Next

\* Putting a row that exists keeps its terms.
LEMMA PutExisting ==
    ASSUME TypeOK, NEW id \in Ids, row[id].status # "none", NEW s, NEW t, NEW b,
           PutAllowance(id, Row(s, t, b))
    PROVE  /\ row'[id] = Row(s, row[id].terms, b)
           /\ \A j \in Ids \ {id} : row'[j] = row[j]
<1>1. [Row(s, t, b) EXCEPT !.terms = row[id].terms] = Row(s, row[id].terms, b)
    BY DEF Row
<1>2. row' = [row EXCEPT ![id] = [Row(s, t, b) EXCEPT !.terms = row[id].terms]]
    BY DEF PutAllowance
<1>3. row \in [Ids -> [status : Statuses, terms : Creates \cup {Initial, Nobody},
                      revokedBy : Revokes \cup {Nobody}]]
    BY DEF TypeOK
<1> QED
    BY <1>1, <1>2, <1>3

\* The invariant is inductive.
LEMMA StepInv == IInv /\ [Next]_vars => IInv'
<1> SUFFICES ASSUME IInv, [Next]_vars PROVE IInv'
    OBVIOUS
<1>0. TypeOK'
    BY TypeStep DEF IInv, SafeInv
<1> USE <1>0, IndexAssumption
    DEF IInv, SafeInv, TypeOK, ScopeInv, ChainInv, SentInv, SequenceInv, WorkInv, RowInv, GetInv,
        RevokedIsRemoved, RemovedIsNotUsable, chainVars, callVars, getVars, scopeVars, Goto, Awaits
<1>1. ASSUME NEW c \in Creates, Create(c) PROVE SafeInv'
    <2>1. CASE BeginCreate(c) BY <2>1 DEF BeginCreate
    <2>2. CASE SimulateCreate(c) BY <2>2 DEF SimulateCreate
    <2>3. CASE CreateConfirmed(c) BY <2>3 DEF CreateConfirmed, PutAllowance, Row
    <2>4. CASE ExecuteCreate(c) BY <2>4 DEF ExecuteCreate, Executable
    <2> HIDE DEF SafeInv
    <2> QED BY <1>1, <2>1, <2>2, <2>3, <2>4 DEF Create
<1>2. ASSUME NEW c \in Revokes, Revoke(c) PROVE SafeInv'
    <2>1. ASSUME NEW id \in Ids, BeginRevoke(c, id) PROVE SafeInv' BY <2>1 DEF BeginRevoke
    <2>2. CASE SimulateRevoke(c) BY <2>2 DEF SimulateRevoke
    <2>3. CASE RevokeConfirmed(c) BY <2>3 DEF RevokeConfirmed, PutAllowance, Row
    <2>4. CASE ExecuteRevoke(c) BY <2>4 DEF ExecuteRevoke, Executable, Live
    <2> HIDE DEF SafeInv
    <2> QED BY <1>2, <2>1, <2>2, <2>3, <2>4 DEF Revoke
<1>3. ASSUME NEW c \in AdminCalls, Admin(c) PROVE SafeInv'
    <2>1. CASE LoadAccount(c) BY <2>1 DEF LoadAccount
    <2>2. CASE Send(c) BY <2>2 DEF Send
    <2>3. CASE AdminThrows(c) BY <2>3 DEF AdminThrows
    <2>4. CASE ExecuteFails(c) BY <2>4 DEF ExecuteFails, Executable
    <2> HIDE DEF SafeInv
    <2> QED BY <1>3, <2>1, <2>2, <2>3, <2>4 DEF Admin
<1>4. ASSUME NEW g \in Gets, Get(g) PROVE SafeInv'
    <2>1. ASSUME NEW id \in Ids, BeginGet(g, id) PROVE SafeInv'
        <3>1. ScopeInv' /\ ChainInv' /\ SentInv' /\ SequenceInv' BY <2>1 DEF BeginGet
        <3>2. WorkInv' BY <2>1 DEF BeginGet
        <3>3. RowInv' /\ RevokedIsRemoved' BY <2>1 DEF BeginGet
        <3>4. GetInv'
            <4>1. pc[g] = "idle" /\ reported[g] = "none" /\ g \notin sawRemoved
                BY <2>1 DEF BeginGet
            <4>2. \A h \in Gets : pc'[h] # "idle" /\ h # g => pc'[h] = pc[h]
                BY <2>1 DEF BeginGet
            <4>3. ASSUME NEW h \in sawRemoved'
                  PROVE  target'[h] \in Ids /\ remover'[target'[h]] # Nobody
                <5>1. CASE h = g
                    <6>1. remover[id] # Nobody BY <2>1, <4>1, <4>3, <5>1 DEF BeginGet
                    <6>2. target'[h] = id /\ remover' = remover BY <2>1, <5>1 DEF BeginGet
                    <6> QED BY <6>1, <6>2
                <5>2. CASE h # g BY <2>1, <5>2, <4>3 DEF BeginGet
                <5> QED BY <5>1, <5>2
            <4>4. ASSUME NEW h \in Gets
                  PROVE  /\ pc'[h] = "idle" => reported'[h] = "none" /\ h \notin sawRemoved'
                         /\ pc'[h] = "read" => reported'[h] # "REVOKED"
                <5>1. CASE h = g BY <2>1, <4>1, <5>1 DEF BeginGet
                <5>2. CASE h # g BY <2>1, <5>2 DEF BeginGet
                <5> QED BY <5>1, <5>2
            <4> QED BY <4>3, <4>4
        <3>5. RemovedIsNotUsable' BY <2>1 DEF BeginGet
        <3> HIDE DEF ScopeInv, ChainInv, SentInv, SequenceInv, WorkInv, RowInv, GetInv, RevokedIsRemoved,
                     RemovedIsNotUsable
        <3> QED BY <3>1, <3>2, <3>3, <3>4, <3>5
    <2>2. CASE ReadRule(g) BY <2>2 DEF ReadRule, Live
    <2>3. CASE StoreStatus(g)
        <3>1. target[g] \in Ids /\ row[target[g]].status # "none"
            BY <2>3 DEF StoreStatus
        <3>2. PutAllowance(target[g], Row(reported[g], Nobody, Nobody))
            BY <2>3 DEF StoreStatus
        <3>3. /\ target[g] \in Ids /\ row[target[g]].status # "none"
              /\ row'[target[g]] = Row(reported[g], row[target[g]].terms, Nobody)
              /\ \A id \in Ids \ {target[g]} : row'[id] = row[id]
            BY <3>1, <3>2, PutExisting
        <3>4. UNCHANGED <<sequence, nextId, author, remover, tx, target, sequenceRead,
                          sawRemoved, reported, scope, cursor>>
            BY <2>3 DEF StoreStatus
        <3>5. pc' = [pc EXCEPT ![g] = "done"] /\ reported[g] # "none"
            BY <2>3 DEF StoreStatus
        <3>6. ScopeInv' /\ ChainInv' /\ SentInv' /\ SequenceInv' BY <3>5, <3>4
        <3>7. WorkInv'
            <4>1. \A id \in Ids : row[id].status # "none" => row'[id].status # "none"
                <5>1. row'[target[g]].status # "none" BY <3>5, <3>3 DEF Row
                <5> QED BY <3>3, <5>1
            <4> QED BY <3>5, <3>4, <4>1
        <3>8. RowInv'
            <4>1. row[target[g]].terms = author[target[g]] /\ author[target[g]] # Nobody
                BY <3>3
            <4>2. row'[target[g]].terms = author[target[g]]
                BY <3>3, <4>1 DEF Row
            <4>3. ASSUME NEW id \in Ids, row'[id].status # "none"
                  PROVE  row'[id].terms = author[id] /\ author[id] # Nobody
                <5>1. CASE id = target[g] BY <4>1, <4>2, <5>1
                <5>2. CASE id # target[g] BY <3>3, <4>3, <5>2
                <5> QED BY <5>1, <5>2
            <4> QED BY <3>4, <4>3
        <3>9. RevokedIsRemoved'
            <4>1. row'[target[g]].status # "REVOKED"
                BY <3>5, <3>3, <2>3 DEF StoreStatus, Row
            <4>2. ASSUME NEW id \in Ids, row'[id].status = "REVOKED"
                  PROVE  row'[id].revokedBy # Nobody /\ remover[id] = row'[id].revokedBy
                <5>1. CASE id = target[g] BY <4>1, <4>2, <5>1
                <5>2. CASE id # target[g] BY <3>3, <4>2, <5>2
                <5> QED BY <5>1, <5>2
            <4> QED BY <3>4, <4>2
        <3>10. GetInv' /\ RemovedIsNotUsable' BY <3>5, <3>4
        <3> HIDE DEF ScopeInv, ChainInv, SentInv, SequenceInv, WorkInv, RowInv, GetInv, RevokedIsRemoved,
                     RemovedIsNotUsable
        <3> QED BY <3>6, <3>7, <3>8, <3>9, <3>10
    <2> HIDE DEF SafeInv
    <2> QED BY <1>4, <2>1, <2>2, <2>3 DEF Get
<1>5. CASE Hydrate
    <2>1. CASE HydrateCount BY <2>1 DEF HydrateCount
    <2>2. CASE HydrateNext BY <2>2 DEF HydrateNext, Live
    <2>3. CASE HydrateDone BY <2>3 DEF HydrateDone
    <2>4. CASE HydrateStore
        <3>1. \A id \in Ids : \/ row'[id] = row[id]
                              \/ /\ row[id].status = "none" \/ row[id].terms = author[id]
                                 /\ row'[id] = Row("ACTIVE", author[id], Nobody)
                                 /\ author[id] # Nobody
            BY <2>4 DEF HydrateStore, PutAllowance, Row
        <3>2. UNCHANGED <<chainVars, tx, callVars, getVars>> /\ scope' = "scanning"
            BY <2>4 DEF HydrateStore
        <3> QED BY <3>1, <3>2 DEF Row
    <2> HIDE DEF SafeInv
    <2> QED BY <1>5, <2>1, <2>2, <2>3, <2>4 DEF Hydrate
<1>6. CASE Crash
    BY <1>6 DEF Crash
<1>7. CASE UNCHANGED vars
    BY <1>7 DEF vars
<1> HIDE DEF SafeInv, TypeOK, ScopeInv, ChainInv, SentInv, SequenceInv, WorkInv, RowInv, GetInv,
             RevokedIsRemoved, RemovedIsNotUsable
<1> QED
    BY <1>0, <1>1, <1>2, <1>3, <1>4, <1>5, <1>6, <1>7 DEF Next, IInv

\* Every reachable state satisfies the inductive invariant.
THEOREM Invariance == Spec => []IInv
<1>1. Init => IInv
    BY InitInv
<1>2. IInv /\ [Next]_vars => IInv'
    BY StepInv
<1> QED
    BY <1>1, <1>2, PTL DEF Spec

\* The table, the calls and the ledger's rules stay in their types.
THEOREM TypeCorrect == Spec => []TypeOK
<1> QED
    BY Invariance, PTL DEF IInv

\* Whatever the order of concurrent creations, crashes and hydrations, every row of the
\* allowances table describes the rule of its id.
THEOREM RowsNameTheirRules == Spec => []RowNamesItsRule
<1>1. IInv => RowNamesItsRule
    BY DEF IInv, SafeInv, RowInv, RowNamesItsRule
<1> QED
    BY <1>1, Invariance, PTL

\* A row only says REVOKED when the transaction it names has removed the rule.
THEOREM RevocationIsReal == Spec => []RevokedIsRemoved
<1> QED
    BY Invariance, PTL DEF IInv, SafeInv

\* A get that began after the removal of its rule reports ERROR or REVOKED.
THEOREM RemovedIsNeverUsable == Spec => []RemovedIsNotUsable
<1> QED
    BY Invariance, PTL DEF IInv, SafeInv
=============================================================================
