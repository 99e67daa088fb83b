--------------------------- MODULE AllowanceIndex ---------------------------
(***************************************************************************)
(* The allowances of one treasury: the context rules on the ledger and     *)
(* the table that indexes them.  create, get and revoke of the SDK, the    *)
(* wallet-signed create and revoke of the console, and the hydration of    *)
(* the table when the console builds an owner's scope.                     *)
(*                                                                         *)
(* The table and the ledger are written by different steps, with awaits    *)
(* and possibly a crash in between, so each may be ahead of the other.  An *)
(* action is the code between two awaits.  Every admin transaction is paid *)
(* by one account, whose sequence number orders them.                      *)
(***************************************************************************)
EXTENDS Integers, FiniteSets

CONSTANTS
    Creates, Revokes, Gets,     \* calls of each kind, each made once
    Initial,                    \* the creation of rule 1 by the treasury's constructor
    Nobody,                     \* SQL NULL, nobody yet
    MaxRules                    \* rule ids are 1 .. MaxRules (0 is the admin's rule)

AdminCalls == Creates \cup Revokes
Calls == AdminCalls \cup Gets

ASSUME IndexAssumption ==
    /\ Creates \cap Revokes = {} /\ Creates \cap Gets = {} /\ Revokes \cap Gets = {}
    /\ Initial \notin Calls /\ Nobody \notin Calls /\ Initial # Nobody
    /\ MaxRules \in Nat \ {0}

Ids == 1 .. MaxRules

VARIABLES
    sequence,       \* sequence number of the fee payer's account
    nextId,         \* next context rule id
    author,         \* ledger: who created each rule
    remover,        \* ledger: who removed it
    tx,             \* the transaction of each call: "none", "sent", "executed"
    row,            \* the allowances table: status, terms (whose rule), revoke_tx_hash
    pc,             \* where each call is suspended
    target,         \* the rule id the call works on
    sequenceRead,   \* the sequence number its transaction is built with
    sawRemoved,     \* gets that began when their rule was already removed
    reported,       \* the status a get returned
    scope,          \* "absent", "scanning", "reading" one rule, or "ready"
    count, cursor   \* hydrateOwnerStore's locals

chainVars == <<sequence, nextId, author, remover>>
callVars == <<pc, target, sequenceRead>>
getVars == <<sawRemoved, reported>>
scopeVars == <<scope, count, cursor>>
vars == <<sequence, nextId, author, remover, tx, row, pc, target, sequenceRead,
          sawRemoved, reported, scope, count, cursor>>

Statuses == {"none", "ACTIVE", "EXHAUSTED", "EXPIRED", "ERROR", "REVOKED"}
Awaits == {"load", "simulate", "send", "poll", "read"}

Live == {id \in Ids : author[id] # Nobody /\ remover[id] = Nobody}

TypeOK ==
    /\ sequence \in Nat
    /\ nextId \in 1 .. MaxRules + 1
    /\ author \in [Ids -> Creates \cup {Initial, Nobody}]
    /\ remover \in [Ids -> Revokes \cup {Nobody}]
    /\ tx \in [AdminCalls -> {"none", "sent", "executed"}]
    /\ row \in [Ids -> [status : Statuses, terms : Creates \cup {Initial, Nobody},
                        revokedBy : Revokes \cup {Nobody}]]
    /\ pc \in [Calls -> {"idle", "done"} \cup Awaits]
    /\ target \in [Calls -> Ids \cup {0}]
    /\ sequenceRead \in [AdminCalls -> Nat]
    /\ sawRemoved \subseteq Gets
    /\ reported \in [Gets -> Statuses]
    /\ scope \in {"absent", "scanning", "reading", "ready"}
    /\ count \in 0 .. MaxRules + 1
    /\ cursor \in 1 .. MaxRules + 1

Row(status, terms, revokedBy) == [status |-> status, terms |-> terms, revokedBy |-> revokedBy]

NoRow == Row("none", Nobody, Nobody)

\* The treasury is deployed with rule 1; its row is written after that, if the process
\* lives that long.
Init ==
    /\ sequence = 0
    /\ nextId = 2
    /\ author = [id \in Ids |-> IF id = 1 THEN Initial ELSE Nobody]
    /\ remover = [id \in Ids |-> Nobody]
    /\ tx = [c \in AdminCalls |-> "none"]
    /\ \E first \in {NoRow, Row("ACTIVE", Initial, Nobody)} :
            row = [id \in Ids |-> IF id = 1 THEN first ELSE NoRow]
    /\ pc = [c \in Calls |-> "idle"]
    /\ target = [c \in Calls |-> 0]
    /\ sequenceRead = [c \in AdminCalls |-> 0]
    /\ sawRemoved = {}
    /\ reported = [g \in Gets |-> "none"]
    /\ scope = "absent"
    /\ count = 0
    /\ cursor = 1

Goto(c, point) == pc' = [pc EXCEPT ![c] = point]

\* store.putAllowance: on a conflict status, label, spending and revoke_tx_hash are
\* replaced, the terms are not.
PutAllowance(id, new) ==
    row' = [row EXCEPT ![id] =
                IF @.status = "none" THEN new ELSE [new EXCEPT !.terms = row[id].terms]]

-----------------------------------------------------------------------------
(* Building the scope: hydrateOwnerStore. *)

\* get_context_rules_count: the live rules and the admin's.  Without it the scope is
\* used as it is.
HydrateCount ==
    /\ scope = "absent"
    /\ \/ scope' = "scanning" /\ count' = Cardinality(Live) + 1 /\ cursor' = 1
       \/ scope' = "ready" /\ UNCHANGED <<count, cursor>>
    /\ UNCHANGED <<chainVars, tx, row, callVars, getVars>>

\* A rule without a row is read; a removed rule and a failed read are skipped.
HydrateNext ==
    /\ scope = "scanning"
    /\ cursor < count
    /\ \/ /\ row[cursor].status = "none"
          /\ cursor \in Live
          /\ scope' = "reading"
          /\ UNCHANGED cursor
       \/ cursor' = cursor + 1 /\ UNCHANGED scope
    /\ UNCHANGED <<chainVars, tx, row, callVars, getVars, count>>

\* What was read is recorded as ACTIVE.
HydrateStore ==
    /\ scope = "reading"
    /\ PutAllowance(cursor, Row("ACTIVE", author[cursor], Nobody))
    /\ scope' = "scanning"
    /\ cursor' = cursor + 1
    /\ UNCHANGED <<chainVars, tx, callVars, getVars, count>>

HydrateDone ==
    /\ scope = "scanning"
    /\ cursor = count
    /\ scope' = "ready"
    /\ count' = 0
    /\ cursor' = 1
    /\ UNCHANGED <<chainVars, tx, row, callVars, getVars>>

-----------------------------------------------------------------------------
(* Admin transactions: submitAdminCall, submitWalletAdminCall. *)

BeginCreate(c) ==
    /\ scope = "ready"
    /\ pc[c] = "idle"
    /\ Goto(c, "load")
    /\ UNCHANGED <<chainVars, tx, row, target, sequenceRead, getVars, scopeVars>>

\* The SDK returns a revoked record as it is; the console submits once more.
BeginRevoke(c, id) ==
    /\ scope = "ready"
    /\ pc[c] = "idle"
    /\ row[id].status # "none"
    /\ \/ Goto(c, "load")
       \/ row[id].status = "REVOKED" /\ Goto(c, "done")
    /\ target' = [target EXCEPT ![c] = id]
    /\ UNCHANGED <<chainVars, tx, row, sequenceRead, getVars, scopeVars>>

LoadAccount(c) ==
    /\ pc[c] = "load"
    /\ sequenceRead' = [sequenceRead EXCEPT ![c] = sequence]
    /\ Goto(c, "simulate")
    /\ UNCHANGED <<chainVars, tx, row, target, getVars, scopeVars>>

\* The enforcing simulation: what add_context_rule returns here is taken for the id of
\* the rule.
SimulateCreate(c) ==
    /\ pc[c] = "simulate"
    /\ nextId \in Ids
    /\ target' = [target EXCEPT ![c] = nextId]
    /\ Goto(c, "send")
    /\ UNCHANGED <<chainVars, tx, row, sequenceRead, getVars, scopeVars>>

SimulateRevoke(c) ==
    /\ pc[c] = "simulate"
    /\ target[c] \in Live
    /\ Goto(c, "send")
    /\ UNCHANGED <<chainVars, tx, row, target, sequenceRead, getVars, scopeVars>>

\* Fault: the account is loaded again before the transaction is sent.
SendReloading(c) ==
    /\ pc[c] = "send"
    /\ tx' = [tx EXCEPT ![c] = "sent"]
    /\ sequenceRead' = [sequenceRead EXCEPT ![c] = sequence]
    /\ Goto(c, "poll")
    /\ UNCHANGED <<chainVars, row, target, getVars, scopeVars>>

Send(c) ==
    /\ pc[c] = "send"
    /\ tx' = [tx EXCEPT ![c] = "sent"]
    /\ Goto(c, "poll")
    /\ UNCHANGED <<chainVars, row, target, sequenceRead, getVars, scopeVars>>

\* getTransaction reports SUCCESS: the row is written.
CreateConfirmed(c) ==
    /\ pc[c] = "poll"
    /\ tx[c] = "executed"
    /\ PutAllowance(target[c], Row("ACTIVE", c, Nobody))
    /\ Goto(c, "done")
    /\ UNCHANGED <<chainVars, tx, target, sequenceRead, getVars, scopeVars>>

\* Fault: an accepted transaction is taken for an executed one.
RevokeConfirmedEarly(c) ==
    /\ pc[c] = "poll"
    /\ PutAllowance(target[c], Row("REVOKED", Nobody, c))
    /\ Goto(c, "done")
    /\ UNCHANGED <<chainVars, tx, target, sequenceRead, getVars, scopeVars>>

RevokeConfirmed(c) ==
    /\ pc[c] = "poll"
    /\ tx[c] = "executed"
    /\ PutAllowance(target[c], Row("REVOKED", Nobody, c))
    /\ Goto(c, "done")
    /\ UNCHANGED <<chainVars, tx, target, sequenceRead, getVars, scopeVars>>

\* A read, a simulation or the submission fails, or the 60 s are over: nothing is
\* written, although the transaction may have been sent.
AdminThrows(c) ==
    /\ pc[c] \in Awaits
    /\ Goto(c, "done")
    /\ UNCHANGED <<chainVars, tx, row, target, sequenceRead, getVars, scopeVars>>

-----------------------------------------------------------------------------
(* get; list is a get of every row at once. *)

\* A revoked record is returned as it is.
BeginGet(g, id) ==
    /\ scope = "ready"
    /\ pc[g] = "idle"
    /\ row[id].status # "none"
    /\ target' = [target EXCEPT ![g] = id]
    /\ sawRemoved' = IF remover[id] # Nobody THEN sawRemoved \cup {g} ELSE sawRemoved
    /\ IF row[id].status = "REVOKED"
         THEN Goto(g, "done") /\ reported' = [reported EXCEPT ![g] = "REVOKED"]
         ELSE Goto(g, "read") /\ UNCHANGED reported
    /\ UNCHANGED <<chainVars, tx, row, sequenceRead, scopeVars>>

\* Fault: a failed read reports what the table says.
ReadRuleCached(g) ==
    /\ pc[g] = "read"
    /\ reported[g] = "none"
    /\ \E status \in {row[target[g]].status} \cup
            (IF target[g] \in Live THEN {"ACTIVE", "EXHAUSTED", "EXPIRED"} ELSE {}) :
        reported' = [reported EXCEPT ![g] = status]
    /\ UNCHANGED <<chainVars, tx, row, callVars, sawRemoved, scopeVars>>

\* The ledger answers: a removed rule has no spending data, a read may always fail.
ReadRule(g) ==
    /\ pc[g] = "read"
    /\ reported[g] = "none"
    /\ \E status \in {"ERROR"} \cup
            (IF target[g] \in Live THEN {"ACTIVE", "EXHAUSTED", "EXPIRED"} ELSE {}) :
        reported' = [reported EXCEPT ![g] = status]
    /\ UNCHANGED <<chainVars, tx, row, callVars, sawRemoved, scopeVars>>

\* The answer arrives and the record read at the beginning is written back with it.
StoreStatus(g) ==
    /\ pc[g] = "read"
    /\ reported[g] # "none"
    /\ PutAllowance(target[g], Row(reported[g], Nobody, Nobody))
    /\ Goto(g, "done")
    /\ UNCHANGED <<chainVars, tx, target, sequenceRead, getVars, scopeVars>>

-----------------------------------------------------------------------------
(* The ledger and the process. *)

\* A transaction is only valid at the sequence number it was built with.
Executable(c) == tx[c] = "sent" /\ sequenceRead[c] = sequence

ExecuteCreate(c) ==
    /\ Executable(c)
    /\ nextId \in Ids
    /\ author' = [author EXCEPT ![nextId] = c]
    /\ nextId' = nextId + 1
    /\ sequence' = sequence + 1
    /\ tx' = [tx EXCEPT ![c] = "executed"]
    /\ UNCHANGED <<remover, row, callVars, getVars, scopeVars>>

ExecuteRevoke(c) ==
    /\ Executable(c)
    /\ target[c] \in Live
    /\ remover' = [remover EXCEPT ![target[c]] = c]
    /\ sequence' = sequence + 1
    /\ tx' = [tx EXCEPT ![c] = "executed"]
    /\ UNCHANGED <<nextId, author, row, callVars, getVars, scopeVars>>

\* The transaction fails on the ledger, which costs its sequence number.
ExecuteFails(c) ==
    /\ Executable(c)
    /\ sequence' = sequence + 1
    /\ UNCHANGED <<nextId, author, remover, tx, row, callVars, getVars, scopeVars>>

\* The process dies; the next one opens the same table and hydrates it again.
Crash ==
    /\ scope # "absent"
    /\ scope' = "absent"
    /\ count' = 0
    /\ cursor' = 1
    /\ pc' = [c \in Calls |-> IF pc[c] \in Awaits THEN "done" ELSE pc[c]]
    /\ UNCHANGED <<chainVars, tx, row, target, sequenceRead, getVars>>

-----------------------------------------------------------------------------

Create(c) == BeginCreate(c) \/ SimulateCreate(c) \/ CreateConfirmed(c) \/ ExecuteCreate(c)

Revoke(c) ==
    \/ \E id \in Ids : BeginRevoke(c, id)
    \/ SimulateRevoke(c) \/ RevokeConfirmed(c) \/ ExecuteRevoke(c)

Admin(c) == LoadAccount(c) \/ Send(c) \/ AdminThrows(c) \/ ExecuteFails(c)

Get(g) == (\E id \in Ids : BeginGet(g, id)) \/ ReadRule(g) \/ StoreStatus(g)

Hydrate == HydrateCount \/ HydrateNext \/ HydrateStore \/ HydrateDone

Next ==
    \/ \E c \in Creates : Create(c)
    \/ \E c \in Revokes : Revoke(c)
    \/ \E c \in AdminCalls : Admin(c)
    \/ \E g \in Gets : Get(g)
    \/ Hydrate
    \/ Crash

Spec == Init /\ [][Next]_vars

-----------------------------------------------------------------------------
(* Properties *)

\* A row describes the rule of its id.  The id comes from a simulation made before the
\* transaction, so concurrent creations could be given each other's ids; that each is
\* bound to the sequence number read before its simulation rules it out.
RowNamesItsRule ==
    \A id \in Ids : row[id].status # "none" => row[id].terms = author[id]

\* A row that says REVOKED names the call whose transaction removed the rule: neither a
\* transaction still under way, nor one that lost against another, is taken for it.
RevokedIsRemoved ==
    \A id \in Ids : row[id].status = "REVOKED" =>
        /\ row[id].revokedBy # Nobody
        /\ remover[id] = row[id].revokedBy

\* An allowance is never reported as usable by a get that began when its rule was
\* already removed, whatever the table says of it.
RemovedIsNotUsable ==
    \A g \in sawRemoved : reported[g] \in {"none", "ERROR", "REVOKED"}
=============================================================================
