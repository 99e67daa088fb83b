-------------------------- MODULE SmartAccountAuth --------------------------
(***************************************************************************)
(* Authorization entries of a delegated smart-account payment: what        *)
(* packages/stellar-smart-account-auth builds for the payer and validates  *)
(* for the facilitator.                                                    *)
(*                                                                         *)
(* An invocation is a record [contract, fn, args].  An entry is a record   *)
(* [addr, cred, sig, expires, root, subs]: its credentials, its signature, *)
(* the last ledger it is good for, the invocation it authorizes and the    *)
(* number of invocations nested in that one.  A hash is an injective       *)
(* function, so a digest is the record of everything it is taken over.     *)
(***************************************************************************)
EXTENDS Integers, Sequences

\* A row of a list of checks the code makes one after the other: the
\* condition that must hold and the reason it answers with otherwise.
Check(ok, why) == [ok |-> ok, why |-> why]

Passes(checks) == \A i \in DOMAIN checks : checks[i].ok

FirstFailure(checks) ==
    checks[CHOOSE i \in DOMAIN checks :
              ~checks[i].ok /\ \A j \in 1 .. (i - 1) : checks[j].ok].why

\* The token call a payment makes.
TransferInvocation(t) ==
    [contract |-> t.token, fn |-> "transfer", args |-> <<t.from, t.to, t.amount>>]

\* What __check_auth is called with: the hash of the payer entry's signature
\* payload (network, expiry, invocation tree) and of the selected rules.
AuthDigest(entry, network, ruleIds) ==
    [network |-> network, expires |-> entry.expires, root |-> entry.root,
     subs |-> entry.subs, ruleIds |-> ruleIds]

CheckAuthInvocation(account, digest) ==
    [contract |-> account, fn |-> "__check_auth", args |-> <<digest>>]

\* Signatures, by the shape of their value: no signature, the vector of an
\* ordinary account, a map that is no AuthPayload, an AuthPayload.
Unsigned == [kind |-> "void", delegate |-> "none", ruleIds |-> <<>>]
AccountSignature == [Unsigned EXCEPT !.kind = "vec"]
ForeignMap == [Unsigned EXCEPT !.kind = "map"]
AuthPayload(delegate, ruleIds) ==
    [kind |-> "payload", delegate |-> delegate, ruleIds |-> ruleIds]

IsSigned(entry) == entry.sig.kind # "void"

\* The two signed entries a delegate produces from the payer's recorded one.
DelegatedEntries(recorded, delegate, ruleIds, validUntil, network) ==
    LET payer == [recorded EXCEPT !.expires = validUntil,
                                  !.sig = AuthPayload(delegate, ruleIds)]
        digest == AuthDigest(payer, network, ruleIds)
    IN  <<payer,
          [addr |-> delegate, cred |-> "address", sig |-> AccountSignature,
           expires |-> validUntil, subs |-> 0,
           root |-> CheckAuthInvocation(recorded.addr, digest)]>>

IsPayerEntry(entry, payer) == entry.cred = "address" /\ entry.addr = payer

\* readAuthPayload: one delegated signer and at least one rule.
HasAuthPayload(sig) == sig.kind = "payload" /\ sig.ruleIds # <<>>

\* validateDelegatedAuthorizationEntries.  Its reasons differ only in the
\* text of a detail, so the verdict is a Boolean.  The payer's entry is the
\* first one of the payer's address.
ValidDelegatedEntries(entries, transfer, network, expectedRule, noRule) ==
    /\ Len(entries) = 2
    /\ \E p \in 1 .. 2 :
         LET payer == entries[p]
             other == entries[3 - p]
         IN  /\ IsPayerEntry(payer, transfer.from)
             /\ p = 2 => ~IsPayerEntry(other, transfer.from)
             /\ other.cred = "address"
             /\ IsSigned(payer) /\ IsSigned(other)
             /\ payer.expires = other.expires
             /\ payer.subs = 0
             /\ payer.root = TransferInvocation(transfer)
             /\ HasAuthPayload(payer.sig)
             /\ expectedRule # noRule => payer.sig.ruleIds = <<expectedRule>>
             /\ other.addr = payer.sig.delegate
             /\ other.subs = 0
             /\ other.root = CheckAuthInvocation(transfer.from,
                                 AuthDigest(payer, network, payer.sig.ruleIds))

\* The signer and the rules of the payer's entry, for entries found valid.
SignedPayload(entries, payer) ==
    LET p == CHOOSE i \in DOMAIN entries :
                /\ IsPayerEntry(entries[i], payer)
                /\ \A j \in 1 .. (i - 1) : ~IsPayerEntry(entries[j], payer)
    IN  entries[p].sig

SelectedRule(entries, payer) == SignedPayload(entries, payer).ruleIds[1]

\* validateDelegatedPaymentTransaction: the transaction is decoded again and
\* its call compared again before the entries are.
ValidDelegatedTransaction(tx, transfer, network, expectedRule, noRule) ==
    /\ tx.form = "decoded"
    /\ tx.signatures = 0 /\ tx.ops = 1
    /\ tx.op = "invokeHostFunction" /\ tx.host = "invokeContract"
    /\ tx.call = TransferInvocation(transfer)
    /\ ValidDelegatedEntries(tx.auth, transfer, network, expectedRule, noRule)
=============================================================================
