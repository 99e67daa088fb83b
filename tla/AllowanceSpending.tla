-------------------------- MODULE AllowanceSpending --------------------------
(***************************************************************************)
(* Spending under the context rules of one treasury: what the contracts    *)
(* enforce when a payment executes, and what the SDK decides before it     *)
(* signs one.  The SDK reads the policy's stored sum, decides, builds and  *)
(* simulates, each at a ledger of its own; the signed payment executes     *)
(* later or never, and other payments execute and rules are removed in     *)
(* between.  An action is the code between two awaits.                     *)
(*                                                                         *)
(* The accounting is the contracts' library, outside the repository: a     *)
(* transfer drops the entries that have left the window from the history,  *)
(* compares, and stores the new sum; reading it changes nothing.  The      *)
(* history is a set here: a payment executes once and names its entry, and *)
(* a sum does not depend on the order of the entries.                      *)
(***************************************************************************)
EXTENDS Integers, FiniteSetsExt

CONSTANTS
    Rules,          \* context rules that hold an allowance
    Initial,        \* the one the treasury's constructor adds
    Payments,       \* calls that pay, each made once
    Recipients, RecipientOf,    \* RecipientOf[r]: the recipient in rule r's policy
    Amounts,        \* atomic amounts; x402 and the builder refuse others than positive ones
    Limit, Period,  \* spending_limit and period_ledgers of every rule
    ValidUntil,     \* valid_until of every rule
    Timeout,        \* maxTimeoutSeconds of the merchant
    MaxLedger       \* bound: ledgers that close

ASSUME SpendingAssumption ==
    /\ Initial \in Rules
    /\ RecipientOf \in [Rules -> Recipients]
    /\ Amounts \subseteq Nat \ {0}
    /\ {Limit, Period} \subseteq Nat \ {0}
    /\ {ValidUntil, Timeout, MaxLedger} \subseteq Nat

VARIABLES
    ledger,         \* sequence number of the latest ledger
    live,           \* the rules that exist
    removed,        \* rules that have been removed: their ids do not come back
    data,           \* the spending policy's storage of each rule
    marked,         \* rules whose allowance has status REVOKED in the SDK's table
    pc,             \* where each payment is
    terms,          \* rule, amount and recipient of each payment
    seen,           \* spentAtomic and status of the allowance, as get() returned it
    authorizedUntil,\* signatureExpirationLedger of its authorization
    spent,          \* history: the payments executed, and when
    outdated        \* history: payments whose reading of the chain is outdated

rules == <<live, removed, data>>
vars == <<ledger, live, removed, data, marked, pc, terms, seen, authorizedUntil, spent, outdated>>

NoData == [total |-> 0, entries |-> {}]
NoTerms == [rule |-> Initial, amount |-> 0, to |-> RecipientOf[Initial]]
NotRead == [spent |-> 0, status |-> "ACTIVE"]
Statuses == {"ACTIVE", "EXHAUSTED", "EXPIRED", "ERROR", "REVOKED"}
Places == {"new", "get", "preflight", "latest", "enforce", "signed", "executed", "refused",
           "overBudget"}

\* The variables have their types; only live rules have stored data.
TypeOK ==
    /\ ledger \in Nat /\ live \subseteq Rules /\ removed \subseteq Rules \ live
    /\ data \in [Rules -> [total : Nat,
                          entries : SUBSET [payment : Payments, ledger : Nat, amount : Amounts]]]
    /\ \A r \in Rules \ live : data[r] = NoData
    /\ marked \subseteq Rules
    /\ pc \in [Payments -> Places]
    /\ terms \in [Payments -> [rule : Rules, amount : Amounts \cup {0}, to : Recipients]]
    /\ seen \in [Payments -> [spent : Nat, status : Statuses]]
    /\ authorizedUntil \in [Payments -> Nat]
    /\ \A s \in spent : s \in [payment : Payments, ledger : Nat]
    /\ outdated \subseteq Payments

Init ==
    /\ ledger = 0
    /\ live = {Initial} /\ removed = {}
    /\ data = [r \in Rules |-> NoData]
    /\ marked = {}
    /\ pc = [p \in Payments |-> "new"]
    /\ terms = [p \in Payments |-> NoTerms]
    /\ seen = [p \in Payments |-> NotRead]
    /\ authorizedUntil = [p \in Payments |-> 0]
    /\ spent = {} /\ outdated = {}

Goto(p, place) == pc' = [pc EXCEPT ![p] = place]

-----------------------------------------------------------------------------
(* The contracts. *)

\* Entries that still count at ledger l are younger than Period.
\* Fault: an entry leaves the window one ledger early.
CountsUntilLast(entry, l) == entry.ledger > l - Period + 1
Counts(entry, l) == entry.ledger > l - Period

Total(entries) == MapThenSumSet(LAMBDA entry : entry.amount, entries)

CleanedUp(d, l) ==
    LET kept == {entry \in d.entries : Counts(entry, l)} IN
    [total |-> Total(kept), entries |-> kept]

WithinLimit(p) == CleanedUp(data[terms[p].rule], ledger).total + terms[p].amount <= Limit

\* RecipientPolicy.enforce, validate_transfer: to the recipient, a positive amount.
ValidTransfer(p) == terms[p].to = RecipientOf[terms[p].rule] /\ terms[p].amount > 0

\* __check_auth with the signed rule: it exists, has not expired, and its two
\* policies agree.
Permitted(p) ==
    /\ terms[p].rule \in live /\ ledger <= ValidUntil
    /\ ValidTransfer(p) /\ WithinLimit(p)

\* The authorization's nonce is used once, before its expiry.
Execute(p) ==
    LET r == terms[p].rule
        cleaned == CleanedUp(data[r], ledger)
        entry == [payment |-> p, ledger |-> ledger, amount |-> terms[p].amount] IN
    /\ pc[p] = "signed" /\ ledger <= authorizedUntil[p] /\ Permitted(p)
    /\ data' = [data EXCEPT ![r] =
                    [total |-> cleaned.total + terms[p].amount,
                     entries |-> cleaned.entries \cup {entry}]]
    /\ Goto(p, "executed")
    /\ spent' = spent \cup {[payment |-> p, ledger |-> ledger]}
    /\ authorizedUntil' = [authorizedUntil EXCEPT ![p] = 0]
    /\ outdated' = outdated \cup {q \in Payments : pc[q] \in {"get", "preflight"} /\ terms[q].rule = r}
    /\ UNCHANGED <<ledger, live, removed, marked, terms, seen>>

\* add_context_rule and the policies' install.  The treasury counts its rules' ids up.
\* Fault: the id of a removed rule is given again.
AddRuleReusingIds(r) ==
    /\ r \notin live
    /\ live' = live \cup {r}
    /\ UNCHANGED <<ledger, removed, data, marked, pc, terms, seen, authorizedUntil, spent, outdated>>
AddRule(r) ==
    /\ r \notin live \cup removed
    /\ live' = live \cup {r}
    /\ UNCHANGED <<ledger, removed, data, marked, pc, terms, seen, authorizedUntil, spent, outdated>>

\* remove_context_rule and the policies' uninstall.
\* Fault: the spending policy's data stay behind.
RemoveRuleOnly(r) ==
    /\ r \in live
    /\ live' = live \ {r} /\ removed' = removed \cup {r}
    /\ outdated' = outdated \cup {q \in Payments : pc[q] \in {"get", "preflight"} /\ terms[q].rule = r}
    /\ UNCHANGED <<ledger, data, marked, pc, terms, seen, authorizedUntil, spent>>
RemoveRule(r) ==
    /\ r \in live
    /\ live' = live \ {r} /\ removed' = removed \cup {r}
    /\ data' = [data EXCEPT ![r] = NoData]
    /\ outdated' = outdated \cup {q \in Payments : pc[q] \in {"get", "preflight"} /\ terms[q].rule = r}
    /\ UNCHANGED <<ledger, marked, pc, terms, seen, authorizedUntil, spent>>

\* revoke() of the SDK records it, some time after.
MarkRevoked(r) ==
    /\ r \in removed \ marked
    /\ marked' = marked \cup {r}
    /\ UNCHANGED <<ledger, rules, pc, terms, seen, authorizedUntil, spent, outdated>>

CloseLedger ==
    /\ ledger < MaxLedger /\ ledger' = ledger + 1
    /\ UNCHANGED <<rules, marked, pc, terms, seen, authorizedUntil, spent, outdated>>

-----------------------------------------------------------------------------
(* A payment of the SDK, until it is signed. *)

\* fetch or pay, up to the reads of get(); a row marked REVOKED is returned as it is.
BeginPay(p, r, amount, to) ==
    /\ pc[p] = "new"
    /\ r \in live \cup removed
    /\ terms' = [terms EXCEPT ![p] = [rule |-> r, amount |-> amount, to |-> to]]
    /\ \/ r \notin marked /\ Goto(p, "get") /\ UNCHANGED seen
       \/ /\ r \in marked /\ Goto(p, "preflight")
          /\ seen' = [seen EXCEPT ![p].status = "REVOKED"]
    /\ UNCHANGED <<ledger, rules, marked, authorizedUntil, spent, outdated>>

\* buildSmartAccountPayment called by itself: the package decides nothing, and the
\* record of an allowance is not needed.
BeginBuild(p, r, amount, to) ==
    /\ pc[p] = "new"
    /\ r \in live \cup removed
    /\ terms' = [terms EXCEPT ![p] = [rule |-> r, amount |-> amount, to |-> to]]
    /\ Goto(p, "latest")
    /\ UNCHANGED <<ledger, rules, marked, seen, authorizedUntil, spent, outdated>>

StatusOf(total, latest) ==
    CASE ValidUntil < latest -> "EXPIRED"
      [] ValidUntil >= latest /\ total >= Limit -> "EXHAUSTED"
      [] OTHER -> "ACTIVE"

\* get() writes what it read, over a mark set meanwhile; or ERROR when a read fails, as
\* it does for a removed rule.  The latest ledger and the policy's data are read in
\* parallel, a ledger apart at most.
GetReturns(p, record) ==
    /\ pc[p] = "get" /\ Goto(p, "preflight")
    /\ seen' = [seen EXCEPT ![p] = record]
    /\ marked' = marked \ {terms[p].rule}
    /\ outdated' = outdated \ {p}
    /\ UNCHANGED <<ledger, rules, terms, authorizedUntil, spent>>
GetAnswers(p) ==
    LET total == data[terms[p].rule].total IN
    /\ terms[p].rule \in live
    /\ \E latest \in (ledger - 1 .. ledger + 1) \cap (0 .. MaxLedger) :
           GetReturns(p, [spent |-> total, status |-> StatusOf(total, latest)])
GetFails(p) == GetReturns(p, [spent |-> 0, status |-> "ERROR"])

\* preflight(), with the latest ledger: first the terms, then the status, then the
\* budget.
NotExpired == ValidUntil >= ledger
\* Fault: each payment is compared with the whole budget.
FitsLimit(p) == terms[p].amount <= Limit
FitsRemaining(p) == terms[p].amount <= Limit - seen[p].spent
RowAllows(p) ==
    /\ terms[p].to = RecipientOf[terms[p].rule]
    /\ NotExpired /\ seen[p].status = "ACTIVE"

\* The call ends without a signed payment; what it had read is gone with it.
EndsAs(p, place) ==
    /\ Goto(p, place)
    /\ terms' = [terms EXCEPT ![p] = NoTerms] /\ seen' = [seen EXCEPT ![p] = NotRead]
    /\ authorizedUntil' = [authorizedUntil EXCEPT ![p] = 0] /\ outdated' = outdated \ {p}
    /\ UNCHANGED <<ledger, rules, marked, spent>>

Preflight(p) ==
    /\ pc[p] = "preflight"
    /\ \/ /\ RowAllows(p) /\ FitsRemaining(p)
          /\ Goto(p, "latest")
          /\ seen' = [seen EXCEPT ![p] = NotRead] /\ outdated' = outdated \ {p}
          /\ UNCHANGED <<ledger, rules, marked, terms, authorizedUntil, spent>>
       \/ RowAllows(p) /\ ~FitsRemaining(p) /\ EndsAs(p, "overBudget")
       \/ ~RowAllows(p) /\ EndsAs(p, "refused")

\* buildSmartAccountPayment: the expiry of the authorization, in ledgers of 5 s.
AuthorizationLedgers == LET ceiling == (Timeout + 4) \div 5 IN IF ceiling > 2 THEN ceiling ELSE 2

ReadLatest(p) ==
    /\ pc[p] = "latest"
    /\ authorizedUntil' = [authorizedUntil EXCEPT ![p] = ledger + AuthorizationLedgers]
    /\ Goto(p, "enforce")
    /\ UNCHANGED <<ledger, rules, marked, terms, seen, spent, outdated>>

\* The enforcing simulation runs the contracts on the signed payment.
Executable(p) == Permitted(p) /\ ledger <= authorizedUntil[p]
Simulate(p) ==
    /\ pc[p] = "enforce" /\ Executable(p)
    /\ Goto(p, "signed")
    /\ UNCHANGED <<ledger, rules, marked, terms, seen, authorizedUntil, spent, outdated>>
SimulationRefuses(p) == pc[p] = "enforce" /\ ~Executable(p) /\ EndsAs(p, "refused")

\* getLatestLedger or a simulation fails, or the fee exceeds its cap.
BuildFails(p) == pc[p] \in {"preflight", "latest", "enforce"} /\ EndsAs(p, "refused")

Pay(p) == GetAnswers(p) \/ GetFails(p) \/ Preflight(p) \/ ReadLatest(p) \/ Simulate(p)
          \/ SimulationRefuses(p) \/ BuildFails(p)

Next ==
    \/ \E p \in Payments, r \in Rules, amount \in Amounts, to \in Recipients :
          BeginPay(p, r, amount, to) \/ BeginBuild(p, r, amount, to)
    \/ \E p \in Payments : Pay(p) \/ Execute(p)
    \/ \E r \in Rules : AddRule(r) \/ RemoveRule(r) \/ MarkRevoked(r)
    \/ CloseLedger

Spec == Init /\ [][Next]_vars

-----------------------------------------------------------------------------
(* Properties. *)

\* Everything that was ever spent under rule r, and the sum of it in the Period ledgers
\* that end with l.
EntryOf(s) == [payment |-> s.payment, ledger |-> s.ledger, amount |-> terms[s.payment].amount]
SpentUnder(r) == {EntryOf(s) : s \in {t \in spent : terms[t.payment].rule = r}}
InWindow(r, l) == Total({e \in SpentUnder(r) : e.ledger \in l - Period + 1 .. l})

\* "Rolling budget": in no window of Period ledgers, wherever it begins, more than the
\* limit is spent under a rule, whatever the payments simulated before they executed.
WindowWithinLimit == \A r \in Rules, l \in 0 .. ledger : InWindow(r, l) <= Limit

\* A removal is final: from then on nothing is spent under the rule, neither by the
\* payments that were signed and simulated before it (payment.ts:119), and are valid for
\* ledgers to come, nor under the rules that are added later.
RemovedSpendsNoMore == [][\A r \in removed : SpentUnder(r)' = SpentUnder(r)]_vars

\* What preflight lets through the contracts accept, unless something was spent or
\* removed after the status was read: a call is not sent to sign in vain.
AllowedIsPermitted ==
    [][\A p \in Payments \ outdated :
          pc[p] = "preflight" /\ pc'[p] = "latest" => Permitted(p)]_vars

\* BUDGET_EXCEEDED means "Amount exceeds remaining rolling budget", and the response is
\* to "wait for reset" (docs/sdk/errors.md): after waiting, what has left the window no
\* longer counts.
OverBudgetIsReal ==
    [][\A p \in Payments :
          pc[p] = "preflight" /\ pc'[p] = "overBudget" /\ terms[p].rule \in live
              => InWindow(terms[p].rule, ledger) + terms[p].amount > Limit]_vars
=============================================================================
