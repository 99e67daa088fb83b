-------------------------- MODULE Facilitator_proofs --------------------------
(***************************************************************************)
(* The facilitator's two calls.  For any configuration, request and        *)
(* simulation: what verify() accepts moves the price and nothing else, and *)
(* a policy profile only ever adds conditions.  For every timeout, latency *)
(* and path: settle() has a transaction accepted at most once, calls only  *)
(* a confirmed one settled, keeps its pauses within its budget, and ends   *)
(* by a bound beyond it.                                                   *)
(***************************************************************************)
EXTENDS FacilitatorVerify, FacilitatorSettle, FiniteSetTheorems, SequenceTheorems, TLAPS

(***************************************************************************)
(* Lists.                                                                  *)
(***************************************************************************)

\* A list that is put together passes when its parts do.
LEMMA PassesBoth ==
    ASSUME NEW s, NEW t, IsSequence(s), IsSequence(t)
    PROVE  /\ IsSequence(s \o t)
           /\ Passes(s \o t) => Passes(s) /\ Passes(t)
<1> DEFINE S == Range(s) \cup Range(t)
<1>1. s \in Seq(S) /\ t \in Seq(S)
    BY SeqDef DEF IsSequence
<1> HIDE DEF S
<1>2. /\ s \o t \in Seq(S)
      /\ Len(s \o t) = Len(s) + Len(t)
      /\ \A i \in 1 .. Len(s) : (s \o t)[i] = s[i]
      /\ \A i \in 1 .. Len(t) : (s \o t)[Len(s) + i] = t[i]
    BY <1>1, ConcatProperties
<1>3. IsSequence(s \o t)
    <2> DEFINE u == s \o t
    <2>1. u \in [1 .. Len(u) -> S] /\ Len(u) \in Nat /\ DOMAIN u = 1 .. Len(u)
        BY <1>2, LenProperties
    <2> HIDE DEF u
    <2>2. u \in [1 .. Len(u) -> Range(u)]
        BY <2>1 DEF Range
    <2>3. u \in Seq(Range(u))
        BY <2>1, <2>2
    <2> QED
        BY <2>3 DEF IsSequence, u
<1>4. ASSUME Passes(s \o t) PROVE Passes(s) /\ Passes(t)
    <2>1. \A i \in 1 .. Len(s) : i \in DOMAIN (s \o t)
        BY <1>1, <1>2
    <2>2. \A i \in 1 .. Len(t) : Len(s) + i \in DOMAIN (s \o t)
        BY <1>1, <1>2
    <2>3. DOMAIN s = 1 .. Len(s) /\ DOMAIN t = 1 .. Len(t)
        BY <1>1
    <2>4. ASSUME NEW i \in DOMAIN s PROVE s[i].ok
        BY <1>2, <1>4, <2>1, <2>3 DEF Passes
    <2>5. ASSUME NEW i \in DOMAIN t PROVE t[i].ok
        BY <1>2, <1>4, <2>2, <2>3 DEF Passes
    <2> QED
        BY <2>4, <2>5 DEF Passes
<1> QED
    BY <1>3, <1>4

\* Rows written down make a list, and so do rows made for every index.
LEMMA RowsAreList ==
    /\ \A a : IsSequence(<<a>>)
    /\ \A a, b, c : IsSequence(<<a, b, c>>)
    /\ \A a, b, c, d : IsSequence(<<a, b, c, d>>)
    /\ \A a, b, c, d, e, f : IsSequence(<<a, b, c, d, e, f>>)
BY DEF IsSequence, Range

LEMMA IndexedIsList ==
    ASSUME NEW n \in Nat, NEW s, s = [i \in 1 .. n |-> s[i]]
    PROVE  IsSequence(s)
<1>1. s \in [1 .. n -> Range(s)]
    BY DEF Range
<1> QED
    BY <1>1 DEF IsSequence

LEMMA ListIndices ==
    ASSUME NEW s, IsSequence(s)
    PROVE  Len(s) \in Nat /\ DOMAIN s = 1 .. Len(s) /\ IsFiniteSet(DOMAIN s)
<1>1. Len(s) \in Nat /\ DOMAIN s = 1 .. Len(s)
    BY DEF IsSequence
<1> QED
    BY <1>1, FS_Interval

\* Induction over the subsets of a finite set, stated with a set of good subsets.
LEMMA SubsetInduction ==
    ASSUME NEW S, IsFiniteSet(S), NEW Good \in SUBSET SUBSET S,
           {} \in Good, \A T \in Good : \A x \in S \ T : T \cup {x} \in Good
    PROVE  S \in Good
<1> DEFINE Bad == (SUBSET S) \ Good
<1> SUFFICES ASSUME Bad # {} PROVE FALSE
    OBVIOUS
<1>1. IsWellFoundedOn(StrictSubsetOrdering(S), SUBSET S)
    BY FS_StrictSubsetOrderingWellFounded, FS_FiniteSubsetsOfFinite
<1> HIDE DEF Bad
<1>2. Bad \subseteq SUBSET S
    BY DEF Bad
<1>3. PICK T \in Bad : \A U \in Bad : <<U, T>> \notin StrictSubsetOrdering(S)
    BY <1>1, <1>2, WFMin
<1>4. PICK x \in T : TRUE
    BY <1>2 DEF Bad
<1>5. T \ {x} \in Good
    <2>1. T \ {x} \in SUBSET S /\ T \in SUBSET S /\ T \ {x} # T
        BY <1>2, <1>4
    <2>2. <<T \ {x}, T>> \in StrictSubsetOrdering(S)
        BY <2>1 DEF StrictSubsetOrdering
    <2> QED
        BY <1>3, <2>1, <2>2 DEF Bad
<1>6. (T \ {x}) \cup {x} = T /\ x \in S \ (T \ {x})
    BY <1>2, <1>4
<1> QED
    BY <1>5, <1>6 DEF Bad

\* The first index of a list that has a property is one that has it.
LEMMA FirstIsMember ==
    ASSUME NEW s, IsSequence(s), NEW S, S \subseteq DOMAIN s, S # {}
    PROVE  Min(S) \in S
<1>1. S \subseteq Int /\ IsFiniteSet(S)
    BY ListIndices, FS_Subset
<1> DEFINE Good == {T \in SUBSET S : T # {} => \E x \in T : \A y \in T : x <= y}
<1>2. ASSUME NEW T \in Good, NEW x \in S \ T PROVE T \cup {x} \in Good
    <2>1. CASE T = {}
        BY <1>1, <2>1
    <2>2. CASE T # {}
        <3>1. PICK z \in T : \A y \in T : z <= y
            BY <2>2
        <3>2. CASE x <= z
            <4>1. \A y \in T \cup {x} : x <= y
                BY <1>1, <3>1, <3>2
            <4> QED BY <4>1
        <3>3. CASE z <= x
            BY <1>1, <3>1, <3>3
        <3> QED BY <1>1, <3>2, <3>3
    <2> QED BY <2>1, <2>2
<1>3. S \in Good
    <2>1. {} \in Good /\ Good \in SUBSET SUBSET S
        OBVIOUS
    <2> HIDE DEF Good
    <2> QED BY <1>1, <1>2, <2>1, SubsetInduction
<1>4. \E x \in S : \A y \in S : x <= y
    BY <1>3
<1> QED
    BY <1>4 DEF Min

-----------------------------------------------------------------------------
(***************************************************************************)
(* The two judges of a simulation's events.                                *)
(***************************************************************************)

\* The contract events of a simulation move what the payment requires, once.
Moves(events, transfer) ==
    \E i \in DOMAIN events :
        /\ events[i].form = "contract"
        /\ IsTransfer(events[i])
        /\ Moved(events[i]) = transfer
        /\ \A j \in DOMAIN events :
              events[j].form = "contract" /\ IsTransfer(events[j]) => i = j

\* What the strict judge lets through moves the price.
LEMMA StrictMoves ==
    ASSUME NEW events, NEW transfer, Passes(StrictEventChecks(events, transfer))
    PROVE  Moves(events, transfer)
<1> DEFINE moved == ParsedTransfers(events)
           ofToken == {i \in moved : events[i].contract = transfer.token}
<1>1. /\ ~MissesContractId(events)
      /\ \E i \in ofToken : ofToken = {i} /\ Moved(events[i]) = transfer /\ moved = {i}
    <2> DEFINE checks == StrictEventChecks(events, transfer)
    <2>1. 1 \in DOMAIN checks /\ 3 \in DOMAIN checks
        BY DEF StrictEventChecks
    <2>2. checks[1].ok /\ checks[3].ok
        BY <2>1 DEF Passes
    <2> QED BY <2>2 DEF Check, StrictEventChecks
<1>2. PICK i \in moved : Moved(events[i]) = transfer /\ moved = {i}
    BY <1>1
<1>3. \A j \in ContractEvents(events) : IsTransfer(events[j]) => j = i
    BY <1>1, <1>2 DEF MissesContractId, ParsedTransfers
<1> QED
    BY <1>2, <1>3 DEF Moves, ParsedTransfers, ContractEvents

\* A limit event that passes reports the payment.
LimitReported(e, transfer, rule) ==
    /\ e.name = "spending_limit_enforced"
    /\ e.data.amount = transfer.amount
    /\ e.data.rule = rule

LEMMA AwareChecksAreList ==
    ASSUME NEW events, IsSequence(events), NEW transfer, NEW rule, NEW m, NEW observed,
           NEW unset
    PROVE  /\ IsSequence(PolicyEventVerdicts(events, transfer, rule, m, observed))
           /\ IsSequence(PolicyAwareEventChecks(events, transfer, rule, m, observed, unset))
<1> DEFINE verdicts == PolicyEventVerdicts(events, transfer, rule, m, observed)
<1>1. IsSequence(verdicts)
    <2>1. DOMAIN events = 1 .. Len(events) /\ Len(events) \in Nat
        BY ListIndices
    <2>2. verdicts = [i \in 1 .. Len(events) |-> verdicts[i]]
        BY <2>1 DEF PolicyEventVerdicts
    <2> HIDE DEF verdicts
    <2> QED BY <2>1, <2>2, IndexedIsList
<1> QED
    BY <1>1, RowsAreList, PassesBoth DEF PolicyAwareEventChecks

\* What the policy-aware judge lets through: one transfer event, the expected one;
\* every other contract event is an adapter's and reports the payment; every required
\* adapter has one.
LEMMA AwareChecksSay ==
    ASSUME NEW events, IsSequence(events), NEW transfer, NEW rule, NEW m, NEW observed,
           NEW unset,
           Passes(PolicyAwareEventChecks(events, transfer, rule, m, observed, unset))
    PROVE  /\ m.expectedRule \in {unset, rule}
           /\ Parsable(events) /\ HasExactTransfer(events, transfer)
           /\ \A i \in PolicyEvents(events) :
                 /\ \E k \in DOMAIN m.adapters : m.adapters[k].contract = events[i].contract
                 /\ LimitReported(events[i], transfer, rule)
           /\ RequiredEventsSeen(events, m)
<1> DEFINE head == << Check(m.smartAccount \in {unset, transfer.from},
                            "policy_manifest_mismatch"),
                      Check(m.expectedRule \in {unset, rule}, "policy_manifest_mismatch"),
                      Check(Parsable(events), "unexpected_balance_changes"),
                      Check(HasExactTransfer(events, transfer),
                            "unexpected_balance_changes") >>
           verdicts == PolicyEventVerdicts(events, transfer, rule, m, observed)
           last == << Check(RequiredEventsSeen(events, m), "policy_event_malformed") >>
<1>1. IsSequence(head) /\ IsSequence(last)
    BY RowsAreList
<1>2. IsSequence(verdicts)
    BY AwareChecksAreList
<1>3. Passes(head) /\ Passes(verdicts) /\ Passes(last)
    <2>1. Passes(head \o verdicts \o last)
        BY DEF PolicyAwareEventChecks
    <2> HIDE DEF head, verdicts, last
    <2>2. IsSequence(head \o verdicts) /\ (Passes(head \o verdicts) => Passes(head) /\ Passes(verdicts))
        BY <1>1, <1>2, PassesBoth
    <2> QED BY <2>1, <2>2, <1>1, PassesBoth
<1>4. /\ m.expectedRule \in {unset, rule}
      /\ Parsable(events) /\ HasExactTransfer(events, transfer)
    <2>1. 2 \in DOMAIN head /\ 3 \in DOMAIN head /\ 4 \in DOMAIN head
        OBVIOUS
    <2>2. head[2].ok /\ head[3].ok /\ head[4].ok
        BY <1>3, <2>1 DEF Passes
    <2> QED BY <2>2 DEF Check
<1>5. RequiredEventsSeen(events, m)
    BY <1>3 DEF Passes, Check
<1>6. ASSUME NEW i \in PolicyEvents(events)
      PROVE  /\ \E k \in DOMAIN m.adapters : m.adapters[k].contract = events[i].contract
             /\ LimitReported(events[i], transfer, rule)
    <2> DEFINE checks == PolicyEventChecks(events, i, transfer, rule, m, observed)
    <2>1. Passes(checks)
        <3>1. i \in DOMAIN events
            BY DEF PolicyEvents, ContractEvents
        <3>2. verdicts[i].ok
            BY <1>3, <3>1 DEF Passes, PolicyEventVerdicts
        <3> HIDE DEF checks
        <3> QED BY <3>1, <3>2 DEF PolicyEventVerdicts, Check, checks
    <2> DEFINE e == events[i]
               adapters == {k \in DOMAIN m.adapters : m.adapters[k].contract = e.contract}
               adapter == m.adapters[Min(adapters)]
               own == << Check(adapter.wasmHash \in {"unpinned", observed[e.contract]},
                               "policy_manifest_mismatch"),
                         Check(~\E j \in PolicyEvents(events) :
                                  /\ j < i /\ events[j].contract = e.contract
                                  /\ events[j].name = e.name,
                               "policy_event_malformed"),
                         Check(adapter.kind = "spending-limit", "policy_event_unapproved") >>
               limit == LimitEventChecks(e, transfer, rule)
    <2>2. CASE adapters = {}
        <3>1. checks = << Check(FALSE, "policy_event_unapproved") >>
            BY <2>2 DEF PolicyEventChecks
        <3> QED BY <2>1, <3>1 DEF Passes, Check
    <2>3. CASE adapters # {}
        <3>1. checks = own \o limit
            BY <2>3 DEF PolicyEventChecks
        <3>2. IsSequence(own) /\ IsSequence(limit)
            BY RowsAreList DEF LimitEventChecks
        <3>3. Passes(limit)
            <4> HIDE DEF own, limit, checks
            <4> QED BY <2>1, <3>1, <3>2, PassesBoth
        <3>4. LimitReported(e, transfer, rule)
            <4>1. 1 \in DOMAIN limit /\ 4 \in DOMAIN limit
                BY DEF LimitEventChecks
            <4>2. limit[1].ok /\ limit[4].ok
                BY <3>3, <4>1 DEF Passes
            <4> QED BY <4>2 DEF Check, LimitEventChecks, LimitReported
        <3> QED BY <2>3, <3>4
    <2> QED BY <2>2, <2>3
<1> QED
    BY <1>4, <1>5, <1>6

\* A profile's judge lets the price move, and without the limit events of its adapters
\* the events are what the strict judge lets through.
Unlimited(m, events) ==
    LET adapters == {m.adapters[i].contract : i \in DOMAIN m.adapters}
    IN  [i \in DOMAIN events |->
            IF /\ events[i].contract \in adapters
               /\ events[i].name = "spending_limit_enforced"
            THEN [events[i] EXCEPT !.form = "other"]
            ELSE events[i]]

LEMMA AwareMoves ==
    ASSUME NEW events, NEW transfer, HasExactTransfer(events, transfer)
    PROVE  Moves(events, transfer)
BY DEF HasExactTransfer, ContractEvents, IsTransfer, Moves

LEMMA AwareIsNoWeaker ==
    ASSUME NEW events, NEW transfer, NEW m, NEW rule,
           \A i \in DOMAIN events : "form" \in DOMAIN events[i],
           Parsable(events), HasExactTransfer(events, transfer),
           \A i \in PolicyEvents(events) :
              /\ \E k \in DOMAIN m.adapters : m.adapters[k].contract = events[i].contract
              /\ LimitReported(events[i], transfer, rule)
    PROVE  Passes(StrictEventChecks(Unlimited(m, events), transfer))
<1> DEFINE u == Unlimited(m, events)
           named == {i \in ContractEvents(events) : events[i].name = "transfer"}
<1>1. PICK t \in named : named = {t} /\ IsTransfer(events[t]) /\ Moved(events[t]) = transfer
    BY DEF HasExactTransfer
<1>2. DOMAIN u = DOMAIN events /\ t \in DOMAIN events
    BY <1>1 DEF Unlimited, ContractEvents
<1>3. u[t] = events[t]
    BY <1>1, <1>2 DEF Unlimited
<1>4. ASSUME NEW i \in DOMAIN events, i # t PROVE u[i].form # "contract"
    <2>1. CASE events[i].form # "contract"
        BY <2>1, <1>4 DEF Unlimited
    <2>2. CASE events[i].form = "contract"
        <3>1. i \in PolicyEvents(events)
            BY <1>1, <1>4, <2>2 DEF PolicyEvents, ContractEvents
        <3>2. u[i] = [events[i] EXCEPT !.form = "other"]
            BY <3>1 DEF Unlimited, LimitReported
        <3> QED BY <3>2
    <2> QED BY <2>1, <2>2
<1>5. ContractEvents(u) = {t}
    BY <1>1, <1>2, <1>3, <1>4 DEF ContractEvents
<1>6. u[t].contract # NoAddress
    BY <1>1, <1>3 DEF Parsable, ContractEvents
<1>7. u[t].contract = transfer.token
    BY <1>1, <1>3 DEF Moved
<1> HIDE DEF u
<1>8. ParsedTransfers(u) = {t}
    BY <1>1, <1>3, <1>5, <1>6 DEF ParsedTransfers
<1>9. ~MissesContractId(u) /\ ~EmitsSomethingElse(u)
    BY <1>1, <1>3, <1>5, <1>6 DEF MissesContractId, EmitsSomethingElse
<1>10. \E i \in {j \in ParsedTransfers(u) : u[j].contract = transfer.token} :
          /\ {j \in ParsedTransfers(u) : u[j].contract = transfer.token} = {i}
          /\ Moved(u[i]) = transfer /\ ParsedTransfers(u) = {i}
    BY <1>1, <1>3, <1>7, <1>8
<1> DEFINE checks == StrictEventChecks(u, transfer)
<1>11. DOMAIN checks = 1 .. 3
    BY DEF StrictEventChecks
<1>12. checks[1].ok /\ checks[2].ok
    BY <1>9 DEF StrictEventChecks, Check
<1>13. checks[3].ok
    BY <1>10 DEF StrictEventChecks, Check
<1> QED
    BY <1>11, <1>12, <1>13 DEF Passes, u

-----------------------------------------------------------------------------
(***************************************************************************)
(* The other lists of verify(), for the request of the call.               *)
(***************************************************************************)

\* The inputs of a call.
InputOK == config \in Configs /\ q \in Requests

\* The payment is authorized by the payer and by nobody of the facilitator.
AuthGood ==
    /\ Payer \in AuthAddresses
    /\ ({tx.source, tx.opSource} \cup AuthAddresses) \cap Protected = {}
    /\ \A i \in DOMAIN tx.auth :
          tx.auth[i].cred = "address" /\ IsSigned(tx.auth[i]) /\ tx.auth[i].subs = 0

\* The delegate authorized this transfer under the rules the payer's entry names.
Delegated ==
    /\ Len(tx.auth) = 2
    /\ \E p \in 1 .. 2 :
          /\ tx.auth[p].addr = Payer
          /\ tx.auth[p].root = TransferInvocation(Required)
          /\ tx.auth[3 - p].root.args =
                <<AuthDigest(tx.auth[p], q.network, tx.auth[p].sig.ruleIds)>>
          /\ tx.auth[3 - p].addr \in AuthAddresses

LEMMA AuthIsList ==
    ASSUME InputOK
    PROVE  /\ Len(tx.auth) \in Nat /\ DOMAIN tx.auth = 1 .. Len(tx.auth)
           /\ \A i \in DOMAIN tx.auth : tx.auth[i].expires \in Nat
           /\ q.timeout \in Nat /\ Window(q.timeout) \in Nat
<1>1. IsSequence(tx.auth)
    BY VerifyAssumption DEF InputOK, tx
<1> QED
    BY <1>1, ListIndices, VerifyAssumption DEF InputOK, tx, Window, LedgerSeconds

LEMMA CallChecksSay == ASSUME Passes(CallChecks) PROVE Payer \notin Protected
<1>1. 7 \in DOMAIN CallChecks
    BY DEF CallChecks
<1>2. CallChecks[7].ok
    BY <1>1 DEF Passes
<1> QED
    BY <1>2 DEF CallChecks, Check

LEMMA EntryChecksSay ==
    ASSUME InputOK, Passes(EntryChecks), NEW i \in DOMAIN tx.auth
    PROVE  tx.auth[i].cred = "address" /\ tx.auth[i].subs = 0
<1>1. i \in 1 .. Len(tx.auth) /\ Len(tx.auth) \in Nat
    BY AuthIsList
<1>2. 2 * i - 1 \in DOMAIN EntryChecks /\ 2 * i \in DOMAIN EntryChecks
    BY <1>1 DEF EntryChecks
<1>3. EntryChecks[2 * i - 1].ok /\ EntryChecks[2 * i].ok
    BY <1>2 DEF Passes
<1>4. /\ ((2 * i - 1) + 1) \div 2 = i /\ (2 * i + 1) \div 2 = i
      /\ (2 * i - 1) % 2 = 1 /\ (2 * i) % 2 # 1
    <2>1. ((2 * i - 1) + 1) \div 2 = i
        BY <1>1
    <2>2. (2 * i - 1) % 2 = 1
        BY <1>1
    <2>3. (2 * i + 1) \div 2 = i /\ (2 * i) % 2 # 1
        BY <1>1
    <2> QED BY <2>1, <2>2, <2>3
<1>5. tx.auth[i].cred = "address"
    BY <1>2, <1>3, <1>4 DEF EntryChecks, Check
<1>6. tx.auth[i].subs = 0
    BY <1>2, <1>3, <1>4 DEF EntryChecks, Check
<1> QED
    BY <1>5, <1>6

LEMMA AuthChecksSay ==
    ASSUME InputOK, NEW m, Passes(AuthChecks(m))
    PROVE  AuthGood
<1> DEFINE head == << Check(m = Unset \/ q.payTo \notin Protected,
                            "unsafe_policy_participant"),
                      Check(tx.signatures = 0, "has_envelope_signatures"),
                      Check(tx.auth # <<>>, "missing_auth_entries"),
                      Check(AuthAddresses \cap Protected = {}, "facilitator_in_auth") >>
           last == << Check(Payer \in SignedBy(TRUE), "missing_payer_auth"),
                      Check(SignedBy(FALSE) = {}, "unsigned_auth_entry"),
                      Check(/\ net.relayer \notin {tx.source, tx.opSource}
                            /\ net.fund # Unset => net.fund \notin {tx.source, tx.opSource},
                            "unsafe_tx_or_op_source") >>
<1>1. IsSequence(head) /\ IsSequence(last)
    BY RowsAreList
<1>2. IsSequence(EntryChecks)
    <2>1. EntryChecks = [i \in 1 .. (2 * Len(tx.auth)) |-> EntryChecks[i]]
        BY DEF EntryChecks
    <2>2. 2 * Len(tx.auth) \in Nat
        BY AuthIsList
    <2> QED BY <2>1, <2>2, IndexedIsList
<1>3. Passes(head) /\ Passes(EntryChecks) /\ Passes(last)
    <2>1. Passes(head \o EntryChecks \o last)
        BY DEF AuthChecks
    <2> HIDE DEF head, last
    <2>2. /\ IsSequence(head \o EntryChecks)
          /\ Passes(head \o EntryChecks) => Passes(head) /\ Passes(EntryChecks)
        BY <1>1, <1>2, PassesBoth
    <2> QED BY <2>1, <2>2, <1>1, PassesBoth
<1>4. AuthAddresses \cap Protected = {}
    <2>1. 4 \in DOMAIN head
        OBVIOUS
    <2>2. head[4].ok
        BY <1>3, <2>1 DEF Passes
    <2> QED BY <2>2 DEF Check
<1>5. /\ Payer \in SignedBy(TRUE) /\ SignedBy(FALSE) = {}
      /\ net.relayer \notin {tx.source, tx.opSource}
      /\ net.fund # Unset => net.fund \notin {tx.source, tx.opSource}
    <2>1. 1 \in DOMAIN last /\ 2 \in DOMAIN last /\ 3 \in DOMAIN last
        OBVIOUS
    <2>2. last[1].ok /\ last[2].ok /\ last[3].ok
        BY <1>3, <2>1 DEF Passes
    <2> QED BY <2>2 DEF Check
<1>6. Payer \in AuthAddresses
    BY <1>5 DEF SignedBy, AuthAddresses
<1>7. {tx.source, tx.opSource} \cap Protected = {}
    BY <1>5 DEF Protected
<1>8. \A i \in DOMAIN tx.auth :
         tx.auth[i].cred = "address" /\ IsSigned(tx.auth[i]) /\ tx.auth[i].subs = 0
    <2> SUFFICES ASSUME NEW i \in DOMAIN tx.auth
                 PROVE  /\ tx.auth[i].cred = "address" /\ IsSigned(tx.auth[i])
                        /\ tx.auth[i].subs = 0
        OBVIOUS
    <2>1. tx.auth[i].cred = "address" /\ tx.auth[i].subs = 0
        BY <1>3, EntryChecksSay
    <2>2. IsSigned(tx.auth[i]) \in BOOLEAN
        BY DEF IsSigned
    <2>3. IsSigned(tx.auth[i]) # FALSE
        BY <1>5, <2>1 DEF SignedBy
    <2> QED BY <2>1, <2>2, <2>3
<1> QED
    BY <1>4, <1>6, <1>7, <1>8 DEF AuthGood

LEMMA ExpirationChecksSay ==
    ASSUME InputOK, NEW current \in Nat, Passes(ExpirationChecks(current)), AuthGood
    PROVE  \A i \in DOMAIN tx.auth : tx.auth[i].expires <= current + Window(q.timeout)
<1> SUFFICES ASSUME NEW i \in DOMAIN tx.auth
             PROVE  tx.auth[i].expires <= current + Window(q.timeout)
    OBVIOUS
<1> DEFINE checks == ExpirationChecks(current)
<1>1. i \in 1 .. Len(tx.auth) /\ Len(tx.auth) \in Nat
    BY AuthIsList
<1>2. 2 * i \in DOMAIN checks
    BY <1>1 DEF ExpirationChecks
<1>3. checks[2 * i].ok
    BY <1>2 DEF Passes
<1>4. (2 * i + 1) \div 2 = i /\ (2 * i) % 2 # 1
    BY <1>1
<1> QED
    BY <1>2, <1>3, <1>4 DEF ExpirationChecks, Check, AuthGood

LEMMA ProfileChecksSay ==
    ASSUME InputOK, NEW observed, Passes(ProfileChecks(observed))
    PROVE  profile.smartAccountHash \in {Unset, observed[Payer]} /\ Delegated
<1> DEFINE checks == ProfileChecks(observed)
<1>1. 6 \in DOMAIN checks /\ 7 \in DOMAIN checks
    BY DEF ProfileChecks
<1>2. checks[6].ok /\ checks[7].ok
    BY <1>1 DEF Passes
<1>3. /\ profile.smartAccountHash \in {Unset, observed[Payer]}
      /\ ValidDelegatedTransaction(tx, Required, q.network, profile.expectedRule, Unset)
    BY <1>2 DEF ProfileChecks, Check
<1>4. ValidDelegatedEntries(tx.auth, Required, q.network, profile.expectedRule, Unset)
    BY <1>3 DEF ValidDelegatedTransaction
<1>5. DOMAIN tx.auth = 1 .. 2 /\ Required.from = Payer
    BY <1>4, AuthIsList DEF ValidDelegatedEntries, Required
<1>6. PICK p \in 1 .. 2 :
          /\ tx.auth[p].addr = Payer
          /\ tx.auth[3 - p].cred = "address"
          /\ tx.auth[p].root = TransferInvocation(Required)
          /\ tx.auth[3 - p].root = CheckAuthInvocation(Required.from,
                AuthDigest(tx.auth[p], q.network, tx.auth[p].sig.ruleIds))
    BY <1>4, <1>5 DEF ValidDelegatedEntries, IsPayerEntry
<1>7. tx.auth[3 - p].addr \in AuthAddresses
    BY <1>5, <1>6 DEF AuthAddresses
<1>8. tx.auth[3 - p].root.args = <<AuthDigest(tx.auth[p], q.network, tx.auth[p].sig.ruleIds)>>
    BY <1>6 DEF CheckAuthInvocation
<1>9. Len(tx.auth) = 2
    BY <1>4 DEF ValidDelegatedEntries
<1>10. Delegated
    BY <1>6, <1>7, <1>8, <1>9 DEF Delegated
<1> QED
    BY <1>3, <1>10

LEMMA RuleChecksSay ==
    ASSUME NEW observed, Passes(RuleChecks(observed)), profile.expectedRule = Unset
    PROVE  /\ profile.recipientPolicy # Unset
           /\ observed[profile.recipientPolicy] = profile.recipientHash
<1> DEFINE checks == RuleChecks(observed)
<1>1. 2 \in DOMAIN checks
    BY DEF RuleChecks
<1>2. checks[2].ok
    BY <1>1 DEF Passes
<1> QED
    BY <1>2 DEF RuleChecks, Check

-----------------------------------------------------------------------------
(***************************************************************************)
(* The invariant.                                                          *)
(***************************************************************************)

\* Where a call can be past a check: in a later await, or accepted.
Past(places) == pc \in places \/ answer.valid

AfterProfile == {"expiry", "simulate", "hashes", "rule"}

\* Observed hashes are the code's, or missing.
TrueHashes(observed) == \A a \in Address : observed[a] \in {Code[a], "none"}

\* The profile and its rule are the payer's, and its delegate authorized the payment.
PolicyGood ==
    /\ Delegated
    /\ profile.expectedRule = Unset => Code[profile.recipientPolicy] = profile.recipientHash
    /\ Payer \in Address => profile.smartAccountHash \in {Unset, Code[Payer]}

\* What a profile's judge found in the events.
EventsGood(events) ==
    /\ Moves(events, Required)
    /\ profile.expectedRule \in {Unset, Rule}
    /\ Passes(StrictEventChecks(Unlimited(profile, events), Required))
    /\ \A k \in DOMAIN profile.adapters : \E i \in DOMAIN events :
          /\ events[i].contract = profile.adapters[k].contract
          /\ events[i].data.amount = q.amount
          /\ events[i].data.rule = Rule

SimulationInv ==
    /\ sim.ledger \in latest .. ledger
    /\ sim.events \in EventLists
    /\ \A i \in DOMAIN tx.auth : tx.auth[i].expires >= sim.ledger

\* What the place of the call says about the checks it has passed.
PlaceInv ==
    /\ answer.valid => pc = "done"
    /\ Past(Reads) => TrustedConfiguration(config) /\ Configured
    /\ Past(Reads \ {"relayer"}) => Payer \notin Protected
    /\ pc = "profile" => candidates # {} /\ candidates \subseteq DOMAIN net.manifests
    /\ Past(AfterProfile) => AuthGood /\ (profile # Unset => profile \in Range(net.manifests))
    /\ Past(AfterProfile \ {"expiry"}) =>
          \A i \in DOMAIN tx.auth : tx.auth[i].expires <= latest + Window(q.timeout)
    /\ Past({"hashes", "rule"}) => SimulationInv
    /\ pc \in {"hashes", "rule"} => profile # Unset
    /\ pc = "rule" => PolicyGood

\* A profile that pins the payer's code is found, unless a lookup failed.
PinInv ==
    \A i \in DOMAIN net.manifests :
        PinsPayer(net.manifests[i]) /\ Payer \in Address /\ "profile" \notin failed =>
            /\ pc = "profile" => i \in candidates
            /\ Past(AfterProfile) => profile # Unset

AcceptedInv ==
    answer.valid =>
        /\ Moves(sim.events, Required)
        /\ profile # Unset =>
              /\ PolicyGood /\ EventsGood(sim.events)
              /\ profile.expectedRule = Unset => \E r \in rules \cup late : BoundTo(r)

\* A rule the RPC has found is installed, or went after the RPC found it.
FoundInv == found # Unset => found \subseteq rules \cup late

StateInv == InputOK /\ TypeOK /\ FoundInv /\ (hashes # Unset => TrueHashes(hashes))

IInv == StateInv /\ PlaceInv /\ PinInv /\ AcceptedInv

\* What depends on the inputs alone stays.
LEMMA InputsStay ==
    ASSUME UNCHANGED inputVars
    PROVE  /\ config' = config /\ q' = q
           /\ net' = net /\ tx' = tx /\ Payer' = Payer /\ Required' = Required
           /\ Protected' = Protected /\ AuthAddresses' = AuthAddresses /\ Rule' = Rule
           /\ (Configured' <=> Configured) /\ (AuthGood' <=> AuthGood)
           /\ (Delegated' <=> Delegated) /\ (InputOK' <=> InputOK)
<1>1. config' = config /\ q' = q
    BY DEF inputVars
<1>2. net' = net /\ tx' = tx
    BY <1>1 DEF net, tx
<1>3. Payer' = Payer
    BY <1>2 DEF Payer, Arg
<1>4. Required' = Required /\ Protected' = Protected /\ AuthAddresses' = AuthAddresses
    BY <1>1, <1>2, <1>3 DEF Required, Protected, AuthAddresses
<1>5. Rule' = Rule
    BY <1>2, <1>3 DEF Rule
<1>6. (Configured' <=> Configured) /\ (InputOK' <=> InputOK)
    BY <1>1 DEF Configured, InputOK
<1>7. AuthGood' <=> AuthGood
    BY <1>2, <1>3, <1>4 DEF AuthGood
<1>8. Delegated' <=> Delegated
    BY <1>1, <1>2, <1>3, <1>4 DEF Delegated
<1> QED
    BY <1>1, <1>2, <1>3, <1>4, <1>5, <1>6, <1>7, <1>8

\* The network's configuration is one of the configuration's, and lists its profiles.
LEMMA NetIsConfigured ==
    ASSUME InputOK, Configured
    PROVE  /\ \E n \in DOMAIN config : net = config[n]
           /\ IsSequence(net.manifests) /\ Unset \notin Range(net.manifests)
<1> DEFINE S == {n \in DOMAIN config : config[n].network = q.network}
<1>1. S # {} /\ S \subseteq DOMAIN config /\ IsSequence(config)
    BY VerifyAssumption DEF InputOK, Configured
<1>2. Min(S) \in S
    <2> HIDE DEF S
    <2> QED BY <1>1, FirstIsMember
<1>3. net = config[Min(S)] /\ Min(S) \in DOMAIN config
    BY <1>2 DEF net
<1> QED
    BY <1>3, VerifyAssumption DEF InputOK

LEMMA ProfileIsProduction ==
    ASSUME InputOK, Configured, TrustedConfiguration(config), NEW m \in Range(net.manifests)
    PROVE  ProductionManifest(m) /\ m # Unset
<1>1. PICK n \in DOMAIN config : net = config[n]
    BY NetIsConfigured
<1>2. PICK i \in DOMAIN net.manifests : m = net.manifests[i]
    BY DEF Range
<1>3. ProductionManifest(config[n].manifests[i])
    BY <1>1, <1>2 DEF TrustedConfiguration
<1>4. m # Unset
    BY NetIsConfigured
<1> QED
    BY <1>1, <1>2, <1>3, <1>4

\* A profile that passes binds the payment to pinned code.
LEMMA PolicyJudged ==
    ASSUME InputOK, Configured, TrustedConfiguration(config),
           profile \in Range(net.manifests), NEW observed, TrueHashes(observed),
           Passes(ProfileChecks(observed)), Passes(RuleChecks(observed))
    PROVE  PolicyGood
<1>1. ProductionManifest(profile)
    BY ProfileIsProduction
<1>2. profile.smartAccountHash \in {Unset, observed[Payer]} /\ Delegated
    BY ProfileChecksSay
<1>3. ASSUME profile.expectedRule = Unset
      PROVE  Code[profile.recipientPolicy] = profile.recipientHash
    <2>1. observed[profile.recipientPolicy] = profile.recipientHash
        BY <1>3, RuleChecksSay
    <2>2. profile.recipientPolicy \in Address /\ profile.recipientHash \in Hashes
        BY <1>1, <1>3, VerifyAssumption DEF ProductionManifest
    <2> QED BY <2>1, <2>2, VerifyAssumption DEF TrueHashes
<1>4. ASSUME Payer \in Address
      PROVE  profile.smartAccountHash \in {Unset, Code[Payer]}
    <2>1. profile.smartAccountHash \in Hashes \cup {Unset}
        BY <1>1 DEF ProductionManifest
    <2> QED BY <1>2, <1>4, <2>1, VerifyAssumption DEF TrueHashes
<1> QED
    BY <1>2, <1>3, <1>4 DEF PolicyGood

\* Events that pass a profile's judge move the price and report it to every adapter.
LEMMA EventsJudged ==
    ASSUME InputOK, Configured, TrustedConfiguration(config),
           profile \in Range(net.manifests), NEW s, s.events \in EventLists, NEW observed,
           Passes(EventAndDelegateChecks(s, observed))
    PROVE  EventsGood(s.events)
<1> DEFINE events == s.events
           aware == PolicyAwareEventChecks(events, Required, Rule, profile, observed, Unset)
           last == << Check(SignedPayload(tx.auth, Payer).delegate \notin Protected,
                            "unsafe_policy_participant") >>
<1>1. IsSequence(events) /\ \A i \in DOMAIN events : "form" \in DOMAIN events[i]
    BY VerifyAssumption
<1>2. IsSequence(aware)
    BY <1>1, AwareChecksAreList
<1>3. Passes(aware)
    <2>1. Passes(aware \o last)
        BY DEF EventAndDelegateChecks
    <2>2. IsSequence(last)
        BY RowsAreList
    <2> HIDE DEF aware, last
    <2> QED BY <1>2, <2>1, <2>2, PassesBoth
<1> HIDE DEF events
<1>4. /\ profile.expectedRule \in {Unset, Rule}
      /\ Parsable(events) /\ HasExactTransfer(events, Required)
      /\ \A i \in PolicyEvents(events) :
            /\ \E k \in DOMAIN profile.adapters :
                  profile.adapters[k].contract = events[i].contract
            /\ LimitReported(events[i], Required, Rule)
      /\ RequiredEventsSeen(events, profile)
    BY <1>1, <1>3, AwareChecksSay
<1>5. Moves(events, Required)
    BY <1>4, AwareMoves
<1>6. Passes(StrictEventChecks(Unlimited(profile, events), Required))
    BY <1>1, <1>4, AwareIsNoWeaker
<1>7. ASSUME NEW k \in DOMAIN profile.adapters
      PROVE  \E i \in DOMAIN events :
                /\ events[i].contract = profile.adapters[k].contract
                /\ events[i].data.amount = q.amount
                /\ events[i].data.rule = Rule
    <2>1. profile.adapters[k].required
        BY ProfileIsProduction DEF ProductionManifest
    <2>2. PICK i \in PolicyEvents(events) :
             events[i].contract = profile.adapters[k].contract
        BY <1>4, <2>1 DEF RequiredEventsSeen
    <2>3. i \in DOMAIN events
        BY DEF PolicyEvents, ContractEvents
    <2>4. events[i].data.amount = q.amount /\ events[i].data.rule = Rule
        BY <1>4 DEF LimitReported, Required
    <2> QED BY <2>2, <2>3, <2>4
<1> QED
    BY <1>4, <1>5, <1>6, <1>7 DEF EventsGood, events

-----------------------------------------------------------------------------
(***************************************************************************)
(* Every step keeps the invariant.                                         *)
(***************************************************************************)

LEMMA PinsStay ==
    ASSUME UNCHANGED inputVars, NEW m PROVE PinsPayer(m)' <=> PinsPayer(m)
BY InputsStay DEF PinsPayer, CodePinned, PinnedContracts

LEMMA PolicyStays ==
    ASSUME UNCHANGED inputVars, UNCHANGED profile PROVE PolicyGood' <=> PolicyGood
BY InputsStay DEF PolicyGood

\* A call that has been refused has nothing more to keep.
LEMMA Refused ==
    ASSUME StateInv', ~answer'.valid, pc' = "done"
    PROVE  IInv'
BY DEF IInv, PlaceInv, PinInv, AcceptedInv, Past, Reads, AfterProfile

LEMMA ObservedIsTrue ==
    ASSUME NEW m, NEW keyed \in BOOLEAN
    PROVE  /\ ObservedHashes(m, keyed) \in [Address -> Hashes \cup {"none"}]
           /\ TrueHashes(ObservedHashes(m, keyed))
           /\ NoHashes \in [Address -> Hashes \cup {"none"}]
           /\ TrueHashes(NoHashes)
BY VerifyAssumption DEF ObservedHashes, TrueHashes, NoHashes

\* A list of checks lets the call go on, or answers.
LEMMA ScreenEnds ==
    ASSUME NEW checks, NEW next, Screen(checks, next)
    PROVE  \/ Passes(checks) /\ next # "done" /\ pc' = next /\ answer' = answer
           \/ Passes(checks) /\ next = "done" /\ pc' = "done" /\ answer'.valid = TRUE
           \/ pc' = "done" /\ answer'.valid = FALSE
BY DEF Screen, Respond

LEMMA RespondEnds ==
    ASSUME NEW why, Respond(FALSE, why) PROVE pc' = "done" /\ answer'.valid = FALSE
BY DEF Respond

\* So does the judge of a profile, which may ask for the rule before.
LEMMA JudgeEnds ==
    ASSUME NEW s, NEW observed, JudgeProfile(s, observed)
    PROVE  \/ /\ Passes(ProfileChecks(observed)) /\ Passes(RuleChecks(observed))
              /\ \/ pc' = "rule" /\ answer' = answer
                 \/ /\ profile.expectedRule # Unset
                    /\ Passes(EventAndDelegateChecks(s, observed))
                    /\ pc' = "done" /\ answer'.valid = TRUE
           \/ pc' = "done" /\ answer'.valid = FALSE
<1>1. CASE ~Passes(ProfileChecks(observed)) \/ ~Passes(RuleChecks(observed))
    BY <1>1, RespondEnds DEF JudgeProfile
<1>2. CASE Passes(ProfileChecks(observed)) /\ Passes(RuleChecks(observed))
    <2>1. CASE profile.expectedRule # Unset
        BY <1>2, <2>1, ScreenEnds DEF JudgeProfile
    <2>2. CASE profile.expectedRule = Unset
        BY <1>2, <2>2, RespondEnds DEF JudgeProfile
    <2> QED BY <2>1, <2>2
<1> QED
    BY <1>1, <1>2

\* The types and the observed hashes are kept.
LEMMA StateKept == StateInv /\ [Next]_vars => StateInv'
<1> SUFFICES ASSUME StateInv, [Next]_vars PROVE StateInv'
    OBVIOUS
<1> USE VerifyAssumption
<1> DEFINE RulesOK == /\ rules \subseteq InstalledRules
                      /\ late \subseteq InstalledRules \ rules
                      /\ found # Unset => found \subseteq InstalledRules
<1> DEFINE Typed(h) == h \in [Address -> Hashes \cup {"none"}] /\ TrueHashes(h)
<1>1. InputOK'
    BY DEF StateInv, InputOK, Next, RefuseConfiguration, RefuseRequest, BeginVerify, ReadRelayer,
           ReadProfile, ReadProfileFails, ReadLatestLedger, ReadLatestLedgerFails, Simulate,
           SimulateFails, ReadHashes, ReadHashesFails, ReadRule, ReadRuleFails, Throws,
           EvaluateRule, CloseLedger, RemoveRule, inputVars, vars
<1>2. ledger' \in 1 .. MaxLedger /\ ledger <= ledger' /\ RulesOK' /\ FoundInv'
    <2>1. ledger \in 1 .. MaxLedger /\ RulesOK /\ FoundInv
        BY DEF StateInv, TypeOK
    <2>2. CASE CloseLedger
        BY <2>1, <2>2 DEF CloseLedger, FoundInv
    <2>3. CASE RemoveRule
        BY <2>1, <2>3 DEF RemoveRule, FoundInv
    <2>4. CASE EvaluateRule
        BY <2>1, <2>4 DEF EvaluateRule, FoundInv
    <2>5. CASE ~(CloseLedger \/ RemoveRule \/ EvaluateRule)
        <3>1. UNCHANGED chainVars
            BY <2>5 DEF Next, RefuseConfiguration, RefuseRequest, BeginVerify, ReadRelayer,
               ReadProfile, ReadProfileFails, ReadLatestLedger, ReadLatestLedgerFails,
               Simulate, SimulateFails, ReadHashes, ReadHashesFails, ReadRule, ReadRuleFails,
               Throws, chainVars, vars
        <3> QED BY <2>1, <3>1 DEF chainVars, FoundInv
    <2> QED BY <2>2, <2>3, <2>4, <2>5
<1>3. failed' \subseteq Reads
    BY DEF StateInv, TypeOK, Next, RefuseConfiguration, RefuseRequest, BeginVerify, ReadRelayer,
           ReadProfile, ReadProfileFails, ReadLatestLedger, ReadLatestLedgerFails, Simulate,
           SimulateFails, ReadHashes, ReadHashesFails, ReadRule, ReadRuleFails, Throws, Fails,
           EvaluateRule, CloseLedger, RemoveRule, vars, Reads
<1>4. latest' \in {latest, ledger}
    BY DEF Next, RefuseConfiguration, RefuseRequest, BeginVerify, ReadRelayer,
           ReadProfile, ReadProfileFails, ReadLatestLedger, ReadLatestLedgerFails, Simulate,
           SimulateFails, ReadHashes, ReadHashesFails, ReadRule, ReadRuleFails, Throws,
           EvaluateRule, CloseLedger, RemoveRule, localVars, vars
<1>5. sim'.ledger \in {sim.ledger, ledger}
    <2>1. CASE Simulate
        BY <2>1 DEF Simulate
    <2>2. CASE ~Simulate
        <3>1. sim' = sim
            BY <2>2 DEF Next, RefuseConfiguration, RefuseRequest, BeginVerify, ReadRelayer,
               ReadProfile, ReadProfileFails, ReadLatestLedger, ReadLatestLedgerFails,
               SimulateFails, ReadHashes, ReadHashesFails, ReadRule, ReadRuleFails,
               Throws, EvaluateRule, CloseLedger, RemoveRule, localVars, vars
        <3> QED BY <3>1
    <2> QED BY <2>1, <2>2
<1>6. hashes' = hashes \/ Typed(hashes')
    BY ObservedIsTrue
       DEF Next, RefuseConfiguration, RefuseRequest, BeginVerify, ReadRelayer,
           ReadProfile, ReadProfileFails, TryNextProfile, ReadLatestLedger,
           ReadLatestLedgerFails, Simulate,
           SimulateFails, ReadHashes, ReadHashesFails, ReadRule, ReadRuleFails, Throws,
           EvaluateRule, CloseLedger, RemoveRule, localVars, vars
<1>7. pc' \in {"called", "done"} \cup Reads /\ answer'.valid \in BOOLEAN
    <2>0. pc \in {"called", "done"} \cup Reads /\ answer.valid \in BOOLEAN
        BY DEF StateInv, TypeOK
    <2> USE <2>0, ScreenEnds, RespondEnds, JudgeEnds DEF Reads
    <2>1. CASE RefuseConfiguration \/ RefuseRequest
        BY <2>1 DEF RefuseConfiguration, RefuseRequest
    <2>2. CASE BeginVerify
        BY <2>2 DEF BeginVerify
    <2>3. CASE ReadRelayer
        BY <2>3 DEF ReadRelayer, Proceed
    <2>4. CASE ReadProfile \/ ReadProfileFails
        BY <2>4 DEF ReadProfile, ReadProfileFails, TryNextProfile, Proceed
    <2>5. CASE ReadLatestLedger \/ ReadLatestLedgerFails
        BY <2>5 DEF ReadLatestLedger, ReadLatestLedgerFails
    <2>6. CASE Simulate \/ SimulateFails
        BY <2>6 DEF Simulate, SimulateFails
    <2>7. CASE ReadHashes \/ ReadHashesFails
        BY <2>7 DEF ReadHashes, ReadHashesFails
    <2>8. CASE ReadRule \/ ReadRuleFails \/ \E read \in Reads : Throws(read)
        BY <2>8 DEF ReadRule, ReadRuleFails, Throws
    <2>9. CASE EvaluateRule \/ CloseLedger \/ RemoveRule \/ UNCHANGED vars
        BY <2>9 DEF EvaluateRule, CloseLedger, RemoveRule, vars
    <2> QED
        BY <2>1, <2>2, <2>3, <2>4, <2>5, <2>6, <2>7, <2>8, <2>9 DEF Next
<1>8. TypeOK'
    <2>1. ledger' \in Nat /\ ledger \in Nat /\ latest \in 0 .. ledger /\ sim.ledger \in 0 .. ledger
        BY <1>2 DEF StateInv, TypeOK
    <2>2. latest' \in 0 .. ledger' /\ sim'.ledger \in 0 .. ledger'
        BY <1>2, <1>4, <1>5, <2>1
    <2>3. hashes' \in [Address -> Hashes \cup {"none"}] \cup {Unset}
        BY <1>6 DEF StateInv, TypeOK
    <2> QED BY <1>2, <1>3, <1>7, <2>2, <2>3 DEF TypeOK
<1> QED
    BY <1>1, <1>2, <1>6, <1>8 DEF StateInv

\* The call goes on with a profile, or with none when no profile pins the payer.
LEMMA ProceedKeeps ==
    ASSUME StateInv', UNCHANGED inputVars, ~answer.valid, TrustedConfiguration(config),
           Configured, Payer \notin Protected,
           NEW m, m = Unset \/ m \in Range(net.manifests), Proceed(m),
           m = Unset =>
              \A i \in DOMAIN net.manifests :
                 PinsPayer(net.manifests[i]) /\ Payer \in Address => "profile" \in failed'
    PROVE  IInv'
<1>1. profile' = m /\ Screen(AuthChecks(m), "expiry")
    BY DEF Proceed
<1>2. CASE pc' = "done" /\ answer'.valid = FALSE
    BY <1>2, Refused
<1>3. CASE Passes(AuthChecks(m)) /\ pc' = "expiry" /\ answer' = answer
    <2>1. AuthGood
        BY <1>3, AuthChecksSay, InputsStay DEF StateInv
    <2>2. m # Unset => m \in Range(net.manifests)
        OBVIOUS
    <2>3. PlaceInv'
        BY <1>1, <1>3, <2>1, <2>2, InputsStay DEF PlaceInv, Past, Reads, AfterProfile
    <2>4. PinInv'
        BY <1>1, <1>3, InputsStay, PinsStay DEF PinInv
    <2>5. AcceptedInv'
        BY <1>3 DEF AcceptedInv
    <2> QED BY <2>3, <2>4, <2>5 DEF IInv
<1> QED
    BY <1>1, <1>2, <1>3, ScreenEnds

LEMMA RelayerKeeps == ASSUME IInv, StateInv', ReadRelayer PROVE IInv'
<1> USE DEF ReadRelayer
<1>1. /\ UNCHANGED inputVars /\ failed' = failed /\ pc = "relayer" /\ ~answer.valid
      /\ TrustedConfiguration(config) /\ Configured
    BY DEF IInv, PlaceInv, Past, Reads
<1>2. CASE ~Passes(CallChecks)
    BY <1>2, RespondEnds, Refused
<1>3. CASE Passes(CallChecks)
    <2>1. Payer \notin Protected
        BY <1>3, CallChecksSay
    <2>2. IsSequence(net.manifests)
        BY <1>1, NetIsConfigured DEF IInv, StateInv
    <2> DEFINE pinned == {i \in DOMAIN net.manifests : AddressPinned(net.manifests[i])}
               others == {i \in DOMAIN net.manifests : CodePinned(net.manifests[i])}
    <2>3. CASE pinned # {}
        <3>1. Proceed(net.manifests[Min(pinned)])
            BY <1>3, <2>3
        <3>2. Min(pinned) \in pinned
            <4>1. pinned \subseteq DOMAIN net.manifests
                OBVIOUS
            <4> HIDE DEF pinned
            <4> QED BY <2>2, <2>3, <4>1, FirstIsMember
        <3>3. PICK m : m = net.manifests[Min(pinned)]
            OBVIOUS
        <3>4. m \in Range(net.manifests)
            BY <3>2, <3>3 DEF Range
        <3>5. m # Unset
            BY <1>1, <3>4, NetIsConfigured DEF IInv, StateInv
        <3> HIDE DEF pinned
        <3> QED BY <1>1, <2>1, <3>1, <3>3, <3>4, <3>5, ProceedKeeps
    <2>4. CASE pinned = {} /\ others # {}
        <3>1. candidates' = others /\ pc' = "profile" /\ answer' = answer
            BY <1>3, <2>4
        <3>2. PlaceInv'
            BY <1>1, <2>1, <2>4, <3>1, InputsStay DEF PlaceInv, Past, Reads, AfterProfile
        <3>3. PinInv'
            BY <1>1, <3>1, InputsStay, PinsStay DEF PinInv, PinsPayer, Past, AfterProfile
        <3>4. AcceptedInv'
            BY <1>1, <3>1 DEF AcceptedInv
        <3> QED BY <3>2, <3>3, <3>4 DEF IInv
    <2>5. CASE pinned = {} /\ others = {}
        <3>1. Proceed(Unset)
            BY <1>3, <2>5
        <3>2. \A i \in DOMAIN net.manifests : ~PinsPayer(net.manifests[i])
            BY <2>5 DEF PinsPayer
        <3> QED BY <1>1, <2>1, <3>1, <3>2, ProceedKeeps
    <2> QED BY <2>3, <2>4, <2>5
<1> QED
    BY <1>2, <1>3

\* A candidate that was not the payer's is left out.
LEMMA NextKeeps ==
    ASSUME IInv, StateInv', pc = "profile", UNCHANGED inputVars, TryNextProfile,
           failed \subseteq failed',
           PinsPayer(Candidate) /\ Payer \in Address => "profile" \in failed'
    PROVE  IInv'
<1>1. /\ ~answer.valid /\ TrustedConfiguration(config) /\ Configured
      /\ Payer \notin Protected /\ candidates \subseteq DOMAIN net.manifests
    BY DEF IInv, PlaceInv, Past, Reads
<1>2. candidates' = candidates \ {Min(candidates)}
    BY DEF TryNextProfile
<1>3. \A i \in DOMAIN net.manifests :
         PinsPayer(net.manifests[i]) /\ Payer \in Address /\ "profile" \notin failed' =>
            i \in candidates'
    BY <1>2 DEF IInv, PinInv, Candidate
<1>4. CASE candidates' # {}
    <2>1. pc' = pc /\ profile' = profile /\ answer' = answer
        BY <1>4 DEF TryNextProfile
    <2>2. PlaceInv'
        BY <1>1, <1>2, <1>4, <2>1, InputsStay DEF PlaceInv, Past, Reads, AfterProfile
    <2>3. PinInv'
        BY <1>1, <1>3, <2>1, InputsStay, PinsStay DEF PinInv, Past, AfterProfile
    <2>4. AcceptedInv'
        BY <1>1, <2>1 DEF AcceptedInv
    <2> QED BY <2>2, <2>3, <2>4 DEF IInv
<1>5. CASE candidates' = {}
    <2>1. Proceed(Unset)
        BY <1>5 DEF TryNextProfile
    <2> QED BY <1>1, <1>3, <1>5, <2>1, ProceedKeeps
<1> QED
    BY <1>4, <1>5

LEMMA ProfileKeeps == ASSUME IInv, StateInv', ReadProfile \/ ReadProfileFails PROVE IInv'
<1>1. /\ UNCHANGED inputVars /\ pc = "profile" /\ ~answer.valid
      /\ TrustedConfiguration(config) /\ Configured /\ Payer \notin Protected
      /\ candidates # {} /\ candidates \subseteq DOMAIN net.manifests
    BY DEF IInv, PlaceInv, Past, Reads, ReadProfile, ReadProfileFails
<1>2. CASE ReadProfileFails
    BY <1>1, <1>2, NextKeeps DEF ReadProfileFails, Fails
<1>3. CASE ReadProfile
    <2>1. PICK keyed \in BOOLEAN :
             IF ObservedHashes(Candidate, keyed)[Payer] = Candidate.smartAccountHash
             THEN Proceed(Candidate)
             ELSE TryNextProfile
        BY <1>3 DEF ReadProfile
    <2>2. CASE ObservedHashes(Candidate, keyed)[Payer] = Candidate.smartAccountHash
        <3>1. Candidate \in Range(net.manifests)
            BY <1>1, NetIsConfigured, FirstIsMember DEF Candidate, Range, IInv, StateInv
        <3>2. PICK m : m = Candidate
            OBVIOUS
        <3>3. m # Unset
            BY <1>1, <3>1, <3>2, NetIsConfigured DEF IInv, StateInv
        <3> QED BY <1>1, <2>1, <2>2, <3>1, <3>2, <3>3, ProceedKeeps
    <2>3. CASE ObservedHashes(Candidate, keyed)[Payer] # Candidate.smartAccountHash
        <3>1. ASSUME PinsPayer(Candidate), Payer \in Address PROVE FALSE
            <4>1. Payer \in PinnedContracts(Candidate)
                BY <3>1 DEF PinsPayer, CodePinned, PinnedContracts
            <4>2. ObservedHashes(Candidate, keyed)[Payer] = Code[Payer]
                BY <3>1, <4>1 DEF PinsPayer, ObservedHashes
            <4> QED BY <2>3, <3>1, <4>2 DEF PinsPayer
        <3>2. TryNextProfile /\ failed' = failed
            BY <1>3, <2>1, <2>3 DEF ReadProfile
        <3> QED BY <1>1, <3>1, <3>2, NextKeeps
    <2> QED BY <2>2, <2>3
<1> QED
    BY <1>2, <1>3

LEMMA ExpiryKeeps == ASSUME IInv, StateInv', ReadLatestLedger PROVE IInv'
<1>1. /\ UNCHANGED inputVars /\ profile' = profile /\ failed' = failed /\ latest' = ledger
      /\ pc = "expiry" /\ ~answer.valid
      /\ Screen(ExpirationChecks(ledger), "simulate")
    BY DEF IInv, PlaceInv, ReadLatestLedger
<1>2. /\ TrustedConfiguration(config) /\ Configured /\ Payer \notin Protected /\ AuthGood
      /\ profile # Unset => profile \in Range(net.manifests)
    BY <1>1 DEF IInv, PlaceInv, Past, Reads, AfterProfile
<1>3. CASE pc' = "done" /\ answer'.valid = FALSE
    BY <1>3, Refused
<1>4. CASE Passes(ExpirationChecks(ledger)) /\ pc' = "simulate" /\ answer' = answer
    <2>1. ledger \in Nat
        BY VerifyAssumption DEF IInv, StateInv, TypeOK
    <2>2. \A i \in DOMAIN tx.auth : tx.auth[i].expires <= ledger + Window(q.timeout)
        BY <1>2, <1>4, <2>1, ExpirationChecksSay DEF IInv, StateInv
    <2>3. PlaceInv'
        BY <1>1, <1>2, <1>4, <2>2, InputsStay DEF PlaceInv, Past, Reads, AfterProfile
    <2>4. PinInv'
        BY <1>1, <1>4, InputsStay, PinsStay DEF IInv, PinInv, Past, AfterProfile
    <2>5. AcceptedInv'
        BY <1>1, <1>4 DEF AcceptedInv
    <2> QED BY <2>3, <2>4, <2>5 DEF IInv
<1> QED
    BY <1>1, <1>3, <1>4, ScreenEnds

\* What is known of a call whose simulation has been answered.
Simulated ==
    /\ pc \in AfterProfile \ {"expiry"} /\ ~answer.valid
    /\ TrustedConfiguration(config) /\ Configured /\ Payer \notin Protected /\ AuthGood
    /\ profile # Unset => profile \in Range(net.manifests)
    /\ \A i \in DOMAIN tx.auth : tx.auth[i].expires <= latest + Window(q.timeout)
    /\ UNCHANGED inputVars /\ profile' = profile /\ latest' = latest
    /\ failed \subseteq failed'
    /\ SimulationInv'

\* The judge of a profile accepts, asks for the rule or refuses.
LEMMA JudgeKeeps ==
    ASSUME IInv, StateInv', Simulated, profile # Unset,
           NEW s, sim' = s, s.events \in EventLists, NEW observed, TrueHashes(observed),
           JudgeProfile(s, observed)
    PROVE  IInv'
<1>1. CASE pc' = "done" /\ answer'.valid = FALSE
    BY <1>1, Refused
<1>2. CASE /\ Passes(ProfileChecks(observed)) /\ Passes(RuleChecks(observed))
           /\ \/ pc' = "rule" /\ answer' = answer
              \/ /\ profile.expectedRule # Unset
                 /\ Passes(EventAndDelegateChecks(s, observed))
                 /\ pc' = "done" /\ answer'.valid = TRUE
    <2>1. PolicyGood
        BY <1>2, PolicyJudged DEF Simulated, IInv, StateInv
    <2>2. PolicyGood'
        BY <2>1, PolicyStays DEF Simulated
    <2>3. PlaceInv'
        BY <1>2, <2>2, InputsStay DEF Simulated, PlaceInv, Past, Reads, AfterProfile
    <2>4. PinInv'
        BY <1>2 DEF Simulated, PinInv
    <2>5. AcceptedInv'
        <3>1. CASE pc' = "rule" /\ answer' = answer
            BY <3>1 DEF Simulated, AcceptedInv
        <3>2. CASE /\ profile.expectedRule # Unset
                   /\ Passes(EventAndDelegateChecks(s, observed))
            <4>1. EventsGood(s.events)
                BY <3>2, EventsJudged DEF Simulated, IInv, StateInv
            <4>2. EventsGood(sim.events)'
                BY <4>1, InputsStay DEF Simulated, EventsGood
            <4>3. Moves(sim.events, Required)'
                BY <4>2 DEF EventsGood
            <4>4. profile'.expectedRule # Unset
                BY <3>2 DEF Simulated
            <4> QED BY <2>2, <4>2, <4>3, <4>4 DEF AcceptedInv
        <3> QED BY <1>2, <3>1, <3>2
    <2> QED BY <2>3, <2>4, <2>5 DEF IInv
<1> QED
    BY <1>1, <1>2, JudgeEnds

LEMMA SimulateKeeps == ASSUME IInv, StateInv', Simulate PROVE IInv'
<1>1. PICK minFee \in MinFees, events \in EventLists :
         LET s == [ledger |-> ledger, minFee |-> minFee, events |-> events]
         IN  /\ sim' = s
             /\ IF ~Passes(SimulationChecks(s))
                THEN Respond(FALSE, FirstFailure(SimulationChecks(s)))
                ELSE IF profile = Unset
                THEN Screen(StrictEventChecks(events, Required), "done")
                ELSE IF hashes # Unset
                THEN JudgeProfile(s, hashes)
                ELSE pc' = "hashes" /\ UNCHANGED answer
    BY DEF Simulate
<1> DEFINE s == [ledger |-> ledger, minFee |-> minFee, events |-> events]
<1>2. sim' = s /\ s.ledger = ledger /\ s.events = events
    BY <1>1
<1>3. /\ UNCHANGED inputVars /\ profile' = profile /\ failed' = failed /\ latest' = latest
      /\ ledger' = ledger /\ pc = "simulate" /\ ~answer.valid
      /\ \A i \in DOMAIN tx.auth : tx.auth[i].expires >= ledger
    BY DEF IInv, PlaceInv, Simulate, chainVars
<1>4. SimulationInv'
    <2>1. ledger \in Nat /\ latest \in 0 .. ledger
        BY VerifyAssumption DEF IInv, StateInv, TypeOK
    <2> QED BY <1>2, <1>3, <2>1, InputsStay DEF SimulationInv
<1>5. Simulated
    BY <1>3, <1>4 DEF Simulated, IInv, PlaceInv, Past, Reads, AfterProfile
<1> HIDE DEF s
<1>6. CASE ~Passes(SimulationChecks(s))
    BY <1>1, <1>6, RespondEnds, Refused DEF s
<1>7. CASE Passes(SimulationChecks(s)) /\ profile = Unset
    <2>1. Screen(StrictEventChecks(events, Required), "done")
        BY <1>1, <1>7 DEF s
    <2>2. CASE pc' = "done" /\ answer'.valid = FALSE
        BY <2>2, Refused
    <2>3. CASE Passes(StrictEventChecks(events, Required)) /\ pc' = "done"
        <3>1. Moves(events, Required)
            BY <2>3, StrictMoves
        <3>2. Moves(sim.events, Required)'
            BY <1>2, <1>3, <3>1, InputsStay
        <3>3. AcceptedInv'
            BY <1>3, <1>7, <3>2 DEF AcceptedInv
        <3>4. PlaceInv'
            BY <1>5, <2>3, InputsStay DEF Simulated, PlaceInv, Past, Reads, AfterProfile
        <3>5. PinInv'
            BY <1>3, <2>3, InputsStay, PinsStay DEF IInv, PinInv, Past, AfterProfile
        <3> QED BY <3>3, <3>4, <3>5 DEF IInv
    <2> QED BY <2>1, <2>2, <2>3, ScreenEnds
<1>8. CASE Passes(SimulationChecks(s)) /\ profile # Unset /\ hashes # Unset
    <2>1. JudgeProfile(s, hashes)
        BY <1>1, <1>8 DEF s
    <2>2. TrueHashes(hashes)
        BY <1>8 DEF IInv, StateInv
    <2> QED BY <1>2, <1>5, <1>8, <2>1, <2>2, JudgeKeeps
<1>9. CASE Passes(SimulationChecks(s)) /\ profile # Unset /\ hashes = Unset
    <2>1. pc' = "hashes" /\ answer' = answer
        BY <1>1, <1>9 DEF s
    <2>2. PlaceInv'
        BY <1>5, <1>9, <2>1, InputsStay DEF Simulated, PlaceInv, Past, Reads, AfterProfile
    <2>3. PinInv'
        BY <1>3, <1>9, <2>1 DEF PinInv
    <2>4. AcceptedInv'
        BY <1>3, <2>1 DEF AcceptedInv
    <2> QED BY <2>2, <2>3, <2>4 DEF IInv
<1> QED
    BY <1>6, <1>7, <1>8, <1>9

LEMMA HashesKeep == ASSUME IInv, StateInv', ReadHashes \/ ReadHashesFails PROVE IInv'
<1>1. PICK observed : TrueHashes(observed) /\ JudgeProfile(sim, observed)
    <2>1. CASE ReadHashes
        BY <2>1, ObservedIsTrue DEF ReadHashes
    <2>2. CASE ReadHashesFails
        BY <2>2, ObservedIsTrue DEF ReadHashesFails
    <2> QED BY <2>1, <2>2
<1>2. /\ UNCHANGED inputVars /\ profile' = profile /\ latest' = latest /\ sim' = sim
      /\ ledger' = ledger /\ failed \subseteq failed' /\ pc = "hashes" /\ ~answer.valid
    BY DEF IInv, PlaceInv, ReadHashes, ReadHashesFails, Fails, chainVars
<1>3. SimulationInv /\ profile # Unset
    BY <1>2 DEF IInv, PlaceInv, Past
<1>4. SimulationInv'
    BY <1>2, <1>3, InputsStay DEF SimulationInv
<1>5. Simulated
    BY <1>2, <1>4 DEF Simulated, IInv, PlaceInv, Past, Reads, AfterProfile
<1>6. PICK s : s = sim
    OBVIOUS
<1> QED
    BY <1>1, <1>2, <1>3, <1>5, <1>6, JudgeKeeps DEF SimulationInv

LEMMA RuleKeeps == ASSUME IInv, StateInv', ReadRule PROVE IInv'
<1>1. /\ UNCHANGED inputVars /\ profile' = profile /\ latest' = latest /\ sim' = sim
      /\ ledger' = ledger /\ UNCHANGED <<rules, found, late>>
      /\ failed' = failed /\ pc = "rule" /\ found # Unset
      /\ ~answer.valid /\ hashes' = hashes
    BY DEF IInv, PlaceInv, ReadRule, chainVars, localVars
<1>2. SimulationInv /\ profile # Unset /\ PolicyGood
    BY <1>1 DEF IInv, PlaceInv, Past
<1>3. SimulationInv'
    BY <1>1, <1>2, InputsStay DEF SimulationInv
<1>4. Simulated
    BY <1>1, <1>3 DEF Simulated, IInv, PlaceInv, Past, Reads, AfterProfile
<1>5. CASE pc' = "done" /\ answer'.valid = FALSE
    BY <1>5, Refused
<1>6. CASE /\ \E r \in found : BoundTo(r)
           /\ Passes(EventAndDelegateChecks(sim, hashes)) /\ pc' = "done"
    <2>1. EventsGood(sim.events)
        BY <1>2, <1>4, <1>6, EventsJudged DEF Simulated, SimulationInv, IInv, StateInv
    <2>2. EventsGood(sim.events)'
        BY <1>1, <2>1, InputsStay DEF EventsGood
    <2>3. Moves(sim.events, Required)'
        BY <2>2 DEF EventsGood
    <2>4. (\E r \in rules \cup late : BoundTo(r))'
        BY <1>1, <1>6, InputsStay DEF BoundTo, IInv, StateInv, FoundInv
    <2>5. PolicyGood'
        BY <1>1, <1>2, PolicyStays
    <2>6. AcceptedInv'
        BY <2>2, <2>3, <2>4, <2>5 DEF AcceptedInv
    <2>7. PlaceInv'
        BY <1>4, <1>6, InputsStay DEF Simulated, PlaceInv, Past, Reads, AfterProfile
    <2>8. PinInv'
        BY <1>1, <1>2, <1>6 DEF PinInv
    <2> QED BY <2>6, <2>7, <2>8 DEF IInv
<1>7. IF \E r \in found : BoundTo(r)
      THEN Screen(EventAndDelegateChecks(sim, hashes), "done")
      ELSE Respond(FALSE, "policy_manifest_mismatch")
    BY DEF ReadRule
<1> QED
    BY <1>5, <1>6, <1>7, ScreenEnds, RespondEnds

\* During a read the ledger closes, a rule goes or is looked up: nothing was concluded yet.
LEMMA ChainKeeps == ASSUME IInv, StateInv', EvaluateRule \/ CloseLedger \/ RemoveRule PROVE IInv'
<1>1. /\ UNCHANGED inputVars /\ UNCHANGED localVars /\ pc' = pc /\ answer' = answer
      /\ failed' = failed /\ pc \in Reads /\ ~answer.valid
    BY DEF EvaluateRule, CloseLedger, RemoveRule, IInv, PlaceInv, Reads
<1>2. ledger \in Nat /\ ledger' \in Nat /\ ledger <= ledger' /\ sim.ledger \in Nat /\ latest \in Nat
    BY VerifyAssumption DEF EvaluateRule, CloseLedger, RemoveRule, IInv, StateInv, TypeOK
<1>3. SimulationInv => SimulationInv'
    BY <1>1, <1>2, InputsStay DEF SimulationInv, localVars
<1>4. PlaceInv'
    BY <1>1, <1>3, InputsStay, PolicyStays DEF IInv, PlaceInv, Past, localVars
<1>5. PinInv'
    BY <1>1, InputsStay, PinsStay DEF IInv, PinInv, Past, localVars
<1>6. AcceptedInv'
    BY <1>1 DEF AcceptedInv
<1> QED
    BY <1>4, <1>5, <1>6 DEF IInv

LEMMA StepPreserves == IInv /\ [Next]_vars => IInv'
<1> SUFFICES ASSUME IInv, [Next]_vars PROVE IInv'
    OBVIOUS
<1>1. StateInv'
    BY StateKept DEF IInv
<1>2. CASE \/ RefuseConfiguration \/ RefuseRequest \/ ReadLatestLedgerFails \/ SimulateFails
           \/ ReadRuleFails \/ \E read \in Reads : Throws(read)
    BY <1>1, <1>2, RespondEnds, Refused
       DEF RefuseConfiguration, RefuseRequest, ReadLatestLedgerFails, SimulateFails,
           ReadRuleFails, Throws
<1>3. CASE BeginVerify
    <2>1. UNCHANGED inputVars /\ ~answer.valid /\ TrustedConfiguration(config) /\ Configured
        BY <1>3 DEF BeginVerify, IInv, PlaceInv
    <2>2. CASE pc' = "done" /\ answer'.valid = FALSE
        BY <1>1, <2>2, Refused
    <2>3. CASE pc' = "relayer" /\ answer' = answer
        <3>1. PlaceInv'
            BY <2>1, <2>3, InputsStay DEF PlaceInv, Past, Reads, AfterProfile
        <3>2. PinInv' /\ AcceptedInv'
            BY <2>1, <2>3 DEF PinInv, AcceptedInv, Past, AfterProfile
        <3> QED BY <1>1, <3>1, <3>2 DEF IInv
    <2> QED BY <1>3, <2>2, <2>3, ScreenEnds DEF BeginVerify
<1>4. CASE UNCHANGED vars
    <2>1. /\ UNCHANGED inputVars /\ UNCHANGED localVars /\ pc' = pc /\ answer' = answer
          /\ failed' = failed /\ rules' = rules /\ late' = late /\ ledger' = ledger
        BY <1>4 DEF vars, inputVars, localVars
    <2>2. SimulationInv' <=> SimulationInv
        BY <2>1, InputsStay DEF SimulationInv, localVars
    <2>3. PlaceInv'
        BY <2>1, <2>2, InputsStay, PolicyStays DEF IInv, PlaceInv, Past, localVars
    <2>4. PinInv'
        BY <2>1, InputsStay, PinsStay DEF IInv, PinInv, Past, localVars
    <2>5. AcceptedInv'
        BY <2>1, InputsStay, PolicyStays DEF IInv, AcceptedInv, EventsGood, BoundTo, localVars
    <2> QED BY <1>1, <2>3, <2>4, <2>5 DEF IInv
<1> QED
    BY <1>1, <1>2, <1>3, <1>4, RelayerKeeps, ProfileKeeps, ExpiryKeeps, SimulateKeeps,
       HashesKeep, RuleKeeps, ChainKeeps
    DEF Next

LEMMA InitEstablishes == Init => IInv
<1> SUFFICES ASSUME Init PROVE IInv
    OBVIOUS
<1>1. StateInv
    BY VerifyAssumption DEF Init, StateInv, FoundInv, InputOK, TypeOK, NoAnswer, NoSim
<1>2. PlaceInv /\ PinInv /\ AcceptedInv
    BY DEF Init, PlaceInv, PinInv, AcceptedInv, Past, Reads, AfterProfile, NoAnswer
<1> QED
    BY <1>1, <1>2 DEF IInv

-----------------------------------------------------------------------------
(***************************************************************************)
(* What verify() promises, for any configuration, request and simulation.  *)
(***************************************************************************)

THEOREM VerifyInvariance == Spec => []IInv
BY InitEstablishes, StepPreserves, PTL DEF Spec

\* Every variable of a verify() call stays in its range, and hashes it keeps are hashes.
THEOREM TypeCorrect == Spec => []TypeOK
<1>1. IInv => TypeOK
    BY DEF IInv, StateInv
<1> QED
    BY <1>1, VerifyInvariance, PTL

\* verify() accepts only what moves exactly the price, authorized by the payer, not at
\* the facilitator's expense, good at the simulated ledger and within the timeout:
\* whatever the relayer answers, and whatever happens between the reads.
THEOREM AcceptedIsExact == Spec => []AcceptedMovesExactlyThePrice
<1>1. IInv => AcceptedMovesExactlyThePrice
    <2> SUFFICES ASSUME IInv, answer.valid PROVE AcceptedMovesExactlyThePrice
        BY DEF AcceptedMovesExactlyThePrice
    <2>1. /\ Moves(sim.events, Required) /\ AuthGood /\ Payer \notin Protected
          /\ SimulationInv
          /\ \A i \in DOMAIN tx.auth : tx.auth[i].expires <= latest + Window(q.timeout)
        BY DEF IInv, PlaceInv, AcceptedInv, Past
    <2>2. ASSUME NEW i \in DOMAIN tx.auth
          PROVE  tx.auth[i].expires \in sim.ledger .. (sim.ledger + Window(q.timeout))
        <3>1. tx.auth[i].expires \in Nat /\ Window(q.timeout) \in Nat
            BY AuthIsList DEF IInv, StateInv
        <3>2. latest \in Nat /\ sim.ledger \in Nat /\ ledger \in Nat
            BY VerifyAssumption DEF IInv, StateInv, TypeOK
        <3> QED BY <2>1, <3>1, <3>2 DEF SimulationInv
    <2> QED BY <2>1, <2>2 DEF AcceptedMovesExactlyThePrice, Moves, AuthGood
<1> QED
    BY <1>1, VerifyInvariance, PTL

\* An accepted transfer names its payer, so the payer is an address.
LEMMA PayerIsAddress == ASSUME IInv, answer.valid PROVE Payer \in Address
BY DEF IInv, AcceptedInv, Moves, IsTransfer, Moved, Required

\* Under a profile, acceptance binds payment, delegate, rule and pinned code together.
THEOREM ProfiledIsBound == Spec => []ProfiledPaymentIsBound
<1>1. IInv => ProfiledPaymentIsBound
    <2> SUFFICES ASSUME IInv, answer.valid, profile # Unset PROVE ProfiledPaymentIsBound
        BY DEF ProfiledPaymentIsBound
    <2>1. /\ PolicyGood /\ EventsGood(sim.events) /\ AuthGood
          /\ profile.expectedRule = Unset => \E r \in rules \cup late : BoundTo(r)
        BY DEF IInv, PlaceInv, AcceptedInv, Past
    <2>2. profile.smartAccountHash \in {Unset, Code[Payer]}
        BY <2>1, PayerIsAddress DEF PolicyGood
    <2>3. profile.expectedRule \in {Unset, Rule}
        BY <2>1 DEF EventsGood
    <2>4. AuthAddresses \cap Protected = {}
        BY <2>1 DEF AuthGood
    <2>5. /\ Len(tx.auth) = 2
          /\ \E p \in 1 .. 2 :
                /\ tx.auth[p].addr = Payer
                /\ tx.auth[p].root = TransferInvocation(Required)
                /\ tx.auth[3 - p].root.args =
                      <<AuthDigest(tx.auth[p], q.network, tx.auth[p].sig.ruleIds)>>
                /\ tx.auth[3 - p].addr \notin Protected
        BY <2>1, <2>4 DEF PolicyGood, Delegated
    <2>6. profile.expectedRule = Unset =>
             /\ \E r \in rules \cup late :
                   /\ r.payer = Payer /\ r.id = Rule
                   /\ r.token = q.asset /\ r.recipient = q.payTo
             /\ Code[profile.recipientPolicy] = profile.recipientHash
        BY <2>1 DEF PolicyGood, BoundTo
    <2> QED BY <2>2, <2>3, <2>5, <2>6 DEF ProfiledPaymentIsBound
<1> QED
    BY <1>1, VerifyInvariance, PTL

\* A profile admits no event beside the strict judge's but its adapters' limit events,
\* and each of them reports this payment under this rule.
THEOREM ProfileAdmitsOnlyReports == Spec => []ProfileIsNoWeaker
<1>1. IInv => ProfileIsNoWeaker
    <2> SUFFICES ASSUME IInv, answer.valid, profile # Unset PROVE ProfileIsNoWeaker
        BY DEF ProfileIsNoWeaker
    <2>1. EventsGood(sim.events)
        BY DEF IInv, AcceptedInv
    <2> QED BY <2>1 DEF EventsGood, Unlimited, ProfileIsNoWeaker
<1> QED
    BY <1>1, VerifyInvariance, PTL

\* No payer whose code is pinned gets past its profile, but for a lookup that failed or
\* found a contract of the profile without code.
THEOREM PinnedIsProfiled == Spec => []PinnedPayerIsJudgedByProfile
<1>1. IInv => PinnedPayerIsJudgedByProfile
    <2> SUFFICES ASSUME IInv, answer.valid, "profile" \notin failed,
                        NEW i \in DOMAIN net.manifests, PinsPayer(net.manifests[i])
                 PROVE  /\ profile # Unset
                        /\ profile.smartAccountHash \in {Unset, Code[Payer]}
        BY DEF PinnedPayerIsJudgedByProfile
    <2>1. profile # Unset
        BY PayerIsAddress DEF IInv, PinInv, Past
    <2>2. PolicyGood
        BY <2>1 DEF IInv, AcceptedInv
    <2> QED BY <2>1, <2>2, PayerIsAddress DEF PolicyGood
<1> QED
    BY <1>1, VerifyInvariance, PTL

-----------------------------------------------------------------------------
(***************************************************************************)
(* settle().                                                               *)
(***************************************************************************)
Suspended == Calls \cup Timers
BeforeSubmission == {"start", "info", "verify", "verifyTimer", "submit", "submitTimer"}

\* Where settle() is says what the submission service has been told.
SubmissionInv ==
    /\ accepted \in {0, 1}
    /\ accepted = 0 <=> submitted = "none"
    /\ at \in BeforeSubmission => accepted = 0
    /\ at \in {"poll", "pollTimer"} => accepted = 1
    /\ at = "poll" => seen # "none" /\ (seen = "pending" \/ seen = submitted)
    /\ at # "replied" => reply = "none"
    /\ reply = "success" => submitted = "confirmed"

\* What n reads take at most.
ReadTime(n) == n * Latency

\* A call returns, and a timer fires, no earlier than now; a poll is only started
\* before the deadline.
ClockInv ==
    /\ at \in Suspended => now <= due
    /\ at = "poll" => due < Deadline + Latency
    /\ at = "pollTimer" /\ path = "channel" => due <= Deadline
    /\ at = "pollTimer" /\ path = "relayer" => due < Deadline + Latency + RelayerPollInterval
    /\ at = "verifyTimer" => due < Deadline
    /\ at = "submitTimer" => due < Deadline
    /\ at = "start" => now = 0
    /\ at = "info" => due <= Latency
    /\ at = "verify" =>
          /\ reads >= 1
          /\ due <= Latency + ReadTime(reads) \/ due < Deadline + ReadTime(reads)
    /\ at = "submit" =>
          \/ due <= 2 * Latency + ReadTime(VerifyReads)
          \/ due < Deadline + Latency + ReadTime(VerifyReads)

\* A poll in flight, or the pause before the next one, still ends before the deadline
\* when the transaction was confirmed in time.
InTimeInv ==
    /\ inTime => submitted = "confirmed"
    /\ at \in BeforeSubmission => seen = "none"
    /\ at = "poll" => due <= now + Latency
    /\ at = "pollTimer" => due <= now + PollInterval
    /\ at = "poll" /\ inTime /\ seen = "pending" => due + PollInterval < Deadline
    /\ at = "pollTimer" /\ inTime /\ ~unclear => due < Deadline
    /\ at = "replied" /\ Polled /\ ~unclear /\ reply # "success" =>
          submitted = "failed" \/ (now >= Deadline /\ ~inTime)

SettleInv == SettleTypeOK /\ SubmissionInv /\ ClockInv


\* The deadline is never beyond the payment's timeout.
LEMMA DeadlineIsInt == Deadline \in Int /\ Deadline <= Timeout /\ Timeout \in Nat
BY SettleAssumption DEF Deadline, Timeout, Least, Second

\* Every backoff of settleViaChannelService is a delay.
LEMMA BackoffIsNat == \A n \in 0 .. MaxSubmitRetries : Backoff(n) \in Nat
BY DEF Backoff, Second, MaxSubmitRetries

\* So is every interval between polls.
LEMMA IntervalIsNat == PollInterval \in Nat
BY DEF PollInterval, RelayerPollInterval, ChannelPollInterval, Second

\* Reads take time one after the other.
LEMMA ReadTimeAdds ==
    /\ ReadTime(1) = Latency
    /\ \A n \in 0 .. VerifyReads :
          /\ ReadTime(n) \in Nat
          /\ ReadTime(n + 1) = ReadTime(n) + Latency
          /\ ReadTime(n) <= ReadTime(VerifyReads)
<1>1. ReadTime(1) = Latency
  BY SettleAssumption DEF ReadTime
<1>2. ASSUME NEW n \in 0 .. VerifyReads
      PROVE  /\ ReadTime(n) \in Nat
             /\ ReadTime(n + 1) = ReadTime(n) + Latency
             /\ ReadTime(n) <= ReadTime(VerifyReads)
  <2>1. n \in Nat /\ VerifyReads - n \in Nat /\ Latency \in Nat
    BY SettleAssumption
  <2>2. n * Latency \in Nat /\ (VerifyReads - n) * Latency \in Nat
    BY <2>1
  <2>3. (n + 1) * Latency = n * Latency + Latency
    BY <2>1
  <2>4. VerifyReads * Latency = n * Latency + (VerifyReads - n) * Latency
    BY <2>1, SettleAssumption
  <2>. QED
    BY <2>2, <2>3, <2>4 DEF ReadTime
<1>. QED
  BY <1>1, <1>2

-----------------------------------------------------------------------------
(* The invariant is inductive. *)

\* A call that has just begun satisfies the invariant.
LEMMA SettleBegins == SettleInit => SettleInv
<1> SUFFICES ASSUME SettleInit
             PROVE  SettleInv
  OBVIOUS
<1>1. SettleTypeOK
  <2>1. path \in {"channel", "relayer"}
    BY SettleAssumption DEF SettleInit
  <2>2. inTime \in BOOLEAN /\ unclear \in BOOLEAN
    BY DEF SettleInit
  <2>3. reads \in 0 .. VerifyReads
    BY SettleAssumption DEF SettleInit
  <2>. QED
    BY <2>1, <2>2, <2>3 DEF SettleInit, SettleTypeOK, TxStates, MaxSubmitRetries
<1>2. SubmissionInv
  BY DEF SettleInit, SubmissionInv, BeforeSubmission
<1>3. ClockInv
  BY DEF SettleInit, ClockInv, Suspended, Calls, Timers
<1>. QED
  BY <1>1, <1>2, <1>3 DEF SettleInv

\* Every step of settle(), of the ledger and of the clock preserves it.
LEMMA SettleStepKeeps == SettleInv /\ [SettleNext]_settleVars => SettleInv'
<1> SUFFICES ASSUME SettleInv, [SettleNext]_settleVars
             PROVE  SettleInv'
  OBVIOUS
<1>r. /\ ReadTime(1) = Latency
      /\ reads \in 0 .. VerifyReads =>
            /\ ReadTime(reads) \in Nat /\ ReadTime(VerifyReads) \in Nat
            /\ ReadTime(reads + 1) = ReadTime(reads) + Latency
            /\ ReadTime(reads) <= ReadTime(VerifyReads)
  BY ReadTimeAdds, SettleAssumption
<1> USE SettleAssumption, DeadlineIsInt, <1>r
    DEF SettleInv, SettleTypeOK, SubmissionInv, ClockInv, Calls, Timers, TxStates, Suspended, BeforeSubmission
<1>1. CASE Start
  BY <1>1 DEF Start, Call, Reply, NoSubmission
<1>2. CASE RelayerInfo
  BY <1>2 DEF RelayerInfo, Resumed, Call, Reply, NoSubmission
<1>0. CASE VerifyReadsOn
  BY <1>0 DEF VerifyReadsOn, Resumed, Call, NoSubmission
<1>3. CASE VerifyValid
  BY <1>3 DEF VerifyValid, Resumed, Call, NoSubmission
<1>4. CASE VerifyInvalid
  BY <1>4 DEF VerifyInvalid, Resumed, Reply, NoSubmission
<1>5. CASE VerifyTransient
  <2>1. ASSUME tries # 2
        PROVE  VerifyRetryDelays[tries + 1] \in Nat
    <3>1. tries \in {0, 1}
      BY <2>1
    <3>. QED
      BY <3>1 DEF VerifyRetryDelays
  <2>. QED
    BY <1>5, <2>1 DEF VerifyTransient, Resumed, Reply, Sleep, NoSubmission
<1>6. CASE VerifyAgain
  BY <1>6 DEF VerifyAgain, Resumed, Call, NoSubmission
<1>7. CASE SubmitFails
  BY <1>7 DEF SubmitFails, Resumed, Reply, Accept
<1>8. CASE PoolCapacity
  BY <1>8, BackoffIsNat
     DEF PoolCapacity, Resumed, Reply, Sleep, Remaining, MaxSubmitRetries
<1>9. CASE SubmitAgain
  BY <1>9 DEF SubmitAgain, Resumed, Call, NoSubmission
<1>10. CASE SubmitConfirmed
  <2>1. InTimeNow \in BOOLEAN
    BY DEF InTimeNow
  <2>. QED
    BY <1>10, <2>1 DEF SubmitConfirmed, Resumed, Reply
<1>11. CASE SubmitAccepted
  BY <1>11 DEF SubmitAccepted, Resumed, Reply, Accept, Remaining
<1>12. CASE PollDecided
  BY <1>12 DEF PollDecided, Resumed, Reply, NoSubmission
<1>13. CASE PollPending
  BY <1>13
     DEF PollPending, PollLater, Resumed, Reply, Sleep, NoSubmission, Remaining, Least,
         RelayerPollInterval, ChannelPollInterval, Second
<1>14. CASE PollAgain
  BY <1>14 DEF PollAgain, Resumed, Reply, Call, NoSubmission
<1>15. CASE PollFails
  BY <1>15 DEF PollFails, Resumed, Reply
<1>19. CASE PollConfirmedWithoutHash
  BY <1>19 DEF PollConfirmedWithoutHash, Resumed, Reply
<1>20. CASE PollWithoutStatus
  BY <1>20
     DEF PollWithoutStatus, PollLater, Resumed, Reply, Sleep, Remaining, PollInterval, Least,
         RelayerPollInterval, ChannelPollInterval, Second
<1>16. CASE Tick
  BY <1>16 DEF Tick
<1>17. CASE LedgerDecides
  BY <1>17 DEF LedgerDecides
<1>18. CASE UNCHANGED settleVars
  BY <1>18 DEF settleVars
<1>. QED
  BY <1>0, <1>1, <1>2, <1>3, <1>4, <1>5, <1>6, <1>7, <1>8, <1>9, <1>10, <1>11, <1>12,
     <1>13, <1>14, <1>15, <1>16, <1>17, <1>18, <1>19, <1>20
     DEF SettleNext, Progress

\* So is what it says of a transaction confirmed in time.
LEMMA InTimeKept == SettleInv /\ InTimeInv /\ [SettleNext]_settleVars => InTimeInv'
<1> SUFFICES ASSUME SettleInv, InTimeInv, [SettleNext]_settleVars
             PROVE  InTimeInv'
  OBVIOUS
<1>t. PollInterval \in Nat
  BY IntervalIsNat
<1> USE SettleAssumption, DeadlineIsInt, <1>t
    DEF SettleInv, SettleTypeOK, SubmissionInv, ClockInv, InTimeInv, Calls, Timers, TxStates,
        Suspended, BeforeSubmission, Polled
<1>1. CASE Start
  BY <1>1 DEF Start, Call, Reply, NoSubmission
<1>2. CASE RelayerInfo
  BY <1>2 DEF RelayerInfo, Resumed, Call, Reply, NoSubmission
<1>0. CASE VerifyReadsOn
  BY <1>0 DEF VerifyReadsOn, Resumed, Call, NoSubmission
<1>3. CASE VerifyValid
  BY <1>3 DEF VerifyValid, Resumed, Call, NoSubmission
<1>4. CASE VerifyInvalid
  BY <1>4 DEF VerifyInvalid, Resumed, Reply, NoSubmission
<1>5. CASE VerifyTransient
  BY <1>5 DEF VerifyTransient, Resumed, Reply, Sleep, NoSubmission
<1>6. CASE VerifyAgain
  BY <1>6 DEF VerifyAgain, Resumed, Call, NoSubmission
<1>7. CASE SubmitFails
  BY <1>7 DEF SubmitFails, Resumed, Reply, Accept
<1>8. CASE PoolCapacity
  BY <1>8 DEF PoolCapacity, Resumed, Reply, Sleep
<1>9. CASE SubmitAgain
  BY <1>9 DEF SubmitAgain, Resumed, Call, NoSubmission
<1>10. CASE SubmitConfirmed
  BY <1>10 DEF SubmitConfirmed, Resumed, Reply
<1>11. CASE SubmitAccepted
  BY <1>11 DEF SubmitAccepted, Resumed, Reply, Accept, Remaining
<1>12. CASE PollDecided
  BY <1>12 DEF PollDecided, Resumed, Reply, NoSubmission
<1>13. CASE PollPending
  BY <1>13
     DEF PollPending, PollLater, Resumed, Reply, Sleep, NoSubmission, Remaining, PollInterval, Least,
         RelayerPollInterval, ChannelPollInterval, Second
<1>14. CASE PollAgain
  BY <1>14 DEF PollAgain, Resumed, Reply, Call, NoSubmission
<1>15. CASE PollFails
  BY <1>15 DEF PollFails, Resumed, Reply
<1>19. CASE PollConfirmedWithoutHash
  BY <1>19 DEF PollConfirmedWithoutHash, Resumed, Reply
<1>20. CASE PollWithoutStatus
  BY <1>20
     DEF PollWithoutStatus, PollLater, Resumed, Reply, Sleep, Remaining, PollInterval, Least,
         RelayerPollInterval, ChannelPollInterval, Second
<1>16. CASE Tick
  BY <1>16 DEF Tick, PollInterval
<1>17. CASE LedgerDecides
  BY <1>17 DEF LedgerDecides, InTimeNow, PollInterval
<1>18. CASE UNCHANGED settleVars
  BY <1>18 DEF settleVars, PollInterval
<1>. QED
  BY <1>0, <1>1, <1>2, <1>3, <1>4, <1>5, <1>6, <1>7, <1>8, <1>9, <1>10, <1>11, <1>12,
     <1>13, <1>14, <1>15, <1>16, <1>17, <1>18, <1>19, <1>20
     DEF SettleNext, Progress

\* Every reachable state satisfies the inductive invariant.
THEOREM SettleInvariance == SettleSpec => [](SettleInv /\ InTimeInv)
<1>1. SettleInit => SettleInv /\ InTimeInv
  BY SettleBegins DEF SettleInit, InTimeInv, BeforeSubmission
<1>2. SettleInv /\ InTimeInv /\ [SettleNext]_settleVars => (SettleInv /\ InTimeInv)'
  BY SettleStepKeeps, InTimeKept
<1>. QED
  BY <1>1, <1>2, PTL DEF SettleSpec

-----------------------------------------------------------------------------

\* Every variable of a settle() call stays in its range; in particular the submission
\* is retried at most MAX_SUBMIT_RETRIES times.
THEOREM SettleTypeCorrect == SettleSpec => []SettleTypeOK
BY SettleInvariance, PTL DEF SettleInv

\* The retries of settleViaChannelService never have the payment accepted twice.
THEOREM AcceptedOnce == SettleSpec => []SubmittedOnce
<1>1. SettleInv => SubmittedOnce
  BY DEF SettleInv, SubmissionInv, SubmittedOnce
<1>. QED
  BY <1>1, SettleInvariance, PTL

\* settle() answers success only for a transaction the ledger has confirmed, wherever
\* the timeouts and lost answers fall.
THEOREM SuccessIsReal == SettleSpec => []SuccessIsConfirmed
<1>1. SettleInv => SuccessIsConfirmed
  BY DEF SettleInv, SubmissionInv, SuccessIsConfirmed
<1>. QED
  BY <1>1, SettleInvariance, PTL

\* For every timeout, no backoff and no pause between polls reaches past the budget,
\* but for the relayer's last fixed interval.
THEOREM BudgetIsKept == SettleSpec => []TimersKeepDeadline
<1>1. SettleInv => TimersKeepDeadline
  BY DeadlineIsInt DEF SettleInv, SettleTypeOK, ClockInv, TimersKeepDeadline, Timers
<1>. QED
  BY <1>1, SettleInvariance, PTL

\* The bound on the answer is a time.
LEMMA LatestIsInt == LatestAnswer \in Int /\ 0 <= LatestAnswer
<1>1. (VerifyReads + 1) * Latency \in Nat
  BY SettleAssumption
<1>. QED
  BY <1>1, DeadlineIsInt, SettleAssumption DEF LatestAnswer, Greatest, RelayerPollInterval

\* Whoever settle() waits for is done by LatestAnswer.
LEMMA DueIsBounded ==
    ASSUME SettleInv, at \in Suspended
    PROVE  due <= LatestAnswer
<1>1. ReadTime(VerifyReads) \in Nat /\ ReadTime(reads) <= ReadTime(VerifyReads) /\ ReadTime(reads) \in Nat
  BY ReadTimeAdds, SettleAssumption DEF SettleInv, SettleTypeOK
<1>2. (VerifyReads + 1) * Latency = ReadTime(VerifyReads) + Latency
  BY SettleAssumption DEF ReadTime
<1>3. LatestAnswer = Greatest(Deadline, Latency)
          + Greatest(ReadTime(VerifyReads) + Latency, Latency + RelayerPollInterval)
  BY <1>2 DEF LatestAnswer
<1>. QED
  BY <1>1, <1>3, DeadlineIsInt, SettleAssumption
     DEF SettleInv, SettleTypeOK, ClockInv, Suspended, Calls, Timers, RelayerPollInterval, Greatest

\* For every timeout, latency and number of reads, settle() is late by what it had begun
\* before its deadline and no more.
THEOREM OverrunBounded == SettleSpec => []OverrunIsBounded
<1>1. SettleInv => OverrunIsBounded
  BY DueIsBounded, LatestIsInt DEF SettleInv, SettleTypeOK, ClockInv, OverrunIsBounded, Suspended
<1>. QED
  BY <1>1, SettleInvariance, PTL

\* Whatever the timeout and the latency, a poll that may still follow the confirmation
\* does follow it, on both paths: the pauses between polls never hide a settled payment.
THEOREM ConfirmedIsReported == SettleSpec => []InTimeIsReported
<1>1. InTimeInv => InTimeIsReported
  BY DEF InTimeInv, InTimeIsReported
<1>. QED
  BY <1>1, SettleInvariance, PTL

-----------------------------------------------------------------------------
(* Every step brings the answer nearer. *)

StepsLeftIs ==
    /\ at = "replied" => StepsLeft = 0
    /\ at = "start" => StepsLeft = VerifyReads + 4 + TimeWeight(LatestAnswer - now)
    /\ at = "info" => StepsLeft = VerifyReads + 3 + TimeWeight(LatestAnswer - now)
    /\ at = "verify" => StepsLeft = 3 + VerifyReads - reads + TimeWeight(LatestAnswer - now)
    /\ at = "submit" => StepsLeft = 2 + TimeWeight(LatestAnswer - now)
    /\ at = "poll" => StepsLeft = 1 + TimeWeight(LatestAnswer - now)
    /\ at = "verifyTimer" =>
          StepsLeft = VerifyReads + 3 + TimeWeight(LatestAnswer - due) + (due - now)
    /\ at = "submitTimer" => StepsLeft = 3 + TimeWeight(LatestAnswer - due) + (due - now)
    /\ at = "pollTimer" => StepsLeft = 2 + TimeWeight(LatestAnswer - due) + (due - now)

LEMMA StepsLeftAt == StepsLeftIs /\ StepsLeftIs'
<1>1. StepsLeftIs
  BY DEF StepsLeftIs, StepsLeft, Stage, Timers
<1>2. StepsLeftIs'
  BY DEF StepsLeftIs, StepsLeft, Stage, Timers
<1>. QED
  BY <1>1, <1>2

\* The time left weighs nothing less than zero, and each quarter of a second of it more
\* than a whole verification.
LEMMA TimeWeighs ==
    /\ \A t \in Nat : TimeWeight(t) \in Nat
    /\ \A t \in Int, d \in Nat \ {0} : TimeWeight(t - d) + VerifyReads + d + 1 <= TimeWeight(t)
    /\ \A t \in Int : TimeWeight(t) \in Int
<1>1. \A t \in Nat : TimeWeight(t) \in Nat
  BY SettleAssumption DEF TimeWeight
<1>2. \A t \in Int : TimeWeight(t) \in Int
  BY SettleAssumption DEF TimeWeight
<1>3. ASSUME NEW t \in Int, NEW d \in Nat \ {0}
      PROVE  TimeWeight(t - d) + VerifyReads + d + 1 <= TimeWeight(t)
  <2>1. (VerifyReads + 2) * t = (VerifyReads + 2) * (t - d) + (VerifyReads + 2) * d
    BY SettleAssumption
  <2>2. (VerifyReads + 2) * d = VerifyReads + (d - 1) * VerifyReads + 2 * d
    BY SettleAssumption
  <2>3. (d - 1) * VerifyReads \in Nat
    BY SettleAssumption
  <2>4. /\ (VerifyReads + 2) * (t - d) \in Int /\ (VerifyReads + 2) * d \in Int
        /\ (VerifyReads + 2) * t \in Int
    BY SettleAssumption
  <2>. QED
    BY <2>1, <2>2, <2>3, <2>4, SettleAssumption DEF TimeWeight
<1>. QED
  BY <1>1, <1>2, <1>3

\* The same of two times.
LEMMA LaterWeighsLess ==
    ASSUME NEW t \in Int, NEW u \in Int, NEW d \in Nat \ {0}, u = t - d
    PROVE  /\ TimeWeight(u) \in Int /\ TimeWeight(t) \in Int
           /\ TimeWeight(u) + VerifyReads + d + 1 <= TimeWeight(t)
BY TimeWeighs

\* What is left is a number, and only an answered call has nothing left.
LEMMA SomethingIsLeft ==
    ASSUME SettleInv
    PROVE  StepsLeft \in Nat /\ (at # "replied" => StepsLeft > 0)
<1>1. now \in Nat /\ due \in Nat /\ VerifyReads \in Nat /\ reads \in 0 .. VerifyReads
  BY SettleAssumption DEF SettleInv, SettleTypeOK
<1>2. at \in Calls \cup Timers => now <= due /\ due <= LatestAnswer
  BY DueIsBounded DEF SettleInv, ClockInv, Suspended
<1>3. at = "start" => now = 0
  BY DEF SettleInv, ClockInv
<1>4. at \in {"start", "replied"} \cup Calls \cup Timers
  BY DEF SettleInv, SettleTypeOK
<1>5. at # "replied" => LatestAnswer - now \in Nat
  BY <1>1, <1>2, <1>3, <1>4, LatestIsInt
<1>6. at \in Timers => LatestAnswer - due \in Nat /\ due - now \in Nat
  BY <1>1, <1>2, LatestIsInt
<1>7. /\ at # "replied" => TimeWeight(LatestAnswer - now) \in Nat
      /\ at \in Timers => TimeWeight(LatestAnswer - due) \in Nat
  BY <1>5, <1>6, TimeWeighs
<1>. QED
  BY <1>1, <1>4, <1>6, <1>7, StepsLeftAt DEF StepsLeftIs, Calls, Timers

SomeLeft == StepsLeft \in Nat

LEMMA LeftIsNat == SettleInv => SomeLeft
BY SomethingIsLeft DEF SomeLeft

LEMMA StillLeftIsNat == SettleInv' => StepsLeft' \in Nat
<1>1. SettleInv' => SomeLeft'
  BY LeftIsNat, PTL
<1>. QED
  BY <1>1 DEF SomeLeft

\* Each step of settle() and each tick of its clock.
LEMMA StepNears ==
    ASSUME SettleInv, SettleInv', [SettleNext]_settleVars
    PROVE  \/ StepsLeft' \in 0 .. StepsLeft - 1
           \/ LedgerDecides /\ StepsLeft' = StepsLeft
           \/ UNCHANGED settleVars
<1>1. StepsLeft \in Nat /\ (at # "replied" => StepsLeft > 0)
  BY SomethingIsLeft
<1>2. StepsLeft' \in Nat
  BY StillLeftIsNat
<1>3. /\ now \in Nat /\ due \in Nat /\ due' \in Nat /\ Deadline \in Int /\ Latency \in Nat
      /\ LatestAnswer \in Int /\ VerifyReads \in Nat /\ VerifyReads >= 3 /\ reads \in 0 .. VerifyReads
  BY DeadlineIsInt, LatestIsInt, SettleAssumption DEF SettleInv, SettleTypeOK
<1>t. TimeWeight(LatestAnswer - now) \in Int /\ TimeWeight(LatestAnswer - due) \in Int
  BY <1>3, TimeWeighs
<1> USE <1>3, <1>t, StepsLeftAt DEF StepsLeftIs
<1>d. ASSUME NEW name \in Timers, NEW delay \in Nat \ {0}, Sleep(name, delay), now' = now,
             at \in {"verify", "submit", "poll"},
             name = "verifyTimer" => at = "verify",
             name = "submitTimer" => at = "submit"
      PROVE  StepsLeft' < StepsLeft
  <2>1. /\ LatestAnswer - now \in Int /\ LatestAnswer - due' \in Int
        /\ LatestAnswer - due' = (LatestAnswer - now) - delay
    BY <1>d DEF Sleep
  <2>2. /\ TimeWeight(LatestAnswer - due') + VerifyReads + delay + 1
                <= TimeWeight(LatestAnswer - now)
        /\ TimeWeight(LatestAnswer - due') \in Int
    BY ONLY <2>1, LaterWeighsLess, delay \in Nat \ {0}
  <2>3. due' - now' = delay /\ at' = name
    BY <1>d DEF Sleep
  <2>4. CASE name = "verifyTimer"
    <3>1. StepsLeft' = VerifyReads + 3 + TimeWeight(LatestAnswer - due') + delay
      BY <2>3, <2>4
    <3>2. StepsLeft = 3 + VerifyReads - reads + TimeWeight(LatestAnswer - now)
      BY <2>4, <1>d
    <3>. QED
      BY <2>2, <3>1, <3>2, delay \in Nat
  <2>5. CASE name = "submitTimer"
    <3>1. StepsLeft' = 3 + TimeWeight(LatestAnswer - due') + delay
      BY <2>3, <2>5
    <3>2. StepsLeft = 2 + TimeWeight(LatestAnswer - now)
      BY <2>5, <1>d
    <3>. QED
      BY <2>2, <3>1, <3>2, delay \in Nat
  <2>6. CASE name = "pollTimer"
    <3>1. StepsLeft' = 2 + TimeWeight(LatestAnswer - due') + delay
      BY <2>3, <2>6
    <3>2. StepsLeft >= 1 + TimeWeight(LatestAnswer - now)
      BY <1>d
    <3>. QED
      BY <1>1, <2>2, <3>1, <3>2, delay \in Nat
  <2>. QED
    BY <2>4, <2>5, <2>6, <1>d DEF Timers
<1>4. ASSUME NEW r, Reply(r), at # "replied" PROVE StepsLeft' < StepsLeft
  BY <1>1, <1>4 DEF Reply
<1>5. ASSUME Start PROVE StepsLeft' < StepsLeft
  BY <1>4, <1>5 DEF Start, Call
<1>6. ASSUME RelayerInfo PROVE StepsLeft' < StepsLeft
  BY <1>4, <1>6 DEF RelayerInfo, Resumed, Call
<1>23. ASSUME VerifyReadsOn PROVE StepsLeft' < StepsLeft
  BY <1>23 DEF VerifyReadsOn, Resumed, Call
<1>7. ASSUME VerifyValid PROVE StepsLeft' < StepsLeft
  BY <1>7 DEF VerifyValid, Resumed, Call
<1>8. ASSUME VerifyInvalid PROVE StepsLeft' < StepsLeft
  BY <1>4, <1>8 DEF VerifyInvalid, Resumed
<1>9. ASSUME VerifyTransient PROVE StepsLeft' < StepsLeft
  <2>1. ASSUME tries # 2 PROVE VerifyRetryDelays[tries + 1] \in Nat \ {0}
    <3>1. tries \in {0, 1}
      BY <2>1 DEF SettleInv, SettleTypeOK
    <3>. QED
      BY <3>1 DEF VerifyRetryDelays
  <2>. QED
    BY <1>4, <1>d, <1>9, <2>1 DEF VerifyTransient, Resumed, Timers
<1>10. ASSUME VerifyAgain PROVE StepsLeft' < StepsLeft
  BY <1>10 DEF VerifyAgain, Resumed, Call
<1>11. ASSUME SubmitFails PROVE StepsLeft' < StepsLeft
  BY <1>4, <1>11 DEF SubmitFails, Resumed
<1>12. ASSUME PoolCapacity PROVE StepsLeft' < StepsLeft
  <2>1. Backoff(attempt) \in Nat \ {0}
    BY DEF SettleInv, SettleTypeOK, Backoff, Second, MaxSubmitRetries
  <2>. QED
    BY <1>4, <1>d, <1>12, <2>1 DEF PoolCapacity, Resumed, Timers
<1>13. ASSUME SubmitAgain PROVE StepsLeft' < StepsLeft
  BY <1>13 DEF SubmitAgain, Resumed, Call
<1>14. ASSUME SubmitConfirmed PROVE StepsLeft' < StepsLeft
  BY <1>4, <1>14 DEF SubmitConfirmed, Resumed
<1>15. ASSUME SubmitAccepted PROVE StepsLeft' < StepsLeft
  BY <1>4, <1>15 DEF SubmitAccepted, Resumed
<1>16. ASSUME PollDecided PROVE StepsLeft' < StepsLeft
  BY <1>4, <1>16 DEF PollDecided, Resumed
<1>24. ASSUME PollLater, Resumed("poll"), now' = now PROVE StepsLeft' < StepsLeft
  <2>1. CASE \E r : Reply(r)
    BY <1>4, <1>24, <2>1 DEF Resumed
  <2>2. ASSUME NEW delay \in Nat \ {0}, Sleep("pollTimer", delay) PROVE StepsLeft' < StepsLeft
    BY <1>d, <1>24, <2>2 DEF Resumed, Timers
  <2>3. CASE path = "relayer"
    BY <1>24, <2>2, <2>3 DEF PollLater, RelayerPollInterval
  <2>4. CASE path # "relayer" /\ Remaining <= 0
    BY <1>24, <2>1, <2>4 DEF PollLater
  <2>5. CASE path # "relayer" /\ ~(Remaining <= 0)
    <3>1. Least(ChannelPollInterval, Remaining) \in Nat \ {0}
      BY <2>5 DEF Remaining, Least, ChannelPollInterval, Second
    <3>. QED
      BY <1>24, <2>2, <2>5, <3>1 DEF PollLater
  <2>. QED
    BY <2>3, <2>4, <2>5
<1>17. ASSUME PollPending \/ PollWithoutStatus PROVE StepsLeft' < StepsLeft
  BY <1>17, <1>24 DEF PollPending, PollWithoutStatus
<1>18. ASSUME PollAgain PROVE StepsLeft' < StepsLeft
  BY <1>4, <1>18 DEF PollAgain, Resumed, Call
<1>19. ASSUME PollFails PROVE StepsLeft' < StepsLeft
  BY <1>4, <1>19 DEF PollFails, Resumed
<1>25. ASSUME PollConfirmedWithoutHash PROVE StepsLeft' < StepsLeft
  BY <1>4, <1>25 DEF PollConfirmedWithoutHash, Resumed
<1>20. ASSUME Tick PROVE StepsLeft' < StepsLeft
  <2>1. /\ LatestAnswer - now \in Int /\ LatestAnswer - now' \in Int
        /\ LatestAnswer - now' = (LatestAnswer - now) - 1
    BY <1>20 DEF Tick
  <2>2. TimeWeight(LatestAnswer - now') + VerifyReads + 1 + 1 <= TimeWeight(LatestAnswer - now)
    BY ONLY <2>1, LaterWeighsLess, 1 \in Nat \ {0}
  <2>3. TimeWeight(LatestAnswer - now') \in Int
    BY <2>1, TimeWeighs
  <2>. QED
    BY <1>20, <2>2, <2>3 DEF Tick, Calls, Timers
<1>21. CASE LedgerDecides
  BY <1>21 DEF LedgerDecides, StepsLeft, Stage
<1>22. ASSUME StepsLeft' < StepsLeft PROVE StepsLeft' \in 0 .. StepsLeft - 1
  BY <1>1, <1>2, <1>22
<1>. QED
  BY <1>5, <1>6, <1>7, <1>8, <1>9, <1>10, <1>11, <1>12, <1>13, <1>14, <1>15, <1>16, <1>17,
     <1>18, <1>19, <1>20, <1>21, <1>22, <1>23, <1>25
     DEF SettleNext, Progress

\* For every timeout and latency, settle() takes no more than StepsLeft steps from any
\* state on: no retry and no poll goes round without time passing.
THEOREM AnswerComesNearer == SettleSpec => EveryStepNears
<1>1. SettleInv /\ SettleInv' /\ [SettleNext]_settleVars =>
          [\/ StepsLeft' \in 0 .. StepsLeft - 1
           \/ LedgerDecides /\ StepsLeft' = StepsLeft]_settleVars
  BY StepNears DEF settleVars
<1>. QED
  BY <1>1, SettleInvariance, PTL DEF SettleSpec, EveryStepNears
===============================================================================
