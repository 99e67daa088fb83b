------------------------- MODULE FacilitatorVerify -------------------------
(***************************************************************************)
(* One call of the facilitator plugin: handler.ts, and verify() with the   *)
(* reads it makes from the relayer.                                        *)
(*                                                                         *)
(* verify() is a long list of checks cut by awaits.  Every action below is *)
(* the code between two awaits; the ledger closes, and the owner removes   *)
(* rules, at any of them.  A read may fail (an error in the answer) or     *)
(* throw.  The rule lookup is evaluated some time before its answer is     *)
(* used; what the other reads return no step of the model undoes.          *)
(*                                                                         *)
(* A request is a record: the x402 fields, the requirements and a decoded  *)
(* transaction [form, ops, op, host, call, auth, source, opSource,         *)
(* signatures, fee].                                                       *)
(***************************************************************************)
EXTENDS SimulationEvents

CONSTANTS
    Contracts,      \* the C-addresses among the addresses
    Hashes,         \* well-formed SHA-256 hashes
    Code,           \* the hash of the code behind an address, "none" without
    Unset,          \* undefined: an optional field that is absent
    NoNumber,       \* an amount that is no number
    Requests,       \* the bodies that reach the plugin
    Configs,        \* plugin configurations: sequences of network configs
    EventLists,     \* what a simulation may emit
    MinFees,        \* resource fees a simulation may ask for
    InstalledRules, \* recipient policies installed at the start
    MaxLedger       \* bound on the ledgers that close

IsSequence(s) == s \in Seq(Range(s))

\* Requests, configurations and simulations hold lists; what is absent is no profile.
ASSUME VerifyAssumption ==
    /\ MaxLedger \in Nat \ {0}
    /\ Contracts \subseteq Address
    /\ "none" \notin Hashes
    /\ Code \in [Address -> Hashes \cup {"none"}]
    /\ \A r \in Requests :
          /\ r.timeout \in Nat
          /\ IsSequence(r.tx.auth)
          /\ \A i \in DOMAIN r.tx.auth : r.tx.auth[i].expires \in Nat
    /\ \A c \in Configs :
          /\ IsSequence(c)
          /\ \A n \in DOMAIN c :
                IsSequence(c[n].manifests) /\ Unset \notin Range(c[n].manifests)
    /\ \A events \in EventLists :
          IsSequence(events) /\ \A i \in DOMAIN events : "form" \in DOMAIN events[i]

VARIABLES
    ledger,         \* the latest closed ledger
    rules,          \* recipient policies installed: [payer, id, token, recipient]
    found,          \* the RPC's answer to the rule lookup, from its evaluation on
    late,           \* history: the rules removed after that evaluation
    config,         \* the plugin's configuration
    q,              \* the request
    pc,             \* where the call is suspended
    profile,        \* local policyManifest
    candidates,     \* indices of the code-pinned profiles still to be tried
    hashes,         \* local observedPolicyWasmHashes
    latest,         \* local currentLedger
    sim,            \* local simulateResponse, and the ledger it ran on
    answer,         \* the response, [valid, why]
    failed          \* history: the reads that failed or threw

chainVars == <<ledger, rules, found, late>>
inputVars == <<config, q>>
localVars == <<profile, candidates, hashes, latest, sim>>
vars == <<ledger, rules, found, late, config, q, pc, profile, candidates, hashes, latest,
          sim, answer, failed>>

Reads == {"relayer", "profile", "expiry", "simulate", "hashes", "rule"}

NoAnswer == [valid |-> FALSE, why |-> "none"]
NoSim == [ledger |-> 0, minFee |-> 0, events |-> <<>>]
NoHashes == [a \in Address |-> "none"]

LedgerSeconds == 5      \* ESTIMATED_LEDGER_CLOSE_SECONDS
Window(timeout) == (timeout + LedgerSeconds - 1) \div LedgerSeconds

ValidNetworks == {"stellar:pubnet", "stellar:testnet"}

----------------------------------------------------------------------------
(***************************************************************************)
(* Configuration: assertTrustedPolicyConfiguration, assertProductionManifest *)
(***************************************************************************)
ProductionManifest(m) ==
    /\ m.smartAccount \in Contracts \cup {Unset}
    /\ m.smartAccountHash \in Hashes \cup {Unset}
    /\ m.smartAccount # Unset \/ m.smartAccountHash # Unset
    /\ m.expectedRule \in Nat \cup {Unset}
    /\ m.allowedRules # Unset =>
          /\ m.allowedRules # <<>>
          /\ \A i, j \in DOMAIN m.allowedRules :
                m.allowedRules[i] \in Nat /\ (m.allowedRules[i] = m.allowedRules[j] => i = j)
    /\ m.expectedRule = Unset =>
          m.recipientPolicy \in Contracts /\ m.recipientHash \in Hashes
    /\ Len(m.adapters) = 1
    /\ \A i \in DOMAIN m.adapters :
          /\ m.adapters[i].kind = "spending-limit"
          /\ m.adapters[i].contract \in Contracts
          /\ m.adapters[i].required
          /\ m.adapters[i].wasmHash \in Hashes

\* The key under which a profile may appear once.
ProfileKey(m) ==
    <<m.network, IF m.smartAccount # Unset THEN m.smartAccount ELSE m.smartAccountHash>>

TrustedConfiguration(c) ==
    /\ \A n \in DOMAIN c : \A i \in DOMAIN c[n].manifests :
          ProductionManifest(c[n].manifests[i]) /\ c[n].manifests[i].network = c[n].network
    /\ \A n, o \in DOMAIN c : \A i \in DOMAIN c[n].manifests, j \in DOMAIN c[o].manifests :
          ProfileKey(c[n].manifests[i]) = ProfileKey(c[o].manifests[j]) => n = o /\ i = j

\* getNetworkConfigByNetwork: the first configuration of the network.
Configured == \E n \in DOMAIN config : config[n].network = q.network

net == config[Min({n \in DOMAIN config : config[n].network = q.network})]

----------------------------------------------------------------------------
(***************************************************************************)
(* The request.                                                            *)
(***************************************************************************)
tx == q.tx
Arg(i) == IF i \in DOMAIN tx.call.args THEN tx.call.args[i] ELSE Unset
Payer == Arg(1)
Required == [token |-> q.asset, from |-> Payer, to |-> q.payTo, amount |-> q.amount]

\* The addresses of the facilitator itself, as far as they are known.
Protected == {net.relayer, net.fund} \ {Unset}

\* validateAuthEntries, getAllAddressesFromAuthEntries: the first entry with
\* other credentials or with nested invocations decides.
AuthAddresses == {tx.auth[i].addr : i \in {j \in DOMAIN tx.auth : tx.auth[j].cred = "address"}}

EntryChecks ==
    [i \in 1 .. (2 * Len(tx.auth)) |->
        LET e == tx.auth[(i + 1) \div 2]
        IN  IF i % 2 = 1 THEN Check(e.cred = "address", "unsupported_credential_type")
                         ELSE Check(e.subs = 0, "has_subinvocations")]

\* getSignedAddressesFromAuthEntries.
SignedBy(signed) ==
    {tx.auth[i].addr : i \in {j \in DOMAIN tx.auth :
                                 tx.auth[j].cred = "address" /\ IsSigned(tx.auth[j]) = signed}}

\* Fault: the window is one ledger too long.
ExpirationChecksLenient(current) ==
    [i \in 1 .. (2 * Len(tx.auth)) |->
        LET e == tx.auth[(i + 1) \div 2]
        IN  IF i % 2 = 1
            THEN Check(e.cred # "address" \/ e.expires > current, "auth_already_expired")
            ELSE Check(e.cred # "address" \/ e.expires <= current + Window(q.timeout) + 1,
                       "auth_expiration_too_far")]

\* validateAuthEntryExpirations, with getExpirationLedgersFromAuthEntries.
ExpirationChecks(current) ==
    [i \in 1 .. (2 * Len(tx.auth)) |->
        LET e == tx.auth[(i + 1) \div 2]
        IN  IF i % 2 = 1
            THEN Check(e.cred # "address" \/ e.expires > current, "auth_already_expired")
            ELSE Check(e.cred # "address" \/ e.expires <= current + Window(q.timeout),
                       "auth_expiration_too_far")]

----------------------------------------------------------------------------
(***************************************************************************)
(* The checks of verify() between its awaits, in their order.              *)
(***************************************************************************)
ProtocolChecks ==
    << Check(q.version = 2 /\ q.hasAccepted, "invalid_x402_version"),
       Check(q.acceptedScheme = "exact", "invalid_scheme"),
       Check(q.scheme = "exact", "invalid_scheme"),
       Check(q.network \in ValidNetworks, "invalid_network"),
       Check(q.acceptedNetwork = q.network /\ q.acceptedNetwork = net.network,
             "invalid_network"),
       Check(q.asset \in net.assets, "unsupported_asset") >>

CallChecks ==
    << Check(net.relayerNetwork = net.network, "verify_network_mismatch"),
       Check(tx.form = "decoded", "malformed"),
       Check(tx.ops = 1 /\ tx.op = "invokeHostFunction" /\ tx.host = "invokeContract",
             "wrong_operation"),
       Check(tx.call.contract = q.asset, "wrong_asset"),
       Check(tx.call.fn = "transfer", "wrong_function_name"),
       Check(Len(tx.call.args) = 3, "wrong_function_args"),
       Check(Payer \notin Protected, "unsafe_from_address"),
       Check(Arg(2) = q.payTo, "wrong_recipient"),
       Check(q.amount # Unset, "wrong_amount"),
       Check(q.amount # NoNumber, "unexpected_verify_error"),
       Check(Arg(3) = q.amount, "wrong_amount") >>

AuthChecks(manifest) ==
    << Check(manifest = Unset \/ q.payTo \notin Protected, "unsafe_policy_participant"),
       Check(tx.signatures = 0, "has_envelope_signatures"),
       Check(tx.auth # <<>>, "missing_auth_entries"),
       Check(AuthAddresses \cap Protected = {}, "facilitator_in_auth") >>
    \o EntryChecks
    \o << Check(Payer \in SignedBy(TRUE), "missing_payer_auth"),
          Check(SignedBy(FALSE) = {}, "unsigned_auth_entry"),
          Check(/\ net.relayer \notin {tx.source, tx.opSource}
                /\ net.fund # Unset => net.fund \notin {tx.source, tx.opSource},
                "unsafe_tx_or_op_source") >>

SimulationChecks(s) ==
    << Check(tx.fee >= s.minFee, "fee_below_minimum"),
       Check(net.maxFee # Unset => tx.fee <= net.maxFee, "fee_exceeds_maximum"),
       Check(s.events # <<>>, "no_transfer_events") >>

\* verifyPolicyAwarePayment up to the lookup of the selected rule, and after
\* it.  The seven checks it repeats from verify() are those of CallChecks.
ProfileChecks(observed) ==
    << Check(q.version = 2, "invalid_x402_version"),
       Check(q.scheme = "exact", "invalid_scheme"),
       Check(q.network = profile.network, "invalid_network"),
       Check(q.amount \in Nat \ {0}, "wrong_amount"),
       Check(profile.smartAccount \in {Unset, Payer}, "policy_manifest_mismatch"),
       Check(profile.smartAccountHash \in {Unset, observed[Payer]},
             "policy_manifest_mismatch"),
       Check(ValidDelegatedTransaction(tx, Required, q.network,
                                       profile.expectedRule, Unset), "auth_structure") >>

Rule == SelectedRule(tx.auth, Payer)

RuleChecks(observed) ==
    << Check(profile.allowedRules # Unset =>
                \E i \in DOMAIN profile.allowedRules : profile.allowedRules[i] = Rule,
             "policy_manifest_mismatch"),
       Check(profile.expectedRule = Unset =>
                /\ profile.recipientPolicy # Unset
                /\ observed[profile.recipientPolicy] = profile.recipientHash,
             "policy_manifest_mismatch") >>

\* Fault: the recipient of the installed rule is not compared.
BoundToAnyone(r) == r.payer = Payer /\ r.id = Rule /\ r.token = q.asset

\* resolveRecipientPolicyRule found the payment's terms under the rule.
BoundTo(r) == r = [payer |-> Payer, id |-> Rule, token |-> q.asset, recipient |-> q.payTo]

EventAndDelegateChecks(s, observed) ==
    PolicyAwareEventChecks(s.events, Required, Rule, profile, observed, Unset)
    \o << Check(SignedPayload(tx.auth, Payer).delegate \notin Protected,
                "unsafe_policy_participant") >>

----------------------------------------------------------------------------
(***************************************************************************)
(* Steps.                                                                  *)
(***************************************************************************)
Init ==
    /\ ledger = 1
    /\ rules = InstalledRules
    /\ found = Unset
    /\ late = {}
    /\ config \in Configs
    /\ q \in Requests
    /\ pc = "called"
    /\ profile = Unset
    /\ candidates = {}
    /\ hashes = Unset
    /\ latest = 0
    /\ sim = NoSim
    /\ answer = NoAnswer
    /\ failed = {}

Respond(valid, why) ==
    /\ answer' = [valid |-> valid, why |-> why]
    /\ pc' = "done"

\* The first failing check answers; without one the call goes on to `next`.
Screen(checks, next) ==
    IF Passes(checks)
    THEN IF next = "done" THEN Respond(TRUE, "ok") ELSE pc' = next /\ UNCHANGED answer
    ELSE Respond(FALSE, FirstFailure(checks))

\* A read that fails, and one that throws: verify() catches what is thrown.
Fails(read) == failed' = failed \cup {read}

Throws(read) ==
    /\ pc = read
    /\ Fails(read)
    /\ Respond(FALSE, "unexpected_verify_error")
    /\ UNCHANGED <<chainVars, inputVars, localVars>>

\* handler: an untrusted configuration fails every call.
RefuseConfiguration ==
    /\ pc = "called" /\ ~TrustedConfiguration(config)
    /\ Respond(FALSE, "throws")
    /\ UNCHANGED <<chainVars, inputVars, localVars, failed>>

\* validateVerifyRequest: without the accepted terms a body is malformed.
WellFormed == q.wellFormed /\ q.hasAccepted

\* handleVerify: the shape of the body, the network's configuration.
RefuseRequest ==
    /\ pc = "called" /\ TrustedConfiguration(config)
    /\ \/ ~WellFormed /\ Respond(FALSE, "malformed")
       \/ /\ WellFormed
          /\ ~(Configured /\ net.type = "stellar")
          /\ Respond(FALSE, "unsupported_network")
    /\ UNCHANGED <<chainVars, inputVars, localVars, failed>>

BeginVerify ==
    /\ pc = "called" /\ TrustedConfiguration(config) /\ WellFormed
    /\ Configured /\ net.type = "stellar"
    /\ Screen(ProtocolChecks, "relayer")
    /\ UNCHANGED <<chainVars, inputVars, localVars, failed>>

\* The checks that follow the choice of a profile.
Proceed(manifest) ==
    /\ profile' = manifest
    /\ Screen(AuthChecks(manifest), "expiry")

AddressPinned(m) == m.smartAccount = Payer
CodePinned(m) == m.smartAccount = Unset /\ m.smartAccountHash # Unset

\* getRelayer has answered.
ReadRelayer ==
    /\ pc = "relayer"
    /\ IF ~Passes(CallChecks)
       THEN Respond(FALSE, FirstFailure(CallChecks)) /\ UNCHANGED <<profile, candidates>>
       ELSE LET pinned == {i \in DOMAIN net.manifests : AddressPinned(net.manifests[i])}
                others == {i \in DOMAIN net.manifests : CodePinned(net.manifests[i])}
            IN  IF pinned # {}
                THEN Proceed(net.manifests[Min(pinned)]) /\ UNCHANGED candidates
                ELSE IF others # {}
                THEN /\ candidates' = others
                     /\ pc' = "profile"
                     /\ UNCHANGED <<profile, answer>>
                ELSE Proceed(Unset) /\ UNCHANGED candidates
    /\ UNCHANGED <<chainVars, inputVars, hashes, latest, sim, failed>>

\* resolvePolicyWasmHashes: the code of the profile's contracts, and of the
\* payer when the profile pins it.  Entries without keys are matched by
\* position, and only when none is missing.
PinnedContracts(m) ==
    {m.adapters[i].contract : i \in DOMAIN m.adapters}
        \cup ({m.recipientPolicy} \ {Unset})
        \cup (IF m.smartAccountHash # Unset THEN {Payer} ELSE {})

ObservedHashes(m, keyed) ==
    LET complete == \A a \in PinnedContracts(m) : Code[a] # "none"
    IN  [a \in Address |-> IF a \in PinnedContracts(m) /\ (keyed \/ complete)
                          THEN Code[a] ELSE "none"]

Candidate == net.manifests[Min(candidates)]

\* Fault: the first profile that does not match ends the search.
TryNoOtherProfile ==
    /\ candidates' = candidates \ {Min(candidates)}
    /\ UNCHANGED hashes
    /\ Proceed(Unset)

TryNextProfile ==
    /\ candidates' = candidates \ {Min(candidates)}
    /\ UNCHANGED hashes
    /\ IF candidates' # {}
       THEN UNCHANGED <<pc, profile, answer>>
       ELSE Proceed(Unset)

\* A code-pinned profile is the payer's when the payer's code has its hash.
ReadProfile ==
    /\ pc = "profile"
    /\ \E keyed \in BOOLEAN :
         LET observed == ObservedHashes(Candidate, keyed)
         IN  IF observed[Payer] = Candidate.smartAccountHash
             THEN /\ hashes' = observed
                  /\ Proceed(Candidate)
                  /\ UNCHANGED candidates
             ELSE TryNextProfile
    /\ UNCHANGED <<chainVars, inputVars, latest, sim, failed>>

\* A failed lookup reads as "other code".
ReadProfileFails ==
    /\ pc = "profile"
    /\ Fails("profile")
    /\ TryNextProfile
    /\ UNCHANGED <<chainVars, inputVars, latest, sim>>

ReadLatestLedger ==
    /\ pc = "expiry"
    /\ latest' = ledger
    /\ Screen(ExpirationChecks(ledger), "simulate")
    /\ UNCHANGED <<chainVars, inputVars, profile, candidates, hashes, sim, failed>>

ReadLatestLedgerFails ==
    /\ pc = "expiry"
    /\ Fails("expiry")
    /\ Respond(FALSE, "simulation_failed")
    /\ UNCHANGED <<chainVars, inputVars, localVars>>

\* verifyPolicyAwarePayment up to the rule lookup.
JudgeProfile(s, observed) ==
    IF ~Passes(ProfileChecks(observed))
    THEN Respond(FALSE, FirstFailure(ProfileChecks(observed)))
    ELSE IF ~Passes(RuleChecks(observed))
    THEN Respond(FALSE, FirstFailure(RuleChecks(observed)))
    ELSE IF profile.expectedRule # Unset
    THEN Screen(EventAndDelegateChecks(s, observed), "done")
    ELSE IF net.relayer = Unset
    THEN Respond(FALSE, "policy_manifest_mismatch")
    ELSE pc' = "rule" /\ UNCHANGED answer

\* The simulation succeeds only while every authorization is good.
Simulate ==
    /\ pc = "simulate"
    /\ \A i \in DOMAIN tx.auth : tx.auth[i].expires >= ledger
    /\ \E minFee \in MinFees, events \in EventLists :
         LET s == [ledger |-> ledger, minFee |-> minFee, events |-> events]
         IN  /\ sim' = s
             /\ IF ~Passes(SimulationChecks(s))
                THEN Respond(FALSE, FirstFailure(SimulationChecks(s)))
                ELSE IF profile = Unset
                THEN Screen(StrictEventChecks(events, Required), "done")
                ELSE IF hashes # Unset
                THEN JudgeProfile(s, hashes)
                ELSE pc' = "hashes" /\ UNCHANGED answer
    /\ UNCHANGED <<chainVars, inputVars, profile, candidates, hashes, latest, failed>>

SimulateFails ==
    /\ pc = "simulate"
    /\ Fails("simulate")
    /\ Respond(FALSE, "simulation_failed")
    /\ UNCHANGED <<chainVars, inputVars, localVars>>

ReadHashes ==
    /\ pc = "hashes"
    /\ \E keyed \in BOOLEAN :
         /\ hashes' = ObservedHashes(profile, keyed)
         /\ JudgeProfile(sim, hashes')
    /\ UNCHANGED <<chainVars, inputVars, profile, candidates, latest, sim, failed>>

ReadHashesFails ==
    /\ pc = "hashes"
    /\ Fails("hashes")
    /\ hashes' = NoHashes
    /\ JudgeProfile(sim, NoHashes)
    /\ UNCHANGED <<chainVars, inputVars, profile, candidates, latest, sim>>

\* get_config(rule, payer) of the recipient policy, simulated by the RPC: it
\* finds nothing for a rule that is not installed.
EvaluateRule ==
    /\ pc = "rule" /\ found = Unset
    /\ found' = {r \in rules : r.payer = Payer /\ r.id = Rule}
    /\ UNCHANGED <<ledger, rules, late, inputVars, localVars, pc, answer, failed>>

\* Its answer arrives, whatever has become of the rule since.
ReadRule ==
    /\ pc = "rule" /\ found # Unset
    /\ IF \E r \in found : BoundTo(r)
       THEN Screen(EventAndDelegateChecks(sim, hashes), "done")
       ELSE Respond(FALSE, "policy_manifest_mismatch")
    /\ UNCHANGED <<chainVars, inputVars, localVars, failed>>

ReadRuleFails ==
    /\ pc = "rule"
    /\ Fails("rule")
    /\ Respond(FALSE, "policy_manifest_mismatch")
    /\ UNCHANGED <<chainVars, inputVars, localVars>>

CloseLedger ==
    /\ pc \in Reads
    /\ ledger < MaxLedger
    /\ ledger' = ledger + 1
    /\ UNCHANGED <<rules, found, late, inputVars, localVars, pc, answer, failed>>

\* The owner removes an allowance: its recipient policy is uninstalled.
RemoveRule ==
    /\ pc \in Reads
    /\ \E r \in rules :
         /\ rules' = rules \ {r}
         /\ late' = IF found = Unset THEN late ELSE late \cup {r}
    /\ UNCHANGED <<ledger, found, inputVars, localVars, pc, answer, failed>>

Next ==
    \/ RefuseConfiguration \/ RefuseRequest \/ BeginVerify
    \/ ReadRelayer
    \/ ReadProfile \/ ReadProfileFails
    \/ ReadLatestLedger \/ ReadLatestLedgerFails
    \/ Simulate \/ SimulateFails
    \/ ReadHashes \/ ReadHashesFails
    \/ EvaluateRule \/ ReadRule \/ ReadRuleFails
    \/ \E read \in Reads : Throws(read)
    \/ CloseLedger \/ RemoveRule

Spec == Init /\ [][Next]_vars

----------------------------------------------------------------------------
(***************************************************************************)
(* Properties.                                                             *)
(***************************************************************************)
PinsPayer(m) ==
    /\ CodePinned(m) /\ m.smartAccountHash = Code[Payer]
    /\ \A a \in PinnedContracts(m) : Code[a] # "none"

TypeOK ==
    /\ ledger \in 1 .. MaxLedger
    /\ rules \subseteq InstalledRules
    /\ late \subseteq InstalledRules \ rules
    /\ found # Unset => found \subseteq InstalledRules
    /\ pc \in {"called", "done"} \cup Reads
    /\ hashes \in [Address -> Hashes \cup {"none"}] \cup {Unset}
    /\ latest \in 0 .. ledger
    /\ sim.ledger \in 0 .. ledger
    /\ answer.valid \in BOOLEAN
    /\ failed \subseteq Reads

\* A payment the facilitator accepts (verify.ts, all its checks) does one
\* thing: the contract events of its simulation move the required amount of
\* the required asset from the payer to the merchant and nothing else.  The
\* payer authorized it, nothing is signed or paid by the facilitator itself,
\* and every authorization was good at the simulated ledger and ends within
\* the timeout, although ledger, code and rules were read at other times.
AcceptedMovesExactlyThePrice ==
    answer.valid =>
        /\ \E i \in DOMAIN sim.events :
              /\ sim.events[i].form = "contract"
              /\ IsTransfer(sim.events[i])
              /\ Moved(sim.events[i]) = Required
              /\ \A j \in DOMAIN sim.events :
                    sim.events[j].form = "contract" /\ IsTransfer(sim.events[j]) => i = j
        /\ Payer \in AuthAddresses
        /\ ({Payer, tx.source, tx.opSource} \cup AuthAddresses) \cap Protected = {}
        /\ \A i \in DOMAIN tx.auth :
              /\ IsSigned(tx.auth[i]) /\ tx.auth[i].subs = 0
              /\ tx.auth[i].expires \in sim.ledger .. (sim.ledger + Window(q.timeout))

\* Under a policy profile (facilitator-policy) acceptance also means: the
\* delegate authorized this very transfer under the selected rule, that rule
\* is the one the profile fixes or is installed for this recipient and token,
\* and the code of payer and policies is the pinned code.  A rule may have gone
\* by the time of the answer, but only while the RPC's answer to its lookup was
\* on its way (allowance-rule.ts:41), never before that lookup.
ProfiledPaymentIsBound ==
    answer.valid /\ profile # Unset =>
        /\ Len(tx.auth) = 2
        /\ \E p \in 1 .. 2 :
              /\ tx.auth[p].addr = Payer
              /\ tx.auth[p].root = TransferInvocation(Required)
              /\ tx.auth[3 - p].root.args =
                    <<AuthDigest(tx.auth[p], q.network, tx.auth[p].sig.ruleIds)>>
              /\ tx.auth[3 - p].addr \notin Protected
        /\ profile.expectedRule # Unset => Rule = profile.expectedRule
        /\ profile.expectedRule = Unset =>
              /\ \E r \in rules \cup late :
                    /\ r.payer = Payer /\ r.id = Rule
                    /\ r.token = q.asset /\ r.recipient = q.payTo
              /\ Code[profile.recipientPolicy] = profile.recipientHash
        /\ profile.smartAccountHash # Unset => Code[Payer] = profile.smartAccountHash

\* The policy profile widens the strict check by the adapters' events only
\* (docs/architecture.md, "one narrow acceptance path"): were the limit events
\* of its adapters not the contracts', an accepted simulation would pass the
\* plugin's own check, and each adapter has an event that reports this payment.
ProfileIsNoWeaker ==
    answer.valid /\ profile # Unset =>
        LET adapters == {profile.adapters[i].contract : i \in DOMAIN profile.adapters}
            others == [i \in DOMAIN sim.events |->
                          IF /\ sim.events[i].contract \in adapters
                             /\ sim.events[i].name = "spending_limit_enforced"
                          THEN [sim.events[i] EXCEPT !.form = "other"]
                          ELSE sim.events[i]]
        IN  /\ Passes(StrictEventChecks(others, Required))
            /\ \A a \in adapters : \E i \in DOMAIN sim.events :
                  /\ sim.events[i].contract = a
                  /\ sim.events[i].data.amount = q.amount
                  /\ sim.events[i].data.rule = Rule

\* The strict check never stands in for a profile: the payer of an accepted
\* payment whose code the configuration pins was judged under a profile of
\* that code (verify.ts, the choice of a profile).  The exceptions read as
\* other code and leave the strict check: a failed code lookup, and one that
\* finds a contract of the profile without code.
PinnedPayerIsJudgedByProfile ==
    answer.valid /\ "profile" \notin failed =>
        \A i \in DOMAIN net.manifests :
            PinsPayer(net.manifests[i]) =>
                /\ profile # Unset
                /\ profile.smartAccountHash \in {Unset, Code[Payer]}
=============================================================================
