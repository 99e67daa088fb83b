-------------------------- MODULE SimulationEvents --------------------------
(***************************************************************************)
(* The two judges of the events a simulation emitted: the strict one of    *)
(* the plugin (stellar/utils.ts), for which every contract event must be   *)
(* the transfer, and the policy-aware one (facilitator-policy/events.ts),  *)
(* which also admits the spending-limit event of a pinned policy contract. *)
(*                                                                         *)
(* An event is a record [form, inCall, contract, name, topics, data]:      *)
(*   form      "contract", "other" (system, diagnostic) or "garbled"       *)
(*   inCall    emitted inside a call that succeeded                        *)
(*   name      the first topic when it is a symbol, "none" otherwise       *)
(*   topics    the topics after the first                                  *)
(*   data      [shape, amount, rule, total, context], where shape is       *)
(*             "number", "limit" (the map of the spending-limit policy,    *)
(*             well typed), "badMap", "badContext" or "other"              *)
(*                                                                         *)
(* A part of a list of events is the set of its indices.                   *)
(***************************************************************************)
EXTENDS SmartAccountAuth, FiniteSetsExt

CONSTANTS Address, NoAddress

IsTransfer(e) ==
    /\ e.name = "transfer"
    /\ Len(e.topics) >= 2
    /\ e.topics[1] \in Address /\ e.topics[2] \in Address
    /\ e.data.shape = "number"

\* What a transfer event says.
Moved(e) == [token |-> e.contract, from |-> e.topics[1], to |-> e.topics[2],
             amount |-> e.data.amount]

----------------------------------------------------------------------------
(***************************************************************************)
(* The plugin's own events check.                                          *)
(***************************************************************************)
\* parseTransferEventsFromSimulation: events that cannot be decoded and
\* events that are not of a contract are skipped, the others are a transfer,
\* lack a contract id or are something else.
ContractEvents(events) == {i \in DOMAIN events : events[i].form = "contract"}

ParsedTransfers(events) ==
    {i \in ContractEvents(events) : events[i].contract # NoAddress /\ IsTransfer(events[i])}

MissesContractId(events) ==
    \E i \in ContractEvents(events) : events[i].contract = NoAddress

EmitsSomethingElse(events) ==
    \E i \in ContractEvents(events) :
        events[i].contract # NoAddress /\ ~IsTransfer(events[i])

\* validateSimulationEvents.
StrictEventChecks(events, transfer) ==
    LET moved == ParsedTransfers(events)
        ofToken == {i \in moved : events[i].contract = transfer.token}
    IN  << Check(~MissesContractId(events), "event_missing_contract_id"),
           Check(~EmitsSomethingElse(events), "event_not_transfer"),
           Check(\E i \in ofToken :
                    ofToken = {i} /\ Moved(events[i]) = transfer /\ moved = {i},
                 "unexpected_balance_changes") >>

----------------------------------------------------------------------------
(***************************************************************************)
(* The policy-aware check.                                                 *)
(***************************************************************************)
\* parseContractEvents refuses the whole list for one bad event.
Parsable(events) ==
    \A i \in DOMAIN events :
        /\ events[i].form # "garbled"
        /\ events[i].form = "contract" =>
              events[i].inCall /\ events[i].contract # NoAddress

\* The one transfer event is the expected transfer.
HasExactTransfer(events, transfer) ==
    LET named == {i \in ContractEvents(events) : events[i].name = "transfer"}
    IN  \E i \in named :
            named = {i} /\ IsTransfer(events[i]) /\ Moved(events[i]) = transfer

PolicyEvents(events) == {i \in ContractEvents(events) : events[i].name # "transfer"}

\* Fault: the rule the event reports is not compared.
LimitEventChecksAnyRule(e, transfer, rule) ==
    << Check(e.name = "spending_limit_enforced" /\ Len(e.topics) = 1,
             "policy_event_malformed"),
       Check(e.topics # <<>> /\ e.topics[1] = transfer.from,
             "policy_event_context_mismatch"),
       Check(e.data.shape = "limit", "policy_event_malformed"),
       Check(e.data.amount = transfer.amount /\ e.data.total >= e.data.amount,
             "policy_event_context_mismatch"),
       Check(e.data.context = TransferInvocation(transfer),
             "policy_event_context_mismatch") >>

\* validateSpendingLimitEvent: name and topics, payer, fields, amounts, the
\* context the policy saw.
LimitEventChecks(e, transfer, rule) ==
    << Check(e.name = "spending_limit_enforced" /\ Len(e.topics) = 1,
             "policy_event_malformed"),
       Check(e.topics # <<>> /\ e.topics[1] = transfer.from,
             "policy_event_context_mismatch"),
       Check(e.data.shape \in {"limit", "badContext"}, "policy_event_malformed"),
       Check(/\ e.data.amount = transfer.amount
             /\ e.data.rule = rule
             /\ e.data.total >= e.data.amount, "policy_event_context_mismatch"),
       Check(e.data.shape = "limit", "policy_event_malformed"),
       Check(e.data.context = TransferInvocation(transfer),
             "policy_event_context_mismatch") >>

\* The checks of one policy event: an adapter for its contract, the code
\* behind it, no second event of the kind, the event itself.  An adapter of
\* another kind is refused as unapproved.
PolicyEventChecks(events, i, transfer, rule, manifest, observed) ==
    LET e == events[i]
        adapters == {k \in DOMAIN manifest.adapters :
                        manifest.adapters[k].contract = e.contract}
        adapter == manifest.adapters[Min(adapters)]
    IN  IF adapters = {}
        THEN << Check(FALSE, "policy_event_unapproved") >>
        ELSE << Check(adapter.wasmHash \in {"unpinned", observed[e.contract]},
                      "policy_manifest_mismatch"),
                Check(~\E j \in PolicyEvents(events) :
                          j < i /\ events[j].contract = e.contract /\ events[j].name = e.name,
                      "policy_event_malformed"),
                Check(adapter.kind = "spending-limit", "policy_event_unapproved") >>
             \o LimitEventChecks(e, transfer, rule)

\* Every required adapter has an event (approved, once all events are).
RequiredEventsSeen(events, manifest) ==
    \A k \in DOMAIN manifest.adapters :
        manifest.adapters[k].required =>
            \E i \in PolicyEvents(events) :
                events[i].contract = manifest.adapters[k].contract

\* The verdicts on the policy events in their order, the first failure first.
PolicyEventVerdicts(events, transfer, rule, manifest, observed) ==
    [i \in DOMAIN events |->
        LET checks == PolicyEventChecks(events, i, transfer, rule, manifest, observed)
        IN  IF i \notin PolicyEvents(events) \/ Passes(checks) THEN Check(TRUE, "ok")
            ELSE Check(FALSE, FirstFailure(checks))]

\* validatePolicyAwareSimulationEvents, with the reasons mapEventReason makes.
PolicyAwareEventChecks(events, transfer, rule, manifest, observed, unset) ==
    << Check(manifest.smartAccount \in {unset, transfer.from}, "policy_manifest_mismatch"),
       Check(manifest.expectedRule \in {unset, rule}, "policy_manifest_mismatch"),
       Check(Parsable(events), "unexpected_balance_changes"),
       Check(HasExactTransfer(events, transfer), "unexpected_balance_changes") >>
    \o PolicyEventVerdicts(events, transfer, rule, manifest, observed)
    \o << Check(RequiredEventsSeen(events, manifest), "policy_event_malformed") >>
=============================================================================
