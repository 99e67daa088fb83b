------------------------ MODULE MCFacilitatorVerify ------------------------
(***************************************************************************)
(* A treasury T with delegate D pays merchant M two units of token A, and  *)
(* an ordinary account G does the same.  A request is one of these two, or *)
(* deviates from it in up to two places; a simulation emits the transfer   *)
(* and the policy's event, or a list that deviates from them.              *)
(***************************************************************************)
EXTENDS FacilitatorVerify, TLC

CONSTANTS T, G, D, M, A, SP, RP, R, F, O

Addresses == {T, G, D, M, A, SP, RP, R, F, O}
MCContracts == {T, A, SP, RP, O}
MCCode == [a \in Addresses |-> CASE a \in {SP, RP} -> "policy"
                                 [] a = T -> "treasury"
                                 [] a = A -> "code"
                                 [] OTHER -> "none"]
MCHashes == {"policy", "treasury", "code"}

Adapter == [kind |-> "spending-limit", contract |-> SP, wasmHash |-> "policy",
            required |-> TRUE]
Fixed == [network |-> "stellar:testnet", smartAccount |-> T, smartAccountHash |-> Unset,
          expectedRule |-> 1, allowedRules |-> Unset, recipientPolicy |-> Unset,
          recipientHash |-> Unset, adapters |-> <<Adapter>>]
Dynamic == [Fixed EXCEPT !.smartAccount = Unset, !.smartAccountHash = "treasury",
                         !.expectedRule = Unset, !.allowedRules = <<1, 2>>,
                         !.recipientPolicy = RP, !.recipientHash = "policy"]
OtherCode == [Dynamic EXCEPT !.smartAccountHash = "code"]
\* Its adapter's contract has no code.
Undeployed == [Dynamic EXCEPT !.adapters[1].contract = O]

Net(manifests) ==
    [network |-> "stellar:testnet", type |-> "stellar", assets |-> {A}, relayer |-> R,
     relayerNetwork |-> "stellar:testnet", fund |-> F, manifests |-> manifests, maxFee |-> 5]

Profiles == {<<>>, <<Fixed>>, <<Dynamic>>, <<OtherCode, Dynamic>>, <<Undeployed>>,
             <<[Dynamic EXCEPT !.smartAccount = T, !.allowedRules = <<2>>]>>}
MCConfigs ==
    {<<Net(p)>> : p \in Profiles}
    \cup {<<[Net(<<Dynamic>>) EXCEPT !.relayer = Unset, !.fund = Unset, !.maxFee = Unset]>>,
          <<[Net(<<Dynamic>>) EXCEPT !.assets = {A, O}]>>,
          <<[Net(<<>>) EXCEPT !.type = "evm"]>>,
          <<[Net(<<>>) EXCEPT !.relayerNetwork = "stellar:pubnet"]>>,
          <<Net(<<Dynamic, Dynamic>>)>>,
          <<Net(<<[Fixed EXCEPT !.adapters = <<>>]>>)>>,
          <<[Net(<<>>) EXCEPT !.network = "stellar:pubnet"], Net(<<Fixed>>)>>}

Pay(from) == [token |-> A, from |-> from, to |-> M, amount |-> 2]
Entry(from) == [addr |-> from, cred |-> "address", sig |-> AccountSignature, expires |-> 3,
                root |-> TransferInvocation(Pay(from)), subs |-> 0]
Request(from, auth) ==
    [wellFormed |-> TRUE, version |-> 2, hasAccepted |-> TRUE,
     acceptedScheme |-> "exact", acceptedNetwork |-> "stellar:testnet",
     scheme |-> "exact", network |-> "stellar:testnet", asset |-> A, payTo |-> M,
     amount |-> 2, timeout |-> 10,
     tx |-> [form |-> "decoded", ops |-> 1, op |-> "invokeHostFunction",
             host |-> "invokeContract", call |-> TransferInvocation(Pay(from)),
             auth |-> auth, source |-> O, opSource |-> Unset, signatures |-> 0, fee |-> 3]]
Honest == {Request(G, <<Entry(G)>>),
           Request(T, DelegatedEntries(Entry(T), D, <<1>>, 3, "stellar:testnet"))}

FieldDeviations(r) ==
    {[r EXCEPT !.wellFormed = FALSE], [r EXCEPT !.version = 1], [r EXCEPT !.hasAccepted = FALSE],
     [r EXCEPT !.acceptedScheme = "upto"], [r EXCEPT !.scheme = "upto"],
     [r EXCEPT !.acceptedNetwork = "stellar:pubnet"], [r EXCEPT !.network = "stellar:pubnet"],
     [r EXCEPT !.asset = O], [r EXCEPT !.timeout = 5],
     [r EXCEPT !.tx.form = "absent"], [r EXCEPT !.tx.ops = 2], [r EXCEPT !.tx.op = "payment"],
     [r EXCEPT !.tx.host = "uploadWasm"], [r EXCEPT !.tx.signatures = 1],
     [r EXCEPT !.tx.call.contract = O], [r EXCEPT !.tx.call.fn = "approve"],
     [r EXCEPT !.tx.call.args = <<r.tx.call.args[1]>>], [r EXCEPT !.tx.auth = <<>>]}
    \cup {[r EXCEPT !.payTo = a] : a \in {O, R}}
    \cup {[r EXCEPT !.amount = n] : n \in {0, 1, Unset, NoNumber}}
    \cup {[r EXCEPT !.tx.call.args[1] = a] : a \in {O, R, F} \cap Addresses}
    \cup {[r EXCEPT !.tx.call.args[2] = a] : a \in {O, R}}
    \cup {[r EXCEPT !.tx.call.args[3] = n] : n \in {0, 1}}
    \cup {[r EXCEPT !.tx.source = R], [r EXCEPT !.tx.opSource = F]}
    \cup {[r EXCEPT !.tx.fee = n] : n \in {1, 9}}

EntryDeviations(e) ==
    {[e EXCEPT !.addr = a] : a \in {O, R, F}}
    \cup {[e EXCEPT !.cred = "sourceAccount"], [e EXCEPT !.subs = 1],
          [e EXCEPT !.root.fn = "approve"], [e EXCEPT !.root.contract = O],
          [e EXCEPT !.root.args = <<O, M, 2>>]}
    \cup {[e EXCEPT !.sig = s] : s \in {Unsigned, ForeignMap, AuthPayload(O, <<1>>),
                                       AuthPayload(D, <<>>), AuthPayload(D, <<2>>),
                                       AuthPayload(D, <<1, 2>>)}}
    \cup {[e EXCEPT !.expires = n] : n \in {1, 4}}

AuthDeviations(r) ==
    UNION {{[r EXCEPT !.tx.auth[i] = e] : e \in EntryDeviations(r.tx.auth[i])}
               : i \in DOMAIN r.tx.auth}
    \cup {[r EXCEPT !.tx.auth = Append(r.tx.auth, Entry(O))],
          [r EXCEPT !.tx.auth = Tail(r.tx.auth)]}
    \cup {[r EXCEPT !.tx.auth = DelegatedEntries(Entry(T), D, ids, 3, "stellar:testnet")]
               : ids \in {<<2>>, <<3>>, <<1, 2>>}}
    \cup {[r EXCEPT !.tx.auth = DelegatedEntries(Entry(T), a, <<1>>, n, "stellar:testnet")]
               : a \in {D, R}, n \in {3, 4}}

Deviations(r) == FieldDeviations(r) \cup IF r.tx.auth = <<>> THEN {} ELSE AuthDeviations(r)

MCRequests ==
    LET treasury == Request(T, DelegatedEntries(Entry(T), D, <<1>>, 3, "stellar:testnet"))
    IN  Honest \cup UNION {Deviations(r) : r \in Honest}
               \cup UNION {AuthDeviations(s) : s \in {u \in AuthDeviations(treasury) :
                                                       Len(u.tx.auth) = 2}}

NoData == [shape |-> "other", amount |-> 0, rule |-> 0, total |-> 0,
           context |-> TransferInvocation(Pay(T))]
TransferEvent(from) ==
    [form |-> "contract", inCall |-> TRUE, contract |-> A, name |-> "transfer",
     topics |-> <<from, M>>, data |-> [NoData EXCEPT !.shape = "number", !.amount = 2]]
LimitEvent ==
    [form |-> "contract", inCall |-> TRUE, contract |-> SP, name |-> "spending_limit_enforced",
     topics |-> <<T>>,
     data |-> [NoData EXCEPT !.shape = "limit", !.amount = 2, !.rule = 1, !.total = 3]]

EventDeviations(e) ==
    {[e EXCEPT !.form = "other"], [e EXCEPT !.inCall = FALSE], [e EXCEPT !.contract = NoAddress],
     [e EXCEPT !.contract = O], [e EXCEPT !.name = "mint"], [e EXCEPT !.topics = <<>>],
     [e EXCEPT !.topics[1] = O], [e EXCEPT !.data.shape = "other"],
     [e EXCEPT !.data.amount = 1]}

MCEventLists ==
    LET t == TransferEvent(T)
        limits == {LimitEvent} \cup EventDeviations(LimitEvent)
            \cup {[LimitEvent EXCEPT !.data.rule = 2], [LimitEvent EXCEPT !.data.total = 1],
                  [LimitEvent EXCEPT !.data.shape = "badContext"],
                  [LimitEvent EXCEPT !.data.context.args[2] = O],
                  [LimitEvent EXCEPT !.form = "garbled"]}
    IN  {<<t, l>> : l \in limits}
        \cup {<<u, LimitEvent>> : u \in EventDeviations(t)}
        \cup {<<e, t, LimitEvent>> : e \in {t, LimitEvent, [t EXCEPT !.contract = O],
                                             [t EXCEPT !.form = "garbled"]}}
        \cup {<<TransferEvent(G), e>> : e \in {TransferEvent(G), [TransferEvent(G) EXCEPT !.contract = O],
                                             [LimitEvent EXCEPT !.form = "garbled"], LimitEvent}}
        \cup {<<e>> : e \in EventDeviations(TransferEvent(G))}
        \cup {<<>>, <<t>>, <<t, t>>, <<LimitEvent>>, <<TransferEvent(G)>>}

MCInstalledRules == {[payer |-> T, id |-> 1, token |-> A, recipient |-> M],
                     [payer |-> T, id |-> 2, token |-> A, recipient |-> O]}
=============================================================================
