SPECIFICATION FairSpec
CONSTANTS
    f1 = f1
    f2 = f2
    d1 = d1
    c1 = c1
    a1 = a1
    a2 = a2
    Calls = {f1, f2, d1}
    Direct = {d1}
    Reconcilers = {q1}
    Challenges = {c1}
    ChallengeOf <- MCChallengeOf
    AllowanceOf <- MCAllowanceOf
    NoKey = NoKey
    NoPayload = NoPayload
    MerchantCrashes = TRUE
    AgentCrashes = TRUE
    Ttl = 1
    MaxTime = 2
INVARIANTS
    OnePaymentPerAttempt
    EvidenceIsTrue
    UnlockAgrees
PROPERTIES
    ReconcileResolves
CHECK_DEADLOCK FALSE
