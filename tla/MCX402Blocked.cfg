SPECIFICATION Spec
CONSTANTS
    f1 = f1
    f2 = f2
    d1 = d1
    c1 = c1
    a1 = a1
    a2 = a2
    Calls = {f1}
    Direct = {}
    Reconcilers = {q1}
    Challenges = {c1}
    ChallengeOf <- MCChallengeOf
    AllowanceOf <- MCAllowanceOf
    NoKey = NoKey
    NoPayload = NoPayload
    MerchantCrashes = FALSE
    AgentCrashes = FALSE
    Ttl = 1
    MaxTime = 2
INVARIANTS
    BlockedIsNotPaid
CHECK_DEADLOCK FALSE
