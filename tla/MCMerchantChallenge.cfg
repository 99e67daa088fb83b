SPECIFICATION FairSpec
CONSTANTS
    c1 = c1
    c2 = c2
    p1 = p1
    p2 = p2
    p3 = p3
    p4 = p4
    Challenges = {c1, c2}
    Payloads = {p1, p2, p3, p4}
    ChallengeOf <- MCChallengeOf
    AlteredTerms <- MCAlteredTerms
    Requests = {r1, r2, r3}
    NoPayload = NoPayload
    CanCrash = TRUE
    Ttl = 0
    MaxTime = 1
INVARIANTS
    OnePaymentPerChallenge
    OrderedKeepsClaim
    UnlockedIsPaidAndRecorded
PROPERTIES
    ReceiptIsFinal
    ClaimIsDecided
    ImplementsOneTimeSale
CHECK_DEADLOCK FALSE
