SPECIFICATION Spec
CONSTANTS
    f1 = f1
    f2 = f2
    f3 = f3
    d1 = d1
    k1 = k1
    k2 = k2
    Calls = {f1, f2, f3, d1}
    Direct = {d1}
    Keys = {k1, k2}
    KeyOf <- MCKeyOf
    Reconcilers = {q1, q2}
    NoKey = NoKey
    CanCrash = TRUE
INVARIANTS
    OneSubmissionPerAttempt
    EvidenceBeforeSubmission
CHECK_DEADLOCK FALSE
