SPECIFICATION FairSpec
CONSTANTS
    TimeoutSeconds = 10
    Latency = 2
    VerifyReads = 5
    Paths = {"channel", "relayer"}
INVARIANTS
    SuccessIsConfirmed
    SubmittedOnce
    OverrunIsBounded
    InTimeIsReported
PROPERTIES
    EveryStepNears
    AlwaysAnswers
CHECK_DEADLOCK FALSE
