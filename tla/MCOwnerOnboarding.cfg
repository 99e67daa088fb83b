CONSTANTS
    MaxOwners = 2
    MaxCalls = 3
    None = None
    Target = 1
    MaxRestarts = 1
SPECIFICATION Spec
INVARIANTS
    TypeOK
    OnboardedOwnerIsServed
    FailedScopeIsNotCached
    ProfileIsTrue
    InitialAllowanceIsListed
    LoneFundingReachesTarget
PROPERTIES
    QueueMoves
CHECK_DEADLOCK FALSE
