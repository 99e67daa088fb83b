SPECIFICATION Spec
CONSTANTS
    T = T
    G = G
    D = D
    M = M
    A = A
    SP = SP
    RP = RP
    R = R
    F = F
    O = O
    NoAddress = NoAddress
    Unset = Unset
    NoNumber = NoNumber
    Address <- Addresses
    Contracts <- MCContracts
    Hashes <- MCHashes
    Code <- MCCode
    Requests <- MCRequests
    Configs <- MCConfigs
    EventLists <- MCEventLists
    MinFees = {2}
    InstalledRules <- MCInstalledRules
    MaxLedger = 2
INVARIANTS
    AcceptedMovesExactlyThePrice
    ProfiledPaymentIsBound
    ProfileIsNoWeaker
    PinnedPayerIsJudgedByProfile
CHECK_DEADLOCK FALSE
