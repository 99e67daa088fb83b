CONSTANTS
    Owners = {o1, o2}
    Nonces = {n1, n2}
    Operations = {p1, p2}
    Submits = {s1, s2}
    Demos = {d1, d2}
    Clients = {client}
    None = None
    ChallengeTtl = 1
    SessionTtl = 2
    PreparedTtl = 1
    AuthTtl = 1
    Cooldown = 2
    MaxTime = 3
    MaxRestarts = 1
    MaxLogins = 2
    MaxRequests = 4
SPECIFICATION Spec
INVARIANTS
    PreparedIsWalletBound
    ConfirmedIsRecorded
    DemoPaysOncePerCooldown
PROPERTIES
    PreparedIsOneTime
SYMMETRY Symmetry
CHECK_DEADLOCK FALSE
