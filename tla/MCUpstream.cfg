SPECIFICATION Spec
CONSTANTS
    c1 = c1
    c2 = c2
    Callers = {c1, c2}
    Threshold = 2
    ResetTimeout = 2
    HostCount = 2
    LbModes = {"", "round_robin", "least_conns"}
    BreakerModes = {""}
    IdxModulus = 4
    MaxRetries = 1
    RetryOnStatuses = {404}
    Backoff = TRUE
    RequireBody = TRUE
    LimitBody = TRUE
    Methods = {"GET", "POST"}
    Statuses = {200, 404}
    Bodies = {"empty", "fits", "too_large"}
    MayCancel = TRUE
    MayBreakRequest = TRUE
    MayStall = FALSE
SYMMETRY CallerSymmetry
INVARIANTS
    TypeOK
    CountExplainsState
    AtMostTwoTrials
    NeverReplayed
    ConnectionsAccounted
    LeastLoadedWhenQuiet
    RoundRobinBalanced
PROPERTIES
    OpenUntilReset
    CallContract
