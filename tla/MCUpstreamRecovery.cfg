SPECIFICATION FairSpec
CONSTANTS
    c1 = c1
    c2 = c2
    Callers = {c1, c2}
    Threshold = 1
    ResetTimeout = 2
    HostCount = 1
    LbModes = {""}
    IdxModulus = 4
    BreakerModes = {""}
    MaxRetries = 1
    RetryOnStatuses = {500}
    Backoff = TRUE
    RequireBody = FALSE
    LimitBody = FALSE
    Methods = {"GET"}
    Statuses = {200, 500}
    Bodies = {"fits"}
    MayCancel = TRUE
    MayBreakRequest = FALSE
    MayStall = FALSE
PROPERTIES
    CallsComplete
    OpenResolves
    HalfOpenDecides
