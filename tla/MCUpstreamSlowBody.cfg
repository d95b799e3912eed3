SPECIFICATION Spec
CONSTANTS
    c1 = c1
    Callers = {c1}
    Threshold = 2
    ResetTimeout = 2
    HostCount = 1
    LbModes = {""}
    IdxModulus = 4
    BreakerModes = {""}
    MaxRetries = 0
    RetryOnStatuses = {500}
    Backoff = FALSE
    RequireBody = FALSE
    LimitBody = FALSE
    Methods = {"GET"}
    Statuses = {200, 500}
    Bodies = {"fits"}
    MayCancel = TRUE
    MayBreakRequest = FALSE
    MayStall = TRUE
INVARIANTS
    CanceledByClient
