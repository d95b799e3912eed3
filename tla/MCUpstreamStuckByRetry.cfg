SPECIFICATION FairSpec
CONSTANTS
    c1 = c1
    Callers = {c1}
    Threshold = 1
    ResetTimeout = 1
    HostCount = 1
    LbModes = {""}
    IdxModulus = 4
    BreakerModes = {""}
    MaxRetries = 2
    RetryOnStatuses = {500}
    Backoff = FALSE
    RequireBody = FALSE
    LimitBody = FALSE
    Methods = {"GET"}
    Statuses = {200, 500}
    Bodies = {"fits"}
    MayCancel = FALSE
    MayBreakRequest = FALSE
    MayStall = FALSE
PROPERTIES
    HalfOpenResolves
