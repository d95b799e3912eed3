SPECIFICATION Spec
CONSTANTS
    r1 = r1
    r2 = r2
    Requests = {r1}
    MayFailToListen = TRUE
INVARIANT ReadyMeansAccepting
CHECK_DEADLOCK FALSE
