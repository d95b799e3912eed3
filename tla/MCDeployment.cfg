SPECIFICATION FairDeployment
CONSTANTS
    r1 = r1
    r2 = r2
    Requests = {r1, r2}
    MayFailToListen = TRUE
    Configs <- MCConfigs
    Documents <- MCDocuments
    Hosts = {"h1"}
INVARIANTS DrainedBeforeClose NotReadyWhenClosed ExitCodeTells
    RoundTrip ReportedLosses  CompilesOrRefuses
PROPERTY SignalEnds
CHECK_DEADLOCK FALSE
