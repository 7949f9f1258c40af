SPECIFICATION FairSpec
CONSTANTS
    Run = {r1}
    None = None
    PendingLimit = 1
    MaxLaunches = 2
INVARIANTS
    TypeOK
    LaunchedAtMostOnce
    ReportedAtMostOnce
    SucceededMeansExited
    LiveRunIsRegistered
PROPERTIES
    RunsFollowLifecycle
    ActiveRunsEnd
    FlagIsHonoured
CHECK_DEADLOCK FALSE
