SPECIFICATION FairSpec
CONSTANTS
    Run = {r1}
    None = None
    PendingLimit = 1
    MaxLaunches = 2
PROPERTY ClosedAppLeavesNoRun
CHECK_DEADLOCK FALSE
