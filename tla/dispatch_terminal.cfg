SPECIFICATION FairSpec
CONSTANTS
    Run = {r1}
    None = None
    PendingLimit = 1
    MaxLaunches = 2
PROPERTY TerminalIsFinal
CHECK_DEADLOCK FALSE
