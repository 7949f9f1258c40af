SPECIFICATION Spec
CONSTANTS
    Text = {p, q}
    MaxSessions = 2
    MaxInputs = 5
INVARIANTS
    TypeOK
    SentOnce
    LiveIsShown
    RunningIsWork
PROPERTIES
    TextIsKept
CHECK_DEADLOCK FALSE
