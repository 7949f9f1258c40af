SPECIFICATION FairSpec
CONSTANTS
    Pane = {p1}
    Attempt = {a1, a2}
    None = None
INVARIANTS
    TypeOK
    NoChildIsLost
    StopIsNotUndone
    OneChildPerPane
PROPERTIES
    ExitFrameIsLast
    StoppedSessionEnds
CHECK_DEADLOCK FALSE
