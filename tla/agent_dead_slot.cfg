SPECIFICATION Spec
CONSTANTS
    Pane = {p1}
    Attempt = {a1, a2}
    None = None
INVARIANT ExitedSessionIsRemoved
CHECK_DEADLOCK FALSE
