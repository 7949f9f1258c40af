SPECIFICATION Spec
CONSTANTS
    MaxBoots = 4
    MaxInputs = 4
INVARIANTS
    TypeOK
    ListenerIsRegistered
    LiveSessionIsHeard
    SettledPaneHasSession
    StopMakesRoom
    NoSessionWithoutPane
CHECK_DEADLOCK FALSE
