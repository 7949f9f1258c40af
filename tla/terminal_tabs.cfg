SPECIFICATION Spec
CONSTANTS
    Leaf = {l1, l2, l3}
    Tab = {t1, t2, t3}
    Call = {c1, c2}
    Launch <- MCLaunch
    MaxTabs = 2
    MaxInputs = 3
    Saves <- MCSaves
    None = None
SYMMETRY Symm
INVARIANTS
    TypeOK
    StripIsSound
    LaunchKeepsPaneOrder
PROPERTIES
    StripIsRefilled
    PtyLossIsExplained
    PanesComeAndGoAsAsked
    DeadShellIsMarked
    PointersAreShown
CHECK_DEADLOCK FALSE
