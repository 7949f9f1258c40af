SPECIFICATION Spec
CONSTANTS
    Run = {r1, r2}
    IntervalSchedule = {i1}
    CronSchedule = {}
    EventSchedule = {e1}
    Client = {c1}
    Cadence = {1, 2}
    NextOccurrence <- EveryCth
    Staleness = 0
    MaxTime = 2
    MaxBoots = 2
    None = None
SYMMETRY Symmetry
VIEW RunView
INVARIANTS
    TypeOK
    SlotHasOneRow
    TickRunsDoNotOverlap
    NoRunWithoutSchedule
PROPERTIES
    NextIsFirstSlotAhead
CHECK_DEADLOCK FALSE
