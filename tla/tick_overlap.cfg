SPECIFICATION Spec
CONSTANTS
    Run = {r1, r2}
    IntervalSchedule = {i1}
    CronSchedule = {}
    EventSchedule = {}
    Client = {c1}
    Cadence = {1, 2}
    NextOccurrence <- EveryCth
    Staleness = 1
    MaxTime = 3
    MaxBoots = 2
    None = None
CHECK_DEADLOCK FALSE
INVARIANTS
    NoOverlap
