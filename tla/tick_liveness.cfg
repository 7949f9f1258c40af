SPECIFICATION FairSpec
CONSTANTS
    Run = {r1, r2}
    IntervalSchedule = {}
    CronSchedule = {s1}
    EventSchedule = {}
    Client = {c1}
    Cadence = {1}
    NextOccurrence <- EveryCth
    Staleness = 0
    MaxTime = 2
    MaxBoots = 2
    None = None
PROPERTIES
    DueSlotIsHandled
CHECK_DEADLOCK FALSE
