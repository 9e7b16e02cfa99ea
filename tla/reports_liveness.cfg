SPECIFICATION FairSpec
CONSTANTS
    Workers = {w1, w2}
    Admins = {}
    Subscriptions = {s1, s2}
    Schedules <- OneSchedule
    None = None
    StaleAfter = 0
    InterruptAfter = 0
    BatchSize = 1
    RequestDelay = 1
    MaxTime = 2
    MaxCrashes = 1
PROPERTIES DueSlotGetsARun ProcessingIsResolved
