SPECIFICATION FairSpec
CONSTANTS
    Workers = {w1}
    Admins = {a1}
    Subscriptions = {s1, s2}
    Schedules <- OneSchedule
    None = None
    StaleAfter = 1
    InterruptAfter = 0
    BatchSize = 1
    RequestDelay = 1
    MaxTime = 3
    MaxCrashes = 0
PROPERTY OverdueSlotIsSkipped
