SPECIFICATION Spec
CONSTANTS
    Workers = {w1, w2}
    Admins = {a1}
    Subscriptions = {s1}
    Schedules <- TwoSchedules
    None = None
    StaleAfter = 1
    InterruptAfter = 0
    BatchSize = 1
    RequestDelay = 1
    MaxTime = 3
    MaxCrashes = 1
SYMMETRY WorkerSymmetry
INVARIANTS TypeOK AtMostOneRequestPerSlot
PROPERTY ImplementsLedger
