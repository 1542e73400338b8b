SPECIFICATION FairSpec
CONSTANTS
    Jobs = {j1}
    Events = {e1, e2}
    Dispatchers = {d1, d2}
    NoJob = NoJob
    NoEvent = NoEvent
    MaxRetries = 2
    BatchSize = 2
    RedispatchLimit = 1
    Place <- InOrder
    LimitBeatsLock = TRUE
    MaxRefusals = 3
    MaxDeaths = 0
    MaxLosses = 0
INVARIANTS QueuedHasCarrier
PROPERTIES QueuedIsTaken EventsSettle
CHECK_DEADLOCK FALSE
