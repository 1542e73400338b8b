SPECIFICATION FairSpec
CONSTANTS
    Jobs = {j1, j2}
    Events = {e1, e2, e3}
    Dispatchers = {d1}
    NoJob = NoJob
    NoEvent = NoEvent
    MaxRetries = 2
    BatchSize = 2
    RedispatchLimit = 1
    Place <- InOrder
    LimitBeatsLock = TRUE
    MaxRefusals = 2
    MaxDeaths = 1
    MaxLosses = 1
INVARIANTS TypeOK SentMeansPublished OneOpenEvent
PROPERTIES QueuedIsTaken
CHECK_DEADLOCK FALSE
