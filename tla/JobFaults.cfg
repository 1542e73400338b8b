SPECIFICATION WatchdogFairSpec
CONSTANTS
    Jobs = {j1, j2}
    NoJob = NoJob
    Workers = {w1, w2}
    Owner <- OneUser
    Image <- OneImage
    Faults = {"soft", "stall", "crash", "db", "lock"}
    HardLimitBeatsHeartbeat = FALSE
    MaxMsgs = 1
    ExpireLimit = 1
INVARIANTS SucceededHasResult
PROPERTIES KeepsWatchedContract
