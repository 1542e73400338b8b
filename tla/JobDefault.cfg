SPECIFICATION FairSpec
CONSTANTS
    Jobs = {j1, j2}
    NoJob = NoJob
    Workers = {w1, w2}
    Owner <- OneUser
    Image <- OneImage
    Faults = {"soft", "crash"}
    HardLimitBeatsHeartbeat = TRUE
    MaxMsgs = 1
    ExpireLimit = 1
INVARIANTS TypeOK PipelineAtMostOnce ClaimStillHolds WatchdogSparesLiveWorkers NoInsertConflict
PROPERTIES SuccessLostOnlyByItsWorker KeepsContract
