SPECIFICATION FairSpec
CONSTANTS
    Requests = {r1, r2, r3}
    Owner <- Owners
    Other = NoJob
    NoJob = NoJob
    MaxActive = 3
    TTLOutlasts = TRUE
    Faults = {"refused", "lost", "crash", "repeat", "gap"}
    MaxFaults = 2
INVARIANTS AdmissionExclusive
PROPERTIES LockIsFreed
CHECK_DEADLOCK FALSE
