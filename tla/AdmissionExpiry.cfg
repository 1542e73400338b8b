SPECIFICATION Spec
CONSTANTS
    Requests = {r1, r2, r3}
    Owner <- Owners
    Other = r3
    NoJob = NoJob
    MaxActive = 2
    TTLOutlasts = FALSE
    Faults = {"refused", "lost", "crash", "repeat", "answer", "gap"}
    MaxFaults = 1
INVARIANTS TypeOK OneActiveJob
CHECK_DEADLOCK FALSE
