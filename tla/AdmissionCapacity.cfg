SPECIFICATION Spec
CONSTANTS
    Requests = {r1, r2, r3}
    Owner <- Owners
    Other = r3
    NoJob = NoJob
    MaxActive = 2
    TTLOutlasts = TRUE
    Faults = {"refused", "crash"}
    MaxFaults = 3
INVARIANTS CountExact FaultLeaksOne CapacityRespected
CHECK_DEADLOCK FALSE
