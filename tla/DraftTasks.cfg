SPECIFICATION Spec
CONSTANTS
    Tasks = {t1, t2}
    Domains = {d1}
    Scopes = {"relations"}
    Clients = {c1, c2}
    None = None
    MaxRunning = 1
    MaxResumes = 1
    SerialWrites = TRUE
    Crashes = TRUE
    Restarts = TRUE
SYMMETRY Symmetric
CHECK_DEADLOCK FALSE
INVARIANT TypeOK
INVARIANT SlotLimit
 
INVARIANT EarlyStopFinal
PROPERTY QueueKept
