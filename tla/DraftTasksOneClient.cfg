SPECIFICATION FairSpec
CONSTANTS
    Tasks = {t1, t2}
    Domains = {d1}
    Scopes = {"full", "objects", "relations"}
    Clients = {c1}
    None = None
    MaxRunning = 1
    MaxResumes = 0
    SerialWrites = FALSE
    Crashes = FALSE
    Restarts = FALSE
CHECK_DEADLOCK FALSE
INVARIANT NoConflict

 
