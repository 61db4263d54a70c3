SPECIFICATION Spec
CONSTANTS
    Tables = {t1, t2, t3}
    Unsure = {t3}
    Joined = {t1, t2}
    Relations = {r1}
    None = None
SYMMETRY Symmetry
INVARIANTS TypeOK NoDangling VersionOrPending 
CHECK_DEADLOCK FALSE
