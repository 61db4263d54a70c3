SPECIFICATION Spec
CONSTANTS
    NTables = 4
    PerDag = 16
    Executions = 2
    Runs = {r1, r2}
    Rows = {x1, x2}
    Keyed = FALSE
    Scheduled = FALSE
    Serial = TRUE
    CopyFails = FALSE
SYMMETRY Symmetric
CHECK_DEADLOCK FALSE
INVARIANT LikesExisting
