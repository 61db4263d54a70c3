SPECIFICATION Spec
CONSTANTS
    NTables = 2
    PerDag = 1
    Executions = 2
    Runs = {r1, r2}
    Rows = {x1, x2}
    Keyed = FALSE
    Scheduled = TRUE
    Serial = TRUE
    CopyFails = FALSE
SYMMETRY Symmetric
CHECK_DEADLOCK FALSE
INVARIANT TypeOK
INVARIANT PackageWhole
PROPERTY SwapsWhole
