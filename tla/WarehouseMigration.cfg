SPECIFICATION Spec
CONSTANTS
    Syncs = {s1}
    Transforms = {t1}
    Materializes = {m1}
    MaxVersion = 2
    Cdc = FALSE
    Forgets = FALSE
    None = None
    Batches = {b1, b2}
    Creating = 1
SYMMETRY Symmetry
INVARIANTS TypeOK  ReadsAreCutOver
CHECK_DEADLOCK FALSE
