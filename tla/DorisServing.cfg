SPECIFICATION FairSpec
CONSTANTS
    Syncs = {s1, s2}
    Transforms = {t1}
    Materializes = {m1}
    MaxVersion = 2
    Cdc = FALSE
    Forgets = TRUE
    None = None
INVARIANTS TypeOK ReadsLoadedTable ReadableVerified 
CHECK_DEADLOCK FALSE
 
