SPECIFICATION FairSpec
CONSTANTS
    Clients = {c1}
    Executions = {e1, e2, e3}
    Specs = {s1}
    None = None
    MaxConfirms = 3
    Projected = TRUE
    Handoffs = FALSE
    Pruning = TRUE
    Crashes = FALSE
CHECK_DEADLOCK FALSE
 
PROPERTY VerdictOfReceipt
PROPERTY Decided
