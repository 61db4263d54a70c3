SPECIFICATION Spec
CONSTANTS
    Clients = {c1, c2}
    Executions = {e1, e2}
    Specs = {s1}
    None = None
    MaxConfirms = 2
    Projected = TRUE
    Handoffs = TRUE
    Pruning = TRUE
    Crashes = TRUE
SYMMETRY Symmetric
CHECK_DEADLOCK FALSE
INVARIANT TypeOK
INVARIANT SucceededRan
PROPERTY PromiseKept
