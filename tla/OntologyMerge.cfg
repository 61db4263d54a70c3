SPECIFICATION Spec
CONSTANTS
    Clients = {c1}
    Fields = {s, d}
    Structural = {s}
    Values = {v1, v2, v3}
    None = None
    MaxRows = 2
SYMMETRY Symmetric
INVARIANT TypeOK
INVARIANT HumanKept
INVARIANT AskedOnce
INVARIANT ConflictShowsRow
INVARIANT UntouchedFollows
PROPERTY AuthorityKept
