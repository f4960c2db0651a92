SPECIFICATION Spec
CONSTANTS
    NumSteps = 2
    Outputs = {o1}
    Ops = {}
    MaxEdits = 1
    None = None
CHECK_DEADLOCK FALSE
INVARIANTS
    TypeOK
    CachedResultIsFresh
    QorMatchesProvenance
