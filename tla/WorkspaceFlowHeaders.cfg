CONSTANTS
    NumSteps = 2
    Suites = {smoke}
    Smoke = smoke
    Editable = {"header"}
    EditsWhileCollecting = FALSE
    MaxEdits = 1
    None = None
SPECIFICATION Spec
INVARIANT CachedStepIsCurrent
