CONSTANTS
    NumSteps = 3
    Suites = {smoke, coremark}
    Smoke = smoke
    Editable = {"listed"}
    EditsWhileCollecting = FALSE
    MaxEdits = 2
    None = None
SPECIFICATION Spec
INVARIANTS TypeOK CachedStepIsCurrent EventsMatchAnswer DetailIsOfLastRun
PROPERTY SuccessIsUpToDate
