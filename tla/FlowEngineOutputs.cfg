SPECIFICATION Spec
CONSTANTS
    NumSteps = 2
    Outputs = {o1, o2}
    Ops = {op1}
    MaxEdits = 0
    None = None
CHECK_DEADLOCK FALSE
INVARIANTS
    PassIsBacked
PROPERTIES
    StartedStepSettles
    InvalidatedBeforeOverwritten
    SuccessNeedsQor
