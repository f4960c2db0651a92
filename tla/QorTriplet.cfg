SPECIFICATION Spec
CONSTANTS
    Generations = {g1, g2}
    MaxRuns = 2
    None = None
INVARIANTS
    TypeOK
    ReportIsOneGeneration
    RollbackRestores
    ReturnedRunIsConsistent
    InterruptedRunLeavesNothing
