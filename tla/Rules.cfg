CONSTANTS
    Files <- Paths
    NoFile = "none"
    Family <- FamilyOf
SPECIFICATION Spec
CHECK_DEADLOCK FALSE
INVARIANTS
    InputsAreFoundAndWatched
    CatalogIsConsistent
    SimulationIsJudgedAlike
    ReportsAreJudgedAlike
    ReviewIsJudgedAlike
    WorkspaceIsSetUp
