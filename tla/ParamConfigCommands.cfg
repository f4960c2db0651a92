SPECIFICATION MCSpec
CONSTANTS
    Procs = {p1}
    Params = {k1, k2}
    Racers = {p1, p2}
    RacedParams = {k1}
    Values = {v0, v1}
    SchemaDefault = v0
    Edits = TRUE
    None = None
INVARIANTS
    TypeOK
    RunReflectsConfig
    RacingBaselineIsKept
PROPERTIES
    OverridesStayRecorded
    NamedParameterResetsFlow
