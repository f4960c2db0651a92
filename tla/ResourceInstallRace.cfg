SPECIFICATION Spec
CONSTANTS
    fe = fe
    slang = slang
    yosys = yosys
    None = None
    Installers = {i1, i2}
    Tools = {fe}
    Versions = {v1, v2}
    Latest = v1
    Requires <- Single
    Root = fe
    Found <- AnythingFound
    Faults = {}
INVARIANTS ReportedIsUsable SomeRacerSucceeds
CHECK_DEADLOCK FALSE
