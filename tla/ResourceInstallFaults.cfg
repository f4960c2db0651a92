SPECIFICATION Spec
CONSTANTS
    fe = fe
    slang = slang
    yosys = yosys
    None = None
    Installers = {i1}
    Tools = {fe, yosys}
    Versions = {v1, v2}
    Latest = v1
    Requires <- Cycle
    Root = fe
    Found <- AnythingFound
    Faults = {"stage", "place", "record"}
INVARIANTS TypeOK FailureKeepsPrior
CHECK_DEADLOCK FALSE
