SPECIFICATION RecordedSpec
CONSTANTS
    fe = fe
    slang = slang
    yosys = yosys
    None = None
    Installers = {i1}
    Tools = {fe}
    Versions = {v1}
    Latest = v1
    Requires <- Single
    Root = fe
    Found <- EarlierFound
    Faults = {"interrupt"}
INVARIANTS FailureKeepsPrior
CHECK_DEADLOCK FALSE
