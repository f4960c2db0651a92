SPECIFICATION Spec
CONSTANTS
    fe = fe
    slang = slang
    yosys = yosys
    None = None
    Installers = {i1, i2}
    Tools = {fe, slang}
    Versions = {v1}
    Latest = v1
    Requires <- Chain
    Root = fe
    Found <- NothingFound
    Faults = {"stage", "place", "record", "remove", "interrupt", "crash"}
PROPERTIES EntriesSurvive DependenciesFirst EveryCommandEnds
CHECK_DEADLOCK FALSE
