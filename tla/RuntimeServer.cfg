SPECIFICATION Spec
CONSTANTS
    d1 = d1
    d2 = d2
    None = None
    Dirs = {d1, d2}
    Requests <- AllRequests
    MaxRequests = 3
    MaxChunk = 4
    MaxEvents = 1
INVARIANTS TypeOK HandlesKeepTheirWorkspace NothingHeldBetweenRequests
PROPERTIES ImplementsRequestService RequestsSettle
CHECK_DEADLOCK FALSE
