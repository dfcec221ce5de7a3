SPECIFICATION ProcessFairSpec
CONSTANTS
    t1 = t1
    t2 = t2
    p1 = p1
    n1 = n1
    Tasks = {t1}
    Workers = {1}
    None = None
    Resources = {"CPU"}
    Request <- ProcessRequest
    Capacity <- ProcessCapacity
    HandlerOutcomes = {"Succeeded", "Cancelled"}
    MaxStarts = 1
    Callers = {p1}
    Timed = {}
    Asks <- SomeAsks
    MayDropBusy = TRUE
PROPERTIES
    ShutdownReturns
CHECK_DEADLOCK FALSE
