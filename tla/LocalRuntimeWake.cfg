SPECIFICATION Spec
CONSTANTS
    t1 = t1
    t2 = t2
    t3 = t3
    Tasks = {t1, t2, t3}
    Workers = {1, 2}
    None = None
    Resources = {"CPU"}
    Request <- SharedRequest
    Capacity <- SharedCapacity
    HandlerOutcomes = {"Succeeded"}
    MaxStarts = 1
INVARIANTS
    WakeRequestIsHeard
CHECK_DEADLOCK FALSE
