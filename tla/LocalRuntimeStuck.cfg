SPECIFICATION FairSpec
CONSTANTS
    t1 = t1
    t2 = t2
    t3 = t3
    Tasks = {t1, t2, t3}
    Workers = {1}
    None = None
    Resources = {"CPU"}
    Request <- SharedRequest
    Capacity <- SharedCapacity
    HandlerOutcomes = {"Succeeded"}
    MaxStarts = 1
PROPERTIES
    AcceptedTasksEnd
CHECK_DEADLOCK FALSE
