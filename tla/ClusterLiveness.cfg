SPECIFICATION FairSpec
CONSTANTS
    t1 = t1
    t2 = t2
    t3 = t3
    n1 = n1
    n2 = n2
    Tasks = {t1, t2}
    Nodes = {n1}
    None = None
    Resources <- TwoResources
    Request <- SeparateRequest
    NodeCapacity <- SeparateCapacity
    Outcomes = {"Succeeded"}
    MaxTries = 1
    MaxLives = 1
    Unresolved = {}
    Cancellable = {t1}
    Faults = {"crash", "refuse"}
PROPERTIES
    AcceptedTasksEnd
    SubmitReturns
CHECK_DEADLOCK FALSE
