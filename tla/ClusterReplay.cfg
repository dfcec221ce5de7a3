SPECIFICATION Spec
CONSTANTS
    t1 = t1
    t2 = t2
    t3 = t3
    n1 = n1
    n2 = n2
    Tasks = {t1}
    Nodes = {n1}
    None = None
    Resources <- OneResource
    Request <- SharedRequest
    NodeCapacity <- SharedCapacity
    Outcomes = {"Succeeded"}
    MaxTries = 2
    MaxLives = 1
    Unresolved = {}
    Cancellable = {}
    Faults = {"timeout", "refuse"}
INVARIANTS
    AnswersAreTrue
CHECK_DEADLOCK FALSE
