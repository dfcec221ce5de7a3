SPECIFICATION Spec
CONSTANTS
    t1 = t1
    t2 = t2
    t3 = t3
    n1 = n1
    n2 = n2
    Tasks = {t1, t2, t3}
    Nodes = {n1, n2}
    None = None
    Resources <- OneResource
    Request <- SharedRequest
    NodeCapacity <- SharedCapacity
    Outcomes = {"Succeeded"}
    MaxTries = 2
    MaxLives = 1
    Unresolved = {t3}
    Cancellable = {t1, t2}
    Faults = {"refuse", "lose_report", "duplicate_report"}
SYMMETRY TaskSymmetry
INVARIANTS
    LedgerExact
    AnswersAreTrue
    RecordsAgreeWithWorkers
CHECK_DEADLOCK FALSE
