SPECIFICATION Spec
CONSTANTS
    t1 = t1
    t2 = t2
    t3 = t3
    n1 = n1
    n2 = n2
    Tasks = {t1}
    Nodes = {n1}
    None = None
    Resources <- OneResource
    Request <- SharedRequest
    NodeCapacity <- SharedCapacity
    Outcomes = {"Succeeded", "Failed"}
    MaxTries = 2
    MaxLives = 2
    Unresolved = {}
    Cancellable = {t1}
    Faults = {"crash", "refuse", "timeout", "duplicate_report", "suspicion",
              "delay", "remove"}
INVARIANTS
    ClusterTypeOK
    RefusedNeverRuns
    NothingLeaks
PROPERTIES
    RecordsEndOnce
    DeadStaysDead
    IncarnationsGrow
    OnlyTheDeadAreFailed
    ImplementsClusterService
CHECK_DEADLOCK FALSE
