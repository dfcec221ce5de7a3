SPECIFICATION FairSpec
CONSTANTS
    t1 = t1
    t2 = t2
    t3 = t3
    Tasks = {t1, t2, t3}
    Workers = {1, 2}
    None = None
    Resources = {"CPU", "GPU"}
    Request <- ExclusiveRequest
    Capacity <- ExclusiveCapacity
    HandlerOutcomes = {"Succeeded"}
    MaxStarts = 2
INVARIANTS
    Accounting
    ReservationIdentity
    DrainMeansDone
    StoppedIsWhole
    SleeperWillBeWoken
    DrainWillBeWoken
PROPERTIES
    AcceptedTasksEnd
    ShutdownReturns
CHECK_DEADLOCK FALSE
