SPECIFICATION ProcessFairSpec
CONSTANTS
    t1 = t1
    t2 = t2
    p1 = p1
    n1 = n1
    Tasks = {t1, t2}
    Workers = {1}
    None = None
    Resources = {"CPU"}
    Request <- ProcessRequest
    Capacity <- ProcessCapacity
    HandlerOutcomes = {"Succeeded", "Cancelled"}
    MaxStarts = 1
    Callers = {p1, n1}
    Timed = {n1}
    Asks <- SomeAsks
    MayDropBusy = FALSE
INVARIANTS
    NoForgottenGetter
    AnswersAgreeWithRecord
CHECK_DEADLOCK FALSE
PROPERTIES
    GetsReturn
    AcceptedTasksEnd
    CancelledCallsDoNotSucceed
    CancelledNeverSucceeds
    ShutdownReturns
