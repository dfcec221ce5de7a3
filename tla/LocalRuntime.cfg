SPECIFICATION BothSpec
CONSTANTS
    t1 = t1
    t2 = t2
    t3 = t3
    Tasks = {t1, t2, t3}
    Workers = {1, 2}
    None = None
    Resources = {"CPU"}
    Request <- SharedRequest
    Capacity <- SharedCapacity
    HandlerOutcomes = {"Succeeded", "Cancelled"}
    MaxStarts = 1
    Nothing = Nothing
    Precision = 5
    Width = 7
    Scale = 10
    Fraction = 5
    Exponents = 4
    Dictionaries <- SomeDictionaries
INVARIANTS
    TypeOK
    QueueMatchesLifecycle
    OneExecution
    NoPendingOrphan
    ReleaseNeverRefused
    QuantitiesAreKept
    OrderIsKept
PROPERTIES
    TerminalIsFinal
    NoOvertaking
    FollowsLifecycle
    ImplementsTaskService
CHECK_DEADLOCK FALSE
