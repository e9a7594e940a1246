SPECIFICATION Spec
SYMMETRY Symmetry
CONSTANTS
    Images = {i1}
    Kinds = {"thumb"}
    Tasks = {t1, t2}
    Callers = {c1}
    Sweeper = sweeper
    Workers = 2
    QueueCap = 1
    MaxConcurrentImages = 1
    MaxRetries = 2
    CtxTimeout = 1
    StaleThreshold = 2
    Outcomes = {"ok", "skip", "err"}
    MaxRestarts = 0
    MaxFaults = 0
INVARIANTS TypeOK StaleMeansAbandoned ProcessingIsOwned SlotsMatchHolders
PROPERTY LifecycleSpec
