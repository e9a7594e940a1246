SPECIFICATION Spec
CONSTANTS
    Images = {i1}
    Kinds = {"webp"}
    Tasks = {t1}
    Callers = {c1}
    Sweeper = sweeper
    Workers = 2
    QueueCap = 1
    MaxConcurrentImages = 1
    MaxRetries = 2
    CtxTimeout = 1
    StaleThreshold = 2
    Outcomes = {"ok"}
    MaxRestarts = 0
    MaxFaults = 0
INVARIANT SweeperSparesRunningWork
