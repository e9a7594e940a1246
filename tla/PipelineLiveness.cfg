SPECIFICATION FairSpec
CONSTANTS
    Images = {i1}
    Kinds = {"webp"}
    Tasks = {t1}
    Callers = {c1}
    Sweeper = sweeper
    Workers = 2
    QueueCap = 1
    MaxConcurrentImages = 1
    MaxRetries = 1
    CtxTimeout = 1
    StaleThreshold = 2
    Outcomes = {"ok", "err"}
    MaxRestarts = 1
    MaxFaults = 1
PROPERTIES ProcessingIsTransient ImageProcessingIsTransient
