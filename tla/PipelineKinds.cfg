SPECIFICATION Spec
CONSTANTS
    Images = {i1}
    Kinds = {"webp", "avif"}
    Tasks = {t1}
    Callers = {c1}
    Sweeper = sweeper
    Workers = 2
    QueueCap = 1
    MaxConcurrentImages = 1
    MaxRetries = 1
    CtxTimeout = 1
    StaleThreshold = 2
    Outcomes = {"ok", "skip", "err"}
    MaxRestarts = 0
    MaxFaults = 1
INVARIANTS RegistryMirrorsTasks
PROPERTY LifecycleSpec
