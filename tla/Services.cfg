SPECIFICATION Spec
CONSTANTS
    upload = upload
    convert = convert
    sweep = sweep
    r1 = r1
    r2 = r2
    w1 = w1
    w2 = w2
    Request = request
    NoJob = noJob
    Jobs <- MCJobs
    Heavy <- MCHeavy
    Parent <- MCParent
    PoolWorkers = {p1, p2}
    ChanCap = 1
    Permits = 1
    Stoppers = {s1, s2}
    Readers = {r1, r2}
    Writers = {w1, w2}
    NoReader = noReader
    MaxVersion = 3
INVARIANTS TypeOK GracefulMeansDrained CountersReconcile EntriesAreCurrent MarkerIsTrue
PROPERTIES JobsRunOnce PoolDrains CacheConverges
CHECK_DEADLOCK FALSE
