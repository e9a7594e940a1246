SPECIFICATION Spec
CONSTANTS
    u1 = u1
    u2 = u2
    d1 = d1
    d2 = d2
    j1 = j1
    a1 = a1
    a2 = a2
    up1 = up1
    l1 = l1
    e1 = e1
    e2 = e2
    b1 = b1
    t1 = t1
    t2 = t2
    Users = {alice, bob}
    NoUser = noUser
    Contents = {c}
    NoContent = noContent
    Uploads = {u1, u2}
    Conversions = {j1}
    NoUpload = noUpload
    Deletes = {d1, d2}
    MaxRows = 2
    MaxDay = 2
    MaxErrors = 1
    Images = {i1}
    Listers = {l1}
    Editors = {e1, e2}
    MaxContent = 3
    MaxConfigs = 2
    Admins = {a1, a2}
    Uploaders = {up1}
    MaxFailures = 2
    Loaders = {s1}
    Changers = {c1, c2}
    MaxChange = 4
    Browsers = {b1, b2}
    Tabs = {t1, t2}
    MaxTokens = 3
    MaxPassword = 1
    PlainRows = {x}
    MaxImage = 2
    BatchSize = 1
    MaxRuns = 2
    BackedImages = {1, 2}
    MaxEdits = 2
    MaxGlitches = 2
    Clients = {ip1, ip2}
    Requesters = {q1, q2}
    NoClient = noClient
    Limiters = {o1, o2, o3, o4}
    NoLimiter = noLimiter
    Burst = 2
    Refill = 1
    ExpireTime = 2
    MaxDelay = 1
    ShardSize = 1
INVARIANTS
    TypeOK
    NoFileIsForgotten VariantLossNeedsSharing TempFilesEnd OneOwnerOfTempFile
    PagesAreCurrent DeletedAlbumsAreEmpty DanglingNeedsOverlap
    DefaultIsLoaded ImagesHaveStorage RowsAreLoaded
    CachedSettingsAreCurrent
    EndedSessionsStayEnded CookieIsLive
    FinishedMeansMigrated
    RestoreIsExact
    AnswerIsOneImage OriginalCoversVariant
    LimitIsKept
PROPERTIES OnlyLateRowsLoseFiles
CHECK_DEADLOCK FALSE
