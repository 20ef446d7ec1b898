SPECIFICATION MCSpec
CHECK_DEADLOCK FALSE
CONSTANTS
    t1 = t1  t2 = t2
    Tasks = {t1, t2}
    Owners = {"task_1", "task_2"}
    Owner <- OneProcess
    NoOwner = "nobody"
    Attempts = 2
    MaxDepth = 3
    MaxCount = 5
    Expires = TRUE
    MaxRetries = 2
    RetryOnFatal = FALSE
    Waits = {TRUE, FALSE}
    MaxBatches = 2
    g1 = g1  g2 = g2  g3 = g3
    Generations = {g1, g2, g3}
    AsJob = {g1, g2, g3}
    MaxRoutes = 2
    MaxDeaths = 1
    x = x  y = y  v = v  k1 = k1  k2 = k2
    RouteIds = {1, 2, 3, 4}
    GraphNodes = {x, y, v}
    PrivateNodes = {y}
    PathOf <- Paths
    ConclusionOf <- Conclusions
    NextOf <- NextNodes
    Referring = {v, y}
    Formal = {v}
    PublishJobs = {k1, k2}
    MaxBreaks = 1
    c1 = c1  c2 = c2  c3 = c3  c4 = c4
    Calls = {c1, c2, c3, c4}
    Background = {c1, c2}
    InProcess = {c4}
    MaxLapses = 2
    m1 = m1  m2 = m2  m3 = m3
    Memcells = {m1, m2, m3}
    MinMemcells = 2
    MaxMisses = 1
INVARIANTS
    CountCovers CleanStop RoutesRemain OneSet SnapshotClosed PublishedOnce
    ReportedAsWorked StartIsUnderWay CountsAgree ProfilesCounted
PROPERTIES
    LeaseKept SettledForGood ShutdownEnds BatchesSettle ServicesEnd
