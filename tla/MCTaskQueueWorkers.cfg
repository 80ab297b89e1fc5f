\* Worker mode: an API process and two worker processes; k2 has no handler.
CONSTANTS
    k1 = k1  k2 = k2  e1 = e1  e2 = e2  r1 = r1  r2 = r2  c1 = c1  m1 = m1
    p0 = p0  p1 = p1  p2 = p2
    Keys = {k1, k2}
    MarketKeys = {k1}
    OrphanKeys = {k2}
    Enqueuers = {e1}
    Runners = {r1, r2}
    Cancellers = {c1}
    Markers = {m1}
    Procs = {p0, p1, p2}
    ProcOf <- WorkerProcOf
    WorkerMode = TRUE
    MaxRetries = 1
    Redis = Redis
    NoKey = NoKey  NoTask = NoTask  NoRunner = NoRunner
    MaxTasks = 2
    MaxCrashes = 1
    MaxExpiries = 1
SPECIFICATION Spec
INVARIANTS DeliveredOnce CompletedRan
PROPERTY FinishedStaysFinished
CHECK_DEADLOCK FALSE
