\* Two executor threads, cancels, marks, retries, the lane, one crash.
CONSTANTS
    k1 = k1  k2 = k2  e1 = e1  e2 = e2  r1 = r1  r2 = r2  c1 = c1  m1 = m1
    p0 = p0  p1 = p1  p2 = p2
    Keys = {k1}
    MarketKeys = {k1}
    OrphanKeys = {}
    Enqueuers = {e1}
    Runners = {r1, r2}
    Cancellers = {c1}
    Markers = {m1}
    Procs = {p0}
    ProcOf <- ThreadProcOf
    WorkerMode = FALSE
    MaxRetries = 1
    Redis = Redis
    NoKey = NoKey  NoTask = NoTask  NoRunner = NoRunner
    MaxTasks = 2
    MaxCrashes = 1
    MaxExpiries = 0
SPECIFICATION FairSpec
INVARIANT LaneExclusive
PROPERTIES EveryTaskSettles DeadRunningIsMarked CancelledInQueueNeverRuns
CHECK_DEADLOCK FALSE
