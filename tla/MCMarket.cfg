\* Market synchronisation, its plans and tables, snapshots, caches and the schedule.
CONSTANTS
    SyncSymbols = {"s", "t"}
    SyncDays = 3
    Sources <- TwoSources
    Windows <- SomeWindows
    MaxRuns = 2
    GapRequests <- OneSecurity
    RunRequests <- TwoSecurities
    Workers = {"p", "q"}
    Jobs = {"sync"}
    Interval <- TwoIntervals
    MaxNow = 2
    MaxStarts = 2
    PlanSymbols = 5
    PlanBatch = 2
    PlanKey = 1
    PlanTasks = 5
    Shares = {"s", "t"}
    IndexDays = 2
    Enough = 1
    Lookback = 1
    Life = 0
    SnapDays = 3
    Slots = 2
    Opening = 1
    Weekend = {2}
    SnapTasks = {"t", "u"}
    Securities = {"m", "n"}
    BoardOf <- TwoBoards
    MasterDays = 4
    Calendars <- SomeCalendars
SPECIFICATION MarketSpec
CHECK_DEADLOCK FALSE
INVARIANTS JobsOnce LimitRulesSound SnapshotsSound IndexCovers
PROPERTIES  PlanSound 
