\* Administration requests on both backends, check-ins, the pool and backtests,
\* picks, backups and the migration.
CONSTANTS
    Backend = "sqlite"
    Users = {1, 2}
    Tenants = {1}
    Tokens = {1, 2}
    Procs = {1, 2}
    Open = {1}
    Ops = {"create", "role", "active"}
    MaxOps = 3
    Units = {1, 2}
    FewOps = 2
    MaxDays = 3
    MaxPosts = 4
    Codes = {"x", "y"}
    Prices = {1, 2}
    Results = {{"x"}, {"x", "y"}}
    Days = 3
    Holdings = {1, 2}
    Positions = {1, 2}
    Scans <- SomeScans
    Market <- SomeMarkets
    Default = 1
    PickKeys = {"k"}
    Outcomes = {0, 5}
    Clients = {"c", "d"}
    MaxId = 2
    MaxReports = 1
    Retention = 2
    MaxData = 2
    MaxKey = 3
    MaxSaves = 3
    Rows <- SomeRows
    Strategies = {"s", "t"}
    OldAux <- SomeAux
    MaxRows = 2
    MaxApplies = 2
SPECIFICATION KeptSpec
CHECK_DEADLOCK FALSE
INVARIANTS AdminRemains RefusedStaysRefused AccountsSound CheckInPaidOnce 
PROPERTIES PoolSound PicksSound MoveSound
