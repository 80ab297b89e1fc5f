CONSTANTS
    r1 = r1
    r2 = r2
    a = a
    b = b
    Worlds <- AllWorlds
    MySQLResets = 1
    Backend = "sqlite"
    Runs <- TwoRuns
    NoOrder = NoOrder
    Symbols <- OneSymbol
    Signals <- TwoSignals
    Reasons <- OneReason
    T0 <- NoSymbols
    Prices <- OnePrice
    Fee = 1
    InitialCash = 4
    CashPerTrade = 2
    MaxPositions = 1
    MaxDailyOpens = 1
    MaxHoldingDays = 1
    MaxDay = 2
    MaxCrashes = 1
    MaxResets = 0
SPECIFICATION PaperSpec
INVARIANT CashNonNegative
INVARIANT MovedAtMostOnce
PROPERTY FirstDayHeld
