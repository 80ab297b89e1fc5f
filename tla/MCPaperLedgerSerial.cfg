CONSTANTS
    r1 = r1
    r2 = r2
    a = a
    b = b
    Worlds <- BothBackends
    MySQLResets = 0
    Backend = "sqlite"
    Runs <- OneRun
    NoOrder = NoOrder
    Symbols <- TwoSymbols
    Signals <- TwoSignals
    Reasons <- OneReason
    T0 <- NoSymbols
    Prices <- TwoPrices
    Fee = 1
    InitialCash = 4
    CashPerTrade = 3
    MaxPositions = 1
    MaxDailyOpens = 2
    MaxHoldingDays = 1
    MaxDay = 2
    MaxCrashes = 0
    MaxResets = 0
SPECIFICATION PaperSpec
INVARIANT SerialBook
PROPERTY WholeTrades
