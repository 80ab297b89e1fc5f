\* Strategies: their life, scans, signals, scores and reports.
CONSTANTS
    Backend = "mysql"
    Strategies <- SomeStrategies
    Failing = {"snapshot", "rules", "clean"}
    MaxLack = 1
    MaxRuns = 1
    Original = 60
    Threads = {"w", "x"}
    Sizes = {5, 30}
    Cap = 10
    MaxScans = 3
    Prices = {99, 102, 112, 124, 126}
    Values = {0, 80, 100, 110}
    Trends = {"none", "falls", "rises"}
    Flags = {"redeem", "credit"}
    Closes = {0, 95, 112, 131}
    Holding = 3
SPECIFICATION SignalSpec
CHECK_DEADLOCK FALSE
  
PROPERTIES  ScoresSound  
