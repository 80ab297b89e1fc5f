\* The parts of alerting, one to a behaviour: rules, their lists, the secrets of
\* channels, deliveries in thread mode and in worker mode.
CONSTANTS
    Keys = {1, 2}
    Callers = {"c1", "c2"}
    ChannelStates = {"enabled", "disabled", "invalid"}
    MaxTasks = 2
    MaxRetries = 1
    MaxFaults = 1
    SharedPayload = TRUE
    Ids = {"a", "b", "c"}
    Procs = {"p", "q"}
    Cap = 2
    MaxOps = 3
    Secrets = {"s1", "s2"}
    EnvKeys = {"k1", "k2"}
    Rules <- SomeRules
    Candidates <- SomeCandidates
    Limit = 1
    MaxPasses = 2
SPECIFICATION AlertSpec
CHECK_DEADLOCK FALSE
INVARIANTS DeliveriesTruthful SettingsKept
PROPERTIES DeliverySettles EvaluationSound
