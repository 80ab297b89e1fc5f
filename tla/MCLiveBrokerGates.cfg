SPECIFICATION Spec
\* The bound on calls stops the model.
CHECK_DEADLOCK FALSE
CONSTANTS
    Clients = {c1, c2}
    k1 = k1
    k2 = k2
    buy = buy
    sell = sell
    undo = undo
    junk = junk
    Keys = {k1}
    EmptyKey = k2
    Intents = {buy, undo, junk}
    BadIntents = {junk}
    KindOf <- MCKindOf
    Requests <- AllRequests
    Envs <- AllEnvs
    Outcomes <- AllOutcomes
    RateLimit = 1
    NoRow = NoRow
    NoRequest = NoRequest
    MaxCalls = 2
    MaxMinutes = 1
    MaxRestarts = 1
INVARIANT ReplayTruthful
PROPERTY OnlyArmedCalls
