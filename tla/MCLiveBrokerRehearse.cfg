SPECIFICATION Spec
\* The bound on calls stops the model.
CHECK_DEADLOCK FALSE
CONSTANTS
    Clients = {c1}
    k1 = k1
    k2 = k2
    buy = buy
    sell = sell
    undo = undo
    junk = junk
    Keys = {k1}
    EmptyKey = k2
    Intents = {buy}
    BadIntents = {}
    KindOf <- MCKindOf
    Requests <- AllRequests
    Envs <- LiveEnvs
    Outcomes <- Accepted
    RateLimit = 0
    NoRow = NoRow
    NoRequest = NoRequest
    MaxCalls = 2
    MaxMinutes = 0
    MaxRestarts = 0
PROPERTY AtMostOnce
