SPECIFICATION Spec
\* The bound on calls stops the model.
CHECK_DEADLOCK FALSE
CONSTANTS
    Clients = {c1}
    k1 = k1
    k2 = k2
    buy = buy
    sell = sell
    undo = undo
    junk = junk
    Keys = {k1, k2, none}
    EmptyKey = none
    Intents = {buy, sell, undo}
    BadIntents = {}
    KindOf <- MCKindOf
    Requests <- LiveRequests
    Envs <- LiveEnvs
    Outcomes <- AcceptedOrRefused
    RateLimit = 1
    NoRow = NoRow
    NoRequest = NoRequest
    MaxCalls = 4
    MaxMinutes = 1
    MaxRestarts = 0
PROPERTY AtMostOnce
