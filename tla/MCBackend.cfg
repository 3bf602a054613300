SPECIFICATION FairSpec
CONSTANTS
    w1 = w1
    w2 = w2
    h1 = h1
    noWorker = noWorker
    NoWorker <- noWorker
    Callers <- MCOneCaller
    Checkers <- MCChecker
    Discoverers <- MCOneCaller
    Lazy = TRUE
    Removable = TRUE
    Attempts = 2
    MaxClients = 2
    MaxGen = 2
    MaxCrashes = 1
INVARIANTS
    CacheIsNegotiated
    FormMatchesServer
    FirstUseNegotiated
    OneClient
PROPERTIES
    EveryWorkerReturns
CHECK_DEADLOCK FALSE
