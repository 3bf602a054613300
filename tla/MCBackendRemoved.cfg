SPECIFICATION Spec
CONSTANTS
    w1 = w1
    w2 = w2
    h1 = h1
    noWorker = noWorker
    NoWorker <- noWorker
    Callers <- MCOneCaller
    Checkers <- MCNone
    Discoverers <- MCNone
    Lazy = FALSE
    Removable = TRUE
    Attempts = 1
    MaxClients = 1
    MaxGen = 2
    MaxCrashes = 0
CHECK_DEADLOCK FALSE
INVARIANTS
    RemovedClientsClosed
