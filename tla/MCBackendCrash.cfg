SPECIFICATION Spec
CONSTANTS
    w1 = w1
    w2 = w2
    h1 = h1
    noWorker = noWorker
    NoWorker <- noWorker
    Callers <- MCTwoCallers
    Checkers <- MCNone
    Discoverers <- MCNone
    Lazy = FALSE
    Removable = FALSE
    Attempts = 1
    MaxClients = 1
    MaxGen = 2
    MaxCrashes = 1
CHECK_DEADLOCK FALSE
INVARIANTS
    RequestsNegotiated
