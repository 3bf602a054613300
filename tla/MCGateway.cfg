SPECIFICATION MCSpec
CONSTANTS
    h1 = h1
    i1 = i1
    w1 = w1
    w2 = w2
    Clients <- MCClients
    Stdio <- MCStdio
    Traffic <- MCTraffic
    Servers <- MCServers
    ServerOf <- MCServerOf
    Limits = {1, 2}
    Generations = 2
    Backends = {"a", "b", "c"}
    Workers <- MCWorkers
    MaxConcurrent = {1, 2}
INVARIANTS
    PermitsConserved
    AnswersMatchItems
    VersionHeaderTrue
    EveryServerOnce
PROPERTIES
    MessagesAnswered
    PoolReturns
