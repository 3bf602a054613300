SPECIFICATION Spec
CONSTANTS
    d1 = d1
    d2 = d2
    m1 = m1
    Servers = {"a"}
    Configs <- MCConfigs
    FirstConfigs <- MCFirst
    Shards = 3
    MayFail = {3}
    StoreKinds = {"sql", "memory"}
    p1 = p1
    p2 = p2
    Appliers <- MCAppliers
    Discoverers <- MCDiscoverers
    Markers <- MCMarkers
    MaxApplies = 3
    MaxDiscoveries = 2
SYMMETRY MCSymmetry
CHECK_DEADLOCK FALSE
INVARIANTS
    RowsFollowConfig
    RowDescribesShards
    NoGhostShards
