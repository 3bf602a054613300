SPECIFICATION MCSpec
CONSTANTS
    g1 = g1
    g2 = g2
    p1 = p1
    p2 = p2
    s1 = s1
    Gateways <- MCGateways
    Servers <- MCServers
    Keys = {1, 2, 3}
    Lists <- MCLists
    PageSize = 1
    Loggers <- MCLoggers
    Sizes = {1, 2}
    RingLimits = {3, 4}
    PageLimit = 2
    MaxBytes = 2
    Keep = 2
    MaxRecords = 4
SYMMETRY MCSymmetry
INVARIANTS
    ListingComplete
    MigratedWhenOpen
    RingAccounted
    ListedOnce
    LogInOrder
PROPERTIES
    CursorMovesOn
    ShardsReplacedWhole
    RotationKeeps
