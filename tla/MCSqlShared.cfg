SPECIFICATION Spec
CONSTANTS
    g1 = g1
    g2 = g2
    p1 = p1
    p2 = p2
    s1 = s1
    Gateways <- MCShared
    Servers <- MCServers
    Keys = {1, 2, 3}
    Lists <- MCSharedLists
    PageSize = 1
PROPERTIES
    ShardsReplacedWhole
