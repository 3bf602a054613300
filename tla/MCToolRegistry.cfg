SPECIFICATION Spec
CONSTANTS
    w1 = w1
    w2 = w2
    r1 = r1
    r2 = r2
    Servers <- MCServers
    Names <- MCNames
    Offers <- MCOffers
    Exposed <- MCExposed
    Limits = {1, 2}
    Writers <- MCWriters
    Readers <- MCReaders
SYMMETRY MCSymmetry
INVARIANTS
    CacheAccounted
    IndexFollowsStore
    CacheFollowsStore
