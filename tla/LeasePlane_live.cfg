SPECIFICATION FairSpec
CONSTANTS
    Surfaces = {s1}
    LocalSurfaces = {s1}
    Agents = {a1}
    Leases = {l1, l2}
    Requests = {r1}
    Effects = {}
    Ttls = {1}
    OfferWindow = 1
    MaxDepth = 0
    MaxTime = 2
    MaxOffers = 1
    None = None
ACTION_CONSTRAINT InOrder
PROPERTIES ReleasedIsFinal ExpiredEventuallyFreed OrphanHolderStops
