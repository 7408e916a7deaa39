SPECIFICATION Spec
CONSTANTS
    Surfaces = {s1}
    LocalSurfaces = {}
    Agents = {a1, a2}
    Leases = {l1, l2}
    Requests = {r1}
    Effects = {e1, e2}
    Ttls = {1}
    OfferWindow = 1
    MaxDepth = 0
    MaxTime = 3
    MaxOffers = 1
    None = None
SYMMETRY Symmetry
INVARIANTS WriterExclusive
PROPERTIES FenceHolds RefinesCustody HandoffReachesRecipient
