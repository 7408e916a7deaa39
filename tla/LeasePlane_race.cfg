SPECIFICATION Spec
CONSTANTS
    Surfaces = {s1}
    LocalSurfaces = {}
    Agents = {a1, a2}
    Leases = {l1, l2}
    Requests = {r1, r2}
    Effects = {}
    Ttls = {1}
    OfferWindow = 1
    MaxDepth = 1
    MaxTime = 3
    MaxOffers = 0
    None = None
SYMMETRY Symmetry
INVARIANTS TypeOK AtMostOneActive PendingWritesSound
PROPERTIES HeartbeatWins
