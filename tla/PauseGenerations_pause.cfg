SPECIFICATION Spec
CONSTANTS
    Servers = {s1}
    Jobs = {t1, t2}
    Sessions = {d1}
    MaxGen = 2
    NoGen = NoGen
    NoOne = NoOne
    Kinds = {"pause", "ttl", "net", "effect", "resume", "archive"}
    Lossy = TRUE
SYMMETRY Symmetry
INVARIANTS TypeOK AppliedMeansOver OneWorkerPerEffect CachedTokensAccountedFor
PROPERTIES ShownPauseStays VerdictLiftsItsOwnPause RefinesReviewedPause
