SPECIFICATION Spec
CONSTANTS
    Paused = p
    Reviewers = {r1, r2}
    Synthetic = r2
    Authors = {a}
    Away = {r1}
    NoOne = none
    Workers = {w1, w2}
    EffectRequired = TRUE
    MaxRounds = 3
    MaxLog = 5
VIEW View
SYMMETRY Symmetry
CHECK_DEADLOCK FALSE
INVARIANTS
    TypeOK
    ResolvedIsAuthorised
    RejectionClosedTruly
    OneAnswerPerRejection
PROPERTIES
    DecisionIsFinal
    ReservedClaimDecides
