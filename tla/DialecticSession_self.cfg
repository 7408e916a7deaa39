SPECIFICATION Spec
CONSTANTS
    Paused = p
    Reviewers = {r1, r2}
    Synthetic = r2
    Authors = {a}
    Away = {r1}
    NoOne = none
    Workers = {w1, w2}
    EffectRequired = FALSE
    MaxRounds = 3
    MaxLog = 6
SYMMETRY Symmetry
CHECK_DEADLOCK FALSE
INVARIANTS
    SelfRejectionStands
