SPECIFICATION FairSpec
CONSTANTS
    Paused = p
    Reviewers = {r1}
    Synthetic = r1
    Authors = {a}
    Away = {r1}
    NoOne = none
    Workers = {w1, w2}
    EffectRequired = TRUE
    MaxRounds = 1
    MaxLog = 3
CHECK_DEADLOCK FALSE
PROPERTIES
    SessionEnds
