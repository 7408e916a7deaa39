SPECIFICATION Spec
CONSTANTS
    x1 = x1
    x2 = x2
    f1 = f1
    f2 = f2
    k1 = k1
    k2 = k2
    c1 = c1
    c2 = c2
    Execs = {x1, x2}
    Outside = {}
    Effects = {f1, f2}
    Keys = {k1, k2}
    Contents = {c1, c2}
    EffectOf <- OwnEffects
    KeyOf <- SharedKey
    ContentOf <- OwnContents
    Promoted = {}
    Surface = surface
    Ttl = 1
    MaxTime = 0
    Absent = Absent
    Torn = Torn
    Unreadable = Unreadable
    None = None
CHECK_DEADLOCK FALSE
SYMMETRY Swapped
INVARIANTS TypeOK UnknownOutcomeKeepsCustody RejectedLeavesFileAsFound RecoveryNeverRacesWriter
PROPERTIES CommitNeverUndone RefinesGovernedFile
