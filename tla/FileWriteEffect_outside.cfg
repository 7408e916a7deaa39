SPECIFICATION FairSpec
CONSTANTS
    x1 = x1
    x2 = x2
    f1 = f1
    f2 = f2
    k1 = k1
    k2 = k2
    c1 = c1
    c2 = c2
    Execs = {x1}
    Outside = {o1, o2}
    Effects = {f1, f2}
    Keys = {k1, k2}
    Contents = {c1, c2}
    EffectOf <- OwnEffects
    KeyOf <- SharedKey
    ContentOf <- OwnContents
    Promoted = {}
    Surface = surface
    Ttl = 1
    MaxTime = 3
    Absent = Absent
    Torn = Torn
    Unreadable = Unreadable
    None = None
CHECK_DEADLOCK FALSE
INVARIANTS WatcherKeepsOnlyAdmitted
PROPERTIES PreAdmissionCrashFrees WritesUnderOwnCustody CommittedCrashHoldsLease RefinesGovernedFile
