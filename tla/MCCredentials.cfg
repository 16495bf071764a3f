SPECIFICATION Spec
CONSTANTS
    s1 = s1
    s2 = s2
    Services = {s1, s2}
    Digests = {d}
    Keys = {k1, k2}
    Ttl <- Lifetimes
    Second = 2
    Day = 2
    Trials = {1}
    Horizon = 4
    PermitLimit = 2
    None = None
    Torn = Torn
SYMMETRY KeySymmetry
INVARIANTS TypeOK TornNeedsCrash OneKeyUnlessRaced  LicenceCountsDown
PROPERTY KeySettles
CHECK_DEADLOCK FALSE
