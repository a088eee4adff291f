SPECIFICATION FairSpec
CONSTANTS
    p = p
    q = q
    Names <- TwoNames
    Procs = {p, q}
    People = {p}
    MaxEvents = 2
    MaxUid = 2
INVARIANTS
    LocalInv
PROPERTIES
    UserDecides
    Converges
CHECK_DEADLOCK FALSE
