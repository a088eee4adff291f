SPECIFICATION FairSpec
CONSTANTS
    p1 = p1
    p2 = p2
    old = old
    new = new
    Agents = {old, new}
    Pods = {p1, p2}
    LateHandshake = FALSE
    MaxConns = 3
    MaxVersion = 1
    MaxFaults = 1
INVARIANTS
    RegistryHoldsLatest
    SupersededStaysSilent
    StatusTrueUnlessExcused
CHECK_DEADLOCK FALSE
PROPERTIES
    ReachableAgain
