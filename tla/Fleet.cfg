SPECIFICATION Spec
CONSTANTS
    Pods = {p1, p2}
    Workers = {w1, w2}
    Default <- NameDefault
    Extra <- NamesExtra
    Shorts <- NamesShort
    NoEnv = noEnv
    Nobody = nobody
    Own = {x}
    Kubeconfigs = {k1, k2}
    Home = home
    Legacy <- NamesLegacy
    MaxRequests = 4
INVARIANTS
    FleetInv
    KeepsWhatWasMade
    LabelHasEnvironment
CHECK_DEADLOCK FALSE
SYMMETRY Symmetry
