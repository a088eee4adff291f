SPECIFICATION ContextsSpec
CONSTANTS
    Procs = {p1, p2}
    MaxContexts = 2
    Servers = {s1, s2}
    Orgs = {o1, o2}
    None = none
    MaxCommands = 3
INVARIANTS
    ContextsInv
    ActsWhereMeant
CHECK_DEADLOCK FALSE
SYMMETRY Symmetry
