SPECIFICATION FairPasses
CONSTANTS
    p1 = p1
    p2 = p2
    mod = mod
    wf = wf
    Procs = {p1, p2}
    Refs = {mod, wf}
    Modules = {mod}
    Wants <- TwoWants
    Dirs <- OneDir
    Torn = torn
    MaxRetags = 1
    MaxFailures = 1
    MaxCommands = 2
INVARIANTS
    PinInv
PROPERTIES
    PinsHold
    PinnedAtLast
CHECK_DEADLOCK FALSE
