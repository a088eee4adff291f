SPECIFICATION FairResources
CONSTANTS
    man = man
    dir = dir
    fileA = fileA
    fileB = fileB
    chart = chart
    o1 = o1
    o2 = o2
    oA = oA
    oB = oB
    shared = shared
    Order <- InOrder
    DirOf <- Entry
    Helms = {chart}
    Objects = {o1, o2, oA, oB, shared}
    Makes <- Manifest
    MaxVersion = 2
    MaxEdits = 2
    MaxFaults = 1
INVARIANTS
    ResourceInv
PROPERTIES
    OnlyGivenUp
    Fulfils
