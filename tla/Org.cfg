SPECIFICATION FairSpec
CONSTANTS
    Home = home
    Others = {c1}
    Workers = {w1, w2}
    Sweeper = sweeper
    MaxOrgs = 1
    MaxMoves = 2
    MaxEdits = 1
    MaxFaults = 1
    MaxEvents = 2
INVARIANTS
    MovesAlone
    LatestServed
    PlacementInv
PROPERTIES
    NamespaceBeforeRow
    DeletionFinishes
CHECK_DEADLOCK FALSE
