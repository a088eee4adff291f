SPECIFICATION FairHandover
CONSTANTS
    Home = home
    Others = {far}
    Orgs = {o, p}
    Org = o
    Base = base
    Extras = {x}
    MaxMoves = 3
    MaxEdits = 1
    MaxFailures = 1
    MaxEvents = 4
INVARIANT HandoverInv
PROPERTY Settles
CHECK_DEADLOCK FALSE
