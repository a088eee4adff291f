SPECIFICATION Spec
CONSTANTS
    Names = {root, ann}
    Boot = root
    Founders = {root, ann}
    Orgs = {acme}
    ControlPlane = cp
    Slots = {q1, q2}
    NoName = noName
    NoSpace = noSpace
    MaxRequests = 4
    MaxFaults = 1
INVARIANTS
    AccountsInv
    SuperadminRemains
    RevokedStaysOut
CHECK_DEADLOCK FALSE
SYMMETRY SlotSymmetry
