SPECIFICATION FairSpec
CONSTANTS
    none = none
    small = small
    big = big
    Params <- MCParams
    FirstParams <- MCFirstParams
    EmptyParams = none
    NoHash = NoHash
    MaxEdits = 1
    MaxFaults = 1
    MaxUid = 1
INVARIANTS
    LifecycleInv
    NoLeakUnlessExcused
    HashMeansApplied
PROPERTIES
    DeletionCompletes
    WantedConverges
CHECK_DEADLOCK FALSE
