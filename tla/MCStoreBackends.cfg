SPECIFICATION Spec
CONSTANTS
    Unset = Unset
    Idle = Idle
    Refs <- MCRefs
    Writers = {w1, w2}
    Inputs <- MCInputs
    MaxWrites = 3
    Queries <- MCQueries
CHECK_DEADLOCK FALSE
SYMMETRY Symmetric
INVARIANTS
    StoresInv
    StoresAgree
    LatestRecordListed
    EventOncePerKey
    ImpactIsReachability
    WideningLosesNothing
