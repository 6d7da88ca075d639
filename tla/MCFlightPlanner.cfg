SPECIFICATION FairSpec
CONSTANTS
    t1 = t1  t2 = t2  t3 = t3  change = change  w1 = w1  w2 = w2
    Unset = Unset
    Refs = {t1, t2, t3}
    Agents = {a1, a2}
    Edges = {1, 2, 3, 4}
    TargetOf <- MCTargetOf
    DefaultEdge <- MCDefaultEdge
    FastPolicies = {"tier1"}
    ChangeRef = change
    Words = {w1, w2}
    Requests <- MCRequests
    Spread <- MCSpread
    Carried <- MCCarried
    Views <- MCViews
    Impacts <- MCSeeded
    MaxFollowed = 3
CHECK_DEADLOCK FALSE
INVARIANTS
    PlannerInv
    StepsAreIdempotent
PROPERTIES
    EveryPropagationEnds
