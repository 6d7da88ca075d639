SPECIFICATION Spec
CONSTANTS
    a1 = a1  a2 = a2  a3 = a3  pa = pa  pb = pb  r1 = r1  k1 = k1  k2 = k2
    plan1 = plan1  plan2 = plan2  id1 = id1  id2 = id2  ref1 = ref1  p1 = p1  p2 = p2
    NoProject = NoProject
    Requirements = {r1}
    Keys = {k1, k2}
    Plans = {plan1, plan2}
    PlanIds = {id1, id2}
    PlanIdOf <- MCSamePlanId
    Projects = {pa, pb}
    StateRefs = {ref1}
    Attempts = {a1, a2}
    Passes = {}
    Calls <- MCCalls
    Obligations <- MCObligations
    PassCalls <- MCPassCalls
    MaxInFlight = 2
SYMMETRY Symmetry
INVARIANTS
    ReceiptWasOwed
    DuplicateOnlyUnseen
    BlockedLeavesNoTrace
    AcknowledgedIsDurable
PROPERTIES
    ImplementsDurableSubmission
