SPECIFICATION Spec
CONSTANTS
    a1 = a1  a2 = a2  a3 = a3  point = point  pa = pa  pb = pb  k1 = k1  k2 = k2  k3 = k3
    c1 = c1  c2 = c2  c3 = c3  ref1 = ref1  ref2 = ref2  i1 = i1  i2 = i2
    open = open  done = done
    NoProject = NoProject  NoItem = NoItem  NoRecord = NoRecord
    Points = {point}
    Keys = {k1, k2, k3}
    Correlations = {c1, c2, c3}
    Projects = {pa, pb}
    Refs = {ref1, ref2}
    ItemIds = {i1, i2}
    ItemStatuses = {open, done}
    Attempts = {a1, a2, a3}
    Registered = {pa}
    Calls <- MCCalls
    Serial = FALSE
CHECK_DEADLOCK FALSE
SYMMETRY Symmetry
INVARIANTS
    IntegrationInv
    KeyShowsEffect
    RepeatsApplyOnce
    RefusedLeavesNoTrace
PROPERTIES
    ImplementsRecordStore
    RetiredStaysRetired
