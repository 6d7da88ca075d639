SPECIFICATION Spec
CONSTANTS
    a1 = a1  a2 = a2  a3 = a3  p1 = p1  p2 = p2  j1 = j1  x1 = x1  e1 = e1  m1 = m1  m2 = m2
    pt1 = pt1  h1 = h1  t1 = t1  t2 = t2  w1 = w1  c1 = c1  c2 = c2
    None = None  Malformed = Malformed  Registry = Registry
    Programs = {p1, p2}
    Projects = {j1}
    Artifacts = {x1}
    Evidence = {e1}
    Macros = {m1, m2}
    Pointers = {pt1}
    Digests = {h1}
    Targets = {t1, t2}
    Texts = {w1}
    Correlations = {c1, c2}
    Attempts = {a1, a2, a3}
    Workloads <- MCWorkloads
    MaxInFlight = 2
CHECK_DEADLOCK FALSE
SYMMETRY Symmetry
INVARIANTS
    RegistriesInv
    EventsNameRecords
    AnsweredIsLogged
PROPERTIES
    RetirementLasts
    OnlyNamedPartsChange
