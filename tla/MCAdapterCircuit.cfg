SPECIFICATION Spec
CONSTANTS
    probe = probe
    Adapters = {probe}
    CallCount = 3
    Tools = {"query_program_context", "reconcile_program_state"}
    AsOfs = {0, 3}
    Manifests <- MCManifests
    Limit = 2  Window = 2  MaxStale = 1  DegradedFloor = 0
    Matches = 2  CallLimit = 2
    LastStart = 2  LastTime = 3
CHECK_DEADLOCK FALSE
INVARIANTS
    CircuitInv
    AnswerNamesItsGaps
    StaleNeverAnswers
    RefusalsProlongNothing
PROPERTIES
    SuppressedUntilWindow
