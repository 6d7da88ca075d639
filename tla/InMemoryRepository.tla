------------------------- MODULE InMemoryRepository -------------------------
(***************************************************************************)
(* The in-memory repository as operators on its arrays, one per kind.      *)
(* Kinds it has no upsert for come from its fixture, here record by        *)
(* record.  It answers impact and context questions from the fixture too.  *)
(***************************************************************************)
EXTENDS InMemoryGraphStore

(* Neither a key nor an id is appended twice; idempotencyKey is the body.  *)
MemoryAppendEvent(events, r) ==
    IF \E e \in ToSet(events) : e.ref = r.ref \/ (r.body # Unset /\ e.body = r.body)
    THEN events ELSE Append(events, r)

MemoryWrite(memory, r) ==
    [memory EXCEPT ![r.kind] =
        CASE r.kind = "event"                       -> MemoryAppendEvent(@, r)
          [] r.kind \in LogKinds                    -> Append(@, r)
          [] r.kind \notin LogKinds \cup {"event"}  -> UpsertEntity(@, r)]

(* The event of evidence or an artifact is added without looking.          *)
MemoryAddEvent(memory, r) == [memory EXCEPT !["event"] = Append(@, r)]

MemoryEvents(memory) == memory["event"]

-----------------------------------------------------------------------------
MemoryPrograms(memory, scope) ==
    {r \in All(memory, "program") : Holds(scope.program, r.ref)}

(* A list of no projects matches nothing.                                  *)
MemoryProjects(memory, scope) ==
    {r \in All(memory, "project") :
        /\ scope.program = Unset \/ scope.program \in ActivePrograms(r)
        /\ scope.projects = Unset \/ r.ref \in scope.projects}

MemoryIntegrationPoints(memory, scope) ==
    {r \in All(memory, "integration") :
        /\ scope.program = Unset \/
              \E p \in r.links : ProjectToProgramId(memory["project"], p) = scope.program
        /\ AnyOf(scope.projects, r.links)}

(* The projects asked for are not looked at.                               *)
MemoryRelationships(memory, scope) ==
    {r \in All(memory, "relationship") : InScope(r, scope)}

MemoryPointers(memory, kind, refs) ==
    {r \in All(memory, kind) : refs = Unset \/ r.ref \in refs}

(* Nor the targets; a decision of no project is one of every project's.    *)
MemoryDecisions(memory, query) ==
    {r \in All(memory, "decision") :
        /\ InScope(r, query.scope)
        /\ WithinContextAnchor(r.body, query)
        /\ query.statuses = Unset \/ r.body.status \in query.statuses
        /\ r.project = Unset \/ MatchesProjectScope(r.project, query.scope)}

MemoryIntelligenceRecords(memory, query) ==
    {r \in All(memory, "intelligence") :
        /\ InScope(r, query.scope)
        /\ WithinContextAnchor(r.body, query)
        /\ r.project = Unset \/ MatchesProjectScope(r.project, query.scope)
        /\ AnyOf(query.targets, {r.ref} \cup r.links)}

MemoryLedgerRows(memory, kind, scope) ==
    {r \in All(memory, kind) : MatchesLedgerScope(r, scope)}
MemoryLedgerLog(memory, kind, scope) ==
    Picked(memory[kind], {i \in DOMAIN memory[kind] : MatchesLedgerScope(memory[kind][i], scope)})

(* Facts in scope, of their time and not superseded, about a target if any *)
(* are named.                                                              *)
MemoryMacroFacts(memory, query) ==
    {r \in All(memory, "macro") :
        /\ MatchesLedgerScope(r, query.scope)
        /\ WithinContextAnchor(r.body, query)
        /\ query.superseded \/ ~r.body.superseded
        /\ AnyOf(query.targets, {r.ref, r.project} \cup r.links)}

MemoryRegistry(memory) ==
    LET registries == All(memory, "registry") IN
    {r \in registries : \A o \in registries : o.body <= r.body}
=============================================================================
