------------------------- MODULE InMemoryGraphStore -------------------------
(***************************************************************************)
(* The in-memory graph store as operators on its arrays, one per kind.     *)
(***************************************************************************)
EXTENDS StoreRecords, SequencesExt

EmptyArrays == [k \in Kinds |-> <<>>]

(* What upsertEntity tells records of a kind apart by: their ref, and a    *)
(* project's home program too.                                             *)
GraphKey(r) ==
    IF r.kind \in {"project", "membership"} THEN <<r.program, r.project, r.ref>> ELSE <<r.ref>>

(* The first record with the key is replaced where it is.                  *)
UpsertEntity(array, r) ==
    LET same == {i \in DOMAIN array : GraphKey(array[i]) = GraphKey(r)} IN
    IF same = {} THEN Append(array, r)
    ELSE [array EXCEPT ![CHOOSE i \in same : \A j \in same : i <= j] = r]

GraphWrite(graph, r) ==
    [graph EXCEPT ![r.kind] =
        IF r.kind \in LogKinds \cup {"event"} THEN Append(@, r) ELSE UpsertEntity(@, r)]

All(graph, kind) == ToSet(graph[kind])

(* The home of a project, by the last record that has its id.              *)
ProjectToProgramId(projects, project) ==
    LET here == {i \in DOMAIN projects : projects[i].ref = project} IN
    IF here = {} THEN Unset
    ELSE projects[CHOOSE i \in here : \A j \in here : j <= i].program

-----------------------------------------------------------------------------
GraphPrograms(graph, scope) ==
    {r \in All(graph, "program") : Holds(scope.program, r.ref)}

ActivePrograms(r) == IF r.links # Unset THEN r.links ELSE {r.program}

GraphProjects(graph, scope) ==
    {r \in All(graph, "project") :
        /\ scope.program = Unset \/ scope.program \in ActivePrograms(r)
        /\ MatchesProjectScope(r.ref, scope)}

GraphMemberships(graph, scope) ==
    {r \in All(graph, "membership") : MatchesLedgerScope(r, scope)}

GraphIntegrationPoints(graph, scope) ==
    {r \in All(graph, "integration") :
        /\ scope.program = Unset \/
              \E p \in r.links : ProjectToProgramId(graph["project"], p) = scope.program
        /\ AnyOf(scope.projects, r.links)}

GraphContracts(graph, scope) ==
    {r \in All(graph, "contract") :
        /\ Holds(scope.program, ProjectToProgramId(graph["project"], r.project))
        /\ MatchesProjectScope(r.project, scope)}

GraphRelationships(graph, scope) ==
    {r \in All(graph, "relationship") : MatchesLedgerScope(r, scope)}

(* A list of no refs matches nothing.                                      *)
GraphPointers(graph, kind, refs) ==
    {r \in All(graph, kind) : refs = Unset \/ r.ref \in refs}

GraphDecisions(graph, query) ==
    {r \in All(graph, "decision") :
        /\ MatchesLedgerScope(r, query.scope)
        /\ WithinContextAnchor(r.body, query)
        /\ query.statuses = Unset \/ r.body.status \in query.statuses
        /\ AnyOf(query.targets, {r.ref} \cup r.links)}

GraphIntelligenceRecords(graph, query) ==
    {r \in All(graph, "intelligence") :
        /\ MatchesLedgerScope(r, query.scope)
        /\ WithinContextAnchor(r.body, query)
        /\ AnyOf(query.targets, {r.ref} \cup r.links)}

GraphMacroFacts(graph, scope) ==
    {r \in All(graph, "macro") : MatchesLedgerScope(r, scope)}

GraphLedgerRows(graph, kind, scope) ==
    {r \in All(graph, kind) : MatchesLedgerScope(r, scope)}
GraphLedgerLog(graph, kind, scope) ==
    Picked(graph[kind], {i \in DOMAIN graph[kind] : MatchesLedgerScope(graph[kind][i], scope)})

GraphEvents(graph) == graph["event"]
GraphCursors(graph) == All(graph, "cursor")

GraphRegistry(graph) ==
    LET registries == All(graph, "registry") IN
    {r \in registries : \A o \in registries : o.body <= r.body}
=============================================================================
