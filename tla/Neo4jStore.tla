----------------------------- MODULE Neo4jStore -----------------------------
(***************************************************************************)
(* The Neo4j store as operators on the contents of the database.           *)
(*                                                                         *)
(* Programs, projects, evidence and so on are all PmRef nodes, one per ref *)
(* whatever its kind: an upsert merges the node, adds the label of its     *)
(* kind and sets its properties, so kinds that meet in one ref share the   *)
(* properties of the same name.  status stands for the properties only     *)
(* programs, projects, integration points and decisions share.             *)
(***************************************************************************)
EXTENDS StoreRecords

(* The database before anything is written.                                *)
EmptyNode == [labels |-> {}, props |-> <<>>]
EmptyNeo ==
    [nodes |-> [x \in Refs |-> EmptyNode], members |-> {}, edges |-> {},
     rows |-> {}, logs |-> <<>>]

(* Reading a property no one has set gives null.                           *)
Prop(node, name) == IF name \in DOMAIN node.props THEN node.props[name] ELSE Unset

OverlayOnCreate(new, old) == [p \in DOMAIN new \cup DOMAIN old |->
    IF p \in DOMAIN old THEN old[p] ELSE new[p]]

Overlay(new, old) ==
    [p \in DOMAIN new \cup DOMAIN old |-> IF p \in DOMAIN new THEN new[p] ELSE old[p]]

Nodes(neo, label) == {neo.nodes[x] : x \in {y \in Refs : label \in neo.nodes[y].labels}}

-----------------------------------------------------------------------------
(* What each upsert sets.                                                  *)

ProgramProps(r) == [kind |-> "program", programId |-> r.ref, status |-> r.body]

ProjectProps(r) ==
    [kind |-> "project", programId |-> r.program, projectId |-> r.ref,
     activeProgramIds |-> r.links, status |-> r.body]

(* Of the projects related to an integration point the producer is one.    *)
IntegrationPointProps(r) ==
    [kind |-> "integration_point", integrationPointId |-> r.ref,
     producerProjectId |-> r.project, relatedProjectIds |-> r.links, status |-> r.body]

ContractProps(r) ==
    [kind |-> "contract", contractRef |-> r.ref, producerProjectId |-> r.project,
     evidenceRefs |-> r.body]

(* The body of evidence is [kind, redaction], its link its artifact.       *)
EvidenceProps(r) ==
    [kind |-> r.body.kind, evidenceRef |-> r.ref, artifactRef |-> r.links,
     redactionStatus |-> r.body.redaction]

ArtifactProps(r) ==
    [kind |-> "artifact", artifactRef |-> r.ref, redactionStatus |-> r.body]

DecisionProps(r) ==
    [kind |-> "decision", decisionId |-> r.ref, programId |-> r.program,
     projectId |-> r.project, appliesToRefs |-> r.links, status |-> r.body.status,
     branchName |-> r.body.branch, validFrom |-> r.body.from, validTo |-> r.body.to,
     evidenceRefs |-> r.body.evidence]

(* What is listed is the payload; what is filtered, the properties.        *)
IntelligenceProps(r) ==
    [kind |-> "intelligence_record", recordId |-> r.ref, programId |-> r.program,
     projectId |-> r.project, appliesToRefs |-> r.links, branchName |-> r.body.branch,
     validFrom |-> r.body.from, validTo |-> r.body.to, payload |-> r]

MacroFactProps(r) ==
    [programId |-> r.program, projectId |-> r.project, validFrom |-> r.body.from,
     validTo |-> r.body.to, payload |-> r]

Props(r) ==
    CASE r.kind = "program"      -> ProgramProps(r)
      [] r.kind = "project"      -> ProjectProps(r)
      [] r.kind = "integration"  -> IntegrationPointProps(r)
      [] r.kind = "contract"     -> ContractProps(r)
      [] r.kind = "evidence"     -> EvidenceProps(r)
      [] r.kind = "artifact"     -> ArtifactProps(r)
      [] r.kind = "decision"     -> DecisionProps(r)
      [] r.kind = "intelligence" -> IntelligenceProps(r)
      [] r.kind = "macro"        -> MacroFactProps(r)

UpsertNode(neo, r) ==
    [neo EXCEPT !.nodes[r.ref] =
        [labels |-> @.labels \cup {r.kind}, props |-> Overlay(Props(r), @.props)]]

(* A membership merges bare nodes for its ends where there are none.       *)
UpsertMembership(neo, r) ==
    [neo EXCEPT !.nodes[r.program].labels = @ \cup {"program"},
                !.nodes[r.project].labels = @ \cup {"project"},
                !.members = {m \in @ : <<m.program, m.project>> # <<r.program, r.project>>}
                            \cup {r}]

(* An edge of any type with the dependency's id goes, in one transaction;  *)
(* the new one, of its own type between its own ends (the links), is       *)
(* merged in another.                                                      *)
DeleteSameEnds(neo, r) ==
    [neo EXCEPT !.edges = {e \in @ : <<e.ref, e.links>> # <<r.ref, r.links>>}]

DeleteRelationship(neo, r) == [neo EXCEPT !.edges = {e \in @ : e.ref # r.ref}]
MergeRelationship(neo, r) ==
    [neo EXCEPT !.edges = {e \in @ : <<e.ref, e.links>> # <<r.ref, r.links>>} \cup {r}]

(* Expected receipts, reconcile statuses, events, cursors and registries   *)
(* each have a label of their own and are merged by their id.              *)
UpsertRow(neo, r) ==
    [neo EXCEPT !.rows = {o \in @ : <<o.kind, o.ref>> # <<r.kind, r.ref>>} \cup {r}]

(* Observed receipts and ledger entries are created.                       *)
CreateRow(neo, r) == [neo EXCEPT !.logs = Append(@, r)]

(* Any write but the two halves of a relationship.                         *)
NeoWrite(neo, r) ==
    CASE r.kind \in NodeKinds    -> UpsertNode(neo, r)
      [] r.kind = "membership"   -> UpsertMembership(neo, r)
      [] r.kind \in RowKinds     -> UpsertRow(neo, r)
      [] r.kind \in LogKinds     -> CreateRow(neo, r)

-----------------------------------------------------------------------------
(* What each list returns.                                                 *)

NeoPrograms(neo, scope) ==
    {Rec("program", Prop(n, "programId"), Unset, Unset, Unset, Prop(n, "status")) :
        n \in {n \in Nodes(neo, "program") : Holds(scope.program, Prop(n, "programId"))}}

NeoProjectsAtHome(neo, scope) ==
    {Rec("project", Prop(n, "projectId"), Prop(n, "programId"), Unset,
         Prop(n, "activeProgramIds"), Prop(n, "status")) :
        n \in {n \in Nodes(neo, "project") :
                 /\ Holds(scope.program, Prop(n, "programId"))
                 /\ AnyOf(scope.projects, {Prop(n, "projectId")})}}

NeoProjects(neo, scope) ==
    LET active(n) == IF Prop(n, "activeProgramIds") # Unset
                     THEN Prop(n, "activeProgramIds") ELSE {Prop(n, "programId")} IN
    {Rec("project", Prop(n, "projectId"), Prop(n, "programId"), Unset,
         Prop(n, "activeProgramIds"), Prop(n, "status")) :
        n \in {n \in Nodes(neo, "project") :
                 /\ scope.program = Unset \/ scope.program \in active(n)
                 /\ AnyOf(scope.projects, {Prop(n, "projectId")})}}

NeoMemberships(neo, scope) ==
    {m \in neo.members : Holds(scope.program, m.program)
                         /\ AnyOf(scope.projects, {m.project})}

NeoIntegrationPoints(neo, scope) ==
    LET related(n) == Prop(n, "relatedProjectIds")
        programs(n) == {Prop(neo.nodes[p], "programId") :
                           p \in {p \in related(n) : "project" \in neo.nodes[p].labels}} \ {Unset} IN
    {Rec("integration", Prop(n, "integrationPointId"), Unset, Prop(n, "producerProjectId"),
         related(n), Prop(n, "status")) :
        n \in {n \in Nodes(neo, "integration") :
                 /\ scope.program = Unset \/ scope.program \in programs(n)
                 /\ AnyOf(scope.projects, related(n))}}

(* Only a contract whose producer is registered is listed.                 *)
NeoContracts(neo, scope) ==
    LET producer(n) == neo.nodes[Prop(n, "producerProjectId")] IN
    {Rec("contract", Prop(n, "contractRef"), Unset, Prop(n, "producerProjectId"),
         Unset, Prop(n, "evidenceRefs")) :
        n \in {n \in Nodes(neo, "contract") :
                 /\ "project" \in producer(n).labels
                 /\ Holds(scope.program, Prop(producer(n), "programId"))
                 /\ AnyOf(scope.projects, {Prop(n, "producerProjectId")})}}

NeoRelationships(neo, scope) ==
    {e \in neo.edges : Holds(scope.program, e.program) /\ AnyOf(scope.projects, {e.project})}

(* No refs at all are no filter.                                           *)
NeoEvidenceRefs(neo, refs) ==
    {Rec("evidence", Prop(n, "evidenceRef"), Unset, Unset, Prop(n, "artifactRef"),
         [kind |-> Prop(n, "kind"), redaction |-> Prop(n, "redactionStatus")]) :
        n \in {n \in Nodes(neo, "evidence") : AnyOf(refs, {Prop(n, "evidenceRef")})}}

NeoArtifactRefs(neo, refs) ==
    {Rec("artifact", Prop(n, "artifactRef"), Unset, Unset, Unset, Prop(n, "redactionStatus")) :
        n \in {n \in Nodes(neo, "artifact") : AnyOf(refs, {Prop(n, "artifactRef")})}}

NeoBody(n) == [status |-> Prop(n, "status"), branch |-> Prop(n, "branchName"),
               from |-> Prop(n, "validFrom"), to |-> Prop(n, "validTo"),
               evidence |-> Prop(n, "evidenceRefs")]

NeoDecisions(neo, query) ==
    {Rec("decision", Prop(n, "decisionId"), Prop(n, "programId"), Prop(n, "projectId"),
         Prop(n, "appliesToRefs"), NeoBody(n)) :
        n \in {n \in Nodes(neo, "decision") :
                 /\ Holds(query.scope.program, Prop(n, "programId"))
                 /\ AnyOf(query.scope.projects, {Prop(n, "projectId")})
                 /\ WithinContextAnchor(NeoBody(n), query)
                 /\ AnyOf(query.statuses, {Prop(n, "status")})
                 /\ AnyOf(query.targets, {Prop(n, "decisionId")} \cup Prop(n, "appliesToRefs"))}}

NeoIntelligenceRecords(neo, query) ==
    {Prop(n, "payload") :
        n \in {n \in Nodes(neo, "intelligence") :
                 /\ Holds(query.scope.program, Prop(n, "programId"))
                 /\ AnyOf(query.scope.projects, {Prop(n, "projectId")})
                 /\ WithinContextAnchor(NeoBody(n), query)
                 /\ AnyOf(query.targets, {Prop(n, "recordId")} \cup Prop(n, "appliesToRefs"))}}

NeoMacroFacts(neo, scope) ==
    {Prop(n, "payload") :
        n \in {n \in Nodes(neo, "macro") :
                 /\ Holds(scope.program, Prop(n, "programId"))
                 /\ AnyOf(scope.projects, {Prop(n, "projectId")})}}

(* Receipts, entries and statuses are filtered after they are read.        *)
NeoLedgerRows(neo, kind, scope) ==
    {r \in neo.rows : r.kind = kind /\ MatchesLedgerScope(r, scope)}
NeoLedgerLog(neo, kind, scope) ==
    Picked(neo.logs, {i \in DOMAIN neo.logs :
                        neo.logs[i].kind = kind /\ MatchesLedgerScope(neo.logs[i], scope)})

NeoEvents(neo) == {r \in neo.rows : r.kind = "event"}
NeoCursors(neo) == {r \in neo.rows : r.kind = "cursor"}

(* The registry recorded last, or none; its body is when.                  *)
NeoRegistry(neo) ==
    LET registries == {r \in neo.rows : r.kind = "registry"} IN
    {r \in registries : \A o \in registries : o.body <= r.body}
=============================================================================
