--------------------------- MODULE StoreBackends ---------------------------
(***************************************************************************)
(* The graph repository over the Neo4j store, the same over the in-memory  *)
(* graph store, and the in-memory repository, given the same writes.       *)
(*                                                                         *)
(* An upsert is one transaction.  Two operations are not: a relationship   *)
(* is deleted in one transaction and merged in the next, and appendEvent   *)
(* looks for the key, then for the id, then writes.  Callers interleave    *)
(* between these steps and may stop there.                                 *)
(***************************************************************************)
EXTENDS Neo4jStore, FiniteSetsExt

CONSTANTS
    Writers,    \* callers of the repository
    Inputs,     \* the records they write
    MaxWrites,  \* how many writes are begun in all
    Queries,    \* what is asked, to compare the answers
    Idle

(* What a caller can be in the middle of: a relationship that is deleted   *)
(* and not yet merged, or a keyed event that is not yet put into stores.   *)
Doings ==
    [record : {r \in Inputs : r.kind = "relationship"}, step : {"merge"}, into : {{"neo"}}]
    \cup [record : {r \in Inputs : r.kind = "event" /\ r.body # Unset},
          step : {"id", "put"}, into : SUBSET {"neo", "graph"}]

(* Records are of one shape, and of those that become nodes the store      *)
(* keeps all that they say.  A membership has no id but its two ends.      *)
NodeInput(r) ==
    /\ r.ref \in Refs
    /\ r.kind \in {"program", "evidence", "artifact"} => r.program = Unset /\ r.project = Unset
    /\ r.kind \in {"program", "artifact"} => r.links = Unset
    /\ r.kind = "project" => r.project = Unset
    /\ r.kind = "integration" => r.program = Unset /\ r.links \subseteq Refs
    /\ r.kind = "contract" => r.program = Unset /\ r.links = Unset
    /\ r.kind = "evidence" => r.body = [kind |-> r.body.kind, redaction |-> r.body.redaction]
    /\ r.kind = "decision" =>
          r.body = [status |-> r.body.status, branch |-> r.body.branch, from |-> r.body.from,
                    to |-> r.body.to, evidence |-> r.body.evidence]

ASSUME BackendsAssumption ==
    /\ MaxWrites \in Nat /\ Idle \notin Doings /\ IsFiniteSet(Refs) /\ Unset \notin Refs
    /\ \A r \in Inputs :
          /\ r = Rec(r.kind, r.ref, r.program, r.project, r.links, r.body) /\ r.kind \in Kinds
          /\ r.kind \in NodeKinds => NodeInput(r)
          /\ r.kind = "membership" => r.ref = Unset /\ r.program \in Refs /\ r.project \in Refs
          /\ r.kind = "relationship" => r.links.from \in Refs /\ r.links.to \in Refs
    /\ \A q \in Queries :
          /\ DOMAIN q = {"scope", "branch", "asOf", "statuses", "targets", "superseded"}
          /\ DOMAIN q.scope = {"program", "projects"}
          /\ q.scope.projects = Unset \/ q.scope.projects \subseteq Refs

Graph == INSTANCE InMemoryGraphStore
Memory == INSTANCE InMemoryRepository
Repository == INSTANCE GraphRepository

VARIABLES
    neo,        \* contents of the Neo4j store
    graph,      \* arrays of the in-memory graph store
    memory,     \* arrays of the in-memory repository
    doing,      \* what each caller is in the middle of
    begun,      \* how many writes have been begun
    written,    \* the records written, in the order their writes ended
    unsettled   \* dependencies and keys whose last write met another or was cut

vars == <<neo, graph, memory, doing, begun, written, unsettled>>

Init ==
    /\ neo = EmptyNeo
    /\ graph = Graph!EmptyArrays
    /\ memory = Graph!EmptyArrays
    /\ doing = [w \in Writers |-> Idle]
    /\ begun = 0
    /\ written = <<>>
    /\ unsettled = {}

Begin == begun < MaxWrites /\ begun' = begun + 1

(* What two writes must not both be about: a dependency, or an event's key *)
(* and id.                                                                 *)
Subject(r) ==
    IF r.kind = "event" THEN {<<"id", r.ref>>, <<"key", r.body>>} ELSE {<<"relationship", r.ref>>}

Meets(w, r) ==
    \E o \in Writers \ {w} :
        doing[o] # Idle /\ Subject(doing[o].record) \cap Subject(r) # {}

(* Writing a dependency anew mends it; of two events for one key neither   *)
(* ever goes.                                                              *)
Unsettle(w, r) ==
    unsettled' = IF Meets(w, r) THEN unsettled \cup Subject(r)
                 ELSE IF r.kind = "relationship" THEN unsettled \ Subject(r) ELSE unsettled

(* upsertProgram, upsertProject, putDecision, ... and, for an event, the   *)
(* audit event the repository puts after the record it tells of.           *)
Upsert(r) ==
    /\ Begin
    /\ r.kind # "relationship"
    /\ r.kind = "event" => r.body = Unset
    /\ neo' = NeoWrite(neo, r)
    /\ graph' = Graph!GraphWrite(graph, r)
    /\ \/ memory' = Memory!MemoryWrite(memory, r)
       \/ r.kind = "event" /\ memory' = Memory!MemoryAddEvent(memory, r)
    /\ written' = Append(written, r)
    /\ UNCHANGED <<doing, unsettled>>

(* The two halves of upsertRelationship.                                   *)
BeginRelationship(w, r) ==
    /\ Begin
    /\ doing[w] = Idle /\ r.kind = "relationship"
    /\ neo' = DeleteRelationship(neo, r)
    /\ doing' = [doing EXCEPT ![w] = [record |-> r, step |-> "merge", into |-> {"neo"}]]
    /\ Unsettle(w, r)
    /\ UNCHANGED <<graph, memory, written>>

EndRelationship(w) ==
    /\ doing[w] # Idle /\ doing[w].step = "merge"
    /\ LET r == doing[w].record IN
       /\ neo' = MergeRelationship(neo, r)
       /\ graph' = Graph!GraphWrite(graph, r)
       /\ memory' = Memory!MemoryWrite(memory, r)
       /\ written' = Append(written, r)
    /\ doing' = [doing EXCEPT ![w] = Idle]
    /\ UNCHANGED <<begun, unsettled>>

(* appendEvent, over both stores at once: into is where neither the key    *)
(* nor, later, the id has been found.                                      *)
EventsOf(store) ==
    IF store = "neo" THEN NeoEvents(neo) ELSE Memory!ToSet(Graph!GraphEvents(graph))

LookUpNoKey(w, r) ==
    /\ Begin
    /\ doing[w] = Idle /\ r.kind = "event" /\ r.body # Unset
    /\ doing' = [doing EXCEPT ![w] =
          [record |-> r, step |-> "id", into |-> {"neo", "graph"}]]
    /\ Unsettle(w, r)
    /\ UNCHANGED <<neo, graph, memory, written>>

LookUpKey(w, r) ==
    /\ Begin
    /\ doing[w] = Idle /\ r.kind = "event" /\ r.body # Unset
    /\ doing' = [doing EXCEPT ![w] =
          [record |-> r, step |-> "id",
           into |-> {s \in {"neo", "graph"} :
                       Repository!GetEventByIdempotencyKey(EventsOf(s), r.body) = {}}]]
    /\ Unsettle(w, r)
    /\ UNCHANGED <<neo, graph, memory, written>>

LookUpId(w) ==
    /\ doing[w] # Idle /\ doing[w].step = "id"
    /\ doing' = [doing EXCEPT ![w].step = "put",
                              ![w].into = {s \in @ : \A e \in EventsOf(s) :
                                                        e.ref # doing[w].record.ref}]
    /\ UNCHANGED <<neo, graph, memory, begun, written, unsettled>>

PutEvent(w) ==
    /\ doing[w] # Idle /\ doing[w].step = "put"
    /\ LET r == doing[w].record IN
       /\ neo' = IF "neo" \in doing[w].into THEN NeoWrite(neo, r) ELSE neo
       /\ graph' = IF "graph" \in doing[w].into THEN Graph!GraphWrite(graph, r) ELSE graph
       /\ memory' = Memory!MemoryWrite(memory, r)
       /\ written' = IF "neo" \in doing[w].into THEN Append(written, r) ELSE written
    /\ doing' = [doing EXCEPT ![w] = Idle]
    /\ UNCHANGED <<begun, unsettled>>

(* The caller fails or its process ends between two transactions.          *)
Stop(w) ==
    /\ doing[w] # Idle
    /\ doing' = [doing EXCEPT ![w] = Idle]
    /\ unsettled' = IF doing[w].step = "merge"
                    THEN unsettled \cup Subject(doing[w].record) ELSE unsettled
    /\ UNCHANGED <<neo, graph, memory, begun, written>>

Next ==
    \/ \E r \in Inputs : Upsert(r)
    \/ \E w \in Writers :
          \/ \E r \in Inputs : BeginRelationship(w, r) \/ LookUpKey(w, r)
          \/ EndRelationship(w) \/ LookUpId(w) \/ PutEvent(w) \/ Stop(w)

Spec == Init /\ [][Next]_vars

-----------------------------------------------------------------------------
Everything == [program |-> Unset, projects |-> Unset]

(* The lists getProgramContext and assessImpact read.                      *)
NeoView(query) ==
    [programs |-> NeoPrograms(neo, query.scope), projects |-> NeoProjects(neo, query.scope),
     integrations |-> NeoIntegrationPoints(neo, query.scope),
     contracts |-> NeoContracts(neo, query.scope),
     relationships |-> NeoRelationships(neo, query.scope),
     evidence |-> NeoEvidenceRefs(neo, Unset), artifacts |-> NeoArtifactRefs(neo, Unset),
     decisions |-> NeoDecisions(neo, [query EXCEPT !.targets = Unset])]

GraphView(query) ==
    [programs |-> Graph!GraphPrograms(graph, query.scope),
     projects |-> Graph!GraphProjects(graph, query.scope),
     integrations |-> Graph!GraphIntegrationPoints(graph, query.scope),
     contracts |-> Graph!GraphContracts(graph, query.scope),
     relationships |-> Graph!GraphRelationships(graph, query.scope),
     evidence |-> Graph!GraphPointers(graph, "evidence", Unset),
     artifacts |-> Graph!GraphPointers(graph, "artifact", Unset),
     decisions |-> Graph!GraphDecisions(graph, [query EXCEPT !.targets = Unset])]

WrittenRecords == {written[i] : i \in DOMAIN written}
WrittenOf(kind) == {r \in WrittenRecords : r.kind = kind}
Registered(kind) == {r.ref : r \in WrittenOf(kind)}

(* A ref is of the kinds of what was written for it, and of what           *)
(* memberships take it for.                                                *)
NodeRecords(ref) == {r \in WrittenRecords : r.kind \in NodeKinds /\ r.ref = ref}
KindsOf(ref) ==
    {r.kind : r \in NodeRecords(ref)}
    \cup {k \in {"program", "project"} : \E m \in WrittenOf("membership") : m[k] = ref}
OneKind(ref) == \A k, l \in KindsOf(ref) : k = l

(* Where the backends are meant to agree: no write is half done, refs of   *)
(* different kinds differ, projects have not changed home, and who is      *)
(* named by a membership or as a producer is registered.                   *)
Settled == unsettled = {} /\ \A w \in Writers : doing[w] = Idle

EventsDiffer ==
    \A i, j \in DOMAIN written :
        /\ written[i].kind = "event" /\ written[j].kind = "event"
        /\ written[i].ref = written[j].ref
        => i = j

Regular ==
    /\ \A ref \in Refs : OneKind(ref)
    /\ \A r, o \in WrittenOf("project") : r.ref = o.ref => r.program = o.program
    /\ \A r \in WrittenOf("membership") :
          r.program \in Registered("program") /\ r.project \in Registered("project")
    /\ \A r \in WrittenOf("contract") : r.project \in Registered("project")
    /\ EventsDiffer

(* Nothing was written later for the ref of r as a record of its kind.     *)
IsLast(r) ==
    \E i \in DOMAIN written :
        /\ written[i] = r
        /\ \A j \in DOMAIN written :
              j > i => <<written[j].kind, written[j].ref>> # <<r.kind, r.ref>>

(* The same for the key by which arrays tell records of a kind apart.      *)
IsLastOfKey(r) ==
    \E i \in DOMAIN written :
        /\ written[i] = r
        /\ \A j \in DOMAIN written : j > i =>
              <<written[j].kind, Graph!GraphKey(written[j])>> # <<r.kind, Graph!GraphKey(r)>>

LatestOfKey(kind) == {r \in WrittenOf(kind) : IsLastOfKey(r)}

LogWritten(kind) == Picked(written, {i \in DOMAIN written : written[i].kind = kind})
Latest(kind) == {r \in WrittenOf(kind) : IsLast(r)}

LedgerKinds == {"expected", "status"}

-----------------------------------------------------------------------------
TypeOK ==
    /\ DOMAIN neo = {"nodes", "members", "edges", "rows", "logs"} /\ DOMAIN neo.nodes = Refs
    /\ \A x \in Refs :
          DOMAIN neo.nodes[x] = {"labels", "props"} /\ neo.nodes[x].labels \subseteq NodeKinds
    /\ neo.members \cup neo.edges \cup neo.rows \subseteq Inputs /\ neo.logs \in Seq(Inputs)
    /\ graph \in [Kinds -> Seq(Inputs)] /\ memory \in [Kinds -> Seq(Inputs)]
    /\ doing \in [Writers -> Doings \cup {Idle}]
    /\ begun \in 0..MaxWrites /\ written \in Seq(Inputs)

(* Over either graph store, to every question of every kind, the repository*)
(* answers alike (a list of no refs or no statuses aside, which only the   *)
(* Neo4j store takes for no filter).                                       *)
Asked == {q \in Queries : q.statuses # {}}

GraphAgrees ==
    Settled /\ Regular =>
        \A q \in Asked :
            /\ NeoView(q) = GraphView(q)
            /\ NeoMemberships(neo, q.scope) = Graph!GraphMemberships(graph, q.scope)
            /\ q.targets # {} =>
                  /\ NeoEvidenceRefs(neo, q.targets)
                        = Graph!GraphPointers(graph, "evidence", q.targets)
                  /\ NeoArtifactRefs(neo, q.targets)
                        = Graph!GraphPointers(graph, "artifact", q.targets)
            /\ NeoDecisions(neo, q) = Graph!GraphDecisions(graph, q)
            /\ NeoIntelligenceRecords(neo, q) = Graph!GraphIntelligenceRecords(graph, q)
            /\ NeoMacroFacts(neo, q.scope) = Graph!GraphMacroFacts(graph, q.scope)
            /\ \A k \in LedgerKinds :
                  NeoLedgerRows(neo, k, q.scope) = Graph!GraphLedgerRows(graph, k, q.scope)
            /\ \A k \in LogKinds :
                  NeoLedgerLog(neo, k, q.scope) = Graph!GraphLedgerLog(graph, k, q.scope)
            /\ NeoEvents(neo) = Memory!ToSet(Graph!GraphEvents(graph))
            /\ NeoCursors(neo) = Graph!GraphCursors(graph)
            /\ NeoRegistry(neo) = Graph!GraphRegistry(graph)

(* The in-memory repository, the gateway's fallback and the tests' double, *)
(* answers like the one over Neo4j, except that it takes a list of no      *)
(* projects for a filter on projects, ignores the projects asked for in    *)
(* relationships and the targets in decisions, and shows everywhere what   *)
(* has no project.                                                         *)
MemoryAgrees ==
    Settled /\ Regular =>
        \A q \in Asked :
            /\ NeoPrograms(neo, q.scope) = Memory!MemoryPrograms(memory, q.scope)
            /\ q.scope.projects # {} =>
                  NeoProjects(neo, q.scope) = Memory!MemoryProjects(memory, q.scope)
            /\ NeoIntegrationPoints(neo, q.scope)
                  = Memory!MemoryIntegrationPoints(memory, q.scope)
            /\ NeoRelationships(neo, [q.scope EXCEPT !.projects = Unset])
                  = Memory!MemoryRelationships(memory, q.scope)
            /\ q.targets # {} =>
                  NeoEvidenceRefs(neo, q.targets)
                     = Memory!MemoryPointers(memory, "evidence", q.targets)
            /\ NeoDecisions(neo, [q EXCEPT !.targets = Unset])
                  = {d \in Memory!MemoryDecisions(memory, q) :
                        d.project # Unset \/ q.scope.projects \in {Unset, {}}}
            /\ NeoIntelligenceRecords(neo, q)
                  = {r \in Memory!MemoryIntelligenceRecords(memory, q) :
                        r.project # Unset \/ q.scope.projects \in {Unset, {}}}
            /\ Repository!ListMacroFacts(NeoMacroFacts(neo, q.scope), q)
                  = Memory!MemoryMacroFacts(memory, q)
            /\ \A k \in LedgerKinds :
                  NeoLedgerRows(neo, k, q.scope) = Memory!MemoryLedgerRows(memory, k, q.scope)
            /\ \A k \in LogKinds :
                  NeoLedgerLog(neo, k, q.scope) = Memory!MemoryLedgerLog(memory, k, q.scope)
            /\ NeoEvents(neo) = Memory!ToSet(Memory!MemoryEvents(memory))
            /\ NeoRegistry(neo) = Memory!MemoryRegistry(memory)

(* ProgramManagerGraphStore and ProgramManagerRepository have one meaning: *)
(* what is written through them is listed alike by all implementations, in *)
(* so far as the two definitions above compare them.                       *)
StoresAgree == GraphAgrees /\ MemoryAgrees

(* An upsert replaces all of a record and nothing of another: whatever     *)
(* came between, the Neo4j store lists of a ref what was last written for  *)
(* it, as long as no ref is shared between kinds.  A project that moves to *)
(* another program takes its node with it.                                 *)
LatestRecordListed ==
    LET q == [scope |-> Everything, branch |-> Unset, asOf |-> Unset, statuses |-> Unset,
              targets |-> Unset, superseded |-> TRUE]
        view == NeoView(q)
        named(listed) == {r \in listed : r.ref # Unset} IN
    (\A ref \in Refs : OneKind(ref)) =>
        /\ named(view.programs) = Latest("program")
        /\ named(view.projects) = Latest("project")
        /\ view.integrations = Latest("integration")
        /\ view.evidence = Latest("evidence")
        /\ view.artifacts = Latest("artifact")
        /\ view.decisions = Latest("decision")
        /\ NeoIntelligenceRecords(neo, q) = Latest("intelligence")
        /\ NeoMacroFacts(neo, Everything) = Latest("macro")
        /\ \A k \in LedgerKinds : NeoLedgerRows(neo, k, Everything) = Latest(k)
        /\ \A k \in LogKinds :
              NeoLedgerLog(neo, k, Everything) = LogWritten(k)

(* Writes that overlap leave what they are both about unsettled.           *)
OverlapsAreUnsettled ==
    \A v, w \in Writers : v # w /\ doing[v] # Idle /\ doing[w] # Idle =>
        Subject(doing[v].record) \cap Subject(doing[w].record) \subseteq unsettled

(* What a caller has found still holds when it goes on: no event of its    *)
(* key, and no edge of its dependency.                                     *)
FoundStillHolds ==
    \A w \in Writers : doing[w] # Idle =>
        LET r == doing[w].record IN
        /\ r.kind = "relationship" /\ <<"relationship", r.ref>> \notin unsettled =>
              \A e \in neo.edges : e.ref # r.ref
        /\ r.kind = "event" /\ <<"key", r.body>> \notin unsettled =>
              \A s \in doing[w].into : \A e \in EventsOf(s) : e.body # r.body

(* The Neo4j store holds of every row the record last written, logs in     *)
(* full, and of every node its kinds; and a node of one kind has the       *)
(* properties of the record last written and no others.                    *)
LatestIsHeld ==
    /\ neo.rows = {r \in WrittenRecords : r.kind \in RowKinds /\ IsLast(r)}
    /\ \A k \in LogKinds : NeoLedgerLog(neo, k, Everything) = LogWritten(k)
    /\ \A x \in Refs :
          /\ neo.nodes[x].labels = KindsOf(x)
          /\ OneKind(x) =>
                \/ NodeRecords(x) = {} /\ neo.nodes[x].props = <<>>
                \/ \E r \in NodeRecords(x) : IsLast(r) /\ neo.nodes[x].props = Props(r)

(* The arrays of both in-memory stores hold, of every key, once, the record*)
(* last written, and logs in full; the edges and memberships of the Neo4j  *)
(* store have been written.                                                *)
ArraysAreHeld ==
    /\ \A k \in Kinds \ {"event"} : memory[k] = graph[k]
    /\ \A k \in Kinds \ (LogKinds \cup {"event"}) :
          /\ Graph!All(graph, k) = LatestOfKey(k)
          /\ \A i, j \in DOMAIN graph[k] :
                Graph!GraphKey(graph[k][i]) = Graph!GraphKey(graph[k][j]) => i = j
    /\ \A k \in LogKinds : graph[k] = LogWritten(k)
    /\ neo.members = LatestOfKey("membership")
    /\ neo.edges \subseteq WrittenOf("relationship")

(* As long as no two appends have met over a key or id, and no id was      *)
(* written twice, all three hold the same events, and what a caller finds  *)
(* in one graph store it finds in the other.                               *)
EventsAreHeld ==
    EventsDiffer /\ (\A x \in unsettled : x[1] = "relationship") =>
        /\ NeoEvents(neo) = WrittenOf("event")
        /\ Graph!All(graph, "event") = WrittenOf("event")
        /\ Graph!All(memory, "event") = WrittenOf("event")
        /\ \A w \in Writers : doing[w] # Idle /\ doing[w].record.kind = "event" =>
              \/ doing[w].into = {"neo", "graph"}
              \/ /\ doing[w].into = {}
                 /\ \E e \in WrittenOf("event") :
                       \/ e.body = doing[w].record.body
                       \/ doing[w].step = "put" /\ e.ref = doing[w].record.ref

(* However calls interleave, one idempotency key has one event, in either  *)
(* store, unless appends of that key or id overlapped.                     *)
EventOncePerKey ==
    \A s \in {"neo", "graph"} : \A e, o \in EventsOf(s) :
        e.body # Unset /\ e.body = o.body /\ <<"key", e.body>> \notin unsettled => e = o

(* A dependency once written is in the graph, once and as last written,    *)
(* unless its upsert is under way, was cut between its two transactions,   *)
(* or met another.                                                         *)
DependencyListedOnce ==
    \A ref \in Registered("relationship") :
        \/ <<"relationship", ref>> \in unsettled
        \/ \E w \in Writers :
              doing[w] # Idle /\ <<"relationship", ref>> \in Subject(doing[w].record)
        \/ {e \in neo.edges : e.ref = ref} = {r \in Latest("relationship") : r.ref = ref}

(* The stores hold what was written to them, and no dependency is lost.    *)
StoresInv ==
    /\ TypeOK /\ OverlapsAreUnsettled /\ FoundStillHolds /\ DependencyListedOnce
    /\ LatestIsHeld /\ ArraysAreHeld /\ EventsAreHeld

(* The refs an impact assessment names are those the change reaches along  *)
(* edges of the time: with cycles, diamonds and edges out of time, the     *)
(* walk ends and misses none.                                              *)
Reached(edges, change) ==
    LET ends == {e.links.to : e \in edges}
        next(S) == {e.links.to : e \in {e \in edges : e.links.from \in S}} IN
    {x \in ends : \A S \in SUBSET ends : next(S \cup {change}) \subseteq S => x \in S}

ImpactIsReachability ==
    \A q \in {q \in Queries : q.targets # Unset} :
        LET view == NeoView(q)
            window == {e \in view.relationships : Repository!InWindow(e, q.asOf)} IN
        \A change \in {e.links.from : e \in window} :
            Repository!AssessImpact(view, change, q.targets, q.asOf).affected
                = {x \in Reached(window, change) : AnyOf(q.targets, {x})}

(* Asking about more refs never hides what asking about fewer showed: the  *)
(* context of a larger set of targets names every ref the smaller one's    *)
(* did, but for the targets themselves.                                    *)
WideningLosesNothing ==
    \A q, wider \in {q \in Queries : q.targets # Unset} :
        /\ q # wider /\ q.targets \subseteq wider.targets
        /\ [q EXCEPT !.targets = {}] = [wider EXCEPT !.targets = {}]
        => LET refs(targets) == {m.ref : m \in
                    Repository!GetProgramContext(NeoView(q), targets, {"superseded"})} IN
           refs(q.targets) \subseteq refs(wider.targets) \cup wider.targets
=============================================================================
