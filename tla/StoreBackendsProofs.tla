------------------------- MODULE StoreBackendsProofs -------------------------
(***************************************************************************)
(* Proofs about StoreBackends: interleaved upserts lose no dependency and  *)
(* put no second event of one key, the three backends answer alike, and a  *)
(* wider context hides nothing.                                            *)
(***************************************************************************)
EXTENDS StoreBackends, FiniteSetTheorems, WellFoundedInduction, NaturalsInduction, TLAPS

-----------------------------------------------------------------------------
(* Contexts.                                                               *)

(* A context of more targets names every ref one of fewer does, but for    *)
(* the targets themselves, whatever the view.                              *)
LEMMA ContextsWiden ==
    ASSUME NEW view, NEW few, NEW many, few \subseteq many, NEW shown,
           NEW m \in Repository!GetProgramContext(view, few, shown)
    PROVE  \/ m.ref \in many
           \/ \E n \in Repository!GetProgramContext(view, many, shown) : n.ref = m.ref
<1> DEFINE Direct(T, kind) == {Repository!Match(r.ref, kind, "direct") :
                                 r \in {r \in view[kind] : r.ref \in T}}
           Decided(T) == Repository!MatchedDecisions(view, T, shown)
           Touched(T) == Repository!Touching(view, T)
           Cited(T) == T \cup UNION {r.body.evidence : r \in Decided(T) \cup Touched(T)}
           Shown(T) == {e \in view.evidence : e.ref \in Cited(T)}
           Listed(T) == {a \in view.artifacts :
                           a.ref \in T \/ \E e \in Shown(T) : e.links = a.ref}
           Reason(r, T) == IF r.ref \in T THEN "direct" ELSE "linked"
           Context(T) ==
               (UNION {Direct(T, kind) : kind \in {"programs", "projects", "integrations", "contracts"}})
               \cup {Repository!Match(Repository!Opposite(e, T), "inferred", e.ref) :
                        e \in Touched(T)}
               \cup {Repository!Match(d.ref, "decision", Reason(d, T)) : d \in Decided(T)}
               \cup {Repository!Match(e.ref, "evidence", Reason(e, T)) : e \in Shown(T)}
               \cup {Repository!Match(a.ref, "artifact", Reason(a, T)) : a \in Listed(T)}
<1>1. /\ Repository!GetProgramContext(view, few, shown) = Context(few)
      /\ Repository!GetProgramContext(view, many, shown) = Context(many)
  BY DEF Repository!GetProgramContext
<1>2. Decided(few) \subseteq Decided(many) /\ Touched(few) \subseteq Touched(many)
  BY DEF Repository!MatchedDecisions, Repository!Touching
<1>3. Shown(few) \subseteq Shown(many)
  BY <1>2
<1>4. Listed(few) \subseteq Listed(many)
  BY <1>3
<1>5. \A ref, kind, reason : Repository!Match(ref, kind, reason).ref = ref
  BY DEF Repository!Match
<1>6. CASE \E kind : m \in Direct(few, kind)
  BY <1>5, <1>6
<1> HIDE DEF Direct, Decided, Touched, Shown, Listed, Reason
<1>inferred. ASSUME NEW e \in Touched(many)
     PROVE  Repository!Match(Repository!Opposite(e, many), "inferred", e.ref) \in Context(many)
  OBVIOUS
<1>decided. ASSUME NEW d \in Decided(many)
     PROVE  Repository!Match(d.ref, "decision", Reason(d, many)) \in Context(many)
  OBVIOUS
<1>shown. ASSUME NEW e \in Shown(many)
     PROVE  Repository!Match(e.ref, "evidence", Reason(e, many)) \in Context(many)
  OBVIOUS
<1>listed. ASSUME NEW a \in Listed(many)
     PROVE  Repository!Match(a.ref, "artifact", Reason(a, many)) \in Context(many)
  OBVIOUS
<1>9. \/ \E kind : m \in Direct(few, kind)
      \/ \E e \in Touched(few) :
            m = Repository!Match(Repository!Opposite(e, few), "inferred", e.ref)
      \/ \E d \in Decided(few) : m = Repository!Match(d.ref, "decision", Reason(d, few))
      \/ \E e \in Shown(few) : m = Repository!Match(e.ref, "evidence", Reason(e, few))
      \/ \E a \in Listed(few) : m = Repository!Match(a.ref, "artifact", Reason(a, few))
  <2>1. m \in Context(few)
    BY <1>1
  <2>2. QED  BY <2>1
<1> HIDE DEF Context
<1>7. ASSUME NEW e \in Touched(few), m.ref = Repository!Opposite(e, few)
      PROVE  m.ref \in many \/ \E n \in Context(many) : n.ref = m.ref
  <2>1. Repository!Opposite(e, few) \in {e.links.from, e.links.to}
    BY DEF Repository!Opposite
  <2>2. Repository!Opposite(e, few) \notin many =>
           Repository!Opposite(e, many) = Repository!Opposite(e, few)
    BY DEF Repository!Opposite, Repository!Touching, Touched
  <2>3. Repository!Match(Repository!Opposite(e, many), "inferred", e.ref) \in Context(many)
    BY <1>2, <1>inferred
  <2>4. QED  BY <1>5, <1>7, <2>2, <2>3
<1>8. ASSUME NEW r, r \in Decided(few) \cup Shown(few) \cup Listed(few), m.ref = r.ref
      PROVE  \E n \in Context(many) : n.ref = m.ref
  <2>1. CASE r \in Decided(many)
    <3>1. Repository!Match(r.ref, "decision", Reason(r, many)) \in Context(many)
      BY <2>1, <1>decided
    <3>2. QED  BY <1>5, <1>8, <3>1
  <2>2. CASE r \in Shown(many)
    <3>1. Repository!Match(r.ref, "evidence", Reason(r, many)) \in Context(many)
      BY <2>2, <1>shown
    <3>2. QED  BY <1>5, <1>8, <3>1
  <2>3. CASE r \in Listed(many)
    <3>1. Repository!Match(r.ref, "artifact", Reason(r, many)) \in Context(many)
      BY <2>3, <1>listed
    <3>2. QED  BY <1>5, <1>8, <3>1
  <2>4. QED  BY <1>2, <1>3, <1>4, <1>8, <2>1, <2>2, <2>3
<1>10. QED  BY <1>1, <1>5, <1>6, <1>7, <1>8, <1>9

(* Asking about more refs never hides what asking about fewer showed (the  *)
(* matching of a context in the graph repository, over the Neo4j store).   *)
THEOREM WideningLosesNothingAlways == Spec => []WideningLosesNothing
<1>1. WideningLosesNothing
  <2> SUFFICES ASSUME NEW q \in Queries, NEW wider \in Queries, q.targets \subseteq wider.targets,
                      NEW m \in Repository!GetProgramContext(NeoView(q), q.targets, {"superseded"})
               PROVE  \/ m.ref \in wider.targets
                      \/ \E n \in Repository!GetProgramContext(NeoView(q), wider.targets,
                                                              {"superseded"}) : n.ref = m.ref
    <3>1. ASSUME NEW q \in Queries, NEW wider \in Queries, q.targets \subseteq wider.targets
          PROVE  {n.ref : n \in Repository!GetProgramContext(NeoView(q), q.targets, {"superseded"})}
                    \subseteq {n.ref : n \in Repository!GetProgramContext(NeoView(q), wider.targets,
                                                                        {"superseded"})}
                              \cup wider.targets
      BY <3>1
    <3>2. QED  BY <3>1 DEF WideningLosesNothing
  <2>1. QED  BY ContextsWiden
<1>2. QED  BY <1>1, PTL

-----------------------------------------------------------------------------
(* What the writes keep.                                                   *)

NeoTyped(db) ==
    /\ DOMAIN db = {"nodes", "members", "edges", "rows", "logs"} /\ DOMAIN db.nodes = Refs
    /\ \A x \in Refs :
          DOMAIN db.nodes[x] = {"labels", "props"} /\ db.nodes[x].labels \subseteq NodeKinds
    /\ db.members \cup db.edges \cup db.rows \subseteq Inputs /\ db.logs \in Seq(Inputs)

RowsWith(rows, r) == {o \in rows : <<o.kind, o.ref>> # <<r.kind, r.ref>>} \cup {r}

LEMMA UpsertNodeTyped ==
    ASSUME NEW db, NeoTyped(db), NEW r \in Inputs, r.kind \in NodeKinds
    PROVE  /\ NeoTyped(UpsertNode(db, r))
           /\ UpsertNode(db, r).edges = db.edges /\ UpsertNode(db, r).rows = db.rows
<1>1. r.ref \in Refs
  BY BackendsAssumption DEF NodeInput
<1>2. QED  BY <1>1 DEF NeoTyped, UpsertNode

LEMMA UpsertMembershipTyped ==
    ASSUME NEW db, NeoTyped(db), NEW r \in Inputs, r.kind = "membership"
    PROVE  /\ NeoTyped(UpsertMembership(db, r))
           /\ UpsertMembership(db, r).edges = db.edges /\ UpsertMembership(db, r).rows = db.rows
<1>1. r.program \in Refs /\ r.project \in Refs
  BY BackendsAssumption
<1>2. QED  BY <1>1 DEF NeoTyped, UpsertMembership, NodeKinds

LEMMA UpsertRowTyped ==
    ASSUME NEW db, NeoTyped(db), NEW r \in Inputs
    PROVE  /\ NeoTyped(UpsertRow(db, r))
           /\ UpsertRow(db, r).edges = db.edges /\ UpsertRow(db, r).rows = RowsWith(db.rows, r)
BY DEF NeoTyped, UpsertRow, RowsWith

LEMMA CreateRowTyped ==
    ASSUME NEW db, NeoTyped(db), NEW r \in Inputs
    PROVE  /\ NeoTyped(CreateRow(db, r))
           /\ CreateRow(db, r).edges = db.edges /\ CreateRow(db, r).rows = db.rows
BY DEF NeoTyped, CreateRow

LEMMA NeoWriteTyped ==
    ASSUME NEW db, NeoTyped(db), NEW r \in Inputs, r.kind # "relationship"
    PROVE  /\ NeoTyped(NeoWrite(db, r)) /\ NeoWrite(db, r).edges = db.edges
           /\ NeoWrite(db, r).rows = IF r.kind \in RowKinds THEN RowsWith(db.rows, r) ELSE db.rows
<1>1. r.kind \in NodeKinds \cup {"membership"} \cup RowKinds \cup LogKinds
  BY BackendsAssumption DEF Kinds, EdgeKinds
<1>2. CASE r.kind \in NodeKinds
  <2>1. NeoWrite(db, r) = UpsertNode(db, r) /\ r.kind \notin RowKinds
    BY <1>2 DEF NeoWrite, NodeKinds, RowKinds, LogKinds
  <2>2. QED  BY <1>2, <2>1, UpsertNodeTyped
<1>3. CASE r.kind = "membership"
  <2>1. NeoWrite(db, r) = UpsertMembership(db, r) /\ r.kind \notin RowKinds
    BY <1>3 DEF NeoWrite, NodeKinds, RowKinds, LogKinds
  <2>2. QED  BY <1>3, <2>1, UpsertMembershipTyped
<1>4. CASE r.kind \in RowKinds
  <2>1. NeoWrite(db, r) = UpsertRow(db, r)
    BY <1>4 DEF NeoWrite, NodeKinds, RowKinds, LogKinds
  <2>2. QED  BY <1>4, <2>1, UpsertRowTyped
<1>5. CASE r.kind \in LogKinds
  <2>1. NeoWrite(db, r) = CreateRow(db, r) /\ r.kind \notin RowKinds
    BY <1>5 DEF NeoWrite, NodeKinds, RowKinds, LogKinds
  <2>2. QED  BY <1>5, <2>1, CreateRowTyped
<1>6. QED  BY <1>1, <1>2, <1>3, <1>4, <1>5

LEMMA RelationshipsTyped ==
    ASSUME NEW db, NeoTyped(db), NEW r \in Inputs
    PROVE  /\ NeoTyped(DeleteRelationship(db, r)) /\ NeoTyped(MergeRelationship(db, r))
           /\ DeleteRelationship(db, r).edges = {e \in db.edges : e.ref # r.ref}
           /\ MergeRelationship(db, r).edges
                 = {e \in db.edges : <<e.ref, e.links>> # <<r.ref, r.links>>} \cup {r}
           /\ DeleteRelationship(db, r).rows = db.rows /\ MergeRelationship(db, r).rows = db.rows
BY DEF NeoTyped, DeleteRelationship, MergeRelationship

LEMMA UpsertEntityTyped ==
    ASSUME NEW array \in Seq(Inputs), NEW r \in Inputs
    PROVE  Graph!UpsertEntity(array, r) \in Seq(Inputs) /\ Memory!UpsertEntity(array, r) \in Seq(Inputs)
<1>1. Append(array, r) \in Seq(Inputs)
  OBVIOUS
<1>2. ASSUME NEW i
      PROVE  [array EXCEPT ![i] = r] \in Seq(Inputs)
  <2> DEFINE a == [array EXCEPT ![i] = r]
  <2>1. Len(array) \in Nat /\ DOMAIN array = 1 .. Len(array)
    OBVIOUS
  <2>2. a = [j \in 1 .. Len(array) |-> IF j = i THEN r ELSE array[j]]
    BY <2>1
  <2>3. \A j \in 1 .. Len(array) : (IF j = i THEN r ELSE array[j]) \in Inputs
    OBVIOUS
  <2>4. a \in [1 .. Len(array) -> Inputs]
    BY <2>2, <2>3, Zenon
  <2> HIDE DEF a
  <2>5. a \in Seq(Inputs)
    BY <2>1, <2>4
  <2>6. QED  BY <2>5 DEF a
<1>3. QED  BY <1>1, <1>2 DEF Graph!UpsertEntity, Memory!UpsertEntity

LEMMA GraphWriteTyped ==
    ASSUME NEW arrays \in [Kinds -> Seq(Inputs)], NEW r \in Inputs
    PROVE  /\ Graph!GraphWrite(arrays, r) \in [Kinds -> Seq(Inputs)]
           /\ r.kind # "event" => Graph!GraphWrite(arrays, r)["event"] = arrays["event"]
           /\ r.kind = "event" => Graph!GraphWrite(arrays, r)["event"] = Append(arrays["event"], r)
<1>1. r.kind \in Kinds /\ "event" \in Kinds
  BY BackendsAssumption DEF Kinds, RowKinds
<1>2. /\ Append(arrays[r.kind], r) \in Seq(Inputs)
      /\ Graph!UpsertEntity(arrays[r.kind], r) \in Seq(Inputs)
  BY <1>1, UpsertEntityTyped
<1>3. QED  BY <1>1, <1>2 DEF Graph!GraphWrite

LEMMA MemoryWriteTyped ==
    ASSUME NEW arrays \in [Kinds -> Seq(Inputs)], NEW r \in Inputs
    PROVE  Memory!MemoryWrite(arrays, r) \in [Kinds -> Seq(Inputs)]
<1>1. r.kind \in Kinds
  BY BackendsAssumption
<1>2. /\ Append(arrays[r.kind], r) \in Seq(Inputs)
      /\ Memory!UpsertEntity(arrays[r.kind], r) \in Seq(Inputs)
      /\ Memory!MemoryAppendEvent(arrays[r.kind], r) \in Seq(Inputs)
  BY <1>1, UpsertEntityTyped DEF Memory!MemoryAppendEvent
<1>3. QED  BY <1>1, <1>2 DEF Memory!MemoryWrite

LEMMA MemoryAddTyped ==
    ASSUME NEW arrays \in [Kinds -> Seq(Inputs)], NEW r \in Inputs
    PROVE  Memory!MemoryAddEvent(arrays, r) \in [Kinds -> Seq(Inputs)]
<1>1. "event" \in Kinds
  BY DEF Kinds, RowKinds
<1>2. Append(arrays["event"], r) \in Seq(Inputs)
  BY <1>1
<1>3. QED  BY <1>1, <1>2 DEF Memory!MemoryAddEvent

-----------------------------------------------------------------------------
(* Dependencies as they were last written.                                 *)

LastEdges(ref) == {r \in WrittenOf("relationship") : r.ref = ref /\ IsLast(r)}

LEMMA OthersWritten ==
    ASSUME written \in Seq(Inputs), NEW r \in Inputs, written' = Append(written, r),
           r.kind # "relationship"
    PROVE  /\ Registered("relationship")' = Registered("relationship")
           /\ \A ref : LastEdges(ref)' = LastEdges(ref)
<1> DEFINE n == Len(written) + 1
<1>1. /\ Len(written) \in Nat /\ DOMAIN written = 1 .. Len(written)
      /\ DOMAIN written' = 1 .. n /\ written'[n] = r
      /\ \A i \in 1 .. Len(written) : written'[i] = written[i]
  OBVIOUS
<1>2. WrittenOf("relationship")' = WrittenOf("relationship")
  BY <1>1 DEF WrittenOf, WrittenRecords
<1>3. ASSUME NEW x, x.kind = "relationship"
      PROVE  IsLast(x)' <=> IsLast(x)
  BY <1>1, <1>3 DEF IsLast
<1>4. QED  BY <1>2, <1>3 DEF Registered, LastEdges, WrittenOf

LEMMA RelationshipWritten ==
    ASSUME written \in Seq(Inputs), NEW r \in Inputs, written' = Append(written, r),
           r.kind = "relationship"
    PROVE  /\ Registered("relationship")' = Registered("relationship") \cup {r.ref}
           /\ LastEdges(r.ref)' = {r} /\ \A ref : ref # r.ref => LastEdges(ref)' = LastEdges(ref)
<1> DEFINE n == Len(written) + 1
<1>1. /\ Len(written) \in Nat /\ DOMAIN written = 1 .. Len(written)
      /\ DOMAIN written' = 1 .. n /\ written'[n] = r
      /\ \A i \in 1 .. Len(written) : written'[i] = written[i]
  OBVIOUS
<1>2. WrittenOf("relationship")' = WrittenOf("relationship") \cup {r}
  BY <1>1 DEF WrittenOf, WrittenRecords
<1>3. ASSUME NEW x, x.kind = "relationship", x.ref # r.ref
      PROVE  IsLast(x)' <=> IsLast(x)
  BY <1>1, <1>3 DEF IsLast
<1>4. IsLast(r)'
  BY <1>1 DEF IsLast
<1>5. ASSUME NEW x, x.kind = "relationship", x.ref = r.ref, IsLast(x)'
      PROVE  x = r
  <2>1. PICK i \in 1 .. n :
           /\ written'[i] = x
           /\ \A j \in 1 .. n : j > i => <<written'[j].kind, written'[j].ref>> # <<x.kind, x.ref>>
    BY <1>1, <1>5 DEF IsLast
  <2>2. i = n
    BY <1>1, <1>5, <2>1
  <2>3. QED  BY <1>1, <2>1, <2>2
<1>6. Registered("relationship")' = Registered("relationship") \cup {r.ref}
  BY <1>2 DEF Registered
<1>7. LastEdges(r.ref)' = {r}
  BY <1>2, <1>4, <1>5 DEF LastEdges, WrittenOf
<1>8. \A ref : ref # r.ref => LastEdges(ref)' = LastEdges(ref)
  BY <1>2, <1>3 DEF LastEdges, WrittenOf
<1>9. QED  BY <1>6, <1>7, <1>8

-----------------------------------------------------------------------------
(* What callers are in the middle of.                                      *)

Merging(d) == d.step = "merge" /\ d.record.kind = "relationship"
Putting(d) ==
    /\ d.step \in {"id", "put"} /\ d.into \subseteq {"neo", "graph"}
    /\ d.record.kind = "event" /\ d.record.body # Unset

LEMMA DoingsAre ==
    ASSUME NEW d \in Doings
    PROVE  d # Idle /\ d.record \in Inputs /\ (Merging(d) \/ Putting(d))
           /\ d = [record |-> d.record, step |-> d.step, into |-> d.into]
BY BackendsAssumption DEF Doings, Merging, Putting

LEMMA EventDoings ==
    ASSUME NEW r \in Inputs, r.kind = "event", r.body # Unset,
           NEW step \in {"id", "put"}, NEW into \in SUBSET {"neo", "graph"}
    PROVE  [record |-> r, step |-> step, into |-> into] \in Doings
BY DEF Doings

LEMMA RelationshipDoings ==
    ASSUME NEW r \in Inputs, r.kind = "relationship"
    PROVE  [record |-> r, step |-> "merge", into |-> {"neo"}] \in Doings
BY DEF Doings

LEMMA BusyAreDoing ==
    ASSUME TypeOK, NEW w \in Writers, doing[w] # Idle
    PROVE  doing[w] \in Doings
BY DEF TypeOK

LEMMA TypeIs ==
    TypeOK <=> /\ NeoTyped(neo) /\ graph \in [Kinds -> Seq(Inputs)] /\ memory \in [Kinds -> Seq(Inputs)]
               /\ doing \in [Writers -> Doings \cup {Idle}]
               /\ begun \in 0 .. MaxWrites /\ written \in Seq(Inputs)
BY DEF TypeOK, NeoTyped

LEMMA TypeNextIs ==
    TypeOK' <=> /\ NeoTyped(neo') /\ graph' \in [Kinds -> Seq(Inputs)]
                /\ memory' \in [Kinds -> Seq(Inputs)]
                /\ doing' \in [Writers -> Doings \cup {Idle}]
                /\ begun' \in 0 .. MaxWrites /\ written' \in Seq(Inputs)
BY DEF TypeOK, NeoTyped

LEMMA BeginType ==
    ASSUME TypeOK, Begin
    PROVE  begun' \in 0 .. MaxWrites
BY BackendsAssumption DEF TypeOK, Begin

LEMMA UpsertType ==
    ASSUME TypeOK, NEW r \in Inputs, Upsert(r)
    PROVE  TypeOK'
<1>1. NeoTyped(neo') /\ graph' \in [Kinds -> Seq(Inputs)] /\ memory' \in [Kinds -> Seq(Inputs)]
  BY NeoWriteTyped, GraphWriteTyped, MemoryWriteTyped, MemoryAddTyped, TypeIs DEF Upsert
<1>2. written' \in Seq(Inputs) /\ doing' \in [Writers -> Doings \cup {Idle}]
  BY TypeIs DEF Upsert
<1>3. begun' \in 0 .. MaxWrites
  BY BeginType DEF Upsert
<1>4. QED  BY <1>1, <1>2, <1>3, TypeNextIs

LEMMA BeginRelationshipType ==
    ASSUME TypeOK, NEW w \in Writers, NEW r \in Inputs, BeginRelationship(w, r)
    PROVE  TypeOK'
<1>1. NeoTyped(neo') /\ graph' \in [Kinds -> Seq(Inputs)] /\ memory' \in [Kinds -> Seq(Inputs)]
      /\ written' \in Seq(Inputs)
  BY RelationshipsTyped, TypeIs DEF BeginRelationship
<1>2. [record |-> r, step |-> "merge", into |-> {"neo"}] \in Doings
  BY RelationshipDoings DEF BeginRelationship
<1>3. doing' \in [Writers -> Doings \cup {Idle}]
  BY <1>2, TypeIs DEF BeginRelationship
<1>4. begun' \in 0 .. MaxWrites
  BY BeginType DEF BeginRelationship
<1>5. QED  BY <1>1, <1>3, <1>4, TypeNextIs

LEMMA EndRelationshipType ==
    ASSUME TypeOK, NEW w \in Writers, EndRelationship(w)
    PROVE  TypeOK'
<1>1. doing[w].record \in Inputs
  BY BusyAreDoing, DoingsAre DEF EndRelationship
<1>2. NeoTyped(neo') /\ graph' \in [Kinds -> Seq(Inputs)] /\ memory' \in [Kinds -> Seq(Inputs)]
  BY <1>1, RelationshipsTyped, GraphWriteTyped, MemoryWriteTyped, TypeIs DEF EndRelationship
<1>3. /\ written' \in Seq(Inputs) /\ doing' \in [Writers -> Doings \cup {Idle}]
      /\ begun' \in 0 .. MaxWrites
  BY <1>1, TypeIs DEF EndRelationship
<1>4. QED  BY <1>2, <1>3, TypeNextIs

LEMMA LookUpKeyType ==
    ASSUME TypeOK, NEW w \in Writers, NEW r \in Inputs, LookUpKey(w, r)
    PROVE  TypeOK'
<1> DEFINE into == {s \in {"neo", "graph"} :
                      Repository!GetEventByIdempotencyKey(EventsOf(s), r.body) = {}}
<1>1. into \in SUBSET {"neo", "graph"}
  OBVIOUS
<1> HIDE DEF into
<1>2. [record |-> r, step |-> "id", into |-> into] \in Doings
  BY <1>1, EventDoings DEF LookUpKey
<1>3. doing' = [doing EXCEPT ![w] = [record |-> r, step |-> "id", into |-> into]]
  BY DEF LookUpKey, into
<1>4. doing' \in [Writers -> Doings \cup {Idle}]
  BY <1>2, <1>3, TypeIs
<1>5. begun' \in 0 .. MaxWrites
  BY BeginType DEF LookUpKey
<1>6. NeoTyped(neo') /\ graph' \in [Kinds -> Seq(Inputs)] /\ memory' \in [Kinds -> Seq(Inputs)]
      /\ written' \in Seq(Inputs)
  BY TypeIs DEF LookUpKey
<1>7. QED  BY <1>4, <1>5, <1>6, TypeNextIs

(* Looking for the id leaves the record and narrows where it is put.       *)
LEMMA LookUpIdDoing ==
    ASSUME TypeOK, NEW w \in Writers, LookUpId(w)
    PROVE  /\ doing[w] \in Doings /\ doing'[w] \in Doings /\ DOMAIN doing' = Writers
           /\ doing'[w].record = doing[w].record /\ doing'[w].into \subseteq doing[w].into
           /\ \A v \in Writers : v # w => doing'[v] = doing[v]
<1> DEFINE d == doing[w]
           into == {s \in d.into : \A e \in EventsOf(s) : e.ref # d.record.ref}
<1>1. d \in Doings /\ d.step = "id"
  BY BusyAreDoing DEF LookUpId
<1>2. Putting(d) /\ d.record \in Inputs /\ d = [record |-> d.record, step |-> d.step, into |-> d.into]
  BY <1>1, DoingsAre DEF Merging
<1>3. into \subseteq d.into /\ into \in SUBSET {"neo", "graph"}
  BY <1>2 DEF Putting
<1>4. DOMAIN d = {"record", "step", "into"}
  BY <1>2
<1>5. doing'[w] = [record |-> d.record, step |-> "put", into |-> into]
  BY <1>2, <1>4 DEF LookUpId, TypeOK
<1>6. DOMAIN doing' = Writers /\ \A v \in Writers : v # w => doing'[v] = doing[v]
  BY DEF LookUpId, TypeOK
<1> HIDE DEF into
<1>7. [record |-> d.record, step |-> "put", into |-> into] \in Doings
  BY <1>2, <1>3, EventDoings DEF Putting
<1>8. QED  BY <1>1, <1>3, <1>5, <1>6, <1>7

LEMMA LookUpIdType ==
    ASSUME TypeOK, NEW w \in Writers, LookUpId(w)
    PROVE  TypeOK'
<1>1. doing' \in [Writers -> Doings \cup {Idle}]
  <2>1. \A v \in Writers : doing'[v] \in Doings \cup {Idle}
    BY LookUpIdDoing, TypeIs
  <2>2. doing' = [v \in Writers |-> doing'[v]]
    BY TypeIs DEF LookUpId
  <2>3. QED  BY <2>1, <2>2
<1>2. QED  BY <1>1, TypeIs, TypeNextIs DEF LookUpId

LEMMA PutEventType ==
    ASSUME TypeOK, NEW w \in Writers, PutEvent(w)
    PROVE  TypeOK'
<1>1. doing[w].record \in Inputs /\ doing[w].record.kind = "event"
  BY BusyAreDoing, DoingsAre DEF PutEvent, Merging, Putting
<1>2. NeoTyped(neo') /\ graph' \in [Kinds -> Seq(Inputs)] /\ memory' \in [Kinds -> Seq(Inputs)]
  BY <1>1, NeoWriteTyped, GraphWriteTyped, MemoryWriteTyped, TypeIs DEF PutEvent
<1>3. /\ written' \in Seq(Inputs) /\ doing' \in [Writers -> Doings \cup {Idle}]
      /\ begun' \in 0 .. MaxWrites
  BY <1>1, TypeIs DEF PutEvent
<1>4. QED  BY <1>2, <1>3, TypeNextIs

LEMMA StopType ==
    ASSUME TypeOK, NEW w \in Writers, Stop(w)
    PROVE  TypeOK'
BY TypeIs, TypeNextIs DEF Stop

-----------------------------------------------------------------------------
(* What a write that begins makes unsettled, and leaves so.                *)

LEMMA Unsettled ==
    ASSUME NEW w \in Writers, NEW r \in Inputs, Unsettle(w, r)
    PROVE  /\ \A k : <<"key", k>> \in unsettled => <<"key", k>> \in unsettled'
           /\ \A ref : (<<"relationship", ref>> \in unsettled
                          /\ <<"relationship", ref>> \notin Subject(r))
                      => <<"relationship", ref>> \in unsettled'
           /\ \A v \in Writers : v # w /\ doing[v] # Idle =>
                 /\ Subject(doing[v].record) \cap Subject(r) \subseteq unsettled'
                 /\ Subject(doing[v].record) \cap unsettled \subseteq unsettled'
<1>1. CASE Meets(w, r)
  <2>1. unsettled' = unsettled \cup Subject(r)
    BY <1>1 DEF Unsettle
  <2>2. QED  BY <2>1
<1>2. CASE ~Meets(w, r)
  <2>1. \A v \in Writers : v # w /\ doing[v] # Idle => Subject(doing[v].record) \cap Subject(r) = {}
    BY <1>2 DEF Meets
  <2>2. unsettled' = IF r.kind = "relationship" THEN unsettled \ Subject(r) ELSE unsettled
    BY <1>2 DEF Unsettle
  <2>3. r.kind = "relationship" => Subject(r) = {<<"relationship", r.ref>>}
    BY DEF Subject
  <2>4. QED  BY <2>1, <2>2, <2>3
<1>3. QED  BY <1>1, <1>2

LEMMA Subjects ==
    ASSUME NEW r
    PROVE  /\ r.kind = "relationship" => Subject(r) = {<<"relationship", r.ref>>}
           /\ r.kind = "event" => /\ <<"key", r.body>> \in Subject(r)
                                 /\ \A ref : <<"relationship", ref>> \notin Subject(r)
BY DEF Subject

LEMMA BegunOverlaps ==
    ASSUME OverlapsAreUnsettled, NEW w \in Writers, NEW r \in Inputs, Unsettle(w, r),
           doing'[w].record = r, \A v \in Writers : v # w => doing'[v] = doing[v]
    PROVE  OverlapsAreUnsettled'
<1> SUFFICES ASSUME NEW u \in Writers, NEW v \in Writers, u # v,
                    doing'[u] # Idle, doing'[v] # Idle
             PROVE  Subject(doing'[u].record) \cap Subject(doing'[v].record) \subseteq unsettled'
  BY DEF OverlapsAreUnsettled, Subject
<1>1. CASE u = w
  BY <1>1, Unsettled
<1>2. CASE v = w
  BY <1>2, Unsettled
<1>3. CASE u # w /\ v # w
  <2>1. Subject(doing[u].record) \cap Subject(doing[v].record) \subseteq unsettled
    BY <1>3 DEF OverlapsAreUnsettled
  <2>2. Subject(doing[u].record) \cap unsettled \subseteq unsettled'
    BY <1>3, Unsettled
  <2>3. QED  BY <1>3, <2>1, <2>2
<1>4. QED  BY <1>1, <1>2, <1>3

-----------------------------------------------------------------------------
(* Which events there are after a step.                                    *)

LEMMA SameEvents ==
    ASSUME neo'.rows = neo.rows, graph'["event"] = graph["event"]
    PROVE  \A s : EventsOf(s)' = EventsOf(s)
BY DEF EventsOf, NeoEvents, Graph!GraphEvents

LEMMA EventsWith ==
    ASSUME TypeOK, NEW r \in Inputs, r.kind # "relationship"
    PROVE  /\ neo' = NeoWrite(neo, r) => EventsOf("neo")' \subseteq EventsOf("neo") \cup {r}
           /\ graph' = Graph!GraphWrite(graph, r) =>
                 EventsOf("graph")' \subseteq EventsOf("graph") \cup {r}
           /\ r.kind # "event" =>
                 /\ neo' = NeoWrite(neo, r) => EventsOf("neo")' = EventsOf("neo")
                 /\ graph' = Graph!GraphWrite(graph, r) => EventsOf("graph")' = EventsOf("graph")
<1>1. ASSUME neo' = NeoWrite(neo, r)
      PROVE  /\ EventsOf("neo")' \subseteq EventsOf("neo") \cup {r}
             /\ r.kind # "event" => EventsOf("neo")' = EventsOf("neo")
  <2>1. neo'.rows = IF r.kind \in RowKinds THEN RowsWith(neo.rows, r) ELSE neo.rows
    BY <1>1, TypeIs, NeoWriteTyped
  <2>2. QED  BY <2>1 DEF EventsOf, NeoEvents, RowsWith
<1>2. ASSUME graph' = Graph!GraphWrite(graph, r)
      PROVE  /\ EventsOf("graph")' \subseteq EventsOf("graph") \cup {r}
             /\ r.kind # "event" => EventsOf("graph")' = EventsOf("graph")
  <2>1. /\ r.kind # "event" => graph'["event"] = graph["event"]
        /\ r.kind = "event" => graph'["event"] = Append(graph["event"], r)
    BY <1>2, TypeIs, GraphWriteTyped
  <2>2. graph["event"] \in Seq(Inputs)
    BY TypeIs DEF Kinds, RowKinds
  <2>3. Memory!ToSet(Append(graph["event"], r)) \subseteq Memory!ToSet(graph["event"]) \cup {r}
    BY <2>2 DEF Memory!ToSet
  <2>4. QED  BY <2>1, <2>3 DEF EventsOf, Graph!GraphEvents
<1>3. QED  BY <1>1, <1>2

-----------------------------------------------------------------------------
(* The steps keep the invariant.                                           *)

IInv ==
    TypeOK /\ OverlapsAreUnsettled /\ FoundStillHolds /\ DependencyListedOnce /\ EventOncePerKey

Steady == UNCHANGED <<neo, graph, memory, written>>

LEMMA DependenciesAre ==
    DependencyListedOnce <=>
        \A ref \in Registered("relationship") :
            \/ <<"relationship", ref>> \in unsettled
            \/ \E w \in Writers :
                  doing[w] # Idle /\ <<"relationship", ref>> \in Subject(doing[w].record)
            \/ {e \in neo.edges : e.ref = ref} = LastEdges(ref)
BY DEF DependencyListedOnce, LastEdges, Latest

LEMMA DependenciesNextAre ==
    DependencyListedOnce' <=>
        \A ref \in Registered("relationship")' :
            \/ <<"relationship", ref>> \in unsettled'
            \/ \E w \in Writers :
                  doing'[w] # Idle /\ <<"relationship", ref>> \in Subject(doing'[w].record)
            \/ {e \in neo'.edges : e.ref = ref} = LastEdges(ref)'
BY DEF DependencyListedOnce, LastEdges, Latest, Subject

LEMMA KeysNextAre ==
    EventOncePerKey' <=>
        \A s \in {"neo", "graph"} : \A e, o \in EventsOf(s)' :
            (e.body # Unset /\ e.body = o.body /\ <<"key", e.body>> \notin unsettled') => e = o
BY DEF EventOncePerKey

LEMMA FoundNextIs ==
    FoundStillHolds' <=>
        \A w \in Writers : doing'[w] # Idle =>
            /\ (doing'[w].record.kind = "relationship"
                   /\ <<"relationship", doing'[w].record.ref>> \notin unsettled') =>
                  \A e \in neo'.edges : e.ref # doing'[w].record.ref
            /\ (doing'[w].record.kind = "event"
                   /\ <<"key", doing'[w].record.body>> \notin unsettled') =>
                  \A s \in doing'[w].into : \A e \in EventsOf(s)' : e.body # doing'[w].record.body
BY DEF FoundStillHolds

LEMMA SameWritten ==
    ASSUME written' = written
    PROVE  /\ Registered("relationship")' = Registered("relationship")
           /\ \A ref : LastEdges(ref)' = LastEdges(ref)
BY DEF Registered, LastEdges, WrittenOf, WrittenRecords, IsLast

(* Nothing that callers have found, and no dependency, is disturbed by a   *)
(* step that leaves edges, what is unsettled and other callers alone, and  *)
(* writes no dependency.                                                   *)
LEMMA QuietDependencies ==
    ASSUME DependencyListedOnce, neo'.edges = neo.edges, unsettled \subseteq unsettled',
           Registered("relationship")' = Registered("relationship"),
           \A ref : LastEdges(ref)' = LastEdges(ref),
           \A v \in Writers : \A ref :
              (doing[v] # Idle /\ <<"relationship", ref>> \in Subject(doing[v].record))
                 => \/ <<"relationship", ref>> \in unsettled'
                    \/ (doing'[v] # Idle /\ <<"relationship", ref>> \in Subject(doing'[v].record))
    PROVE  DependencyListedOnce'
BY DependenciesAre, DependenciesNextAre

LEMMA UpsertKeeps ==
    ASSUME IInv, NEW r \in Inputs, Upsert(r)
    PROVE  IInv'
<1>1. TypeOK /\ OverlapsAreUnsettled /\ FoundStillHolds /\ DependencyListedOnce /\ EventOncePerKey
  BY DEF IInv
<1>2. r.kind # "relationship" /\ (r.kind = "event" => r.body = Unset)
      /\ UNCHANGED <<doing, unsettled>>
  BY DEF Upsert
<1>3. neo'.edges = neo.edges
  BY <1>1, TypeIs, NeoWriteTyped DEF Upsert
<1>4. \A s \in {"neo", "graph"} : \A e \in EventsOf(s)' : e.body # Unset => e \in EventsOf(s)
  <2>1. /\ EventsOf("neo")' \subseteq EventsOf("neo") \cup {r}
        /\ EventsOf("graph")' \subseteq EventsOf("graph") \cup {r}
        /\ r.kind # "event" => /\ EventsOf("neo")' = EventsOf("neo")
                              /\ EventsOf("graph")' = EventsOf("graph")
    BY <1>1, <1>2, EventsWith DEF Upsert
  <2>2. QED  BY <1>2, <2>1
<1>5. OverlapsAreUnsettled'
  BY <1>1, <1>2 DEF OverlapsAreUnsettled, Subject
<1>6. FoundStillHolds'
  <2>1. SUFFICES ASSUME NEW w \in Writers, doing[w] # Idle
                 PROVE  /\ (doing[w].record.kind = "relationship"
                              /\ <<"relationship", doing[w].record.ref>> \notin unsettled) =>
                             \A e \in neo'.edges : e.ref # doing[w].record.ref
                        /\ (doing[w].record.kind = "event"
                              /\ <<"key", doing[w].record.body>> \notin unsettled) =>
                             \A s \in doing[w].into :
                                \A e \in EventsOf(s)' : e.body # doing[w].record.body
    BY <1>2, FoundNextIs
  <2>2. Merging(doing[w]) \/ Putting(doing[w])
    BY <1>1, <2>1, BusyAreDoing, DoingsAre
  <2>3. QED  BY <1>1, <1>3, <1>4, <2>1, <2>2 DEF FoundStillHolds, Merging, Putting
<1>7. DependencyListedOnce'
  <2>1. /\ Registered("relationship")' = Registered("relationship")
        /\ \A ref : LastEdges(ref)' = LastEdges(ref)
    BY <1>1, <1>2, TypeIs, OthersWritten DEF Upsert
  <2>2. QED  BY <1>1, <1>2, <1>3, <2>1, QuietDependencies
<1>8. EventOncePerKey'
  BY <1>1, <1>2, <1>4, KeysNextAre DEF EventOncePerKey
<1>9. QED  BY <1>1, <1>5, <1>6, <1>7, <1>8, UpsertType DEF IInv

LEMMA BeginRelationshipKeeps ==
    ASSUME IInv, NEW w \in Writers, NEW r \in Inputs, BeginRelationship(w, r)
    PROVE  IInv'
<1>1. TypeOK /\ OverlapsAreUnsettled /\ FoundStillHolds /\ DependencyListedOnce /\ EventOncePerKey
  BY DEF IInv
<1>2. /\ r.kind = "relationship" /\ doing[w] = Idle /\ Unsettle(w, r)
      /\ doing'[w].record = r /\ doing'[w] # Idle
      /\ \A v \in Writers : v # w => doing'[v] = doing[v]
  <2>1. [record |-> r, step |-> "merge", into |-> {"neo"}] \in Doings
    BY RelationshipDoings DEF BeginRelationship
  <2>2. doing'[w] = [record |-> r, step |-> "merge", into |-> {"neo"}]
    BY <1>1 DEF BeginRelationship, TypeOK
  <2>3. QED  BY <1>1, <2>1, <2>2, DoingsAre DEF BeginRelationship, TypeOK
<1>3. /\ neo'.edges = {e \in neo.edges : e.ref # r.ref}
      /\ \A s : EventsOf(s)' = EventsOf(s)
  <2>1. neo'.edges = {e \in neo.edges : e.ref # r.ref} /\ neo'.rows = neo.rows
    BY <1>1, TypeIs, RelationshipsTyped DEF BeginRelationship
  <2>2. graph' = graph
    BY DEF BeginRelationship
  <2>3. QED  BY <2>1, <2>2, SameEvents
<1>4. /\ Registered("relationship")' = Registered("relationship")
      /\ \A ref : LastEdges(ref)' = LastEdges(ref)
  BY SameWritten DEF BeginRelationship
<1>5. OverlapsAreUnsettled'
  BY <1>1, <1>2, BegunOverlaps
<1>6. FoundStillHolds'
  <2>1. SUFFICES ASSUME NEW v \in Writers, doing'[v] # Idle
                 PROVE  /\ (doing'[v].record.kind = "relationship"
                              /\ <<"relationship", doing'[v].record.ref>> \notin unsettled') =>
                             \A e \in neo'.edges : e.ref # doing'[v].record.ref
                        /\ (doing'[v].record.kind = "event"
                              /\ <<"key", doing'[v].record.body>> \notin unsettled') =>
                             \A s \in doing'[v].into :
                                \A e \in EventsOf(s)' : e.body # doing'[v].record.body
    BY FoundNextIs
  <2>2. CASE v = w
    BY <1>2, <1>3, <2>2
  <2>3. CASE v # w
    <3>1. doing'[v] = doing[v]
      BY <1>2, <2>3
    <3>2. Subject(doing[v].record) \cap unsettled \subseteq unsettled'
      BY <1>2, <2>1, <2>3, <3>1, Unsettled
    <3>3. QED  BY <1>1, <1>3, <2>1, <3>1, <3>2, Subjects DEF FoundStillHolds
  <2>4. QED  BY <2>2, <2>3
<1>7. DependencyListedOnce'
  <2>1. SUFFICES ASSUME NEW ref \in Registered("relationship")
                 PROVE  \/ <<"relationship", ref>> \in unsettled'
                        \/ \E v \in Writers : doing'[v] # Idle
                              /\ <<"relationship", ref>> \in Subject(doing'[v].record)
                        \/ {e \in neo'.edges : e.ref = ref} = LastEdges(ref)'
    BY <1>4, DependenciesNextAre
  <2>2. CASE ref = r.ref
    BY <1>2, <2>2, Subjects
  <2>3. CASE ref # r.ref
    <3>1. <<"relationship", ref>> \notin Subject(r)
      <4>1. Subject(r) = {<<"relationship", r.ref>>}
        BY <1>2, Subjects
      <4>2. <<"relationship", ref>> # <<"relationship", r.ref>>
        BY <2>3
      <4>3. QED  BY <4>1, <4>2
    <3>2. <<"relationship", ref>> \in unsettled => <<"relationship", ref>> \in unsettled'
      BY <1>2, <3>1, Unsettled
    <3>3. {e \in neo'.edges : e.ref = ref} = {e \in neo.edges : e.ref = ref}
      BY <1>3, <2>3
    <3>4. QED  BY <1>1, <1>2, <1>4, <3>2, <3>3, DependenciesAre
  <2>4. QED  BY <2>2, <2>3
<1>8. EventOncePerKey'
  <2>1. \A k : <<"key", k>> \in unsettled => <<"key", k>> \in unsettled'
    BY <1>2, Unsettled
  <2>2. QED  BY <1>1, <1>3, <2>1, KeysNextAre DEF EventOncePerKey
<1>9. QED  BY <1>1, <1>5, <1>6, <1>7, <1>8, BeginRelationshipType DEF IInv

LEMMA EndRelationshipKeeps ==
    ASSUME IInv, NEW w \in Writers, EndRelationship(w)
    PROVE  IInv'
<1>1. TypeOK /\ OverlapsAreUnsettled /\ FoundStillHolds /\ DependencyListedOnce /\ EventOncePerKey
  BY DEF IInv
<1>r. PICK r \in Inputs : r = doing[w].record
  BY <1>1, BusyAreDoing, DoingsAre DEF EndRelationship
<1>2. /\ doing[w] # Idle /\ r \in Inputs /\ r.kind = "relationship" /\ unsettled' = unsettled
      /\ doing'[w] = Idle /\ \A v \in Writers : v # w => doing'[v] = doing[v]
  <2>1. doing[w] # Idle /\ doing[w].step = "merge"
    BY DEF EndRelationship
  <2>2. r \in Inputs /\ (Merging(doing[w]) \/ Putting(doing[w]))
    BY <1>1, <2>1, BusyAreDoing, DoingsAre
  <2>3. r.kind = "relationship"
    BY <1>r, <2>1, <2>2 DEF Merging, Putting
  <2>4. QED  BY <1>1, <2>1, <2>2, <2>3 DEF EndRelationship, TypeOK
<1>3. /\ neo'.edges = {e \in neo.edges : <<e.ref, e.links>> # <<r.ref, r.links>>} \cup {r}
      /\ \A s : EventsOf(s)' = EventsOf(s)
  <2>1. /\ neo'.edges = {e \in neo.edges : <<e.ref, e.links>> # <<r.ref, r.links>>} \cup {r}
        /\ neo'.rows = neo.rows
    BY <1>r, <1>1, <1>2, TypeIs, RelationshipsTyped DEF EndRelationship
  <2>2. graph'["event"] = graph["event"]
    BY <1>r, <1>1, <1>2, TypeIs, GraphWriteTyped DEF EndRelationship
  <2>3. QED  BY <2>1, <2>2, SameEvents
<1>4. /\ Registered("relationship")' = Registered("relationship") \cup {r.ref}
      /\ LastEdges(r.ref)' = {r} /\ \A ref : ref # r.ref => LastEdges(ref)' = LastEdges(ref)
  <2>1. written' = Append(written, r)
    BY <1>r DEF EndRelationship
  <2>2. written \in Seq(Inputs)
    BY <1>1, TypeIs
  <2>3. QED  BY <1>2, <2>1, <2>2, RelationshipWritten
<1>5. Subject(r) = {<<"relationship", r.ref>>}
  BY <1>2, Subjects
<1>6. OverlapsAreUnsettled'
  BY <1>1, <1>2 DEF OverlapsAreUnsettled, Subject
<1>7. FoundStillHolds'
  <2>1. SUFFICES ASSUME NEW v \in Writers, doing'[v] # Idle
                 PROVE  /\ (doing'[v].record.kind = "relationship"
                              /\ <<"relationship", doing'[v].record.ref>> \notin unsettled') =>
                             \A e \in neo'.edges : e.ref # doing'[v].record.ref
                        /\ (doing'[v].record.kind = "event"
                              /\ <<"key", doing'[v].record.body>> \notin unsettled') =>
                             \A s \in doing'[v].into :
                                \A e \in EventsOf(s)' : e.body # doing'[v].record.body
    BY FoundNextIs
  <2>2. v # w /\ doing'[v] = doing[v] /\ doing[v] # Idle
    BY <1>2, <2>1
  <2>3. ASSUME doing[v].record.kind = "relationship", doing[v].record.ref = r.ref
        PROVE  <<"relationship", r.ref>> \in unsettled
    <3>1. Subject(doing[v].record) \cap Subject(r) \subseteq unsettled
      BY <1>1, <1>2, <2>2, <1>r DEF OverlapsAreUnsettled
    <3>2. Subject(doing[v].record) = {<<"relationship", r.ref>>}
      BY <2>3, Subjects
    <3>3. QED  BY <1>5, <3>1, <3>2
  <2>4. ASSUME doing[v].record.kind = "relationship",
               <<"relationship", doing[v].record.ref>> \notin unsettled,
               NEW e \in neo'.edges
        PROVE  e.ref # doing[v].record.ref
    <3>1. \A o \in neo.edges : o.ref # doing[v].record.ref
      BY <1>1, <2>2, <2>4 DEF FoundStillHolds
    <3>2. r.ref # doing[v].record.ref
      BY <2>3, <2>4
    <3>3. QED  BY <1>3, <2>4, <3>1, <3>2
  <2>5. QED  BY <1>1, <1>2, <1>3, <2>2, <2>4 DEF FoundStillHolds
<1>8. DependencyListedOnce'
  <2>1. SUFFICES ASSUME NEW ref \in Registered("relationship")'
                 PROVE  \/ <<"relationship", ref>> \in unsettled'
                        \/ \E v \in Writers : doing'[v] # Idle
                              /\ <<"relationship", ref>> \in Subject(doing'[v].record)
                        \/ {e \in neo'.edges : e.ref = ref} = LastEdges(ref)'
    BY DependenciesNextAre
  <2>2. CASE ref = r.ref
    <3>1. CASE <<"relationship", ref>> \notin unsettled
      <4>1. \A e \in neo.edges : e.ref # r.ref
        BY <1>1, <1>2, <2>2, <3>1, <1>r DEF FoundStillHolds
      <4>2. {e \in neo'.edges : e.ref = ref} = {r}
        BY <1>3, <2>2, <4>1
      <4>3. QED  BY <1>4, <2>2, <4>2
    <3>2. QED  BY <1>2, <3>1
  <2>3. CASE ref # r.ref
    <3>1. {e \in neo'.edges : e.ref = ref} = {e \in neo.edges : e.ref = ref}
      BY <1>3, <2>3
    <3>2. <<"relationship", ref>> # <<"relationship", r.ref>>
      BY <2>3
    <3>3. <<"relationship", ref>> \notin Subject(doing[w].record)
      BY <1>r, <1>5, <3>2
    <3>4. ref \in Registered("relationship") /\ LastEdges(ref)' = LastEdges(ref)
      BY <1>4, <2>3
    <3>5. CASE <<"relationship", ref>> \in unsettled
      BY <1>2, <3>5
    <3>6. ASSUME NEW v \in Writers, doing[v] # Idle,
                 <<"relationship", ref>> \in Subject(doing[v].record)
          PROVE  v # w /\ doing'[v] = doing[v]
      BY <1>2, <3>3, <3>6
    <3>7. CASE {e \in neo.edges : e.ref = ref} = LastEdges(ref)
      BY <3>1, <3>4, <3>7
    <3>8. QED  BY <1>1, <3>4, <3>5, <3>6, <3>7, DependenciesAre
  <2>4. QED  BY <2>2, <2>3
<1>9. EventOncePerKey'
  BY <1>1, <1>2, <1>3, KeysNextAre DEF EventOncePerKey
<1>10. QED  BY <1>1, <1>6, <1>7, <1>8, <1>9, EndRelationshipType DEF IInv

LEMMA LookUpKeyKeeps ==
    ASSUME IInv, NEW w \in Writers, NEW r \in Inputs, LookUpKey(w, r)
    PROVE  IInv'
<1> DEFINE into == {s \in {"neo", "graph"} :
                      Repository!GetEventByIdempotencyKey(EventsOf(s), r.body) = {}}
<1>1. TypeOK /\ OverlapsAreUnsettled /\ FoundStillHolds /\ DependencyListedOnce /\ EventOncePerKey
  BY DEF IInv
<1>2. \A s \in into : \A e \in EventsOf(s) : e.body # r.body
  BY DEF Repository!GetEventByIdempotencyKey
<1>3. doing' = [doing EXCEPT ![w] = [record |-> r, step |-> "id", into |-> into]]
  BY DEF LookUpKey
<1> HIDE DEF into
<1>4. /\ r.kind = "event" /\ doing[w] = Idle /\ Unsettle(w, r) /\ Steady
      /\ doing'[w].record = r /\ doing'[w].into = into
      /\ \A v \in Writers : v # w => doing'[v] = doing[v]
  BY <1>1, <1>3 DEF LookUpKey, TypeOK, Steady
<1>5. /\ neo'.edges = neo.edges /\ \A s : EventsOf(s)' = EventsOf(s)
      /\ Registered("relationship")' = Registered("relationship")
      /\ \A ref : LastEdges(ref)' = LastEdges(ref)
  BY <1>4, SameEvents, SameWritten DEF Steady
<1>6. OverlapsAreUnsettled'
  BY <1>1, <1>4, BegunOverlaps
<1>7. FoundStillHolds'
  <2>1. SUFFICES ASSUME NEW v \in Writers, doing'[v] # Idle
                 PROVE  /\ (doing'[v].record.kind = "relationship"
                              /\ <<"relationship", doing'[v].record.ref>> \notin unsettled') =>
                             \A e \in neo'.edges : e.ref # doing'[v].record.ref
                        /\ (doing'[v].record.kind = "event"
                              /\ <<"key", doing'[v].record.body>> \notin unsettled') =>
                             \A s \in doing'[v].into :
                                \A e \in EventsOf(s)' : e.body # doing'[v].record.body
    BY FoundNextIs
  <2>2. CASE v = w
    BY <1>2, <1>4, <1>5, <2>2
  <2>3. CASE v # w
    <3>1. doing'[v] = doing[v]
      BY <1>4, <2>3
    <3>2. Subject(doing[v].record) \cap unsettled \subseteq unsettled'
      BY <1>4, <2>1, <2>3, <3>1, Unsettled
    <3>3. QED  BY <1>1, <1>5, <2>1, <3>1, <3>2, Subjects DEF FoundStillHolds
  <2>4. QED  BY <2>2, <2>3
<1>8. DependencyListedOnce'
  <2>1. \A ref : <<"relationship", ref>> \in unsettled => <<"relationship", ref>> \in unsettled'
    BY <1>4, Unsettled, Subjects
  <2>2. QED  BY <1>1, <1>4, <1>5, <2>1, DependenciesAre, DependenciesNextAre
<1>9. EventOncePerKey'
  <2>1. \A k : <<"key", k>> \in unsettled => <<"key", k>> \in unsettled'
    BY <1>4, Unsettled
  <2>2. QED  BY <1>1, <1>5, <2>1, KeysNextAre DEF EventOncePerKey
<1>10. QED  BY <1>1, <1>6, <1>7, <1>8, <1>9, LookUpKeyType DEF IInv

LEMMA LookUpIdKeeps ==
    ASSUME IInv, NEW w \in Writers, LookUpId(w)
    PROVE  IInv'
<1>1. TypeOK /\ OverlapsAreUnsettled /\ FoundStillHolds /\ DependencyListedOnce /\ EventOncePerKey
  BY DEF IInv
<1>2. Steady /\ unsettled' = unsettled
  BY DEF LookUpId, Steady
<1>3. ASSUME NEW v \in Writers
      PROVE  /\ (doing'[v] # Idle) <=> (doing[v] # Idle)
             /\ doing'[v].record = doing[v].record /\ doing'[v].into \subseteq doing[v].into
  <2>1. CASE v = w
    BY <1>1, <2>1, LookUpIdDoing, DoingsAre
  <2>2. CASE v # w
    BY <1>1, <2>2, LookUpIdDoing
  <2>3. QED  BY <2>1, <2>2
<1>4. /\ neo'.edges = neo.edges /\ \A s : EventsOf(s)' = EventsOf(s)
      /\ Registered("relationship")' = Registered("relationship")
      /\ \A ref : LastEdges(ref)' = LastEdges(ref)
  BY <1>2, SameEvents, SameWritten DEF Steady
<1>5. OverlapsAreUnsettled'
  <2>1. SUFFICES ASSUME NEW u \in Writers, NEW v \in Writers, u # v,
                        doing'[u] # Idle, doing'[v] # Idle
                 PROVE  Subject(doing'[u].record) \cap Subject(doing'[v].record) \subseteq unsettled'
    BY DEF OverlapsAreUnsettled, Subject
  <2>2. /\ doing'[u].record = doing[u].record /\ doing[u] # Idle
        /\ doing'[v].record = doing[v].record /\ doing[v] # Idle
    BY <1>3, <2>1
  <2>3. QED  BY <1>1, <1>2, <2>1, <2>2 DEF OverlapsAreUnsettled
<1>6. FoundStillHolds'
  <2>1. SUFFICES ASSUME NEW v \in Writers, doing'[v] # Idle
                 PROVE  /\ (doing'[v].record.kind = "relationship"
                              /\ <<"relationship", doing'[v].record.ref>> \notin unsettled') =>
                             \A e \in neo'.edges : e.ref # doing'[v].record.ref
                        /\ (doing'[v].record.kind = "event"
                              /\ <<"key", doing'[v].record.body>> \notin unsettled') =>
                             \A s \in doing'[v].into :
                                \A e \in EventsOf(s)' : e.body # doing'[v].record.body
    BY FoundNextIs
  <2>2. /\ doing'[v].record = doing[v].record /\ doing[v] # Idle
        /\ doing'[v].into \subseteq doing[v].into
    BY <1>3, <2>1
  <2>3. QED  BY <1>1, <1>2, <1>4, <2>1, <2>2 DEF FoundStillHolds
<1>7. DependencyListedOnce'
  <2>1. ASSUME NEW v \in Writers, NEW ref, doing[v] # Idle,
               <<"relationship", ref>> \in Subject(doing[v].record)
        PROVE  doing'[v] # Idle /\ <<"relationship", ref>> \in Subject(doing'[v].record)
    BY <1>3, <2>1
  <2>2. QED  BY <1>1, <1>2, <1>4, <2>1, QuietDependencies
<1>8. EventOncePerKey'
  BY <1>1, <1>2, <1>4, KeysNextAre DEF EventOncePerKey
<1>9. QED  BY <1>1, <1>5, <1>6, <1>7, <1>8, LookUpIdType DEF IInv

LEMMA PutEventKeeps ==
    ASSUME IInv, NEW w \in Writers, PutEvent(w)
    PROVE  IInv'
<1> DEFINE r == doing[w].record
           into == doing[w].into
<1>1. TypeOK /\ OverlapsAreUnsettled /\ FoundStillHolds /\ DependencyListedOnce /\ EventOncePerKey
  BY DEF IInv
<1>2. /\ doing[w] # Idle /\ r \in Inputs /\ r.kind = "event" /\ r.body # Unset
      /\ unsettled' = unsettled
      /\ doing'[w] = Idle /\ \A v \in Writers : v # w => doing'[v] = doing[v]
  <2>1. doing[w] # Idle /\ doing[w].step = "put"
    BY DEF PutEvent
  <2>2. r \in Inputs /\ (Merging(doing[w]) \/ Putting(doing[w]))
    BY <1>1, <2>1, BusyAreDoing, DoingsAre
  <2>3. r.kind = "event" /\ r.body # Unset
    BY <2>1, <2>2 DEF Merging, Putting
  <2>4. QED  BY <1>1, <2>1, <2>2, <2>3 DEF PutEvent, TypeOK
<1>3. neo'.edges = neo.edges
  BY <1>1, <1>2, TypeIs, NeoWriteTyped DEF PutEvent
<1>4. \A s \in {"neo", "graph"} :
         EventsOf(s)' \subseteq EventsOf(s) \cup (IF s \in into THEN {r} ELSE {})
  <2>1. ASSUME "neo" \notin into
        PROVE  EventsOf("neo")' = EventsOf("neo")
    BY <2>1 DEF PutEvent, EventsOf, NeoEvents
  <2>2. ASSUME "graph" \notin into
        PROVE  EventsOf("graph")' = EventsOf("graph")
    BY <2>2 DEF PutEvent, EventsOf, Graph!GraphEvents
  <2>3. "neo" \in into => EventsOf("neo")' \subseteq EventsOf("neo") \cup {r}
    BY <1>1, <1>2, EventsWith DEF PutEvent
  <2>4. "graph" \in into => EventsOf("graph")' \subseteq EventsOf("graph") \cup {r}
    BY <1>1, <1>2, EventsWith DEF PutEvent
  <2>5. QED  BY <2>1, <2>2, <2>3, <2>4
<1>5. /\ Registered("relationship")' = Registered("relationship")
      /\ \A ref : LastEdges(ref)' = LastEdges(ref)
  <2>1. CASE "neo" \in into
    <3>1. written' = Append(written, r)
      BY <2>1 DEF PutEvent
    <3>2. r.kind # "relationship"
      BY <1>2
    <3>3. QED  BY <1>1, <1>2, <3>1, <3>2, TypeIs, OthersWritten
  <2>2. CASE "neo" \notin into
    BY <2>2, SameWritten DEF PutEvent
  <2>3. QED  BY <2>1, <2>2
<1>6. <<"key", r.body>> \notin unsettled => \A s \in into : \A e \in EventsOf(s) : e.body # r.body
  BY <1>1, <1>2 DEF FoundStillHolds
<1> HIDE DEF r, into
<1>7. OverlapsAreUnsettled'
  BY <1>1, <1>2 DEF OverlapsAreUnsettled, Subject
<1>8. FoundStillHolds'
  <2>1. SUFFICES ASSUME NEW v \in Writers, doing'[v] # Idle
                 PROVE  /\ (doing'[v].record.kind = "relationship"
                              /\ <<"relationship", doing'[v].record.ref>> \notin unsettled') =>
                             \A e \in neo'.edges : e.ref # doing'[v].record.ref
                        /\ (doing'[v].record.kind = "event"
                              /\ <<"key", doing'[v].record.body>> \notin unsettled') =>
                             \A s \in doing'[v].into :
                                \A e \in EventsOf(s)' : e.body # doing'[v].record.body
    BY FoundNextIs
  <2>2. v # w /\ doing'[v] = doing[v] /\ doing[v] # Idle
    BY <1>2, <2>1
  <2>3. Merging(doing[v]) \/ Putting(doing[v])
    BY <1>1, <2>2, BusyAreDoing, DoingsAre
  <2>4. ASSUME doing[v].record.kind = "event",
               <<"key", doing[v].record.body>> \notin unsettled,
               NEW s \in doing[v].into, NEW e \in EventsOf(s)'
        PROVE  e.body # doing[v].record.body
    <3>1. s \in {"neo", "graph"}
      BY <2>3, <2>4 DEF Merging, Putting
    <3>2. e \in EventsOf(s) \/ e = r
      BY <1>4, <2>4, <3>1
    <3>3. \A o \in EventsOf(s) : o.body # doing[v].record.body
      BY <1>1, <2>2, <2>4 DEF FoundStillHolds
    <3>4. r.body # doing[v].record.body
      <4>1. Subject(doing[v].record) \cap Subject(r) \subseteq unsettled
        BY <1>1, <1>2, <2>2 DEF OverlapsAreUnsettled, r
      <4>2. /\ <<"key", doing[v].record.body>> \in Subject(doing[v].record)
            /\ <<"key", r.body>> \in Subject(r)
        BY <1>2, <2>4, Subjects
      <4>3. QED  BY <2>4, <4>1, <4>2
    <3>5. QED  BY <3>2, <3>3, <3>4
  <2>5. QED  BY <1>1, <1>2, <1>3, <2>2, <2>4 DEF FoundStillHolds
<1>9. DependencyListedOnce'
  <2>1. \A ref : <<"relationship", ref>> \notin Subject(doing[w].record)
    BY <1>2, Subjects DEF r
  <2>2. QED  BY <1>1, <1>2, <1>3, <1>5, <2>1, QuietDependencies
<1>10. EventOncePerKey'
  <2>1. SUFFICES ASSUME NEW s \in {"neo", "graph"}, NEW e \in EventsOf(s)', NEW o \in EventsOf(s)',
                        e.body # Unset, e.body = o.body, <<"key", e.body>> \notin unsettled
                 PROVE  e = o
    BY <1>2, KeysNextAre
  <2>2. CASE e \in EventsOf(s) /\ o \in EventsOf(s)
    BY <1>1, <2>1, <2>2 DEF EventOncePerKey
  <2>3. CASE e \notin EventsOf(s) \/ o \notin EventsOf(s)
    <3>1. s \in into /\ e.body = r.body
      BY <1>4, <2>1, <2>3
    <3>2. \A x \in EventsOf(s) : x.body # r.body
      BY <1>6, <2>1, <3>1
    <3>3. QED  BY <1>4, <2>1, <3>1, <3>2
  <2>4. QED  BY <2>2, <2>3
<1>11. QED  BY <1>1, <1>7, <1>8, <1>9, <1>10, PutEventType DEF IInv

LEMMA StopKeeps ==
    ASSUME IInv, NEW w \in Writers, Stop(w)
    PROVE  IInv'
<1>1. TypeOK /\ OverlapsAreUnsettled /\ FoundStillHolds /\ DependencyListedOnce /\ EventOncePerKey
  BY DEF IInv
<1>2. /\ doing[w] # Idle /\ Steady /\ unsettled \subseteq unsettled' /\ doing'[w] = Idle
      /\ \A v \in Writers : v # w => doing'[v] = doing[v]
      /\ doing[w].step = "merge" => Subject(doing[w].record) \subseteq unsettled'
  BY <1>1 DEF Stop, TypeOK, Steady
<1>3. /\ neo'.edges = neo.edges /\ \A s : EventsOf(s)' = EventsOf(s)
      /\ Registered("relationship")' = Registered("relationship")
      /\ \A ref : LastEdges(ref)' = LastEdges(ref)
  BY <1>2, SameEvents, SameWritten DEF Steady
<1>4. OverlapsAreUnsettled'
  BY <1>1, <1>2 DEF OverlapsAreUnsettled, Subject
<1>5. FoundStillHolds'
  BY <1>1, <1>2, <1>3, FoundNextIs DEF FoundStillHolds
<1>6. DependencyListedOnce'
  <2>1. Merging(doing[w]) \/ Putting(doing[w])
    BY <1>1, <1>2, BusyAreDoing, DoingsAre
  <2>2. \A ref : <<"relationship", ref>> \in Subject(doing[w].record)
                    => <<"relationship", ref>> \in unsettled'
    BY <1>2, <2>1, Subjects DEF Merging, Putting
  <2>3. QED  BY <1>1, <1>2, <1>3, <2>2, QuietDependencies
<1>7. EventOncePerKey'
  BY <1>1, <1>2, <1>3, KeysNextAre DEF EventOncePerKey
<1>8. QED  BY <1>1, <1>4, <1>5, <1>6, <1>7, StopType DEF IInv

LEMMA BackendsStart == Init => IInv
<1> SUFFICES ASSUME Init
             PROVE  IInv
  OBVIOUS
<1>1. NeoTyped(neo) /\ neo.edges = {} /\ neo.rows = {}
  BY DEF Init, EmptyNeo, EmptyNode, NeoTyped
<1>2. graph \in [Kinds -> Seq(Inputs)] /\ memory \in [Kinds -> Seq(Inputs)] /\ graph["event"] = <<>>
  <2>1. <<>> \in Seq(Inputs) /\ "event" \in Kinds
    BY DEF Kinds, RowKinds
  <2>2. graph = [k \in Kinds |-> <<>>] /\ memory = [k \in Kinds |-> <<>>]
    BY DEF Init, Graph!EmptyArrays, Graph!Kinds, Graph!NodeKinds, Graph!RowKinds, Graph!LogKinds,
           Graph!EdgeKinds, Kinds, NodeKinds, RowKinds, LogKinds, EdgeKinds
  <2>3. QED  BY <2>1, <2>2
<1>3. TypeOK
  BY <1>1, <1>2, TypeIs, BackendsAssumption DEF Init
<1>4. \A w \in Writers : doing[w] = Idle
  BY DEF Init
<1>5. \A s \in {"neo", "graph"} : EventsOf(s) = {}
  BY <1>1, <1>2 DEF EventsOf, NeoEvents, Graph!GraphEvents, Memory!ToSet
<1>6. Registered("relationship") = {}
  BY DEF Init, Registered, WrittenOf, WrittenRecords
<1>7. OverlapsAreUnsettled /\ FoundStillHolds
  BY <1>4 DEF OverlapsAreUnsettled, FoundStillHolds
<1>8. DependencyListedOnce /\ EventOncePerKey
  BY <1>5, <1>6, DependenciesAre DEF EventOncePerKey
<1>9. QED  BY <1>3, <1>7, <1>8 DEF IInv

LEMMA BackendsStutter == IInv /\ UNCHANGED vars => IInv'
<1> SUFFICES ASSUME IInv, UNCHANGED vars
             PROVE  IInv'
  OBVIOUS
<1>1. TypeOK /\ OverlapsAreUnsettled /\ FoundStillHolds /\ DependencyListedOnce /\ EventOncePerKey
  BY DEF IInv
<1>2. Steady /\ UNCHANGED <<doing, begun, unsettled>>
  BY DEF vars, Steady
<1>3. /\ neo'.edges = neo.edges /\ \A s : EventsOf(s)' = EventsOf(s)
      /\ Registered("relationship")' = Registered("relationship")
      /\ \A ref : LastEdges(ref)' = LastEdges(ref)
  BY <1>2, SameEvents, SameWritten DEF Steady
<1>4. TypeOK'
  BY <1>1, <1>2, TypeIs, TypeNextIs DEF Steady
<1>5. OverlapsAreUnsettled'
  BY <1>1, <1>2 DEF OverlapsAreUnsettled, Subject
<1>6. FoundStillHolds'
  BY <1>1, <1>2, <1>3, FoundNextIs DEF FoundStillHolds
<1>7. DependencyListedOnce'
  BY <1>1, <1>2, <1>3, QuietDependencies
<1>8. EventOncePerKey'
  BY <1>1, <1>2, <1>3, KeysNextAre DEF EventOncePerKey
<1>9. QED  BY <1>4, <1>5, <1>6, <1>7, <1>8 DEF IInv

LEMMA BackendsStep == IInv /\ [Next]_vars => IInv'
<1> SUFFICES ASSUME IInv, [Next]_vars
             PROVE  IInv'
  OBVIOUS
<1>1. ASSUME NEW r \in Inputs, Upsert(r)
      PROVE  IInv'
  BY <1>1, UpsertKeeps
<1>2. ASSUME NEW w \in Writers, NEW r \in Inputs, BeginRelationship(w, r) \/ LookUpKey(w, r)
      PROVE  IInv'
  BY <1>2, BeginRelationshipKeeps, LookUpKeyKeeps
<1>3. ASSUME NEW w \in Writers, EndRelationship(w) \/ LookUpId(w) \/ PutEvent(w) \/ Stop(w)
      PROVE  IInv'
  BY <1>3, EndRelationshipKeeps, LookUpIdKeeps, PutEventKeeps, StopKeeps
<1>4. QED  BY <1>1, <1>2, <1>3, BackendsStutter DEF Next

-----------------------------------------------------------------------------
(* The items of a kind in a log, as the log grows.                         *)

LEMMA LeastNatural ==
    ASSUME NEW S, S \subseteq Nat, S # {}
    PROVE  \E n \in S : \A m \in Nat : m < n => m \notin S
<1> DEFINE R == OpToRel(<, Nat)
<1>1. ASSUME NEW m \in Nat, NEW n \in Nat, m < n
      PROVE  <<m, n>> \in R
  BY <1>1 DEF OpToRel
<1>2. IsWellFoundedOn(R, Nat)
  BY NatLessThanWellFounded
<1> HIDE DEF R
<1>3. PICK n \in S : \A m \in S : ~(<<m, n>> \in R)
  BY <1>2, WFMin
<1>4. QED  BY <1>1, <1>3

LEMMA InductiveSet ==
    ASSUME NEW S, 0 \in S, \A n \in Nat : n \in S => n + 1 \in S
    PROVE  Nat \subseteq S
<1> SUFFICES ASSUME Nat \ S # {}
             PROVE  FALSE
  OBVIOUS
<1>1. PICK n \in Nat \ S : \A m \in Nat : m < n => m \notin Nat \ S
  BY LeastNatural
<1>2. n # 0 /\ n - 1 \in Nat /\ n - 1 < n
  BY <1>1
<1>3. n - 1 \in S
  BY <1>1, <1>2
<1>4. QED  BY <1>2, <1>3

UpTo(here, i) == {j \in here : j <= i}

LEMMA PlacesGrow ==
    ASSUME NEW m \in Nat, NEW here \in SUBSET (1 .. m)
    PROVE  /\ IsFiniteSet(here) /\ Cardinality(here) \in Nat
           /\ m + 1 \notin here /\ Cardinality(here \cup {m + 1}) = Cardinality(here) + 1
           /\ here \in SUBSET Nat /\ here \cup {m + 1} \in SUBSET Nat
           /\ IsFiniteSet(here \cup {m + 1})
           /\ UpTo(here \cup {m + 1}, m + 1) = here \cup {m + 1}
           /\ \A i \in here : UpTo(here \cup {m + 1}, i) = UpTo(here, i)
<1>1. IsFiniteSet(1 .. m)
  BY FS_Interval
<1>2. IsFiniteSet(here)
  BY <1>1, FS_Subset
<1>3. m + 1 \notin here
  OBVIOUS
<1>4. /\ IsFiniteSet(here \cup {m + 1})
      /\ Cardinality(here \cup {m + 1}) = Cardinality(here) + 1
  BY <1>2, <1>3, FS_AddElement
<1>5. Cardinality(here) \in Nat
  BY <1>2, FS_CardinalityType
<1>6. \A i \in here : i <= m + 1 /\ ~(m + 1 <= i)
  OBVIOUS
<1>7. m + 1 <= m + 1
  OBVIOUS
<1>8. here \in SUBSET Nat /\ here \cup {m + 1} \in SUBSET Nat
  OBVIOUS
<1>9. QED  BY <1>2, <1>3, <1>4, <1>5, <1>6, <1>7, <1>8 DEF UpTo

LEMMA NthExists ==
    ASSUME NEW m \in Nat, NEW here \in SUBSET (1 .. m), NEW n \in 1 .. Cardinality(here)
    PROVE  \E i \in here : Cardinality(UpTo(here, i)) = n
<1> DEFINE S == {k \in Nat : \A h \in SUBSET (1 .. k) : \A x \in 1 .. Cardinality(h) :
                               \E i \in h : Cardinality(UpTo(h, i)) = x}
<1>1. 0 \in S
  <2>1. ASSUME NEW h \in SUBSET (1 .. 0)
        PROVE  1 .. Cardinality(h) = {}
    <3>1. h = {}
      OBVIOUS
    <3>2. Cardinality(h) = 0
      BY <3>1, FS_EmptySet
    <3>3. QED  BY <3>2
  <2>2. QED  BY <2>1
<1>2. ASSUME NEW k \in Nat, k \in S
      PROVE  k + 1 \in S
  <2> SUFFICES ASSUME NEW h \in SUBSET (1 .. k + 1), NEW x \in 1 .. Cardinality(h)
               PROVE  \E i \in h : Cardinality(UpTo(h, i)) = x
    OBVIOUS
  <2> DEFINE g == h \ {k + 1}
  <2>1. g \in SUBSET (1 .. k)
    OBVIOUS
  <2>2. \A y \in 1 .. Cardinality(g) : \E i \in g : Cardinality(UpTo(g, i)) = y
    BY <1>2, <2>1
  <2>3. CASE k + 1 \notin h
    <3>1. g = h
      BY <2>3
    <3>2. QED  BY <2>2, <3>1
  <2>4. CASE k + 1 \in h
    <3>1. h = g \cup {k + 1}
      BY <2>4
    <3> HIDE DEF g, S
    <3>2. /\ Cardinality(g) \in Nat /\ Cardinality(h) = Cardinality(g) + 1 /\ UpTo(h, k + 1) = h
          /\ \A i \in g : UpTo(h, i) = UpTo(g, i)
      BY <2>1, <3>1, PlacesGrow
    <3>3. CASE x = Cardinality(h)
      BY <2>4, <3>2, <3>3
    <3>4. CASE x # Cardinality(h)
      <4>1. x \in 1 .. Cardinality(g)
        BY <3>2, <3>4
      <4>2. PICK i \in g : Cardinality(UpTo(g, i)) = x
        BY <2>2, <4>1
      <4>3. i \in h /\ Cardinality(UpTo(h, i)) = x
        BY <3>1, <3>2, <4>2
      <4>4. QED  BY <4>3
    <3>5. QED  BY <3>3, <3>4
  <2>5. QED  BY <2>3, <2>4
<1> HIDE DEF S
<1>3. m \in S
  BY <1>1, <1>2, InductiveSet
<1>4. QED  BY <1>3 DEF S

LEMMA NthIs ==
    ASSUME NEW here \in SUBSET Nat, IsFiniteSet(here), NEW n, NEW i \in here,
           Cardinality(UpTo(here, i)) = n
    PROVE  Nth(here, n) = i
<1>1. i \in Nat
  OBVIOUS
<1>2. ASSUME NEW j \in here, NEW k \in here, j < k
      PROVE  Cardinality(UpTo(here, j)) < Cardinality(UpTo(here, k))
  <2>0. j \in Nat /\ k \in Nat /\ \A x \in here : x \in Nat
    OBVIOUS
  <2>1. UpTo(here, j) \subseteq UpTo(here, k) /\ k \in UpTo(here, k) /\ k \notin UpTo(here, j)
    <3>1. \A x \in here : x <= j => x <= k
      BY <1>2, <2>0
    <3>2. k <= k /\ ~(k <= j)
      BY <1>2, <2>0
    <3>3. QED  BY <3>1, <3>2 DEF UpTo
  <2>2. IsFiniteSet(UpTo(here, k)) /\ IsFiniteSet(UpTo(here, j))
    BY FS_Subset DEF UpTo
  <2>3. /\ Cardinality(UpTo(here, j)) <= Cardinality(UpTo(here, k))
        /\ (Cardinality(UpTo(here, j)) = Cardinality(UpTo(here, k))) => UpTo(here, j) = UpTo(here, k)
    BY <2>1, <2>2, FS_Subset
  <2>4. Cardinality(UpTo(here, j)) \in Nat /\ Cardinality(UpTo(here, k)) \in Nat
    BY <2>2, FS_CardinalityType
  <2>5. QED  BY <2>1, <2>3, <2>4
<1>3. ASSUME NEW k \in here, Cardinality(UpTo(here, k)) = n
      PROVE  k = i
  <2>1. /\ k < i => Cardinality(UpTo(here, k)) < Cardinality(UpTo(here, i))
        /\ i < k => Cardinality(UpTo(here, i)) < Cardinality(UpTo(here, k))
    BY <1>2
  <2>2. Cardinality(UpTo(here, i)) \in Nat
    BY FS_Subset, FS_CardinalityType DEF UpTo
  <2>3. ~(k < i) /\ ~(i < k)
    BY <1>3, <2>1, <2>2
  <2>4. QED  BY <1>1, <2>3
<1>4. Cardinality({j \in here : j <= i}) = n
  BY DEF UpTo
<1>5. \A k \in here : Cardinality({j \in here : j <= k}) = n => k = i
  BY <1>3 DEF UpTo
<1>6. QED  BY <1>4, <1>5 DEF Nth

Those(s, S) == Picked(s, {i \in DOMAIN s : s[i] \in S})

LEMMA ThoseGrow ==
    ASSUME NEW s \in Seq(Inputs), NEW r \in Inputs, NEW S
    PROVE  Those(Append(s, r), S) = IF r \in S THEN Append(Those(s, S), r) ELSE Those(s, S)
<1> DEFINE m == Len(s)
           t == Append(s, r)
           here == {i \in 1 .. m : s[i] \in S}
           c == Cardinality(here)
<1>1. /\ m \in Nat /\ DOMAIN s = 1 .. m /\ DOMAIN t = 1 .. (m + 1) /\ t[m + 1] = r
      /\ \A i \in 1 .. m : t[i] = s[i] /\ s[i] \in Inputs
  OBVIOUS
<1>2. here \in SUBSET (1 .. m)
  OBVIOUS
<1>3. {i \in DOMAIN t : t[i] \in S} = IF r \in S THEN here \cup {m + 1} ELSE here
  BY <1>1
<1> HIDE DEF m, t, here
<1>4. /\ c \in Nat /\ Cardinality(here \cup {m + 1}) = c + 1
      /\ Cardinality(UpTo(here \cup {m + 1}, m + 1)) = c + 1
      /\ here \in SUBSET Nat /\ here \cup {m + 1} \in SUBSET Nat
      /\ IsFiniteSet(here) /\ IsFiniteSet(here \cup {m + 1})
  BY <1>1, <1>2, PlacesGrow
<1>5. ASSUME NEW n \in 1 .. c
      PROVE  /\ Nth(here, n) \in here
             /\ Nth(here \cup {m + 1}, n) = Nth(here, n)
  <2>1. PICK i \in here : Cardinality(UpTo(here, i)) = n
    BY <1>1, <1>2, NthExists
  <2>2. Cardinality(UpTo(here \cup {m + 1}, i)) = n
    BY <1>1, <1>2, <2>1, PlacesGrow
  <2>3. Nth(here, n) = i
    BY <1>4, <2>1, NthIs
  <2>4. i \in here \cup {m + 1}
    OBVIOUS
  <2>5. Nth(here \cup {m + 1}, n) = i
    BY <1>4, <2>2, <2>4, NthIs
  <2>6. QED  BY <2>3, <2>5
<1>6. Nth(here \cup {m + 1}, c + 1) = m + 1
  <2>1. m + 1 \in here \cup {m + 1}
    OBVIOUS
  <2>2. QED  BY <1>4, <2>1, NthIs
<1>7. Picked(t, here) = Picked(s, here)
  BY <1>1, <1>2, <1>5 DEF Picked
<1>8. Picked(t, here \cup {m + 1}) = Append(Picked(s, here), r)
  <2> DEFINE p == Picked(s, here)
  <2>1. p = [n \in 1 .. c |-> s[Nth(here, n)]]
    BY DEF Picked
  <2>2. \A n \in 1 .. c : s[Nth(here, n)] \in Inputs
    BY <1>1, <1>2, <1>5
  <2>3. p \in [1 .. c -> Inputs]
    BY <2>1, <2>2, Zenon
  <2>4. Picked(t, here \cup {m + 1})
          = [n \in 1 .. (c + 1) |-> t[Nth(here \cup {m + 1}, n)]]
    BY <1>4 DEF Picked
  <2> HIDE DEF p, c
  <2>5. p \in Seq(Inputs) /\ Len(p) = c
    BY <1>4, <2>3
  <2>6. /\ Append(p, r) \in Seq(Inputs) /\ DOMAIN Append(p, r) = 1 .. (c + 1)
        /\ Append(p, r)[c + 1] = r /\ \A n \in 1 .. c : Append(p, r)[n] = p[n]
    BY <2>5
  <2>7. Append(p, r) = [n \in 1 .. (c + 1) |-> Append(p, r)[n]]
    <3> DEFINE q == Append(p, r)
    <3>1. q \in Seq(Inputs) /\ DOMAIN q = 1 .. (c + 1)
      BY <2>6
    <3> HIDE DEF q
    <3>2. q = [n \in DOMAIN q |-> q[n]]
      BY <3>1
    <3>3. QED  BY <3>1, <3>2 DEF q
  <2>8. ASSUME NEW n \in 1 .. (c + 1)
        PROVE  t[Nth(here \cup {m + 1}, n)] = Append(p, r)[n]
    <3>1. CASE n = c + 1
      BY <1>1, <1>6, <2>6, <3>1 DEF c
    <3>2. CASE n # c + 1
      <4>1. n \in 1 .. c
        BY <1>4, <3>2 DEF c
      <4>2. t[Nth(here \cup {m + 1}, n)] = s[Nth(here, n)]
        BY <1>1, <1>2, <1>5, <4>1 DEF c
      <4>3. p[n] = s[Nth(here, n)]
        BY <2>1, <4>1
      <4>4. QED  BY <2>6, <4>1, <4>2, <4>3
    <3>3. QED  BY <3>1, <3>2
  <2>9. QED  BY <2>4, <2>7, <2>8 DEF p
<1>9. Those(s, S) = Picked(s, here)
  BY <1>1 DEF Those, here
<1>10. Those(t, S) = IF r \in S THEN Picked(t, here \cup {m + 1}) ELSE Picked(t, here)
  BY <1>3 DEF Those
<1>11. QED  BY <1>7, <1>8, <1>9, <1>10 DEF t

OfKind(s, kind) == Picked(s, {i \in DOMAIN s : s[i].kind = kind})
AnyOfKind(kind) == {r \in Inputs : r.kind = kind}

LEMMA OfKindIs ==
    ASSUME NEW s \in Seq(Inputs), NEW kind
    PROVE  OfKind(s, kind) = Those(s, AnyOfKind(kind))
<1>1. {i \in DOMAIN s : s[i].kind = kind} = {i \in DOMAIN s : s[i] \in AnyOfKind(kind)}
  BY DEF AnyOfKind
<1>2. QED  BY <1>1 DEF OfKind, Those

LEMMA OfKindGrows ==
    ASSUME NEW s \in Seq(Inputs), NEW r \in Inputs, NEW kind
    PROVE  OfKind(Append(s, r), kind)
             = IF r.kind = kind THEN Append(OfKind(s, kind), r) ELSE OfKind(s, kind)
<1>1. Append(s, r) \in Seq(Inputs) /\ (r \in AnyOfKind(kind) <=> r.kind = kind)
  BY DEF AnyOfKind
<1>2. /\ OfKind(s, kind) = Those(s, AnyOfKind(kind))
      /\ OfKind(Append(s, r), kind) = Those(Append(s, r), AnyOfKind(kind))
  BY <1>1, OfKindIs
<1>3. Those(Append(s, r), AnyOfKind(kind))
        = IF r \in AnyOfKind(kind) THEN Append(Those(s, AnyOfKind(kind)), r)
          ELSE Those(s, AnyOfKind(kind))
  BY ThoseGrow
<1>4. QED  BY <1>1, <1>2, <1>3, Zenon

LEMMA NothingOf ==
    ASSUME NEW S
    PROVE  Those(<<>>, S) = <<>>
<1>1. {i \in DOMAIN <<>> : <<>>[i] \in S} = {}
  OBVIOUS
<1>2. 1 .. Cardinality({}) = {}
  <2>1. Cardinality({}) = 0
    BY FS_EmptySet
  <2>2. QED  BY <2>1
<1>3. Picked(<<>>, {}) = <<>>
  BY <1>2 DEF Picked
<1>4. QED  BY <1>1, <1>3 DEF Those

(* Picking some of what was picked picks those that are both.              *)
LEMMA ThoseOfThose ==
    ASSUME NEW s \in Seq(Inputs), NEW S, NEW T
    PROVE  Those(s, S) \in Seq(Inputs) /\ Those(Those(s, S), T) = Those(s, S \cap T)
<1> DEFINE Alike(u) == Those(u, S) \in Seq(Inputs) /\ Those(Those(u, S), T) = Those(u, S \cap T)
           Good == {n \in Nat : \A u \in Seq(Inputs) : Len(u) = n => Alike(u)}
<1> HIDE DEF Alike
<1>1. 0 \in Good
  <2>1. ASSUME NEW u \in Seq(Inputs), Len(u) = 0
        PROVE  Alike(u)
    <3>1. u = <<>> /\ <<>> \in Seq(Inputs)
      BY <2>1
    <3>2. Those(<<>>, S) = <<>> /\ Those(<<>>, T) = <<>> /\ Those(<<>>, S \cap T) = <<>>
      BY NothingOf
    <3>3. Alike(<<>>)
      BY <3>1, <3>2, Zenon DEF Alike
    <3>4. QED  BY <3>1, <3>3
  <2>2. QED  BY <2>1
<1>2. ASSUME NEW n \in Nat, n \in Good
      PROVE  n + 1 \in Good
  <2> SUFFICES ASSUME NEW u \in Seq(Inputs), Len(u) = n + 1
               PROVE  Alike(u)
    OBVIOUS
  <2>1. PICK v \in Seq(Inputs), r \in Inputs : u = Append(v, r) /\ Len(v) = n
    <3> DEFINE v == [i \in 1 .. n |-> u[i]]
    <3>1. v \in Seq(Inputs) /\ Len(v) = n
      <4>1. \A i \in 1 .. n : u[i] \in Inputs
        OBVIOUS
      <4>2. v \in [1 .. n -> Inputs]
        BY <4>1
      <4> HIDE DEF v
      <4>3. QED  BY <4>2
    <3>2. u[n + 1] \in Inputs /\ \A i \in 1 .. n : v[i] = u[i]
      OBVIOUS
    <3> HIDE DEF v
    <3>3. u = Append(v, u[n + 1])
      BY <3>1, <3>2
    <3>4. QED  BY <3>1, <3>2, <3>3
  <2>2. Alike(v)
    BY <1>2, <2>1
  <2>3. /\ Those(u, S) = IF r \in S THEN Append(Those(v, S), r) ELSE Those(v, S)
        /\ Those(u, S \cap T) = IF r \in S \cap T THEN Append(Those(v, S \cap T), r)
                                ELSE Those(v, S \cap T)
    BY <2>1, ThoseGrow
  <2>4. Those(Append(Those(v, S), r), T)
           = IF r \in T THEN Append(Those(Those(v, S), T), r) ELSE Those(Those(v, S), T)
    BY <2>2, ThoseGrow DEF Alike
  <2>5. CASE r \in S
    <3>1. Those(u, S) = Append(Those(v, S), r) /\ Those(u, S) \in Seq(Inputs)
      BY <2>2, <2>3, <2>5 DEF Alike
    <3>2. r \in T <=> r \in S \cap T
      BY <2>5
    <3>3. Those(Those(u, S), T) = Those(u, S \cap T)
      BY <2>2, <2>3, <2>4, <3>1, <3>2 DEF Alike
    <3>4. QED  BY <3>1, <3>3 DEF Alike
  <2>6. CASE r \notin S
    <3>1. Those(u, S) = Those(v, S) /\ Those(u, S \cap T) = Those(v, S \cap T)
      BY <2>3, <2>6
    <3>2. QED  BY <2>2, <3>1 DEF Alike
  <2>7. QED  BY <2>5, <2>6
<1> HIDE DEF Good
<1>3. Nat \subseteq Good
  BY <1>1, <1>2, InductiveSet
<1>4. Len(s) \in Good
  BY <1>3
<1>5. QED  BY <1>4 DEF Good, Alike

-----------------------------------------------------------------------------
(* What the Neo4j store holds of what was written.                         *)

RowsHeld == neo.rows = {r \in WrittenRecords : r.kind \in RowKinds /\ IsLast(r)}
LogsHeld == \A k \in LogKinds : OfKind(neo.logs, k) = OfKind(written, k)
NodesHeld ==
    \A x \in Refs :
        /\ neo.nodes[x].labels = KindsOf(x)
        /\ OneKind(x) =>
              \/ NodeRecords(x) = {} /\ neo.nodes[x].props = <<>>
              \/ \E r \in NodeRecords(x) : IsLast(r) /\ neo.nodes[x].props = Props(r)

LEMMA LogsRead ==
    ASSUME NEW k
    PROVE  NeoLedgerLog(neo, k, Everything) = OfKind(neo.logs, k) /\ LogWritten(k) = OfKind(written, k)
<1>1. \A r : MatchesLedgerScope(r, Everything)
  BY DEF MatchesLedgerScope, InScope, MatchesProjectScope, Holds, AnyOf, Everything
<1>2. {i \in DOMAIN neo.logs : neo.logs[i].kind = k /\ MatchesLedgerScope(neo.logs[i], Everything)}
        = {i \in DOMAIN neo.logs : neo.logs[i].kind = k}
  BY <1>1
<1>3. QED  BY <1>2 DEF NeoLedgerLog, LogWritten, OfKind

LEMMA HeldIs == LatestIsHeld <=> RowsHeld /\ LogsHeld /\ NodesHeld
BY LogsRead DEF LatestIsHeld, RowsHeld, LogsHeld, NodesHeld

(* What has been written, and which of it last, after one write more.      *)
LEMMA WrittenGrows ==
    ASSUME written \in Seq(Inputs), NEW r \in Inputs, written' = Append(written, r)
    PROVE  /\ WrittenRecords' = WrittenRecords \cup {r} /\ IsLast(r)'
           /\ \A x : <<x.kind, x.ref>> # <<r.kind, r.ref>> => (IsLast(x)' <=> IsLast(x))
           /\ \A x : <<x.kind, x.ref>> = <<r.kind, r.ref>> /\ IsLast(x)' => x = r
<1> DEFINE n == Len(written) + 1
<1>1. /\ Len(written) \in Nat /\ DOMAIN written = 1 .. Len(written)
      /\ DOMAIN written' = 1 .. n /\ written'[n] = r
      /\ \A i \in 1 .. Len(written) : written'[i] = written[i]
  OBVIOUS
<1>2. WrittenRecords' = WrittenRecords \cup {r}
  BY <1>1 DEF WrittenRecords
<1>3. ASSUME NEW x, <<x.kind, x.ref>> # <<r.kind, r.ref>>
      PROVE  IsLast(x)' <=> IsLast(x)
  BY <1>1, <1>3 DEF IsLast
<1>4. IsLast(r)'
  BY <1>1 DEF IsLast
<1>5. ASSUME NEW x, <<x.kind, x.ref>> = <<r.kind, r.ref>>, IsLast(x)'
      PROVE  x = r
  <2>1. PICK i \in 1 .. n :
           /\ written'[i] = x
           /\ \A j \in 1 .. n : j > i => <<written'[j].kind, written'[j].ref>> # <<x.kind, x.ref>>
    BY <1>1, <1>5 DEF IsLast
  <2>2. i = n
    BY <1>1, <1>5, <2>1
  <2>3. QED  BY <1>1, <2>1, <2>2
<1>6. QED  BY <1>2, <1>3, <1>4, <1>5

LEMMA LastIsUnique ==
    ASSUME written \in Seq(Inputs), NEW r, NEW o, IsLast(r), IsLast(o), r.kind = o.kind, r.ref = o.ref
    PROVE  r = o
<1>1. PICK i \in DOMAIN written :
         /\ written[i] = r
         /\ \A j \in DOMAIN written : j > i => <<written[j].kind, written[j].ref>> # <<r.kind, r.ref>>
  BY DEF IsLast
<1>2. PICK k \in DOMAIN written :
         /\ written[k] = o
         /\ \A j \in DOMAIN written : j > k => <<written[j].kind, written[j].ref>> # <<o.kind, o.ref>>
  BY DEF IsLast
<1>3. i \in Nat /\ k \in Nat
  OBVIOUS
<1>4. ~(i > k) /\ ~(k > i)
  BY <1>1, <1>2
<1>5. QED  BY <1>1, <1>2, <1>3, <1>4

(* The parts of the store that a write changes.                            *)
NodesAfter(db, r) ==
    IF r.kind \in NodeKinds THEN UpsertNode(db, r).nodes
    ELSE IF r.kind = "membership" THEN UpsertMembership(db, r).nodes ELSE db.nodes

LEMMA NeoWriteParts ==
    ASSUME NEW db, NeoTyped(db), NEW r \in Inputs, r.kind # "relationship"
    PROVE  /\ NeoWrite(db, r).rows = IF r.kind \in RowKinds THEN RowsWith(db.rows, r) ELSE db.rows
           /\ NeoWrite(db, r).logs = IF r.kind \in LogKinds THEN Append(db.logs, r) ELSE db.logs
           /\ NeoWrite(db, r).nodes = NodesAfter(db, r)
<1>1. r.kind \in NodeKinds \cup {"membership"} \cup RowKinds \cup LogKinds
  BY BackendsAssumption DEF Kinds, EdgeKinds
<1>2. /\ UpsertNode(db, r).logs = db.logs
      /\ UpsertMembership(db, r).logs = db.logs
      /\ UpsertRow(db, r).logs = db.logs /\ UpsertRow(db, r).nodes = db.nodes
      /\ CreateRow(db, r).logs = Append(db.logs, r) /\ CreateRow(db, r).nodes = db.nodes
  BY DEF NeoTyped, UpsertNode, UpsertMembership, UpsertRow, CreateRow
<1>3. CASE r.kind \in NodeKinds
  <2>1. NeoWrite(db, r) = UpsertNode(db, r) /\ r.kind \notin LogKinds
    BY <1>3 DEF NeoWrite, NodeKinds, RowKinds, LogKinds
  <2>2. QED  BY <1>2, <1>3, <2>1, NeoWriteTyped DEF NodesAfter
<1>4. CASE r.kind = "membership"
  <2>1. NeoWrite(db, r) = UpsertMembership(db, r) /\ r.kind \notin LogKinds /\ r.kind \notin NodeKinds
    BY <1>4 DEF NeoWrite, NodeKinds, RowKinds, LogKinds
  <2>2. QED  BY <1>2, <1>4, <2>1, NeoWriteTyped DEF NodesAfter
<1>5. CASE r.kind \in RowKinds
  <2>1. /\ NeoWrite(db, r) = UpsertRow(db, r) /\ r.kind \notin LogKinds
        /\ r.kind \notin NodeKinds /\ r.kind # "membership"
    BY <1>5 DEF NeoWrite, NodeKinds, RowKinds, LogKinds
  <2>2. QED  BY <1>2, <1>5, <2>1, NeoWriteTyped DEF NodesAfter
<1>6. CASE r.kind \in LogKinds
  <2>1. /\ NeoWrite(db, r) = CreateRow(db, r) /\ r.kind \notin NodeKinds /\ r.kind # "membership"
    BY <1>6 DEF NeoWrite, NodeKinds, RowKinds, LogKinds
  <2>2. QED  BY <1>2, <1>6, <2>1, NeoWriteTyped DEF NodesAfter
<1>7. QED  BY <1>1, <1>3, <1>4, <1>5, <1>6

(* Properties of one kind of record replace those of another such record   *)
(* in full.                                                                *)
LEMMA PropsReplaced ==
    ASSUME NEW r, NEW o, r.kind \in NodeKinds, o.kind = r.kind
    PROVE  Overlay(Props(r), Props(o)) = Props(r) /\ Overlay(Props(r), <<>>) = Props(r)
<1>1. DOMAIN Props(r) = DOMAIN Props(o) /\ Props(r) = [p \in DOMAIN Props(r) |-> Props(r)[p]]
  <2>1. CASE r.kind = "program"
    <3>1. Props(r) = ProgramProps(r) /\ Props(o) = ProgramProps(o)
      BY <2>1 DEF Props
    <3>2. QED  BY <3>1 DEF ProgramProps
  <2>2. CASE r.kind = "project"
    <3>1. Props(r) = ProjectProps(r) /\ Props(o) = ProjectProps(o)
      BY <2>2 DEF Props
    <3>2. QED  BY <3>1 DEF ProjectProps
  <2>3. CASE r.kind = "integration"
    <3>1. Props(r) = IntegrationPointProps(r) /\ Props(o) = IntegrationPointProps(o)
      BY <2>3 DEF Props
    <3>2. QED  BY <3>1 DEF IntegrationPointProps
  <2>4. CASE r.kind = "contract"
    <3>1. Props(r) = ContractProps(r) /\ Props(o) = ContractProps(o)
      BY <2>4 DEF Props
    <3>2. QED  BY <3>1 DEF ContractProps
  <2>5. CASE r.kind = "evidence"
    <3>1. Props(r) = EvidenceProps(r) /\ Props(o) = EvidenceProps(o)
      BY <2>5 DEF Props
    <3>2. QED  BY <3>1 DEF EvidenceProps
  <2>6. CASE r.kind = "artifact"
    <3>1. Props(r) = ArtifactProps(r) /\ Props(o) = ArtifactProps(o)
      BY <2>6 DEF Props
    <3>2. QED  BY <3>1 DEF ArtifactProps
  <2>7. CASE r.kind = "decision"
    <3>1. Props(r) = DecisionProps(r) /\ Props(o) = DecisionProps(o)
      BY <2>7 DEF Props
    <3>2. QED  BY <3>1 DEF DecisionProps
  <2>8. CASE r.kind = "intelligence"
    <3>1. Props(r) = IntelligenceProps(r) /\ Props(o) = IntelligenceProps(o)
      BY <2>8 DEF Props
    <3>2. QED  BY <3>1 DEF IntelligenceProps
  <2>9. CASE r.kind = "macro"
    <3>1. Props(r) = MacroFactProps(r) /\ Props(o) = MacroFactProps(o)
      BY <2>9 DEF Props
    <3>2. QED  BY <3>1 DEF MacroFactProps
  <2>10. QED  BY <2>1, <2>2, <2>3, <2>4, <2>5, <2>6, <2>7, <2>8, <2>9 DEF NodeKinds
<1> DEFINE new == Props(r)
           old == Props(o)
<1>2. /\ DOMAIN new = DOMAIN old /\ new = [p \in DOMAIN new |-> new[p]]
  BY <1>1
<1> HIDE DEF new, old
<1>3. Overlay(new, old) = [p \in DOMAIN new |-> new[p]]
  BY <1>2 DEF Overlay
<1>4. Overlay(new, <<>>) = [p \in DOMAIN new |-> new[p]]
  <2>1. DOMAIN new \cup DOMAIN <<>> = DOMAIN new
    OBVIOUS
  <2>2. QED  BY <2>1 DEF Overlay
<1>5. QED  BY <1>2, <1>3, <1>4 DEF new, old

(* What the kinds and properties of a ref become.                          *)
About(r, x) == r.kind \in NodeKinds /\ r.ref = x
Gains(r, x) ==
    (IF About(r, x) THEN {r.kind} ELSE {})
    \cup (IF r.kind = "membership" THEN {k \in {"program", "project"} : r[k] = x} ELSE {})

LEMMA NodesAfterAre ==
    ASSUME NEW db, NeoTyped(db), NEW r \in Inputs, NEW x \in Refs
    PROVE  /\ NodesAfter(db, r)[x].labels = db.nodes[x].labels \cup Gains(r, x)
           /\ NodesAfter(db, r)[x].props =
                 IF About(r, x) THEN Overlay(Props(r), db.nodes[x].props) ELSE db.nodes[x].props
<1>1. CASE r.kind \in NodeKinds
  <2>1. r.ref \in Refs /\ r.kind # "membership"
    BY <1>1, BackendsAssumption DEF NodeInput, NodeKinds
  <2>2. NodesAfter(db, r)[x] =
          IF r.ref = x
          THEN [labels |-> db.nodes[x].labels \cup {r.kind},
                props |-> Overlay(Props(r), db.nodes[x].props)]
          ELSE db.nodes[x]
    BY <1>1, <2>1 DEF NodesAfter, UpsertNode, NeoTyped
  <2>3. QED  BY <1>1, <2>1, <2>2 DEF Gains, About
<1>2. CASE r.kind = "membership"
  <2>1. r.program \in Refs /\ r.project \in Refs /\ r.kind \notin NodeKinds
    BY <1>2, BackendsAssumption DEF NodeKinds
  <2>2. NodesAfter(db, r)
          = [[db.nodes EXCEPT ![r.program].labels = @ \cup {"program"}]
                EXCEPT ![r.project].labels = @ \cup {"project"}]
    <3>1. NodesAfter(db, r) = UpsertMembership(db, r).nodes
      BY <1>2, <2>1 DEF NodesAfter
    <3>2. "nodes" \in DOMAIN db
      BY DEF NeoTyped
    <3>3. QED  BY <3>1, <3>2 DEF UpsertMembership
  <2>3. /\ NodesAfter(db, r)[x].labels
             = db.nodes[x].labels \cup (IF r.program = x THEN {"program"} ELSE {})
                                  \cup (IF r.project = x THEN {"project"} ELSE {})
        /\ NodesAfter(db, r)[x].props = db.nodes[x].props
    BY <2>1, <2>2 DEF NeoTyped
  <2>4. r["program"] = r.program /\ r["project"] = r.project
    OBVIOUS
  <2>5. Gains(r, x) = (IF r.program = x THEN {"program"} ELSE {})
                      \cup (IF r.project = x THEN {"project"} ELSE {})
    BY <1>2, <2>1, <2>4 DEF Gains, About
  <2>6. QED  BY <2>1, <2>3, <2>5 DEF About
<1>3. CASE r.kind \notin NodeKinds /\ r.kind # "membership"
  BY <1>3 DEF NodesAfter, Gains, About
<1>4. QED  BY <1>1, <1>2, <1>3

LEMMA KindsGrow ==
    ASSUME written \in Seq(Inputs), NEW r \in Inputs, written' = Append(written, r), NEW x
    PROVE  /\ NodeRecords(x)' = NodeRecords(x) \cup (IF About(r, x) THEN {r} ELSE {})
           /\ KindsOf(x)' = KindsOf(x) \cup Gains(r, x)
           /\ OneKind(x)' => OneKind(x)
<1>1. WrittenRecords' = WrittenRecords \cup {r}
  BY WrittenGrows
<1>2. NodeRecords(x)' = NodeRecords(x) \cup (IF About(r, x) THEN {r} ELSE {})
  BY <1>1 DEF NodeRecords, About
<1>3. WrittenOf("membership")'
        = WrittenOf("membership") \cup (IF r.kind = "membership" THEN {r} ELSE {})
  BY <1>1 DEF WrittenOf
<1>4. KindsOf(x)' = {o.kind : o \in NodeRecords(x)'}
                    \cup {k \in {"program", "project"} : \E m \in WrittenOf("membership")' : m[k] = x}
  BY DEF KindsOf
<1>5. KindsOf(x)' = KindsOf(x) \cup Gains(r, x)
  <2>1. {o.kind : o \in NodeRecords(x)'}
          = {o.kind : o \in NodeRecords(x)} \cup (IF About(r, x) THEN {r.kind} ELSE {})
    BY <1>2
  <2>2. {k \in {"program", "project"} : \E m \in WrittenOf("membership")' : m[k] = x}
          = {k \in {"program", "project"} : \E m \in WrittenOf("membership") : m[k] = x}
            \cup (IF r.kind = "membership" THEN {k \in {"program", "project"} : r[k] = x} ELSE {})
    BY <1>3
  <2>3. QED  BY <1>4, <2>1, <2>2 DEF KindsOf, Gains
<1>6. OneKind(x)' => OneKind(x)
  BY <1>5 DEF OneKind
<1>7. QED  BY <1>2, <1>5, <1>6

LEMMA WriteHeld ==
    ASSUME TypeOK, LatestIsHeld, NEW r \in Inputs, written' = Append(written, r),
           neo'.rows = IF r.kind \in RowKinds THEN RowsWith(neo.rows, r) ELSE neo.rows,
           neo'.logs = IF r.kind \in LogKinds THEN Append(neo.logs, r) ELSE neo.logs,
           neo'.nodes = NodesAfter(neo, r)
    PROVE  LatestIsHeld'
<1>1. /\ NeoTyped(neo) /\ neo.logs \in Seq(Inputs) /\ written \in Seq(Inputs)
      /\ RowsHeld /\ LogsHeld /\ NodesHeld
  BY TypeIs, HeldIs DEF NeoTyped
<1>2. /\ WrittenRecords' = WrittenRecords \cup {r} /\ IsLast(r)'
      /\ \A x : <<x.kind, x.ref>> # <<r.kind, r.ref>> => (IsLast(x)' <=> IsLast(x))
      /\ \A x : <<x.kind, x.ref>> = <<r.kind, r.ref>> /\ IsLast(x)' => x = r
  BY <1>1, WrittenGrows
<1>3. RowsHeld'
  <2>1. SUFFICES neo'.rows = {o \in WrittenRecords' : o.kind \in RowKinds /\ IsLast(o)'}
    BY DEF RowsHeld
  <2>2. QED  BY <1>1, <1>2 DEF RowsHeld, RowsWith
<1>4. LogsHeld'
  <2>1. SUFFICES ASSUME NEW k \in LogKinds
                 PROVE  OfKind(neo'.logs, k) = OfKind(written', k)
    BY DEF LogsHeld, OfKind
  <2>2. OfKind(written', k) = IF r.kind = k THEN Append(OfKind(written, k), r) ELSE OfKind(written, k)
    BY <1>1, OfKindGrows
  <2>3. OfKind(neo'.logs, k)
          = IF r.kind = k THEN Append(OfKind(neo.logs, k), r) ELSE OfKind(neo.logs, k)
    <3>1. OfKind(Append(neo.logs, r), k)
            = IF r.kind = k THEN Append(OfKind(neo.logs, k), r) ELSE OfKind(neo.logs, k)
      BY <1>1, OfKindGrows
    <3>2. CASE r.kind \in LogKinds
      <4>1. neo'.logs = Append(neo.logs, r)
        BY <3>2
      <4>2. QED  BY <3>1, <4>1
    <3>3. CASE r.kind \notin LogKinds
      <4>1. neo'.logs = neo.logs /\ r.kind # k
        BY <2>1, <3>3
      <4>2. QED  BY <4>1
    <3>4. QED  BY <3>2, <3>3
  <2>4. QED  BY <1>1, <2>2, <2>3 DEF LogsHeld
<1>5. NodesHeld'
  <2>1. SUFFICES ASSUME NEW x \in Refs
                 PROVE  /\ neo'.nodes[x].labels = KindsOf(x)'
                        /\ OneKind(x)' =>
                              \/ NodeRecords(x)' = {} /\ neo'.nodes[x].props = <<>>
                              \/ \E o \in NodeRecords(x)' : IsLast(o)' /\ neo'.nodes[x].props = Props(o)
    BY DEF NodesHeld, Props, ProgramProps, ProjectProps, IntegrationPointProps, ContractProps,
           EvidenceProps, ArtifactProps, DecisionProps, IntelligenceProps, MacroFactProps
  <2>2. /\ NodeRecords(x)' = NodeRecords(x) \cup (IF About(r, x) THEN {r} ELSE {})
        /\ KindsOf(x)' = KindsOf(x) \cup Gains(r, x)
        /\ OneKind(x)' => OneKind(x)
    BY <1>1, KindsGrow
  <2>3. /\ neo'.nodes[x].labels = neo.nodes[x].labels \cup Gains(r, x)
        /\ neo'.nodes[x].props =
              IF About(r, x) THEN Overlay(Props(r), neo.nodes[x].props) ELSE neo.nodes[x].props
    BY <1>1, NodesAfterAre
  <2>4. neo'.nodes[x].labels = KindsOf(x)'
    BY <1>1, <2>2, <2>3 DEF NodesHeld
  <2>5. ASSUME OneKind(x)', About(r, x)
        PROVE  r \in NodeRecords(x)' /\ IsLast(r)' /\ neo'.nodes[x].props = Props(r)
    <3>1. r \in NodeRecords(x)' /\ r.kind \in NodeKinds
      BY <2>2, <2>5 DEF About
    <3>2. \A o \in NodeRecords(x) : o.kind = r.kind
      <4>1. \A o \in NodeRecords(x) : o.kind \in KindsOf(x)'
        BY <2>2 DEF KindsOf
      <4>2. r.kind \in KindsOf(x)'
        BY <2>2, <2>5 DEF Gains
      <4>3. QED  BY <2>5, <4>1, <4>2 DEF OneKind
    <3>3. neo.nodes[x].props = <<>> \/ \E o \in NodeRecords(x) : neo.nodes[x].props = Props(o)
      BY <1>1, <2>2, <2>5 DEF NodesHeld
    <3>4. Overlay(Props(r), neo.nodes[x].props) = Props(r)
      BY <3>1, <3>2, <3>3, PropsReplaced
    <3>5. QED  BY <1>2, <2>3, <2>5, <3>1, <3>4
  <2>6. ASSUME OneKind(x)', ~About(r, x)
        PROVE  \/ NodeRecords(x)' = {} /\ neo'.nodes[x].props = <<>>
               \/ \E o \in NodeRecords(x)' : IsLast(o)' /\ neo'.nodes[x].props = Props(o)
    <3>1. NodeRecords(x)' = NodeRecords(x) /\ neo'.nodes[x].props = neo.nodes[x].props
      BY <2>2, <2>3, <2>6
    <3>2. ASSUME NEW o \in NodeRecords(x), IsLast(o)
          PROVE  IsLast(o)'
      <4>1. <<o.kind, o.ref>> # <<r.kind, r.ref>>
        BY <2>6 DEF NodeRecords, About
      <4>2. QED  BY <1>2, <3>2, <4>1
    <3>3. QED  BY <1>1, <2>2, <2>6, <3>1, <3>2 DEF NodesHeld
  <2>7. QED  BY <2>4, <2>5, <2>6
<1>6. QED  BY <1>3, <1>4, <1>5, HeldIs, PTL

LEMMA SameHeld ==
    ASSUME LatestIsHeld, written' = written,
           neo'.rows = neo.rows, neo'.logs = neo.logs, neo'.nodes = neo.nodes
    PROVE  LatestIsHeld'
<1>1. /\ WrittenRecords' = WrittenRecords
      /\ \A x : IsLast(x)' <=> IsLast(x)
  BY DEF WrittenRecords, IsLast
<1>2. RowsHeld'
  <2>1. SUFFICES neo'.rows = {o \in WrittenRecords' : o.kind \in RowKinds /\ IsLast(o)'}
    BY DEF RowsHeld
  <2>2. QED  BY <1>1, HeldIs DEF RowsHeld
<1>3. LogsHeld'
  BY HeldIs DEF LogsHeld, OfKind
<1>4. ASSUME NEW x
      PROVE  NodeRecords(x)' = NodeRecords(x) /\ KindsOf(x)' = KindsOf(x) /\ (OneKind(x)' <=> OneKind(x))
  <2>1. NodeRecords(x)' = NodeRecords(x) /\ WrittenOf("membership")' = WrittenOf("membership")
    BY <1>1 DEF NodeRecords, WrittenOf
  <2>2. KindsOf(x)' = {o.kind : o \in NodeRecords(x)'}
                      \cup {k \in {"program", "project"} : \E m \in WrittenOf("membership")' : m[k] = x}
    BY DEF KindsOf
  <2>3. KindsOf(x)' = KindsOf(x)
    BY <2>1, <2>2 DEF KindsOf
  <2>4. QED  BY <2>1, <2>3 DEF OneKind
<1>5. NodesHeld'
  <2>1. SUFFICES ASSUME NEW x \in Refs
                 PROVE  /\ neo'.nodes[x].labels = KindsOf(x)'
                        /\ OneKind(x)' =>
                              \/ NodeRecords(x)' = {} /\ neo'.nodes[x].props = <<>>
                              \/ \E o \in NodeRecords(x)' : IsLast(o)' /\ neo'.nodes[x].props = Props(o)
    BY DEF NodesHeld, Props, ProgramProps, ProjectProps, IntegrationPointProps, ContractProps,
           EvidenceProps, ArtifactProps, DecisionProps, IntelligenceProps, MacroFactProps
  <2>2. QED  BY <1>1, <1>4, HeldIs DEF NodesHeld
<1>6. QED  BY <1>2, <1>3, <1>5, HeldIs, PTL

LEMMA HeldAtStart == Init => LatestIsHeld
<1> SUFFICES ASSUME Init
             PROVE  LatestIsHeld
  OBVIOUS
<1>1. /\ neo.rows = {} /\ neo.logs = <<>> /\ written = <<>>
      /\ \A x \in Refs : neo.nodes[x].labels = {} /\ neo.nodes[x].props = <<>>
  BY DEF Init, EmptyNeo, EmptyNode
<1>2. WrittenRecords = {}
  BY <1>1 DEF WrittenRecords
<1>3. RowsHeld /\ LogsHeld
  BY <1>1, <1>2 DEF RowsHeld, LogsHeld
<1>4. \A x : NodeRecords(x) = {} /\ KindsOf(x) = {}
  BY <1>2 DEF NodeRecords, KindsOf, WrittenOf
<1>5. NodesHeld
  BY <1>1, <1>4 DEF NodesHeld
<1>6. QED  BY <1>3, <1>5, HeldIs

LEMMA HeldByStep == TypeOK /\ LatestIsHeld /\ [Next]_vars => LatestIsHeld'
<1> SUFFICES ASSUME TypeOK, LatestIsHeld, [Next]_vars
             PROVE  LatestIsHeld'
  OBVIOUS
<1>1. NeoTyped(neo)
  BY TypeIs
<1>2. ASSUME NEW r \in Inputs, Upsert(r)
      PROVE  LatestIsHeld'
  <2>1. /\ neo'.rows = IF r.kind \in RowKinds THEN RowsWith(neo.rows, r) ELSE neo.rows
        /\ neo'.logs = IF r.kind \in LogKinds THEN Append(neo.logs, r) ELSE neo.logs
        /\ neo'.nodes = NodesAfter(neo, r) /\ written' = Append(written, r)
    BY <1>1, <1>2, NeoWriteParts DEF Upsert
  <2>2. QED  BY <2>1, WriteHeld
<1>3. ASSUME NEW w \in Writers, NEW r \in Inputs, BeginRelationship(w, r)
      PROVE  LatestIsHeld'
  <2>1. neo'.rows = neo.rows /\ neo'.logs = neo.logs /\ neo'.nodes = neo.nodes
    BY <1>1, <1>3 DEF BeginRelationship, DeleteRelationship, NeoTyped
  <2>2. QED  BY <1>3, <2>1, SameHeld DEF BeginRelationship
<1>4. ASSUME NEW w \in Writers, EndRelationship(w)
      PROVE  LatestIsHeld'
  <2>1. PICK r \in Inputs : r = doing[w].record /\ r.kind = "relationship"
    BY <1>4, BusyAreDoing, DoingsAre DEF EndRelationship, Merging, Putting
  <2>2. neo' = MergeRelationship(neo, r) /\ written' = Append(written, r)
    BY <1>4, <2>1 DEF EndRelationship
  <2>3. r.kind \notin RowKinds /\ r.kind \notin LogKinds /\ NodesAfter(neo, r) = neo.nodes
    BY <2>1 DEF RowKinds, LogKinds, NodeKinds, NodesAfter
  <2>4. neo'.rows = neo.rows /\ neo'.logs = neo.logs /\ neo'.nodes = neo.nodes
    BY <1>1, <2>2 DEF MergeRelationship, NeoTyped
  <2>5. QED  BY <2>2, <2>3, <2>4, WriteHeld
<1>5. ASSUME NEW w \in Writers, PutEvent(w)
      PROVE  LatestIsHeld'
  <2>1. PICK r \in Inputs : r = doing[w].record /\ r.kind = "event"
    BY <1>5, BusyAreDoing, DoingsAre DEF PutEvent, Merging, Putting
  <2>2. CASE "neo" \in doing[w].into
    <3>1. neo' = NeoWrite(neo, r) /\ written' = Append(written, r)
      BY <1>5, <2>1, <2>2 DEF PutEvent
    <3>2. /\ neo'.rows = IF r.kind \in RowKinds THEN RowsWith(neo.rows, r) ELSE neo.rows
          /\ neo'.logs = IF r.kind \in LogKinds THEN Append(neo.logs, r) ELSE neo.logs
          /\ neo'.nodes = NodesAfter(neo, r)
      BY <1>1, <2>1, <3>1, NeoWriteParts
    <3>3. QED  BY <3>1, <3>2, WriteHeld
  <2>3. CASE "neo" \notin doing[w].into
    BY <1>5, <2>3, SameHeld DEF PutEvent
  <2>4. QED  BY <2>2, <2>3
<1>6. ASSUME NEW w \in Writers, NEW r \in Inputs, LookUpKey(w, r)
      PROVE  LatestIsHeld'
  BY <1>6, SameHeld DEF LookUpKey
<1>7. ASSUME NEW w \in Writers, LookUpId(w) \/ Stop(w)
      PROVE  LatestIsHeld'
  BY <1>7, SameHeld DEF LookUpId, Stop
<1>8. CASE UNCHANGED vars
  BY <1>8, SameHeld DEF vars
<1>9. QED  BY <1>2, <1>3, <1>4, <1>5, <1>6, <1>7, <1>8 DEF Next

-----------------------------------------------------------------------------
(* What the Neo4j store lists.                                             *)

Unfiltered == [scope |-> Everything, branch |-> Unset, asOf |-> Unset, statuses |-> Unset,
               targets |-> Unset, superseded |-> TRUE]

LEMMA NothingFiltered ==
    /\ Everything.program = Unset /\ Everything.projects = Unset
    /\ \A value : Holds(Unset, value) /\ AnyOf(Unset, value)
    /\ \A body : WithinContextAnchor(body, Unfiltered)
    /\ Unfiltered.scope = Everything /\ Unfiltered.targets = Unset /\ Unfiltered.statuses = Unset
BY DEF Everything, Holds, AnyOf, WithinContextAnchor, Unfiltered

(* The nodes of a kind are those of the records of that kind last written, *)
(* and nodes that only a membership named.                                 *)
LEMMA NodesOfKind ==
    ASSUME TypeOK, LatestIsHeld, \A ref \in Refs : OneKind(ref), NEW kind \in NodeKinds
    PROVE  /\ \A r \in Latest(kind) :
                 r \in Inputs /\ r.kind = kind /\ \E n \in Nodes(neo, kind) : n.props = Props(r)
           /\ \A n \in Nodes(neo, kind) :
                 \/ n.props = <<>> /\ kind \in {"program", "project"}
                 \/ \E r \in Latest(kind) : n.props = Props(r)
<1>1. written \in Seq(Inputs) /\ NodesHeld
  BY HeldIs DEF TypeOK
<1>2. \A r \in WrittenRecords : r \in Inputs
  BY <1>1 DEF WrittenRecords
<1>3. ASSUME NEW r \in Latest(kind)
      PROVE  r \in Inputs /\ r.kind = kind /\ \E n \in Nodes(neo, kind) : n.props = Props(r)
  <2>1. r \in WrittenRecords /\ r.kind = kind /\ IsLast(r) /\ r \in Inputs
    BY <1>2 DEF Latest, WrittenOf
  <2>2. r.ref \in Refs
    BY <2>1, BackendsAssumption DEF NodeInput
  <2>3. r \in NodeRecords(r.ref) /\ kind \in KindsOf(r.ref)
    BY <2>1 DEF NodeRecords, KindsOf
  <2>4. PICK o \in NodeRecords(r.ref) : IsLast(o) /\ neo.nodes[r.ref].props = Props(o)
    BY <1>1, <2>2, <2>3 DEF NodesHeld
  <2>5. o.kind \in KindsOf(r.ref) /\ o.ref = r.ref
    BY DEF KindsOf, NodeRecords
  <2>6. o.kind = kind
    BY <2>2, <2>3, <2>5 DEF OneKind
  <2>7. o = r
    BY <1>1, <2>1, <2>4, <2>5, <2>6, LastIsUnique
  <2>8. neo.nodes[r.ref] \in Nodes(neo, kind)
    BY <1>1, <2>2, <2>3 DEF NodesHeld, Nodes
  <2>9. QED  BY <2>1, <2>4, <2>7, <2>8
<1>4. ASSUME NEW n \in Nodes(neo, kind)
      PROVE  \/ n.props = <<>> /\ kind \in {"program", "project"}
             \/ \E r \in Latest(kind) : n.props = Props(r)
  <2>1. PICK x \in Refs : n = neo.nodes[x] /\ kind \in neo.nodes[x].labels
    BY DEF Nodes
  <2>2. kind \in KindsOf(x)
    BY <1>1, <2>1 DEF NodesHeld
  <2>3. CASE NodeRecords(x) = {} /\ neo.nodes[x].props = <<>>
    <3>1. kind \in {"program", "project"}
      BY <2>2, <2>3 DEF KindsOf
    <3>2. QED  BY <2>1, <2>3, <3>1
  <2>4. CASE \E r \in NodeRecords(x) : IsLast(r) /\ neo.nodes[x].props = Props(r)
    <3>1. PICK r \in NodeRecords(x) : IsLast(r) /\ neo.nodes[x].props = Props(r)
      BY <2>4
    <3>2. r.kind = kind
      <4>1. r.kind \in KindsOf(x)
        BY DEF KindsOf
      <4>2. QED  BY <2>2, <4>1 DEF OneKind
    <3>3. r \in Latest(kind)
      BY <3>1, <3>2 DEF NodeRecords, Latest, WrittenOf
    <3>4. QED  BY <2>1, <3>1, <3>3
  <2>5. QED  BY <1>1, <2>1, <2>3, <2>4 DEF NodesHeld
<1>5. QED  BY <1>3, <1>4

(* What a list makes of a node.                                            *)
Listing(kind, n) ==
    CASE kind = "program" ->
          Rec("program", Prop(n, "programId"), Unset, Unset, Unset, Prop(n, "status"))
      [] kind = "project" ->
          Rec("project", Prop(n, "projectId"), Prop(n, "programId"), Unset,
                   Prop(n, "activeProgramIds"), Prop(n, "status"))
      [] kind = "integration" ->
          Rec("integration", Prop(n, "integrationPointId"), Unset, Prop(n, "producerProjectId"),
                   Prop(n, "relatedProjectIds"), Prop(n, "status"))
      [] kind = "contract" ->
          Rec("contract", Prop(n, "contractRef"), Unset, Prop(n, "producerProjectId"),
                   Unset, Prop(n, "evidenceRefs"))
      [] kind = "evidence" ->
          Rec("evidence", Prop(n, "evidenceRef"), Unset, Unset, Prop(n, "artifactRef"),
                   [kind |-> Prop(n, "kind"), redaction |-> Prop(n, "redactionStatus")])
      [] kind = "artifact" ->
          Rec("artifact", Prop(n, "artifactRef"), Unset, Unset, Unset, Prop(n, "redactionStatus"))
      [] kind = "decision" ->
          Rec("decision", Prop(n, "decisionId"), Prop(n, "programId"), Prop(n, "projectId"),
                   Prop(n, "appliesToRefs"), NeoBody(n))
      [] OTHER -> Prop(n, "payload")

(* Records are listed as they were written.                                *)
LEMMA Rebuilt ==
    ASSUME NEW r \in Inputs, r.kind \in NodeKinds, NEW n, n.props = Props(r)
    PROVE  Listing(r.kind, n) = r
<1>1. r = Rec(r.kind, r.ref, r.program, r.project, r.links, r.body) /\ NodeInput(r)
  BY BackendsAssumption
<1>2. CASE r.kind = "program"
  <2>1. n.props = ProgramProps(r)
    BY <1>2 DEF Props
  <2>2. Prop(n, "programId") = r.ref /\ Prop(n, "status") = r.body
    BY <2>1 DEF Prop, ProgramProps
  <2>3. r.program = Unset /\ r.project = Unset /\ r.links = Unset
    BY <1>1, <1>2 DEF NodeInput
  <2>4. Listing(r.kind, n)
          = Rec("program", Prop(n, "programId"), Unset, Unset, Unset, Prop(n, "status"))
    BY <1>2 DEF Listing
  <2>5. QED  BY <1>1, <1>2, <2>2, <2>3, <2>4
<1>3. CASE r.kind = "project"
  <2>1. n.props = ProjectProps(r)
    BY <1>3 DEF Props
  <2>2. /\ Prop(n, "projectId") = r.ref /\ Prop(n, "programId") = r.program
        /\ Prop(n, "activeProgramIds") = r.links /\ Prop(n, "status") = r.body
    BY <2>1 DEF Prop, ProjectProps
  <2>3. r.project = Unset
    BY <1>1, <1>3 DEF NodeInput
  <2>4. Listing(r.kind, n)
          = Rec("project", Prop(n, "projectId"), Prop(n, "programId"), Unset,
               Prop(n, "activeProgramIds"), Prop(n, "status"))
    BY <1>3 DEF Listing
  <2>5. QED  BY <1>1, <1>3, <2>2, <2>3, <2>4
<1>4. CASE r.kind = "integration"
  <2>1. n.props = IntegrationPointProps(r)
    BY <1>4 DEF Props
  <2>2. /\ Prop(n, "integrationPointId") = r.ref /\ Prop(n, "producerProjectId") = r.project
        /\ Prop(n, "relatedProjectIds") = r.links /\ Prop(n, "status") = r.body
    BY <2>1 DEF Prop, IntegrationPointProps
  <2>3. r.program = Unset
    BY <1>1, <1>4 DEF NodeInput
  <2>4. Listing(r.kind, n)
          = Rec("integration", Prop(n, "integrationPointId"), Unset, Prop(n, "producerProjectId"),
               Prop(n, "relatedProjectIds"), Prop(n, "status"))
    BY <1>4 DEF Listing
  <2>5. QED  BY <1>1, <1>4, <2>2, <2>3, <2>4
<1>5. CASE r.kind = "evidence"
  <2>1. n.props = EvidenceProps(r)
    BY <1>5 DEF Props
  <2>2. /\ Prop(n, "evidenceRef") = r.ref /\ Prop(n, "artifactRef") = r.links
        /\ Prop(n, "kind") = r.body.kind /\ Prop(n, "redactionStatus") = r.body.redaction
    BY <2>1 DEF Prop, EvidenceProps
  <2>3. /\ r.program = Unset /\ r.project = Unset
        /\ r.body = [kind |-> r.body.kind, redaction |-> r.body.redaction]
    BY <1>1, <1>5 DEF NodeInput
  <2>4. Listing(r.kind, n)
          = Rec("evidence", Prop(n, "evidenceRef"), Unset, Unset, Prop(n, "artifactRef"),
               [kind |-> Prop(n, "kind"), redaction |-> Prop(n, "redactionStatus")])
    BY <1>5 DEF Listing
  <2>5. QED  BY <1>1, <1>5, <2>2, <2>3, <2>4
<1>6. CASE r.kind = "artifact"
  <2>1. n.props = ArtifactProps(r)
    BY <1>6 DEF Props
  <2>2. Prop(n, "artifactRef") = r.ref /\ Prop(n, "redactionStatus") = r.body
    BY <2>1 DEF Prop, ArtifactProps
  <2>3. r.program = Unset /\ r.project = Unset /\ r.links = Unset
    BY <1>1, <1>6 DEF NodeInput
  <2>4. Listing(r.kind, n)
          = Rec("artifact", Prop(n, "artifactRef"), Unset, Unset, Unset, Prop(n, "redactionStatus"))
    BY <1>6 DEF Listing
  <2>5. QED  BY <1>1, <1>6, <2>2, <2>3, <2>4
<1>7. CASE r.kind = "decision"
  <2>1. n.props = DecisionProps(r)
    BY <1>7 DEF Props
  <2>2. /\ Prop(n, "decisionId") = r.ref /\ Prop(n, "programId") = r.program
        /\ Prop(n, "projectId") = r.project /\ Prop(n, "appliesToRefs") = r.links
        /\ NeoBody(n) = [status |-> r.body.status, branch |-> r.body.branch, from |-> r.body.from,
                         to |-> r.body.to, evidence |-> r.body.evidence]
    BY <2>1 DEF Prop, DecisionProps, NeoBody
  <2>3. r.body = [status |-> r.body.status, branch |-> r.body.branch, from |-> r.body.from,
                  to |-> r.body.to, evidence |-> r.body.evidence]
    BY <1>1, <1>7 DEF NodeInput
  <2>4. Listing(r.kind, n)
          = Rec("decision", Prop(n, "decisionId"), Prop(n, "programId"), Prop(n, "projectId"),
               Prop(n, "appliesToRefs"), NeoBody(n))
    BY <1>7 DEF Listing
  <2>5. QED  BY <1>1, <1>7, <2>2, <2>3, <2>4
<1>8. CASE r.kind = "intelligence"
  <2>1. n.props = IntelligenceProps(r)
    BY <1>8 DEF Props
  <2>2. QED  BY <1>8, <2>1 DEF Listing, Prop, IntelligenceProps
<1>9. CASE r.kind = "macro"
  <2>1. n.props = MacroFactProps(r)
    BY <1>9 DEF Props
  <2>2. QED  BY <1>9, <2>1 DEF Listing, Prop, MacroFactProps
<1>10. CASE r.kind = "contract"
  <2>1. n.props = ContractProps(r)
    BY <1>10 DEF Props
  <2>2. /\ Prop(n, "contractRef") = r.ref /\ Prop(n, "producerProjectId") = r.project
        /\ Prop(n, "evidenceRefs") = r.body
    BY <2>1 DEF Prop, ContractProps
  <2>3. r.program = Unset /\ r.links = Unset
    BY <1>1, <1>10 DEF NodeInput
  <2>4. Listing(r.kind, n)
          = Rec("contract", Prop(n, "contractRef"), Unset, Prop(n, "producerProjectId"),
               Unset, Prop(n, "evidenceRefs"))
    BY <1>10 DEF Listing
  <2>5. QED  BY <1>1, <1>10, <2>2, <2>3, <2>4
<1>11. QED  BY <1>2, <1>3, <1>4, <1>5, <1>6, <1>7, <1>8, <1>9, <1>10 DEF NodeKinds

(* The nodes of a kind, listed, are the records of it last written; nodes  *)
(* that only a membership named have no ref of their own.                  *)
LEMMA ListedOfKind ==
    ASSUME TypeOK, LatestIsHeld, \A ref \in Refs : OneKind(ref),
           NEW kind \in NodeKinds
    PROVE  LET listed == {Listing(kind, n) : n \in Nodes(neo, kind)} IN
           /\ {r \in listed : r.ref # Unset} = Latest(kind)
           /\ kind \notin {"program", "project"} => listed = Latest(kind)
<1> DEFINE listed == {Listing(kind, n) : n \in Nodes(neo, kind)}
<1>1. ASSUME NEW r \in Latest(kind)
      PROVE  r \in listed /\ r.ref # Unset
  <2>1. r \in Inputs /\ r.kind = kind
    BY NodesOfKind
  <2>2. PICK n \in Nodes(neo, kind) : n.props = Props(r)
    BY NodesOfKind
  <2>3. Listing(kind, n) = r
    BY <2>1, <2>2, Rebuilt
  <2>4. r.ref # Unset
    BY <2>1, BackendsAssumption DEF NodeInput
  <2>5. QED  BY <2>2, <2>3, <2>4
<1>2. ASSUME NEW n \in Nodes(neo, kind)
      PROVE  \/ Listing(kind, n) \in Latest(kind)
             \/ kind \in {"program", "project"} /\ Listing(kind, n).ref = Unset
  <2>1. CASE n.props = <<>> /\ kind \in {"program", "project"}
    <3>1. Prop(n, "programId") = Unset /\ Prop(n, "projectId") = Unset
      BY <2>1 DEF Prop
    <3>2. QED  BY <2>1, <3>1 DEF Listing, Rec
  <2>2. CASE \E r \in Latest(kind) : n.props = Props(r)
    <3>1. PICK r \in Latest(kind) : n.props = Props(r)
      BY <2>2
    <3>2. r \in Inputs /\ r.kind = kind
      BY NodesOfKind
    <3>3. Listing(kind, n) = r
      BY <3>1, <3>2, Rebuilt
    <3>4. QED  BY <3>3
  <2>3. QED  BY <2>1, <2>2, NodesOfKind
<1>3. QED  BY <1>1, <1>2

LEMMA AllAreListed ==
    ASSUME TypeOK, LatestIsHeld, \A ref \in Refs : OneKind(ref)
    PROVE  /\ {r \in NeoPrograms(neo, Everything) : r.ref # Unset} = Latest("program")
           /\ {r \in NeoProjects(neo, Everything) : r.ref # Unset} = Latest("project")
           /\ NeoIntegrationPoints(neo, Everything) = Latest("integration")
           /\ NeoEvidenceRefs(neo, Unset) = Latest("evidence")
           /\ NeoArtifactRefs(neo, Unset) = Latest("artifact")
           /\ NeoDecisions(neo, Unfiltered) = Latest("decision")
           /\ NeoIntelligenceRecords(neo, Unfiltered) = Latest("intelligence")
           /\ NeoMacroFacts(neo, Everything) = Latest("macro")
<1>1. NeoPrograms(neo, Everything) = {Listing("program", n) : n \in Nodes(neo, "program")}
  BY NothingFiltered DEF NeoPrograms, Listing
<1>2. NeoProjects(neo, Everything) = {Listing("project", n) : n \in Nodes(neo, "project")}
  BY NothingFiltered DEF NeoProjects, Listing
<1>3. NeoIntegrationPoints(neo, Everything) = {Listing("integration", n) : n \in Nodes(neo, "integration")}
  BY NothingFiltered DEF NeoIntegrationPoints, Listing
<1>4. NeoEvidenceRefs(neo, Unset) = {Listing("evidence", n) : n \in Nodes(neo, "evidence")}
  BY NothingFiltered DEF NeoEvidenceRefs, Listing
<1>5. NeoArtifactRefs(neo, Unset) = {Listing("artifact", n) : n \in Nodes(neo, "artifact")}
  BY NothingFiltered DEF NeoArtifactRefs, Listing
<1>6. NeoDecisions(neo, Unfiltered) = {Listing("decision", n) : n \in Nodes(neo, "decision")}
  BY NothingFiltered DEF NeoDecisions, Listing
<1>7. NeoIntelligenceRecords(neo, Unfiltered) = {Listing("intelligence", n) : n \in Nodes(neo, "intelligence")}
  BY NothingFiltered DEF NeoIntelligenceRecords, Listing
<1>8. NeoMacroFacts(neo, Everything) = {Listing("macro", n) : n \in Nodes(neo, "macro")}
  BY NothingFiltered DEF NeoMacroFacts, Listing
<1>9. {"program", "project", "integration", "evidence", "artifact", "decision", "intelligence",
       "macro"} \subseteq NodeKinds
  BY DEF NodeKinds
<1>10. /\ {r \in NeoPrograms(neo, Everything) : r.ref # Unset} = Latest("program")
       /\ {r \in NeoProjects(neo, Everything) : r.ref # Unset} = Latest("project")
  BY <1>1, <1>2, <1>9, ListedOfKind
<1>11. /\ NeoIntegrationPoints(neo, Everything) = Latest("integration")
       /\ NeoEvidenceRefs(neo, Unset) = Latest("evidence")
       /\ NeoArtifactRefs(neo, Unset) = Latest("artifact")
  BY <1>3, <1>4, <1>5, <1>9, ListedOfKind
<1>12. /\ NeoDecisions(neo, Unfiltered) = Latest("decision")
       /\ NeoIntelligenceRecords(neo, Unfiltered) = Latest("intelligence")
       /\ NeoMacroFacts(neo, Everything) = Latest("macro")
  BY <1>6, <1>7, <1>8, <1>9, ListedOfKind
<1>13. QED  BY <1>10, <1>11, <1>12

LEMMA LedgerIsListed ==
    ASSUME LatestIsHeld
    PROVE  /\ \A k \in LedgerKinds : NeoLedgerRows(neo, k, Everything) = Latest(k)
           /\ \A k \in LogKinds : NeoLedgerLog(neo, k, Everything) = LogWritten(k)
<1>1. \A r : MatchesLedgerScope(r, Everything)
  BY DEF MatchesLedgerScope, InScope, MatchesProjectScope, Holds, AnyOf, Everything
<1>2. ASSUME NEW k \in LedgerKinds
      PROVE  NeoLedgerRows(neo, k, Everything) = Latest(k)
  <2>1. k \in RowKinds
    BY DEF LedgerKinds, RowKinds
  <2>2. neo.rows = {r \in WrittenRecords : r.kind \in RowKinds /\ IsLast(r)}
    BY DEF LatestIsHeld
  <2>3. NeoLedgerRows(neo, k, Everything) = {r \in neo.rows : r.kind = k}
    BY <1>1 DEF NeoLedgerRows
  <2>4. QED  BY <2>1, <2>2, <2>3 DEF Latest, WrittenOf
<1>3. QED  BY <1>2 DEF LatestIsHeld

LEMMA HeldIsListed ==
    ASSUME TypeOK, LatestIsHeld
    PROVE  LatestRecordListed
<1> DEFINE view == NeoView(Unfiltered)
<1>2. /\ view.programs = NeoPrograms(neo, Everything)
      /\ view.projects = NeoProjects(neo, Everything)
      /\ view.integrations = NeoIntegrationPoints(neo, Everything)
      /\ view.evidence = NeoEvidenceRefs(neo, Unset)
      /\ view.artifacts = NeoArtifactRefs(neo, Unset)
      /\ view.decisions = NeoDecisions(neo, Unfiltered)
  <2> DEFINE q == [Unfiltered EXCEPT !.targets = Unset]
  <2>1. /\ q.scope = Everything /\ q.branch = Unset /\ q.asOf = Unset /\ q.statuses = Unset
        /\ q.targets = Unset /\ Unfiltered.scope = Everything
    BY DEF Unfiltered
  <2>2. NeoDecisions(neo, q) = NeoDecisions(neo, Unfiltered)
    <3>1. \A body : WithinContextAnchor(body, q) /\ WithinContextAnchor(body, Unfiltered)
      BY <2>1, NothingFiltered DEF WithinContextAnchor
    <3> HIDE DEF q
    <3>2. QED  BY <2>1, <3>1, NothingFiltered DEF NeoDecisions
  <2> HIDE DEF q
  <2>3. QED  BY <2>1, <2>2 DEF NeoView, q
<1>3. LatestRecordListed <=>
         ((\A ref \in Refs : OneKind(ref)) =>
            /\ {r \in view.programs : r.ref # Unset} = Latest("program")
            /\ {r \in view.projects : r.ref # Unset} = Latest("project")
            /\ view.integrations = Latest("integration")
            /\ view.evidence = Latest("evidence")
            /\ view.artifacts = Latest("artifact")
            /\ view.decisions = Latest("decision")
            /\ NeoIntelligenceRecords(neo, Unfiltered) = Latest("intelligence")
            /\ NeoMacroFacts(neo, Everything) = Latest("macro")
            /\ \A k \in LedgerKinds : NeoLedgerRows(neo, k, Everything) = Latest(k)
            /\ \A k \in LogKinds : NeoLedgerLog(neo, k, Everything) = LogWritten(k))
  BY DEF LatestRecordListed, Unfiltered
<1> HIDE DEF view
<1>4. QED  BY <1>2, <1>3, AllAreListed, LedgerIsListed

-----------------------------------------------------------------------------
(* What the arrays hold of what was written.                               *)

Key(r) == Graph!GraphKey(r)
KeysDiffer(array) == \A i, j \in DOMAIN array : Key(array[i]) = Key(array[j]) => i = j

(* The first record of the key is replaced where it is, or the record is   *)
(* put behind the others: in either store the same.                        *)
LEMMA UpsertEntityIs ==
    ASSUME NEW array \in Seq(Inputs), NEW r \in Inputs, KeysDiffer(array)
    PROVE  LET new == Graph!UpsertEntity(array, r) IN
           /\ Memory!UpsertEntity(array, r) = new /\ KeysDiffer(new)
           /\ Graph!ToSet(new) = {o \in Graph!ToSet(array) : Key(o) # Key(r)} \cup {r}
<1> DEFINE same == {i \in DOMAIN array : Key(array[i]) = Key(r)}
           first == CHOOSE i \in same : \A j \in same : i <= j
           new == Graph!UpsertEntity(array, r)
           n == Len(array)
<1>1. \A o : Memory!GraphKey(o) = Key(o)
  BY DEF Memory!GraphKey, Key, Graph!GraphKey
<1>2. new = IF same = {} THEN Append(array, r) ELSE [array EXCEPT ![first] = r]
  BY DEF Graph!UpsertEntity, Key
<1>3. Memory!UpsertEntity(array, r) = new
  BY <1>1, <1>2 DEF Memory!UpsertEntity
<1>4. n \in Nat /\ DOMAIN array = 1 .. n /\ \A i \in 1 .. n : array[i] \in Inputs
  OBVIOUS
<1>5. \A s : Graph!ToSet(s) = {s[i] : i \in DOMAIN s}
  BY DEF Graph!ToSet
<1> HIDE DEF new
<1>6. CASE same = {}
  <2>1. /\ DOMAIN new = 1 .. n + 1 /\ new[n + 1] = r
        /\ \A i \in 1 .. n : new[i] = array[i] /\ Key(array[i]) # Key(r)
    BY <1>2, <1>4, <1>6
  <2> HIDE DEF same, n
  <2>2. KeysDiffer(new)
    BY <1>4, <2>1 DEF KeysDiffer
  <2>3. \A x : (\E i \in 1 .. n + 1 : x = new[i]) <=> (x = r \/ \E i \in 1 .. n : x = array[i])
    BY <1>4, <2>1
  <2>4. Graph!ToSet(new) = {o \in Graph!ToSet(array) : Key(o) # Key(r)} \cup {r}
    BY <1>4, <1>5, <2>1, <2>3
  <2>5. QED  BY <1>3, <2>2, <2>4 DEF new
<1>7. CASE same # {}
  <2>1. PICK k \in 1 .. n : same = {k}
    <3>1. \A i, j \in same : i = j
      BY DEF KeysDiffer
    <3>2. QED  BY <1>4, <1>7, <3>1
  <2>2. first = k
    BY <1>4, <2>1
  <2> HIDE DEF first
  <2>3. /\ DOMAIN new = 1 .. n /\ new[k] = r
        /\ \A i \in 1 .. n : i # k => new[i] = array[i] /\ Key(array[i]) # Key(r)
        /\ Key(array[k]) = Key(r)
    BY <1>2, <1>4, <1>7, <2>1, <2>2
  <2> HIDE DEF same, n
  <2>4. KeysDiffer(new)
    BY <1>4, <2>3 DEF KeysDiffer
  <2>5. Graph!ToSet(new) = {o \in Graph!ToSet(array) : Key(o) # Key(r)} \cup {r}
    <3>1. \A x : (\E i \in 1 .. n : x = new[i])
                    <=> (x = r \/ \E i \in 1 .. n : x = array[i] /\ Key(array[i]) # Key(r))
      BY <2>3
    <3>2. QED  BY <1>4, <1>5, <2>3, <3>1
  <2>6. QED  BY <1>3, <2>4, <2>5 DEF new
<1>8. QED  BY <1>6, <1>7

(* Which record of a key was written last, after one write more.           *)
LEMMA LatestOfKeyGrows ==
    ASSUME written \in Seq(Inputs), NEW r \in Inputs, written' = Append(written, r), NEW kind
    PROVE  LatestOfKey(kind)' = IF r.kind = kind
                                THEN {o \in LatestOfKey(kind) : Key(o) # Key(r)} \cup {r}
                                ELSE LatestOfKey(kind)
<1> DEFINE n == Len(written) + 1
<1>1. /\ Len(written) \in Nat /\ DOMAIN written = 1 .. Len(written)
      /\ DOMAIN written' = 1 .. n /\ written'[n] = r
      /\ \A i \in 1 .. Len(written) : written'[i] = written[i]
  OBVIOUS
<1>2. WrittenOf(kind)' = IF r.kind = kind THEN WrittenOf(kind) \cup {r} ELSE WrittenOf(kind)
  BY <1>1 DEF WrittenOf, WrittenRecords
<1>3. \A x : IsLastOfKey(x) <=>
         \E i \in DOMAIN written :
            /\ written[i] = x
            /\ \A j \in DOMAIN written :
                  j > i => <<written[j].kind, Key(written[j])>> # <<x.kind, Key(x)>>
  BY DEF IsLastOfKey, Key
<1>4. \A x : IsLastOfKey(x)' <=>
         \E i \in DOMAIN written' :
            /\ written'[i] = x
            /\ \A j \in DOMAIN written' :
                  j > i => <<written'[j].kind, Key(written'[j])>> # <<x.kind, Key(x)>>
  BY DEF IsLastOfKey, Key
<1>5. ASSUME NEW x, <<x.kind, Key(x)>> # <<r.kind, Key(r)>>
      PROVE  IsLastOfKey(x)' <=> IsLastOfKey(x)
  <2>1. ASSUME IsLastOfKey(x)
        PROVE  IsLastOfKey(x)'
    <3>1. PICK i \in 1 .. Len(written) :
             /\ written[i] = x
             /\ \A j \in 1 .. Len(written) :
                  j > i => <<written[j].kind, Key(written[j])>> # <<x.kind, Key(x)>>
      BY <1>1, <1>3, <2>1
    <3>2. \A j \in 1 .. n : j > i => <<written'[j].kind, Key(written'[j])>> # <<x.kind, Key(x)>>
      BY <1>1, <1>5, <3>1
    <3>3. i \in 1 .. n /\ written'[i] = x
      BY <1>1, <3>1
    <3>4. QED  BY <1>1, <1>4, <3>2, <3>3
  <2>2. ASSUME IsLastOfKey(x)'
        PROVE  IsLastOfKey(x)
    <3>1. PICK i \in 1 .. n :
             /\ written'[i] = x
             /\ \A j \in 1 .. n :
                  j > i => <<written'[j].kind, Key(written'[j])>> # <<x.kind, Key(x)>>
      BY <1>1, <1>4, <2>2
    <3>2. i # n
      BY <1>1, <1>5, <3>1
    <3>3. /\ i \in 1 .. Len(written) /\ written[i] = x
          /\ \A j \in 1 .. Len(written) :
                j > i => <<written[j].kind, Key(written[j])>> # <<x.kind, Key(x)>>
      BY <1>1, <3>1, <3>2
    <3>4. QED  BY <1>1, <1>3, <3>3
  <2>3. QED  BY <2>1, <2>2
<1>6. IsLastOfKey(r)'
  <2>1. n \in DOMAIN written' /\ \A j \in DOMAIN written' : ~(j > n)
    BY <1>1
  <2>2. QED  BY <1>1, <1>4, <2>1
<1>7. ASSUME NEW x, <<x.kind, Key(x)>> = <<r.kind, Key(r)>>, IsLastOfKey(x)'
      PROVE  x = r
  <2>1. PICK i \in 1 .. n :
           /\ written'[i] = x
           /\ \A j \in 1 .. n :
                j > i => <<written'[j].kind, Key(written'[j])>> # <<x.kind, Key(x)>>
    BY <1>1, <1>4, <1>7
  <2>2. i = n
    BY <1>1, <1>7, <2>1
  <2>3. QED  BY <1>1, <2>1, <2>2
<1>8. LatestOfKey(kind) = {x \in WrittenOf(kind) : IsLastOfKey(x)}
  BY DEF LatestOfKey
<1>9. LatestOfKey(kind)' = {x \in WrittenOf(kind)' : IsLastOfKey(x)'}
  BY DEF LatestOfKey
<1>10. \A x \in WrittenOf(kind) \cup WrittenOf(kind)' : x.kind = kind
  BY DEF WrittenOf
<1> HIDE DEF n
<1>11. CASE r.kind = kind
  <2>1. ASSUME NEW x \in LatestOfKey(kind)'
        PROVE  x \in {o \in LatestOfKey(kind) : Key(o) # Key(r)} \cup {r}
    BY <1>2, <1>5, <1>7, <1>8, <1>9, <1>10, <1>11
  <2>2. ASSUME NEW x \in {o \in LatestOfKey(kind) : Key(o) # Key(r)} \cup {r}
        PROVE  x \in LatestOfKey(kind)'
    BY <1>2, <1>5, <1>6, <1>8, <1>9, <1>10, <1>11
  <2>3. QED  BY <1>11, <2>1, <2>2
<1>12. CASE r.kind # kind
  <2>1. WrittenOf(kind)' = WrittenOf(kind) /\ \A x \in WrittenOf(kind) : IsLastOfKey(x)' <=> IsLastOfKey(x)
    BY <1>2, <1>5, <1>10, <1>12
  <2>2. QED  BY <1>8, <1>9, <1>12, <2>1
<1>13. QED  BY <1>11, <1>12

ArrayKinds == Kinds \ (LogKinds \cup {"event"})
MembersWith(members, r) ==
    {m \in members : <<m.program, m.project>> # <<r.program, r.project>>} \cup {r}

LEMMA ArraysAre ==
    ArraysAreHeld <=>
        /\ \A k \in Kinds \ {"event"} : memory[k] = graph[k]
        /\ \A k \in ArrayKinds : Graph!All(graph, k) = LatestOfKey(k) /\ KeysDiffer(graph[k])
        /\ \A k \in LogKinds : graph[k] = OfKind(written, k)
        /\ neo.members = LatestOfKey("membership")
        /\ neo.edges \subseteq WrittenOf("relationship")
BY DEF ArraysAreHeld, ArrayKinds, KeysDiffer, Key, OfKind, LogWritten

LEMMA ArraysNextAre ==
    ArraysAreHeld' <=>
        /\ \A k \in Kinds \ {"event"} : memory'[k] = graph'[k]
        /\ \A k \in ArrayKinds :
              Graph!ToSet(graph'[k]) = LatestOfKey(k)' /\ KeysDiffer(graph'[k])
        /\ \A k \in LogKinds : graph'[k] = OfKind(written', k)
        /\ neo'.members = LatestOfKey("membership")'
        /\ neo'.edges \subseteq WrittenOf("relationship")'
BY DEF ArraysAreHeld, ArrayKinds, KeysDiffer, Key, OfKind, LogWritten, Graph!All, Graph!GraphKey

LEMMA OneKindOfArray ==
    /\ ArrayKinds \subseteq Kinds \ {"event"} /\ LogKinds \subseteq Kinds \ {"event"}
    /\ "membership" \in ArrayKinds /\ "relationship" \in ArrayKinds
    /\ \A k \in Kinds \ {"event"} : k \in ArrayKinds <=> k \notin LogKinds
    /\ Memory!LogKinds = LogKinds /\ Graph!LogKinds = LogKinds
BY DEF ArrayKinds, Kinds, NodeKinds, RowKinds, LogKinds, EdgeKinds, Memory!LogKinds, Graph!LogKinds

(* One record more, written to both kinds of array.                        *)
LEMMA ArraysGrow ==
    ASSUME TypeOK, ArraysAreHeld, NEW r \in Inputs, r.kind # "event", written' = Append(written, r),
           graph' = Graph!GraphWrite(graph, r), memory' = Memory!MemoryWrite(memory, r),
           neo'.members = IF r.kind = "membership" THEN MembersWith(neo.members, r) ELSE neo.members,
           neo'.edges \subseteq IF r.kind = "relationship" THEN neo.edges \cup {r} ELSE neo.edges
    PROVE  ArraysAreHeld'
<1> DEFINE K == r.kind
           new == IF K \in LogKinds THEN Append(graph[K], r) ELSE Graph!UpsertEntity(graph[K], r)
<1>1. /\ written \in Seq(Inputs) /\ K \in Kinds \ {"event"}
      /\ graph \in [Kinds -> Seq(Inputs)] /\ memory \in [Kinds -> Seq(Inputs)]
  BY TypeIs, BackendsAssumption
<1>2. K \in ArrayKinds => KeysDiffer(graph[K]) /\ Graph!ToSet(graph[K]) = LatestOfKey(K)
  BY ArraysAre DEF Graph!All
<1>3. memory[K] = graph[K]
  BY <1>1, ArraysAre
<1>4. K \in ArrayKinds <=> K \notin LogKinds
  BY <1>1, OneKindOfArray
<1>5. graph' = [graph EXCEPT ![K] = new]
  BY <1>1, OneKindOfArray DEF Graph!GraphWrite
<1>6. K \in LogKinds => memory' = [memory EXCEPT ![K] = Append(memory[K], r)]
  <2>1. ASSUME K \in LogKinds
        PROVE  memory' = [memory EXCEPT ![K] = Append(memory[K], r)]
    <3>1. K \in Memory!LogKinds /\ ~(K \notin Memory!LogKinds \cup {"event"}) /\ K # "event"
      BY <2>1, OneKindOfArray
    <3>2. QED  BY <3>1 DEF Memory!MemoryWrite
  <2>2. QED  BY <2>1
<1>7. K \notin LogKinds => memory' = [memory EXCEPT ![K] = Memory!UpsertEntity(memory[K], r)]
  <2>1. ASSUME K \notin LogKinds
        PROVE  memory' = [memory EXCEPT ![K] = Memory!UpsertEntity(memory[K], r)]
    <3>1. K \notin Memory!LogKinds \cup {"event"} /\ K # "event" /\ K \notin Memory!LogKinds
      BY <2>1, OneKindOfArray
    <3>2. QED  BY <3>1 DEF Memory!MemoryWrite
  <2>2. QED  BY <2>1
<1>8. K \in ArrayKinds =>
         /\ Memory!UpsertEntity(graph[K], r) = new /\ KeysDiffer(new)
         /\ Graph!ToSet(new) = {o \in LatestOfKey(K) : Key(o) # Key(r)} \cup {r}
  BY <1>1, <1>2, <1>4, UpsertEntityIs
<1> HIDE DEF new
<1>9. memory' = [memory EXCEPT ![K] = new]
  BY <1>3, <1>4, <1>6, <1>7, <1>8 DEF new
<1>10. /\ graph'[K] = new /\ memory'[K] = new
       /\ \A k \in Kinds \ {K} : graph'[k] = graph[k] /\ memory'[k] = memory[k]
  BY <1>1, <1>5, <1>9
<1>11. \A k : LatestOfKey(k)' = IF K = k THEN {o \in LatestOfKey(k) : Key(o) # Key(r)} \cup {r}
                                ELSE LatestOfKey(k)
  BY <1>1, LatestOfKeyGrows
<1>12. ASSUME NEW k \in Kinds \ {"event"}
       PROVE  memory'[k] = graph'[k]
  BY <1>10, ArraysAre
<1>13. ASSUME NEW k \in ArrayKinds
       PROVE  Graph!ToSet(graph'[k]) = LatestOfKey(k)' /\ KeysDiffer(graph'[k])
  <2>1. CASE k = K
    BY <1>8, <1>10, <1>11, <2>1
  <2>2. CASE k # K
    <3>1. graph'[k] = graph[k] /\ LatestOfKey(k)' = LatestOfKey(k)
      BY <1>10, <1>11, <2>2, OneKindOfArray
    <3>2. QED  BY <3>1, ArraysAre DEF Graph!All
  <2>3. QED  BY <2>1, <2>2
<1>14. ASSUME NEW k \in LogKinds
       PROVE  graph'[k] = OfKind(written', k)
  <2>1. graph[k] = OfKind(written, k)
    BY ArraysAre
  <2>2. OfKind(written', k) = IF K = k THEN Append(OfKind(written, k), r) ELSE OfKind(written, k)
    BY <1>1, OfKindGrows
  <2>3. QED  BY <1>10, <2>1, <2>2, OneKindOfArray DEF new
<1>15. neo'.members = LatestOfKey("membership")'
  <2>1. neo.members = LatestOfKey("membership")
    BY ArraysAre
  <2>2. CASE K # "membership"
    BY <1>11, <2>1, <2>2
  <2>3. CASE K = "membership"
    <3>1. ASSUME NEW o \in LatestOfKey("membership")
          PROVE  Key(o) # Key(r) <=> <<o.program, o.project>> # <<r.program, r.project>>
      <4>1. o \in Inputs /\ o.kind = "membership"
        BY <1>1 DEF LatestOfKey, WrittenOf, WrittenRecords
      <4>2. o.ref = Unset /\ r.ref = Unset
        BY <2>3, <4>1, BackendsAssumption
      <4>3. /\ Key(o) = <<o.program, o.project, o.ref>>
            /\ Key(r) = <<r.program, r.project, r.ref>>
        BY <2>3, <4>1 DEF Key, Graph!GraphKey
      <4>4. QED  BY <4>2, <4>3
    <3>2. neo'.members = MembersWith(neo.members, r)
      BY <2>3
    <3>3. LatestOfKey("membership")' = {o \in LatestOfKey("membership") : Key(o) # Key(r)} \cup {r}
      BY <1>11, <2>3
    <3>4. {o \in LatestOfKey("membership") : Key(o) # Key(r)} =
             {o \in neo.members : <<o.program, o.project>> # <<r.program, r.project>>}
      BY <2>1, <3>1
    <3>5. QED  BY <3>2, <3>3, <3>4 DEF MembersWith
  <2>4. QED  BY <2>2, <2>3
<1>16. neo'.edges \subseteq WrittenOf("relationship")'
  <2>1. neo.edges \subseteq WrittenOf("relationship")
    BY ArraysAre
  <2>2. /\ WrittenOf("relationship") \subseteq WrittenOf("relationship")'
        /\ K = "relationship" => r \in WrittenOf("relationship")'
    <3>1. WrittenRecords' = WrittenRecords \cup {r}
      BY <1>1, WrittenGrows
    <3>2. QED  BY <3>1 DEF WrittenOf
  <2>3. QED  BY <2>1, <2>2
<1>17. QED  BY <1>12, <1>13, <1>14, <1>15, <1>16, ArraysNextAre

(* A step that writes at most an event leaves the other arrays alone.      *)
LEMMA ArraysStay ==
    ASSUME TypeOK, ArraysAreHeld,
           \A k \in Kinds \ {"event"} : graph'[k] = graph[k] /\ memory'[k] = memory[k],
           neo'.members = neo.members, neo'.edges \subseteq neo.edges,
           \/ written' = written
           \/ \E r \in Inputs : r.kind = "event" /\ written' = Append(written, r)
    PROVE  ArraysAreHeld'
<1>1. written \in Seq(Inputs)
  BY TypeIs
<1>2. /\ \A k \in ArrayKinds : LatestOfKey(k)' = LatestOfKey(k)
      /\ \A k \in LogKinds : OfKind(written', k) = OfKind(written, k)
      /\ WrittenOf("relationship") \subseteq WrittenOf("relationship")'
  <2>1. CASE written' = written
    BY <2>1 DEF LatestOfKey, WrittenOf, WrittenRecords, IsLastOfKey, Graph!GraphKey
  <2>2. ASSUME NEW r \in Inputs, r.kind = "event", written' = Append(written, r)
        PROVE  /\ \A k \in ArrayKinds : LatestOfKey(k)' = LatestOfKey(k)
               /\ \A k \in LogKinds : OfKind(written', k) = OfKind(written, k)
               /\ WrittenOf("relationship") \subseteq WrittenOf("relationship")'
    <3>1. ASSUME NEW k \in ArrayKinds
          PROVE  LatestOfKey(k)' = LatestOfKey(k)
      <4>1. r.kind # k
        BY <2>2 DEF ArrayKinds
      <4>2. QED  BY <1>1, <2>2, <4>1, LatestOfKeyGrows
    <3>2. ASSUME NEW k \in LogKinds
          PROVE  OfKind(written', k) = OfKind(written, k)
      <4>1. r.kind # k
        BY <2>2 DEF LogKinds
      <4>2. QED  BY <1>1, <2>2, <4>1, OfKindGrows
    <3>3. WrittenRecords' = WrittenRecords \cup {r}
      BY <1>1, <2>2, WrittenGrows
    <3>4. QED  BY <3>1, <3>2, <3>3 DEF WrittenOf
  <2>3. QED  BY <2>1, <2>2
<1>3. QED  BY <1>2, ArraysAre, ArraysNextAre, OneKindOfArray DEF Graph!All

(* The memberships a write leaves.                                         *)
LEMMA MembersAfter ==
    ASSUME NeoTyped(neo), NEW r \in Inputs, r.kind # "relationship"
    PROVE  NeoWrite(neo, r).members =
              IF r.kind = "membership" THEN MembersWith(neo.members, r) ELSE neo.members
<1>1. r.kind \in NodeKinds \cup {"membership"} \cup RowKinds \cup LogKinds
  BY BackendsAssumption DEF Kinds, EdgeKinds
<1>2. /\ UpsertNode(neo, r).members = neo.members
      /\ UpsertMembership(neo, r).members = MembersWith(neo.members, r)
      /\ UpsertRow(neo, r).members = neo.members /\ CreateRow(neo, r).members = neo.members
  BY DEF NeoTyped, UpsertNode, UpsertMembership, UpsertRow, CreateRow, MembersWith
<1>3. CASE r.kind \in NodeKinds
  <2>1. NeoWrite(neo, r) = UpsertNode(neo, r) /\ r.kind # "membership"
    BY <1>3 DEF NeoWrite, NodeKinds, RowKinds, LogKinds
  <2>2. QED  BY <1>2, <2>1
<1>4. CASE r.kind = "membership"
  <2>1. NeoWrite(neo, r) = UpsertMembership(neo, r)
    BY <1>4 DEF NeoWrite, NodeKinds, RowKinds, LogKinds
  <2>2. QED  BY <1>2, <1>4, <2>1
<1>5. CASE r.kind \in RowKinds
  <2>1. NeoWrite(neo, r) = UpsertRow(neo, r) /\ r.kind # "membership"
    BY <1>5 DEF NeoWrite, NodeKinds, RowKinds, LogKinds
  <2>2. QED  BY <1>2, <2>1
<1>6. CASE r.kind \in LogKinds
  <2>1. NeoWrite(neo, r) = CreateRow(neo, r) /\ r.kind # "membership"
    BY <1>6 DEF NeoWrite, NodeKinds, RowKinds, LogKinds
  <2>2. QED  BY <1>2, <2>1
<1>7. QED  BY <1>1, <1>3, <1>4, <1>5, <1>6

(* An event is put into no other array.                                    *)
LEMMA EventWrites ==
    ASSUME TypeOK, NEW r \in Inputs, r.kind = "event"
    PROVE  \A k \in Kinds \ {"event"} :
              /\ Graph!GraphWrite(graph, r)[k] = graph[k]
              /\ Memory!MemoryWrite(memory, r)[k] = memory[k]
              /\ Memory!MemoryAddEvent(memory, r)[k] = memory[k]
BY TypeIs DEF Graph!GraphWrite, Memory!MemoryWrite, Memory!MemoryAddEvent

LEMMA ArraysAtStart == Init => ArraysAreHeld
<1> SUFFICES ASSUME Init
             PROVE  ArraysAreHeld
  OBVIOUS
<1>1. /\ neo.members = {} /\ neo.edges = {} /\ written = <<>>
      /\ \A k \in Kinds : graph[k] = <<>> /\ memory[k] = <<>>
  BY DEF Init, EmptyNeo, Graph!EmptyArrays, Graph!Kinds, Graph!NodeKinds, Graph!RowKinds,
         Graph!LogKinds, Graph!EdgeKinds, Kinds, NodeKinds, RowKinds, LogKinds, EdgeKinds
<1>2. \A k : WrittenOf(k) = {} /\ LatestOfKey(k) = {}
  BY <1>1 DEF LatestOfKey, WrittenOf, WrittenRecords
<1>3. \A k : OfKind(written, k) = <<>>
  <2>1. {i \in DOMAIN written : FALSE} = {}
    OBVIOUS
  <2>2. Cardinality({}) = 0
    BY FS_EmptySet
  <2>3. Picked(<<>>, {}) = <<>>
    <3>1. 1 .. Cardinality({}) = {}
      BY <2>2
    <3>2. QED  BY <3>1 DEF Picked
  <2>4. \A k : {i \in DOMAIN written : written[i].kind = k} = {}
    BY <1>1
  <2>5. QED  BY <1>1, <2>3, <2>4 DEF OfKind
<1>4. KeysDiffer(<<>>) /\ Graph!ToSet(<<>>) = {}
  BY DEF KeysDiffer, Graph!ToSet
<1>5. QED  BY <1>1, <1>2, <1>3, <1>4, ArraysAre, OneKindOfArray DEF Graph!All

LEMMA ArraysByStep == TypeOK /\ ArraysAreHeld /\ [Next]_vars => ArraysAreHeld'
<1> SUFFICES ASSUME TypeOK, ArraysAreHeld, [Next]_vars
             PROVE  ArraysAreHeld'
  OBVIOUS
<1>1. NeoTyped(neo)
  BY TypeIs
<1>2. ASSUME NEW r \in Inputs, Upsert(r)
      PROVE  ArraysAreHeld'
  <2>1. /\ neo'.members = IF r.kind = "membership" THEN MembersWith(neo.members, r) ELSE neo.members
        /\ neo'.edges = neo.edges /\ r.kind # "relationship" /\ written' = Append(written, r)
        /\ graph' = Graph!GraphWrite(graph, r)
    BY <1>1, <1>2, MembersAfter, NeoWriteTyped DEF Upsert
  <2>2. CASE r.kind = "event"
    <3>1. \A k \in Kinds \ {"event"} : graph'[k] = graph[k] /\ memory'[k] = memory[k]
      BY <1>2, <2>1, <2>2, EventWrites DEF Upsert
    <3>2. neo'.members = neo.members
      BY <2>1, <2>2
    <3>3. QED  BY <2>1, <2>2, <3>1, <3>2, ArraysStay
  <2>3. CASE r.kind # "event"
    <3>1. memory' = Memory!MemoryWrite(memory, r)
      BY <1>2, <2>3 DEF Upsert
    <3>2. QED  BY <2>1, <2>3, <3>1, ArraysGrow
  <2>4. QED  BY <2>2, <2>3
<1>3. ASSUME NEW w \in Writers, NEW r \in Inputs, BeginRelationship(w, r)
      PROVE  ArraysAreHeld'
  <2>1. neo'.members = neo.members /\ neo'.edges \subseteq neo.edges
    BY <1>1, <1>3 DEF BeginRelationship, DeleteRelationship, NeoTyped
  <2>2. QED  BY <1>3, <2>1, ArraysStay DEF BeginRelationship
<1>4. ASSUME NEW w \in Writers, EndRelationship(w)
      PROVE  ArraysAreHeld'
  <2>1. PICK r \in Inputs : r = doing[w].record /\ r.kind = "relationship"
    BY <1>4, BusyAreDoing, DoingsAre DEF EndRelationship, Merging, Putting
  <2>2. /\ neo' = MergeRelationship(neo, r) /\ written' = Append(written, r)
        /\ graph' = Graph!GraphWrite(graph, r) /\ memory' = Memory!MemoryWrite(memory, r)
    BY <1>4, <2>1 DEF EndRelationship
  <2>3. neo'.members = neo.members /\ neo'.edges \subseteq neo.edges \cup {r}
    BY <1>1, <2>2 DEF MergeRelationship, NeoTyped
  <2>4. QED  BY <2>1, <2>2, <2>3, ArraysGrow
<1>5. ASSUME NEW w \in Writers, PutEvent(w)
      PROVE  ArraysAreHeld'
  <2>1. PICK r \in Inputs : r = doing[w].record /\ r.kind = "event"
    BY <1>5, BusyAreDoing, DoingsAre DEF PutEvent, Merging, Putting
  <2>2. \A k \in Kinds \ {"event"} : graph'[k] = graph[k] /\ memory'[k] = memory[k]
    BY <1>5, <2>1, EventWrites DEF PutEvent
  <2>3. neo'.members = neo.members /\ neo'.edges = neo.edges
    <3>1. neo' = neo \/ neo' = NeoWrite(neo, r)
      BY <1>5, <2>1 DEF PutEvent
    <3>2. NeoWrite(neo, r).members = neo.members /\ NeoWrite(neo, r).edges = neo.edges
      BY <1>1, <2>1, MembersAfter, NeoWriteTyped
    <3>3. QED  BY <3>1, <3>2
  <2>4. written' = written \/ written' = Append(written, r)
    BY <1>5, <2>1 DEF PutEvent
  <2>5. QED  BY <2>1, <2>2, <2>3, <2>4, ArraysStay
<1>6. ASSUME NEW w \in Writers, NEW r \in Inputs, LookUpKey(w, r)
      PROVE  ArraysAreHeld'
  BY <1>6, ArraysStay DEF LookUpKey
<1>7. ASSUME NEW w \in Writers, LookUpId(w) \/ Stop(w)
      PROVE  ArraysAreHeld'
  BY <1>7, ArraysStay DEF LookUpId, Stop
<1>8. CASE UNCHANGED vars
  BY <1>8, ArraysStay DEF vars
<1>9. QED  BY <1>2, <1>3, <1>4, <1>5, <1>6, <1>7, <1>8 DEF Next

-----------------------------------------------------------------------------
(* Which events all three hold.                                            *)

Calm == EventsDiffer /\ \A x \in unsettled : x[1] = "relationship"

EventsHeld ==
    /\ NeoEvents(neo) = WrittenOf("event")
    /\ Graph!All(graph, "event") = WrittenOf("event")
    /\ Graph!All(memory, "event") = WrittenOf("event")

(* What the caller has found is the same for both graph stores, and is in  *)
(* the third as well.                                                      *)
FoundAlike(d, events) ==
    \/ d.into = {"neo", "graph"}
    \/ /\ d.into = {}
       /\ \E e \in events : e.body = d.record.body \/ (d.step = "put" /\ e.ref = d.record.ref)

LEMMA EventsAre ==
    EventsAreHeld <=>
        (Calm => /\ EventsHeld
                 /\ \A w \in Writers : doing[w] # Idle /\ doing[w].record.kind = "event"
                       => FoundAlike(doing[w], WrittenOf("event")))
BY DEF EventsAreHeld, Calm, EventsHeld, FoundAlike

LEMMA EventsNextAre ==
    EventsAreHeld' <=>
        (Calm' => /\ EventsHeld'
                  /\ \A w \in Writers : doing'[w] # Idle /\ doing'[w].record.kind = "event"
                        => FoundAlike(doing'[w], WrittenOf("event")'))
BY DEF EventsAreHeld, Calm, EventsHeld, FoundAlike

LEMMA EventsRead ==
    /\ EventsHeld <=> /\ {r \in neo.rows : r.kind = "event"} = WrittenOf("event")
                      /\ Graph!ToSet(graph["event"]) = WrittenOf("event")
                      /\ Graph!ToSet(memory["event"]) = WrittenOf("event")
    /\ EventsHeld' <=> /\ {r \in neo'.rows : r.kind = "event"} = WrittenOf("event")'
                       /\ Graph!ToSet(graph'["event"]) = WrittenOf("event")'
                       /\ Graph!ToSet(memory'["event"]) = WrittenOf("event")'
    /\ EventsHeld => \A s \in {"neo", "graph"} : EventsOf(s) = WrittenOf("event")
BY DEF EventsHeld, NeoEvents, Graph!All, EventsOf, Graph!GraphEvents, Memory!ToSet, Graph!ToSet

(* A write leaves no event unsettled that was not, and settles none.       *)
LEMMA EventsStayUnsettled ==
    ASSUME TypeOK, [Next]_vars, NEW x \in unsettled, x[1] # "relationship"
    PROVE  x \in unsettled'
<1>1. ASSUME NEW w \in Writers, NEW r \in Inputs, Unsettle(w, r)
      PROVE  x \in unsettled'
  <2>1. r.kind = "relationship" => \A y \in Subject(r) : y[1] = "relationship"
    BY DEF Subject
  <2>2. QED  BY <1>1, <2>1 DEF Unsettle
<1>2. ASSUME NEW w \in Writers, Stop(w)
      PROVE  x \in unsettled'
  BY <1>2 DEF Stop
<1>3. ASSUME NEW w \in Writers, NEW r \in Inputs, BeginRelationship(w, r) \/ LookUpKey(w, r)
      PROVE  x \in unsettled'
  BY <1>1, <1>3 DEF BeginRelationship, LookUpKey
<1>4. QED  BY <1>2, <1>3 DEF Next, Upsert, EndRelationship, LookUpId, PutEvent, vars

LEMMA WrittenAppends ==
    ASSUME TypeOK, [Next]_vars
    PROVE  written' = written \/ \E r \in Inputs : written' = Append(written, r)
<1>1. ASSUME NEW w \in Writers, doing[w] # Idle
      PROVE  doing[w].record \in Inputs
  BY <1>1, BusyAreDoing, DoingsAre
<1>2. ASSUME NEW w \in Writers, EndRelationship(w) \/ PutEvent(w)
      PROVE  written' = written \/ \E r \in Inputs : written' = Append(written, r)
  BY <1>1, <1>2 DEF EndRelationship, PutEvent
<1>3. QED  BY <1>2 DEF Next, Upsert, BeginRelationship, LookUpKey, LookUpId, Stop, vars

LEMMA CalmBefore ==
    ASSUME TypeOK, [Next]_vars, Calm'
    PROVE  Calm
<1>1. \A x \in unsettled : x[1] = "relationship"
  BY EventsStayUnsettled DEF Calm
<1>2. EventsDiffer
  <2>1. /\ DOMAIN written \subseteq DOMAIN written'
        /\ \A i \in DOMAIN written : written'[i] = written[i]
    <3>1. CASE written' = written
      BY <3>1
    <3>2. ASSUME NEW r \in Inputs, written' = Append(written, r)
          PROVE  /\ DOMAIN written \subseteq DOMAIN written'
                 /\ \A i \in DOMAIN written : written'[i] = written[i]
      BY <3>2, TypeIs
    <3>3. QED  BY <3>1, <3>2, WrittenAppends
  <2>2. EventsDiffer'
    BY DEF Calm
  <2>3. \A i, j \in DOMAIN written' :
           (written'[i].kind = "event" /\ written'[j].kind = "event" /\ written'[i].ref = written'[j].ref)
              => i = j
    BY <2>2 DEF EventsDiffer
  <2>4. QED  BY <2>1, <2>3 DEF EventsDiffer
<1>3. QED  BY <1>1, <1>2 DEF Calm

(* An event whose ref is new is added to the rows and to the arrays.       *)
LEMMA EventAdded ==
    ASSUME TypeOK, EventsHeld, NEW r \in Inputs, r.kind = "event", written' = Append(written, r),
           EventsDiffer'
    PROVE  /\ \A e \in WrittenOf("event") : e.ref # r.ref
           /\ WrittenOf("event")' = WrittenOf("event") \cup {r}
           /\ {e \in NeoWrite(neo, r).rows : e.kind = "event"} = WrittenOf("event")'
           /\ Graph!ToSet(Graph!GraphWrite(graph, r)["event"]) = WrittenOf("event")'
           /\ Graph!ToSet(Memory!MemoryAddEvent(memory, r)["event"]) = WrittenOf("event")'
           /\ (\A e \in WrittenOf("event") : r.body # Unset => e.body # r.body) =>
                 Graph!ToSet(Memory!MemoryWrite(memory, r)["event"]) = WrittenOf("event")'
<1> DEFINE E == WrittenOf("event")
           n == Len(written) + 1
<1>1. /\ Len(written) \in Nat /\ DOMAIN written = 1 .. Len(written)
      /\ DOMAIN written' = 1 .. n /\ written'[n] = r
      /\ \A i \in 1 .. Len(written) : written'[i] = written[i]
  BY TypeIs
<1>2. ASSUME NEW e \in E
      PROVE  e.ref # r.ref
  <2>1. PICK i \in 1 .. Len(written) : e = written[i] /\ e.kind = "event"
    BY <1>1 DEF WrittenOf, WrittenRecords
  <2>2. \A j, k \in DOMAIN written' :
           (written'[j].kind = "event" /\ written'[k].kind = "event" /\ written'[j].ref = written'[k].ref)
              => j = k
    BY DEF EventsDiffer
  <2>3. i # n /\ i \in DOMAIN written' /\ n \in DOMAIN written'
    BY <1>1
  <2>4. QED  BY <1>1, <2>1, <2>2, <2>3
<1>3. WrittenOf("event")' = E \cup {r}
  BY <1>1 DEF WrittenOf, WrittenRecords
<1>4. /\ {e \in neo.rows : e.kind = "event"} = E
      /\ Graph!ToSet(graph["event"]) = E /\ Graph!ToSet(memory["event"]) = E
  BY EventsRead
<1>5. {e \in NeoWrite(neo, r).rows : e.kind = "event"} = E \cup {r}
  <2>1. NeoWrite(neo, r).rows = RowsWith(neo.rows, r)
    BY TypeIs, NeoWriteTyped DEF RowKinds
  <2>2. \A o \in E : <<o.kind, o.ref>> # <<r.kind, r.ref>>
    BY <1>2
  <2> HIDE DEF E
  <2>3. QED  BY <1>4, <2>1, <2>2 DEF RowsWith
<1>6. \A s \in Seq(Inputs) : Graph!ToSet(Append(s, r)) = Graph!ToSet(s) \cup {r}
  <2>1. ASSUME NEW s \in Seq(Inputs)
        PROVE  Graph!ToSet(Append(s, r)) = Graph!ToSet(s) \cup {r}
    <3>1. /\ DOMAIN s = 1 .. Len(s) /\ DOMAIN Append(s, r) = 1 .. Len(s) + 1 /\ Len(s) \in Nat
          /\ Append(s, r)[Len(s) + 1] = r /\ \A i \in 1 .. Len(s) : Append(s, r)[i] = s[i]
      OBVIOUS
    <3>2. QED  BY <3>1 DEF Graph!ToSet
  <2>2. QED  BY <2>1
<1>7. /\ graph["event"] \in Seq(Inputs) /\ memory["event"] \in Seq(Inputs)
      /\ "event" \in DOMAIN graph /\ "event" \in DOMAIN memory
  BY TypeIs DEF Kinds, RowKinds
<1>8. Graph!GraphWrite(graph, r)["event"] = Append(graph["event"], r)
  BY TypeIs, GraphWriteTyped
<1>9. Memory!MemoryAddEvent(memory, r)["event"] = Append(memory["event"], r)
  BY <1>7 DEF Memory!MemoryAddEvent
<1>10. ASSUME \A e \in E : r.body # Unset => e.body # r.body
       PROVE  Memory!MemoryWrite(memory, r)["event"] = Append(memory["event"], r)
  <2>1. Memory!ToSet(memory["event"]) = E
    BY <1>4 DEF Memory!ToSet, Graph!ToSet
  <2>2. Memory!MemoryAppendEvent(memory["event"], r) = Append(memory["event"], r)
    BY <1>2, <1>10, <2>1 DEF Memory!MemoryAppendEvent
  <2>3. Memory!MemoryWrite(memory, r)["event"] = Memory!MemoryAppendEvent(memory["event"], r)
    <3>1. r.kind \notin Memory!LogKinds
      BY DEF Memory!LogKinds
    <3>2. QED  BY <1>7, <3>1 DEF Memory!MemoryWrite
  <2>4. QED  BY <2>2, <2>3
<1>11. QED  BY <1>2, <1>3, <1>4, <1>5, <1>6, <1>7, <1>8, <1>9, <1>10

(* What callers found stays found while events only grow in number.        *)
LEMMA FoundStays ==
    ASSUME EventsAreHeld, Calm, WrittenOf("event") \subseteq WrittenOf("event")',
           NEW w \in Writers, doing'[w] = doing[w], doing[w] # Idle, doing[w].record.kind = "event"
    PROVE  FoundAlike(doing'[w], WrittenOf("event")')
<1>1. FoundAlike(doing[w], WrittenOf("event"))
  BY EventsAre
<1>2. QED  BY <1>1 DEF FoundAlike

(* A step that is about no event.                                          *)
LEMMA EventsStay ==
    ASSUME EventsAreHeld, Calm, WrittenOf("event")' = WrittenOf("event"),
           {r \in neo'.rows : r.kind = "event"} = {r \in neo.rows : r.kind = "event"},
           graph'["event"] = graph["event"], memory'["event"] = memory["event"],
           \A w \in Writers : doing'[w] = doing[w] \/ doing'[w] = Idle
                              \/ (doing'[w] # Idle /\ doing'[w].record.kind = "relationship")
    PROVE  EventsAreHeld'
<1>1. EventsHeld'
  BY EventsAre, EventsRead
<1>2. ASSUME NEW w \in Writers, doing'[w] # Idle, doing'[w].record.kind = "event"
      PROVE  FoundAlike(doing'[w], WrittenOf("event")')
  BY <1>2, FoundStays
<1>3. QED  BY <1>1, <1>2, EventsNextAre

(* A record written that is no event.                                      *)
LEMMA NoEventWritten ==
    ASSUME written \in Seq(Inputs), NEW r \in Inputs, r.kind # "event",
           written' = Append(written, r)
    PROVE  WrittenOf("event")' = WrittenOf("event")
<1>1. WrittenRecords' = WrittenRecords \cup {r}
  BY WrittenGrows
<1>2. QED  BY <1>1 DEF WrittenOf

LEMMA UpsertKeepsEvents ==
    ASSUME TypeOK, EventsAreHeld, Calm, EventsDiffer', NEW r \in Inputs, Upsert(r)
    PROVE  EventsAreHeld'
<1>1. /\ r.kind # "relationship" /\ (r.kind = "event" => r.body = Unset)
      /\ neo' = NeoWrite(neo, r) /\ graph' = Graph!GraphWrite(graph, r)
      /\ written' = Append(written, r) /\ doing' = doing
      /\ \/ memory' = Memory!MemoryWrite(memory, r)
         \/ r.kind = "event" /\ memory' = Memory!MemoryAddEvent(memory, r)
  BY DEF Upsert
<1>2. written \in Seq(Inputs) /\ EventsHeld
  BY TypeIs, EventsAre
<1>3. CASE r.kind # "event"
  <2>1. {e \in neo'.rows : e.kind = "event"} = {e \in neo.rows : e.kind = "event"}
    <3>1. neo'.rows = IF r.kind \in RowKinds THEN RowsWith(neo.rows, r) ELSE neo.rows
      BY <1>1, TypeIs, NeoWriteTyped
    <3>2. QED  BY <1>3, <3>1 DEF RowsWith
  <2>2. graph'["event"] = graph["event"]
    BY <1>1, <1>3, TypeIs, GraphWriteTyped
  <2>3. memory'["event"] = memory["event"]
    BY <1>1, <1>3, TypeIs DEF Memory!MemoryWrite, Kinds, RowKinds
  <2>4. WrittenOf("event")' = WrittenOf("event")
    BY <1>1, <1>2, <1>3, NoEventWritten
  <2>5. QED  BY <1>1, <2>1, <2>2, <2>3, <2>4, EventsStay
<1>4. CASE r.kind = "event"
  <2>1. r.body = Unset
    BY <1>1, <1>4
  <2>2. /\ WrittenOf("event")' = WrittenOf("event") \cup {r}
        /\ {e \in neo'.rows : e.kind = "event"} = WrittenOf("event")'
        /\ Graph!ToSet(graph'["event"]) = WrittenOf("event")'
        /\ Graph!ToSet(memory'["event"]) = WrittenOf("event")'
    BY <1>1, <1>2, <1>4, <2>1, EventAdded
  <2>3. EventsHeld'
    BY <2>2, EventsRead
  <2>4. ASSUME NEW w \in Writers, doing'[w] # Idle, doing'[w].record.kind = "event"
        PROVE  FoundAlike(doing'[w], WrittenOf("event")')
    BY <1>1, <2>2, <2>4, FoundStays
  <2>5. QED  BY <2>3, <2>4, EventsNextAre
<1>5. QED  BY <1>3, <1>4

LEMMA LookUpKeyKeepsEvents ==
    ASSUME TypeOK, EventsAreHeld, Calm, NEW w \in Writers, NEW r \in Inputs, LookUpKey(w, r)
    PROVE  EventsAreHeld'
<1> DEFINE into == {s \in {"neo", "graph"} :
                      Repository!GetEventByIdempotencyKey(EventsOf(s), r.body) = {}}
           E == WrittenOf("event")
<1>1. Steady /\ r.kind = "event"
  BY DEF LookUpKey, Steady
<1>2. doing'[w] = [record |-> r, step |-> "id", into |-> into]
      /\ \A v \in Writers : v # w => doing'[v] = doing[v]
  BY DEF LookUpKey, TypeOK
<1>3. EventsHeld /\ \A s \in {"neo", "graph"} : EventsOf(s) = E
  BY EventsAre, EventsRead
<1>4. into = {"neo", "graph"} \/ (into = {} /\ \E e \in E : e.body = r.body)
  <2>1. \A s \in {"neo", "graph"} :
           Repository!GetEventByIdempotencyKey(EventsOf(s), r.body) = {e \in E : e.body = r.body}
    BY <1>3 DEF Repository!GetEventByIdempotencyKey
  <2>2. CASE {e \in E : e.body = r.body} = {}
    BY <2>1, <2>2
  <2>3. CASE {e \in E : e.body = r.body} # {}
    BY <2>1, <2>3
  <2>4. QED  BY <2>2, <2>3
<1>5. WrittenOf("event")' = E
  BY <1>1 DEF WrittenOf, WrittenRecords, Steady
<1>6. EventsHeld'
  BY <1>1, <1>3, <1>5, EventsRead DEF Steady
<1> HIDE DEF into, E
<1>7. FoundAlike(doing'[w], WrittenOf("event")')
  BY <1>2, <1>4, <1>5 DEF FoundAlike
<1>8. ASSUME NEW v \in Writers, doing'[v] # Idle, doing'[v].record.kind = "event"
      PROVE  FoundAlike(doing'[v], WrittenOf("event")')
  BY <1>2, <1>5, <1>7, <1>8, FoundStays DEF E
<1>9. QED  BY <1>6, <1>8, EventsNextAre

LEMMA LookUpIdKeepsEvents ==
    ASSUME TypeOK, EventsAreHeld, Calm, NEW w \in Writers, LookUpId(w)
    PROVE  EventsAreHeld'
<1> DEFINE d == doing[w]
           into == {s \in d.into : \A e \in EventsOf(s) : e.ref # d.record.ref}
           E == WrittenOf("event")
<1>1. Steady
  BY DEF LookUpId, Steady
<1>2. /\ doing'[w].record = d.record /\ doing'[w].into = into /\ doing'[w].step = "put"
      /\ d \in Doings /\ d # Idle /\ \A v \in Writers : v # w => doing'[v] = doing[v]
  <2>1. d \in Doings /\ d # Idle
    BY BusyAreDoing DEF LookUpId
  <2>2. DOMAIN d = {"record", "step", "into"}
    <3>1. d = [record |-> d.record, step |-> d.step, into |-> d.into]
      BY <2>1, DoingsAre
    <3>2. QED  BY <3>1
  <2>3. QED  BY <2>1, <2>2 DEF LookUpId, TypeOK
<1>3. EventsHeld /\ \A s \in {"neo", "graph"} : EventsOf(s) = E
  BY EventsAre, EventsRead
<1>4. d.step = "id"
  BY DEF LookUpId
<1>5. WrittenOf("event")' = E
  BY <1>1 DEF WrittenOf, WrittenRecords, Steady
<1>6. EventsHeld'
  BY <1>1, <1>3, <1>5, EventsRead DEF Steady
<1>7. ASSUME d.record.kind = "event"
      PROVE  FoundAlike(doing'[w], E)
  <2>1. FoundAlike(d, E)
    BY <1>2, <1>7, EventsAre
  <2>2. CASE d.into = {}
    <3>1. into = {} /\ \E e \in E : e.body = d.record.body
      BY <1>4, <2>1, <2>2 DEF FoundAlike
    <3> HIDE DEF into
    <3>2. QED  BY <1>2, <3>1 DEF FoundAlike
  <2>3. CASE d.into = {"neo", "graph"}
    <3>1. CASE \A e \in E : e.ref # d.record.ref
      <4>1. into = {"neo", "graph"}
        BY <1>3, <2>3, <3>1
      <4> HIDE DEF into
      <4>2. QED  BY <1>2, <4>1 DEF FoundAlike
    <3>2. CASE \E e \in E : e.ref = d.record.ref
      <4>1. into = {}
        BY <1>3, <2>3, <3>2
      <4> HIDE DEF into
      <4>2. QED  BY <1>2, <3>2, <4>1 DEF FoundAlike
    <3>3. QED  BY <3>1, <3>2
  <2>4. QED  BY <2>1, <2>2, <2>3 DEF FoundAlike
<1> HIDE DEF into
<1>8. ASSUME NEW v \in Writers, doing'[v] # Idle, doing'[v].record.kind = "event"
      PROVE  FoundAlike(doing'[v], WrittenOf("event")')
  BY <1>2, <1>5, <1>7, <1>8, FoundStays
<1>9. QED  BY <1>6, <1>8, EventsNextAre

LEMMA PutEventKeepsEvents ==
    ASSUME TypeOK, FoundStillHolds, EventsAreHeld, Calm, EventsDiffer', NEW w \in Writers, PutEvent(w)
    PROVE  EventsAreHeld'
<1> DEFINE d == doing[w]
           E == WrittenOf("event")
<1>r. PICK r \in Inputs : r = d.record
  BY BusyAreDoing, DoingsAre DEF PutEvent
<1>1. /\ d # Idle /\ d.step = "put" /\ r.kind = "event" /\ r.body # Unset
      /\ doing'[w] = Idle /\ \A v \in Writers : v # w => doing'[v] = doing[v]
  <2>1. d # Idle /\ d.step = "put"
    BY DEF PutEvent
  <2>2. Merging(d) \/ Putting(d)
    BY <2>1, BusyAreDoing, DoingsAre
  <2>3. QED  BY <1>r, <2>1, <2>2 DEF PutEvent, TypeOK, Merging, Putting
<1>2. EventsHeld /\ \A s \in {"neo", "graph"} : EventsOf(s) = E
  BY EventsAre, EventsRead
<1>3. FoundAlike(d, E)
  BY <1>r, <1>1, EventsAre
<1>4. memory' = Memory!MemoryWrite(memory, r)
  BY <1>r DEF PutEvent
<1>5. CASE d.into = {"neo", "graph"}
  <2>1. /\ neo' = NeoWrite(neo, r) /\ graph' = Graph!GraphWrite(graph, r)
        /\ written' = Append(written, r)
    BY <1>r, <1>5 DEF PutEvent
  <2>2. \A e \in E : e.body # r.body
    <3>1. <<"key", r.body>> \notin unsettled
      <4>1. <<"key", r.body>>[1] = "key"
        OBVIOUS
      <4>2. QED  BY <4>1 DEF Calm
    <3>2. \A s \in d.into : \A e \in EventsOf(s) : e.body # r.body
      BY <1>r, <1>1, <3>1 DEF FoundStillHolds
    <3>3. QED  BY <1>2, <1>5, <3>2
  <2>3. /\ WrittenOf("event")' = E \cup {r}
        /\ {e \in neo'.rows : e.kind = "event"} = WrittenOf("event")'
        /\ Graph!ToSet(graph'["event"]) = WrittenOf("event")'
        /\ Graph!ToSet(memory'["event"]) = WrittenOf("event")'
    BY <1>1, <1>2, <1>4, <2>1, <2>2, EventAdded
  <2>4. EventsHeld'
    BY <2>3, EventsRead
  <2>5. ASSUME NEW v \in Writers, doing'[v] # Idle, doing'[v].record.kind = "event"
        PROVE  FoundAlike(doing'[v], WrittenOf("event")')
    BY <1>1, <2>3, <2>5, FoundStays
  <2>6. QED  BY <2>4, <2>5, EventsNextAre
<1>6. CASE d.into = {}
  <2>1. neo' = neo /\ graph' = graph /\ written' = written
    BY <1>6 DEF PutEvent
  <2>2. PICK e \in E : e.body = r.body \/ e.ref = r.ref
    BY <1>r, <1>3, <1>6 DEF FoundAlike
  <2>3. memory'["event"] = memory["event"]
    <3>1. e \in Memory!ToSet(memory["event"])
      BY <1>2, EventsRead DEF Memory!ToSet, Graph!ToSet
    <3>2. Memory!MemoryAppendEvent(memory["event"], r) = memory["event"]
      BY <1>1, <2>2, <3>1 DEF Memory!MemoryAppendEvent
    <3>3. r.kind \notin Memory!LogKinds /\ "event" \in DOMAIN memory
      BY <1>1, TypeIs DEF Memory!LogKinds, Kinds, RowKinds
    <3>4. Memory!MemoryWrite(memory, r)["event"] = Memory!MemoryAppendEvent(memory["event"], r)
      BY <1>1, <3>3 DEF Memory!MemoryWrite
    <3>5. QED  BY <1>4, <3>2, <3>4
  <2>4. WrittenOf("event")' = E
    BY <2>1 DEF WrittenOf, WrittenRecords
  <2>5. QED  BY <1>1, <2>1, <2>3, <2>4, EventsStay
<1>7. QED  BY <1>3, <1>5, <1>6 DEF FoundAlike

LEMMA EventsAtStart == Init => EventsAreHeld
<1> SUFFICES ASSUME Init
             PROVE  EventsAreHeld
  OBVIOUS
<1>1. /\ neo.rows = {} /\ written = <<>>
      /\ graph["event"] = <<>> /\ memory["event"] = <<>> /\ \A w \in Writers : doing[w] = Idle
  BY DEF Init, EmptyNeo, Graph!EmptyArrays, Graph!Kinds, Graph!RowKinds
<1>2. WrittenOf("event") = {}
  BY <1>1 DEF WrittenOf, WrittenRecords
<1>3. EventsHeld
  BY <1>1, <1>2, EventsRead DEF Graph!ToSet
<1>4. QED  BY <1>1, <1>3, EventsAre

LEMMA EventsByStep ==
    TypeOK /\ FoundStillHolds /\ EventsAreHeld /\ [Next]_vars => EventsAreHeld'
<1> SUFFICES ASSUME TypeOK, FoundStillHolds, EventsAreHeld, [Next]_vars, Calm'
             PROVE  EventsAreHeld'
  BY EventsNextAre
<1>1. Calm /\ EventsDiffer' /\ NeoTyped(neo) /\ written \in Seq(Inputs)
  BY CalmBefore, TypeIs DEF Calm
<1>2. ASSUME NEW r \in Inputs, Upsert(r)
      PROVE  EventsAreHeld'
  BY <1>1, <1>2, UpsertKeepsEvents
<1>3. ASSUME NEW w \in Writers, NEW r \in Inputs, BeginRelationship(w, r)
      PROVE  EventsAreHeld'
  <2>1. neo'.rows = neo.rows
    BY <1>1, <1>3, RelationshipsTyped DEF BeginRelationship
  <2>2. WrittenOf("event")' = WrittenOf("event") /\ graph' = graph /\ memory' = memory
    BY <1>3 DEF BeginRelationship, WrittenOf, WrittenRecords
  <2>3. /\ doing'[w] = [record |-> r, step |-> "merge", into |-> {"neo"}] /\ r.kind = "relationship"
        /\ \A v \in Writers : v # w => doing'[v] = doing[v]
    BY <1>3 DEF BeginRelationship, TypeOK
  <2>4. doing'[w] # Idle
    BY <2>3, RelationshipDoings, DoingsAre
  <2>5. QED  BY <1>1, <2>1, <2>2, <2>3, <2>4, EventsStay
<1>4. ASSUME NEW w \in Writers, EndRelationship(w)
      PROVE  EventsAreHeld'
  <2>1. PICK r \in Inputs : r = doing[w].record /\ r.kind = "relationship"
    BY <1>4, BusyAreDoing, DoingsAre DEF EndRelationship, Merging, Putting
  <2>2. /\ neo' = MergeRelationship(neo, r) /\ written' = Append(written, r)
        /\ graph' = Graph!GraphWrite(graph, r) /\ memory' = Memory!MemoryWrite(memory, r)
        /\ \A v \in Writers : doing'[v] = doing[v] \/ doing'[v] = Idle
    BY <1>4, <2>1, TypeIs DEF EndRelationship
  <2>3. neo'.rows = neo.rows /\ graph'["event"] = graph["event"]
    BY <1>1, <2>1, <2>2, TypeIs, RelationshipsTyped, GraphWriteTyped
  <2>4. memory'["event"] = memory["event"]
    BY <2>1, <2>2, TypeIs DEF Memory!MemoryWrite, Kinds, RowKinds
  <2>5. WrittenOf("event")' = WrittenOf("event")
    BY <1>1, <2>1, <2>2, NoEventWritten
  <2>6. QED  BY <1>1, <2>2, <2>3, <2>4, <2>5, EventsStay
<1>5. ASSUME NEW w \in Writers, PutEvent(w)
      PROVE  EventsAreHeld'
  BY <1>1, <1>5, PutEventKeepsEvents
<1>6. ASSUME NEW w \in Writers, NEW r \in Inputs, LookUpKey(w, r)
      PROVE  EventsAreHeld'
  BY <1>1, <1>6, LookUpKeyKeepsEvents
<1>7. ASSUME NEW w \in Writers, LookUpId(w)
      PROVE  EventsAreHeld'
  BY <1>1, <1>7, LookUpIdKeepsEvents
<1>8. ASSUME NEW w \in Writers, Stop(w)
      PROVE  EventsAreHeld'
  <2>1. /\ Steady /\ \A v \in Writers : doing'[v] = doing[v] \/ doing'[v] = Idle
    BY <1>8, TypeIs DEF Stop, Steady
  <2>2. WrittenOf("event")' = WrittenOf("event")
    BY <2>1 DEF WrittenOf, WrittenRecords, Steady
  <2>3. QED  BY <1>1, <2>1, <2>2, EventsStay DEF Steady
<1>9. CASE UNCHANGED vars
  <2>1. WrittenOf("event")' = WrittenOf("event")
    BY <1>9 DEF WrittenOf, WrittenRecords, vars
  <2>2. QED  BY <1>1, <1>9, <2>1, EventsStay DEF vars
<1>10. QED  BY <1>2, <1>3, <1>4, <1>5, <1>6, <1>7, <1>8, <1>9 DEF Next

-----------------------------------------------------------------------------
(* What is proved of the specification.                                    *)

(* No dependency is lost or listed twice, though its edge is deleted in    *)
(* one transaction and merged in the next, unless its upsert is under way, *)
(* was cut, or met another; what a caller looked up still holds when it    *)
(* goes on, unless its write met another; the Neo4j store holds, of every  *)
(* node and row, what was last written of it, and the arrays of both       *)
(* in-memory stores the same; and all three hold the same events, as long  *)
(* as no appends of one key or id met (upsertRelationship, appendEvent and *)
(* the upserts, for any number of callers that interleave and stop).       *)
THEOREM BackendsInvariant == Spec => []StoresInv
<1> DEFINE Inv == IInv /\ LatestIsHeld /\ ArraysAreHeld /\ EventsAreHeld
<1>1. Init => Inv
  BY BackendsStart, HeldAtStart, ArraysAtStart, EventsAtStart
<1>2. Inv /\ [Next]_vars => Inv'
  <2>1. IInv => TypeOK /\ FoundStillHolds
    BY DEF IInv
  <2>2. QED  BY <2>1, BackendsStep, HeldByStep, ArraysByStep, EventsByStep
<1>3. Inv => StoresInv
  BY DEF IInv, StoresInv
<1> HIDE DEF Inv
<1>4. QED  BY <1>1, <1>2, <1>3, PTL DEF Spec

(* One idempotency key has one event, in either store, however appends     *)
(* interleave between looking for the key, looking for the id and writing, *)
(* unless appends of that key or id overlapped (appendEvent).              *)
THEOREM EventOncePerKeyAlways == Spec => []EventOncePerKey
<1>1. IInv => EventOncePerKey
  BY DEF IInv
<1>2. QED  BY <1>1, BackendsStart, BackendsStep, PTL DEF Spec

(* An upsert replaces all of a record and nothing of another: however      *)
(* writes interleave, the Neo4j store lists of every ref what was last     *)
(* written for it, and logs in full and in order, as long as no ref is     *)
(* shared between kinds (the upserts of the store, and its lists).         *)
THEOREM LatestRecordListedAlways == Spec => []LatestRecordListed
<1>1. StoresInv => LatestRecordListed
  BY HeldIsListed DEF StoresInv
<1>2. QED  BY <1>1, BackendsInvariant, PTL

-----------------------------------------------------------------------------
(* What the two in-memory backends list of what was written.               *)

(* The three backends filter by the same definitions.                      *)
LEMMA FiltersAreOne ==
    /\ \A scope, r :
          /\ Graph!MatchesLedgerScope(r, scope) <=> MatchesLedgerScope(r, scope)
          /\ Memory!MatchesLedgerScope(r, scope) <=> MatchesLedgerScope(r, scope)
          /\ Memory!InScope(r, scope) <=> InScope(r, scope)
    /\ \A scope, project :
          /\ Graph!MatchesProjectScope(project, scope) <=> AnyOf(scope.projects, {project})
          /\ Memory!MatchesProjectScope(project, scope) <=> AnyOf(scope.projects, {project})
    /\ \A filter, value :
          /\ Graph!Holds(filter, value) <=> Holds(filter, value)
          /\ Memory!Holds(filter, value) <=> Holds(filter, value)
          /\ Graph!AnyOf(filter, value) <=> AnyOf(filter, value)
          /\ Memory!AnyOf(filter, value) <=> AnyOf(filter, value)
          /\ Repository!AnyOf(filter, value) <=> AnyOf(filter, value)
    /\ \A body, query :
          /\ Graph!WithinContextAnchor(body, query) <=> WithinContextAnchor(body, query)
          /\ Memory!WithinContextAnchor(body, query) <=> WithinContextAnchor(body, query)
          /\ Repository!WithinContextAnchor(body, query) <=> WithinContextAnchor(body, query)
<1>1. /\ \A filter, value :
            /\ Graph!Holds(filter, value) <=> Holds(filter, value)
            /\ Memory!Holds(filter, value) <=> Holds(filter, value)
            /\ Graph!AnyOf(filter, value) <=> AnyOf(filter, value)
            /\ Memory!AnyOf(filter, value) <=> AnyOf(filter, value)
            /\ Repository!AnyOf(filter, value) <=> AnyOf(filter, value)
  BY DEF Graph!Holds, Memory!Holds, Holds, Graph!AnyOf, Memory!AnyOf, Repository!AnyOf, AnyOf
<1>2. /\ \A body, query :
            /\ Graph!WithinContextAnchor(body, query) <=> WithinContextAnchor(body, query)
            /\ Memory!WithinContextAnchor(body, query) <=> WithinContextAnchor(body, query)
            /\ Repository!WithinContextAnchor(body, query) <=> WithinContextAnchor(body, query)
  BY Zenon DEF Graph!WithinContextAnchor, Memory!WithinContextAnchor, Repository!WithinContextAnchor,
         WithinContextAnchor
<1>3. \A scope, project :
         /\ Graph!MatchesProjectScope(project, scope) <=> AnyOf(scope.projects, {project})
         /\ Memory!MatchesProjectScope(project, scope) <=> AnyOf(scope.projects, {project})
  BY <1>1 DEF Graph!MatchesProjectScope, Memory!MatchesProjectScope
<1>4. \A scope, r :
         /\ Graph!InScope(r, scope) <=> InScope(r, scope)
         /\ Memory!InScope(r, scope) <=> InScope(r, scope)
  BY <1>1 DEF Graph!InScope, Memory!InScope, InScope
<1>5. \A scope, r :
         /\ Graph!MatchesLedgerScope(r, scope) <=> MatchesLedgerScope(r, scope)
         /\ Memory!MatchesLedgerScope(r, scope) <=> MatchesLedgerScope(r, scope)
  BY <1>3, <1>4 DEF Graph!MatchesLedgerScope, Memory!MatchesLedgerScope, MatchesLedgerScope,
     MatchesProjectScope
<1>6. QED  BY <1>1, <1>2, <1>3, <1>4, <1>5

LEMMA PickedIsOne ==
    ASSUME NEW s, NEW here
    PROVE  Graph!Picked(s, here) = Picked(s, here) /\ Memory!Picked(s, here) = Picked(s, here)
<1>1. \A T : Graph!Cardinality(T) = Cardinality(T) /\ Memory!Cardinality(T) = Cardinality(T)
  BY Zenon DEF Graph!Cardinality, Memory!Cardinality, Cardinality
<1>2. \A n : Graph!Nth(here, n) = Nth(here, n) /\ Memory!Nth(here, n) = Nth(here, n)
  BY <1>1 DEF Graph!Nth, Memory!Nth, Nth
<1>3. QED  BY <1>1, <1>2 DEF Graph!Picked, Memory!Picked, Picked

(* In every scope the three list the same of a log, in the same order.     *)
LEMMA LogsAgree ==
    ASSUME TypeOK, LatestIsHeld, ArraysAreHeld, NEW k \in LogKinds, NEW scope
    PROVE  /\ NeoLedgerLog(neo, k, scope) = Graph!GraphLedgerLog(graph, k, scope)
           /\ NeoLedgerLog(neo, k, scope) = Memory!MemoryLedgerLog(memory, k, scope)
<1> DEFINE S == {r \in Inputs : MatchesLedgerScope(r, scope)}
           log == OfKind(neo.logs, k)
<1>1. neo.logs \in Seq(Inputs) /\ log = OfKind(written, k)
  BY TypeIs, HeldIs DEF NeoTyped, LogsHeld
<1>2. log = graph[k] /\ log = memory[k]
  BY <1>1, ArraysAre, OneKindOfArray
<1>3. log \in Seq(Inputs) /\ Those(log, S) = Those(neo.logs, AnyOfKind(k) \cap S)
  <2>1. log = Those(neo.logs, AnyOfKind(k))
    BY <1>1, OfKindIs
  <2> HIDE DEF log, S
  <2>2. /\ Those(neo.logs, AnyOfKind(k)) \in Seq(Inputs)
        /\ Those(Those(neo.logs, AnyOfKind(k)), S) = Those(neo.logs, AnyOfKind(k) \cap S)
    BY <1>1, ThoseOfThose
  <2>3. QED  BY <2>1, <2>2
<1>4. NeoLedgerLog(neo, k, scope) = Those(neo.logs, AnyOfKind(k) \cap S)
  <2>1. \A i \in DOMAIN neo.logs : neo.logs[i] \in Inputs
    BY <1>1
  <2>2. {i \in DOMAIN neo.logs : neo.logs[i].kind = k /\ MatchesLedgerScope(neo.logs[i], scope)}
          = {i \in DOMAIN neo.logs : neo.logs[i] \in AnyOfKind(k) \cap S}
    BY <2>1 DEF AnyOfKind
  <2>3. QED  BY <2>2 DEF NeoLedgerLog, Those
<1> HIDE DEF log
<1>5. {i \in DOMAIN log : MatchesLedgerScope(log[i], scope)} = {i \in DOMAIN log : log[i] \in S}
  <2>1. \A i \in DOMAIN log : log[i] \in Inputs
    BY <1>3
  <2>2. QED  BY <2>1
<1>6. Graph!GraphLedgerLog(graph, k, scope) = Those(log, S)
  <2>1. {i \in DOMAIN log : Graph!MatchesLedgerScope(log[i], scope)} = {i \in DOMAIN log : log[i] \in S}
    BY <1>5, FiltersAreOne
  <2>2. QED  BY <1>2, <2>1, PickedIsOne DEF Graph!GraphLedgerLog, Those
<1>7. Memory!MemoryLedgerLog(memory, k, scope) = Those(log, S)
  <2>1. {i \in DOMAIN log : Memory!MatchesLedgerScope(log[i], scope)} = {i \in DOMAIN log : log[i] \in S}
    BY <1>5, FiltersAreOne
  <2>2. QED  BY <1>2, <2>1, PickedIsOne DEF Memory!MemoryLedgerLog, Those
<1>8. QED  BY <1>3, <1>4, <1>6, <1>7

(* Where projects stay at home, records with one ref have one key.         *)
LEMMA KeysAreRefs ==
    ASSUME TypeOK, Regular, NEW r \in WrittenRecords, NEW o \in WrittenRecords,
           r.kind = o.kind, r.kind # "membership"
    PROVE  Key(r) = Key(o) <=> r.ref = o.ref
<1>1. r \in Inputs /\ o \in Inputs
  BY TypeIs DEF WrittenRecords
<1>2. CASE r.kind = "project"
  <2>1. r.project = Unset /\ o.project = Unset
    BY <1>1, <1>2, BackendsAssumption DEF NodeInput, NodeKinds
  <2>2. r.ref = o.ref => r.program = o.program
    BY <1>2 DEF Regular, WrittenOf
  <2>3. QED  BY <1>2, <2>1, <2>2 DEF Key, Graph!GraphKey
<1>3. CASE r.kind # "project"
  BY <1>3 DEF Key, Graph!GraphKey
<1>4. QED  BY <1>2, <1>3

LEMMA LatestByKey ==
    ASSUME TypeOK, Regular, NEW k, k # "membership"
    PROVE  LatestOfKey(k) = Latest(k)
<1>1. ASSUME NEW r \in WrittenOf(k), NEW o \in WrittenRecords
      PROVE  <<o.kind, Key(o)>> # <<r.kind, Key(r)>> <=> <<o.kind, o.ref>> # <<r.kind, r.ref>>
  <2>1. r.kind = k /\ r \in WrittenRecords
    BY DEF WrittenOf
  <2>2. QED  BY <2>1, KeysAreRefs
<1>2. ASSUME NEW r \in WrittenOf(k)
      PROVE  IsLastOfKey(r) <=> IsLast(r)
  <2>1. \A j \in DOMAIN written :
           <<written[j].kind, Key(written[j])>> # <<r.kind, Key(r)>>
              <=> <<written[j].kind, written[j].ref>> # <<r.kind, r.ref>>
    BY <1>1 DEF WrittenRecords
  <2>2. QED  BY <2>1 DEF IsLastOfKey, IsLast, Key
<1>3. QED  BY <1>2 DEF LatestOfKey, Latest

(* All that the arrays hold of a kind.                                     *)
LEMMA ArraysAreLatest ==
    ASSUME TypeOK, ArraysAreHeld, Regular, NEW k \in ArrayKinds, k # "membership"
    PROVE  Graph!All(graph, k) = Latest(k) /\ Memory!All(memory, k) = Latest(k)
<1>1. Graph!All(graph, k) = Latest(k)
  BY ArraysAre, LatestByKey
<1>2. memory[k] = graph[k]
  BY ArraysAre, OneKindOfArray
<1>3. QED  BY <1>1, <1>2 DEF Graph!All, Memory!All, Graph!ToSet, Memory!ToSet

LEMMA KindsOfArrays ==
    /\ NodeKinds \subseteq ArrayKinds /\ RowKinds \ {"event"} \subseteq ArrayKinds
    /\ "membership" \notin NodeKinds \cup RowKinds /\ LedgerKinds \subseteq RowKinds \ {"event"}
    /\ {"cursor", "registry"} \subseteq RowKinds \ {"event"}
BY DEF ArrayKinds, Kinds, NodeKinds, RowKinds, LogKinds, EdgeKinds, LedgerKinds

LEMMA RowsAreLatest ==
    ASSUME LatestIsHeld, NEW k \in RowKinds
    PROVE  {r \in neo.rows : r.kind = k} = Latest(k)
BY DEF LatestIsHeld, Latest, WrittenOf

LEMMA EdgesAreLatest ==
    ASSUME ArraysAreHeld, DependencyListedOnce, Settled
    PROVE  neo.edges = Latest("relationship")
<1>1. \A ref \in Registered("relationship") :
         {e \in neo.edges : e.ref = ref} = {r \in Latest("relationship") : r.ref = ref}
  BY DEF DependencyListedOnce, Settled
<1>2. neo.edges \cup Latest("relationship") \subseteq WrittenOf("relationship")
  BY ArraysAre DEF Latest
<1>3. \A e \in neo.edges \cup Latest("relationship") : e.ref \in Registered("relationship")
  BY <1>2 DEF Registered
<1>4. QED  BY <1>1, <1>3

(* Where all that is named is registered, every node is that of a record.  *)
LEMMA NodesAre ==
    ASSUME TypeOK, LatestIsHeld, Regular, NEW kind \in NodeKinds
    PROVE  /\ \A r \in Latest(kind) :
                 /\ r \in Inputs /\ r.kind = kind /\ NodeInput(r)
                 /\ kind \in neo.nodes[r.ref].labels /\ neo.nodes[r.ref].props = Props(r)
           /\ \A x \in Refs : kind \in neo.nodes[x].labels =>
                 \E r \in Latest(kind) : r.ref = x /\ neo.nodes[x].props = Props(r)
<1>1. written \in Seq(Inputs) /\ NodesHeld /\ \A x \in Refs : OneKind(x)
  BY HeldIs DEF TypeOK, Regular
<1>2. \A r \in WrittenRecords : r \in Inputs
  BY <1>1 DEF WrittenRecords
<1>3. ASSUME NEW x \in Refs, kind \in neo.nodes[x].labels
      PROVE  \E r \in Latest(kind) : r.ref = x /\ neo.nodes[x].props = Props(r)
  <2>1. kind \in KindsOf(x)
    BY <1>1, <1>3 DEF NodesHeld
  <2>2. NodeRecords(x) # {}
    <3>1. CASE \E m \in WrittenOf("membership") : kind \in {"program", "project"} /\ m[kind] = x
      <4>1. x \in Registered(kind)
        BY <3>1 DEF Regular
      <4>2. QED  BY <4>1 DEF Registered, WrittenOf, NodeRecords
    <3>2. QED  BY <2>1, <3>1 DEF KindsOf
  <2>3. PICK r \in NodeRecords(x) : IsLast(r) /\ neo.nodes[x].props = Props(r)
    BY <1>1, <2>2 DEF NodesHeld
  <2>4. r.kind \in KindsOf(x) /\ r.ref = x
    BY DEF KindsOf, NodeRecords
  <2>5. r.kind = kind
    BY <1>1, <2>1, <2>4 DEF OneKind
  <2>6. r \in Latest(kind)
    BY <2>3, <2>5 DEF NodeRecords, Latest, WrittenOf
  <2>7. QED  BY <2>3, <2>4, <2>6
<1>4. ASSUME NEW r \in Latest(kind)
      PROVE  /\ r \in Inputs /\ r.kind = kind /\ NodeInput(r)
             /\ kind \in neo.nodes[r.ref].labels /\ neo.nodes[r.ref].props = Props(r)
  <2>1. r \in WrittenRecords /\ r.kind = kind /\ IsLast(r) /\ r \in Inputs
    BY <1>2 DEF Latest, WrittenOf
  <2>2. NodeInput(r) /\ r.ref \in Refs
    BY <2>1, BackendsAssumption DEF NodeInput
  <2>3. r \in NodeRecords(r.ref) /\ kind \in KindsOf(r.ref)
    BY <2>1 DEF NodeRecords, KindsOf
  <2>4. kind \in neo.nodes[r.ref].labels
    BY <1>1, <2>2, <2>3 DEF NodesHeld
  <2>5. PICK o \in Latest(kind) : o.ref = r.ref /\ neo.nodes[r.ref].props = Props(o)
    BY <1>3, <2>2, <2>4
  <2>6. o = r
    BY <1>1, <2>1, <2>5, LastIsUnique DEF Latest, WrittenOf
  <2>7. QED  BY <2>1, <2>2, <2>4, <2>5, <2>6
<1>5. QED  BY <1>3, <1>4

(* Of the nodes of a kind those that a filter lets pass are listed as the  *)
(* records that it lets pass.                                              *)
LEMMA FilteredListing ==
    ASSUME TypeOK, LatestIsHeld, Regular, NEW kind \in NodeKinds, NEW S, NEW T,
           \A n \in Nodes(neo, kind), r \in Latest(kind) : n.props = Props(r) => (n \in S <=> r \in T)
    PROVE  {Listing(kind, n) : n \in Nodes(neo, kind) \cap S} = Latest(kind) \cap T
<1>1. ASSUME NEW n \in Nodes(neo, kind)
      PROVE  \E r \in Latest(kind) : n.props = Props(r)
  BY NodesAre DEF Nodes
<1>2. ASSUME NEW r \in Latest(kind)
      PROVE  \E n \in Nodes(neo, kind) : n.props = Props(r)
  <2>1. r.ref \in Refs /\ kind \in neo.nodes[r.ref].labels /\ neo.nodes[r.ref].props = Props(r)
    BY NodesAre DEF NodeInput
  <2>2. neo.nodes[r.ref] \in Nodes(neo, kind)
    BY <2>1 DEF Nodes
  <2>3. QED  BY <2>1, <2>2
<1>3. ASSUME NEW n \in Nodes(neo, kind), NEW r \in Latest(kind), n.props = Props(r)
      PROVE  Listing(kind, n) = r
  <2>1. r \in Inputs /\ r.kind = kind
    BY NodesAre
  <2>2. QED  BY <1>3, <2>1, Rebuilt
<1>4. QED  BY <1>1, <1>2, <1>3

-----------------------------------------------------------------------------
(* What the Neo4j store lists in a scope, of what was last written.        *)

(* The properties a filter looks at are those of the record.               *)
LEMMA PropsRead ==
    ASSUME NEW r \in Inputs, NEW n, n.props = Props(r)
    PROVE  /\ r.kind = "program" => Prop(n, "programId") = r.ref
           /\ r.kind = "project" =>
                 /\ Prop(n, "projectId") = r.ref /\ Prop(n, "programId") = r.program
                 /\ Prop(n, "activeProgramIds") = r.links
           /\ r.kind = "integration" => Prop(n, "relatedProjectIds") = r.links
           /\ r.kind = "contract" => Prop(n, "producerProjectId") = r.project
           /\ r.kind = "evidence" => Prop(n, "evidenceRef") = r.ref
           /\ r.kind = "artifact" => Prop(n, "artifactRef") = r.ref
           /\ r.kind \in {"decision", "intelligence", "macro"} =>
                 Prop(n, "programId") = r.program /\ Prop(n, "projectId") = r.project
<1>1. CASE r.kind = "program"
  <2>1. n.props = ProgramProps(r)
    BY <1>1 DEF Props
  <2>2. QED  BY <1>1, <2>1 DEF Prop, ProgramProps
<1>2. CASE r.kind = "project"
  <2>1. n.props = ProjectProps(r)
    BY <1>2 DEF Props
  <2>2. QED  BY <1>2, <2>1 DEF Prop, ProjectProps
<1>3. CASE r.kind = "integration"
  <2>1. n.props = IntegrationPointProps(r)
    BY <1>3 DEF Props
  <2>2. QED  BY <1>3, <2>1 DEF Prop, IntegrationPointProps
<1>4. CASE r.kind = "contract"
  <2>1. n.props = ContractProps(r)
    BY <1>4 DEF Props
  <2>2. QED  BY <1>4, <2>1 DEF Prop, ContractProps
<1>5. CASE r.kind = "evidence"
  <2>1. n.props = EvidenceProps(r)
    BY <1>5 DEF Props
  <2>2. QED  BY <1>5, <2>1 DEF Prop, EvidenceProps
<1>6. CASE r.kind = "artifact"
  <2>1. n.props = ArtifactProps(r)
    BY <1>6 DEF Props
  <2>2. QED  BY <1>6, <2>1 DEF Prop, ArtifactProps
<1>7. CASE r.kind = "decision"
  <2>1. n.props = DecisionProps(r)
    BY <1>7 DEF Props
  <2>2. QED  BY <1>7, <2>1 DEF Prop, DecisionProps
<1>8. CASE r.kind = "intelligence"
  <2>1. n.props = IntelligenceProps(r)
    BY <1>8 DEF Props
  <2>2. QED  BY <1>8, <2>1 DEF Prop, IntelligenceProps
<1>9. CASE r.kind = "macro"
  <2>1. n.props = MacroFactProps(r)
    BY <1>9 DEF Props
  <2>2. QED  BY <1>9, <2>1 DEF Prop, MacroFactProps
<1>10. QED  BY <1>1, <1>2, <1>3, <1>4, <1>5, <1>6, <1>7, <1>8, <1>9

LEMMA AnchorsRead ==
    ASSUME NEW r \in Inputs, NEW n, n.props = Props(r), r.kind \in {"decision", "intelligence"}, NEW q
    PROVE  /\ WithinContextAnchor(NeoBody(n), q) <=> WithinContextAnchor(r.body, q)
           /\ r.kind = "decision" =>
                 /\ Prop(n, "decisionId") = r.ref /\ Prop(n, "appliesToRefs") = r.links
                 /\ Prop(n, "status") = r.body.status
           /\ r.kind = "intelligence" =>
                 Prop(n, "recordId") = r.ref /\ Prop(n, "appliesToRefs") = r.links
<1> DEFINE b == NeoBody(n)
<1>1. /\ b.branch = r.body.branch /\ b.from = r.body.from /\ b.to = r.body.to
      /\ r.kind = "decision" =>
            /\ Prop(n, "decisionId") = r.ref /\ Prop(n, "appliesToRefs") = r.links
            /\ Prop(n, "status") = r.body.status
      /\ r.kind = "intelligence" =>
            Prop(n, "recordId") = r.ref /\ Prop(n, "appliesToRefs") = r.links
  <2>1. CASE r.kind = "decision"
    <3>1. n.props = DecisionProps(r)
      BY <2>1 DEF Props
    <3>2. QED  BY <2>1, <3>1 DEF Prop, DecisionProps, NeoBody
  <2>2. CASE r.kind = "intelligence"
    <3>1. n.props = IntelligenceProps(r)
      BY <2>2 DEF Props
    <3>2. QED  BY <2>2, <3>1 DEF Prop, IntelligenceProps, NeoBody
  <2>3. QED  BY <2>1, <2>2
<1> HIDE DEF b
<1>2. WithinContextAnchor(b, q) <=> WithinContextAnchor(r.body, q)
  BY <1>1 DEF WithinContextAnchor
<1>3. QED  BY <1>1, <1>2 DEF b

Comparable == TypeOK /\ LatestIsHeld /\ ArraysAreHeld /\ Regular

LEMMA LatestAre ==
    ASSUME Comparable, NEW kind \in NodeKinds, NEW r \in Latest(kind)
    PROVE  r \in Inputs /\ r.kind = kind
BY NodesAre DEF Comparable

LEMMA ProgramsListed ==
    ASSUME Comparable, NEW scope
    PROVE  NeoPrograms(neo, scope) = {r \in Latest("program") : Holds(scope.program, r.ref)}
<1> DEFINE S == {n \in Nodes(neo, "program") : Holds(scope.program, Prop(n, "programId"))}
           T == {r \in Latest("program") : Holds(scope.program, r.ref)}
<1>0. "program" \in NodeKinds
  BY DEF NodeKinds
<1>1. \A n \in Nodes(neo, "program"), r \in Latest("program") : n.props = Props(r) => (n \in S <=> r \in T)
  BY <1>0, PropsRead, LatestAre
<1>2. NeoPrograms(neo, scope) = {Listing("program", n) : n \in Nodes(neo, "program") \cap S}
  BY DEF NeoPrograms, Listing
<1> HIDE DEF S, T
<1>3. NeoPrograms(neo, scope) = Latest("program") \cap T
  BY <1>0, <1>1, <1>2, FilteredListing DEF Comparable
<1>4. QED  BY <1>3 DEF T

LEMMA ProjectsListed ==
    ASSUME Comparable, NEW scope
    PROVE  NeoProjects(neo, scope) =
              {r \in Latest("project") :
                 /\ scope.program = Unset
                    \/ scope.program \in IF r.links # Unset THEN r.links ELSE {r.program}
                 /\ AnyOf(scope.projects, {r.ref})}
<1> DEFINE active(n) == IF Prop(n, "activeProgramIds") # Unset
                        THEN Prop(n, "activeProgramIds") ELSE {Prop(n, "programId")}
           S == {n \in Nodes(neo, "project") :
                   /\ scope.program = Unset \/ scope.program \in active(n)
                   /\ AnyOf(scope.projects, {Prop(n, "projectId")})}
           T == {r \in Latest("project") :
                   /\ scope.program = Unset
                      \/ scope.program \in IF r.links # Unset THEN r.links ELSE {r.program}
                   /\ AnyOf(scope.projects, {r.ref})}
<1>0. "project" \in NodeKinds
  BY DEF NodeKinds
<1>1. \A n \in Nodes(neo, "project"), r \in Latest("project") : n.props = Props(r) => (n \in S <=> r \in T)
  BY <1>0, PropsRead, LatestAre
<1>2. NeoProjects(neo, scope) = {Listing("project", n) : n \in Nodes(neo, "project") \cap S}
  BY DEF NeoProjects, Listing
<1> HIDE DEF S, T
<1>3. NeoProjects(neo, scope) = Latest("project") \cap T
  BY <1>0, <1>1, <1>2, FilteredListing DEF Comparable
<1>4. QED  BY <1>3 DEF T

(* A project's node and the arrays tell the same home for it.              *)
LEMMA HomesAgree ==
    ASSUME Comparable, NEW p \in Refs
    PROVE  LET home == Graph!ProjectToProgramId(graph["project"], p) IN
           /\ Memory!ProjectToProgramId(memory["project"], p) = home
           /\ home = IF "project" \in neo.nodes[p].labels
                     THEN Prop(neo.nodes[p], "programId") ELSE Unset
<1> DEFINE projects == graph["project"]
           here == {i \in DOMAIN projects : projects[i].ref = p}
           home == Graph!ProjectToProgramId(projects, p)
           last == CHOOSE i \in here : \A j \in here : j <= i
<1>0. "project" \in NodeKinds /\ "project" \in ArrayKinds /\ "project" # "membership"
  BY KindsOfArrays DEF NodeKinds
<1>1. Graph!ToSet(projects) = Latest("project") /\ KeysDiffer(projects) /\ memory["project"] = projects
  BY <1>0, ArraysAre, ArraysAreLatest, OneKindOfArray DEF Comparable, Graph!All
<1>2. \A i \in DOMAIN projects : projects[i] \in Latest("project")
  BY <1>1 DEF Graph!ToSet
<1>3. \A r \in Latest("project") : \E i \in DOMAIN projects : projects[i] = r
  BY <1>1 DEF Graph!ToSet
<1>4. home = IF here = {} THEN Unset ELSE projects[last].program
  BY DEF Graph!ProjectToProgramId
<1>5. Memory!ProjectToProgramId(memory["project"], p) = home
  BY <1>1, <1>4 DEF Memory!ProjectToProgramId
<1>6. projects \in Seq(Inputs)
  BY <1>0, TypeIs DEF Comparable, ArrayKinds
<1> HIDE DEF home, projects
<1>7. CASE "project" \in neo.nodes[p].labels
  <2>1. PICK r \in Latest("project") : r.ref = p /\ neo.nodes[p].props = Props(r)
    BY <1>0, <1>7, NodesAre DEF Comparable
  <2>2. PICK i \in DOMAIN projects : projects[i] = r
    BY <1>3
  <2>3. i \in here /\ i \in Int /\ \A j \in here : j = i
    <3>1. ASSUME NEW j \in here
          PROVE  j = i
      <4>1. projects[j] \in Latest("project") /\ projects[j].ref = r.ref
        BY <1>2, <2>1
      <4>2. Key(projects[j]) = Key(r)
        <5>1. /\ projects[j] \in WrittenRecords /\ r \in WrittenRecords
              /\ projects[j].kind = "project" /\ r.kind = "project"
          BY <4>1 DEF Latest, WrittenOf
        <5>2. QED  BY <4>1, <5>1, KeysAreRefs DEF Comparable
      <4>3. QED  BY <1>1, <2>2, <4>2 DEF KeysDiffer
    <3>2. QED  BY <1>6, <2>1, <2>2, <3>1
  <2>4. last = i
    <3>1. i \in here /\ \A j \in here : j <= i
      BY <2>3
    <3>2. QED  BY <2>3, <3>1
  <2>5. home = r.program
    BY <1>4, <2>2, <2>3, <2>4
  <2>6. Prop(neo.nodes[p], "programId") = r.program
    BY <1>0, <2>1, PropsRead, LatestAre
  <2>7. QED  BY <1>5, <1>7, <2>5, <2>6 DEF home, projects
<1>8. CASE "project" \notin neo.nodes[p].labels
  <2>1. \A r \in Latest("project") : r.ref # p
    BY <1>0, <1>8, NodesAre DEF Comparable
  <2>2. here = {}
    BY <1>2, <2>1
  <2>3. QED  BY <1>4, <1>5, <1>8, <2>2 DEF home, projects
<1>9. QED  BY <1>7, <1>8

AtHome(p) == Graph!ProjectToProgramId(graph["project"], p)

LEMMA IntegrationsListed ==
    ASSUME Comparable, NEW scope
    PROVE  NeoIntegrationPoints(neo, scope) =
              {r \in Latest("integration") :
                 /\ scope.program = Unset \/ \E p \in r.links : AtHome(p) = scope.program
                 /\ AnyOf(scope.projects, r.links)}
<1> DEFINE related(n) == Prop(n, "relatedProjectIds")
           programs(n) == {Prop(neo.nodes[p], "programId") :
                             p \in {p \in related(n) : "project" \in neo.nodes[p].labels}} \ {Unset}
           S == {n \in Nodes(neo, "integration") :
                   /\ scope.program = Unset \/ scope.program \in programs(n)
                   /\ AnyOf(scope.projects, related(n))}
           T == {r \in Latest("integration") :
                   /\ scope.program = Unset \/ \E p \in r.links : AtHome(p) = scope.program
                   /\ AnyOf(scope.projects, r.links)}
<1>0. "integration" \in NodeKinds
  BY DEF NodeKinds
<1>1. ASSUME NEW n \in Nodes(neo, "integration"), NEW r \in Latest("integration"), n.props = Props(r)
      PROVE  n \in S <=> r \in T
  <2>1. related(n) = r.links /\ r.links \subseteq Refs
    <3>1. r \in Inputs /\ r.kind = "integration" /\ NodeInput(r)
      BY <1>0, NodesAre DEF Comparable
    <3>2. QED  BY <1>1, <3>1, PropsRead DEF NodeInput
  <2>2. \A p \in r.links : AtHome(p) = IF "project" \in neo.nodes[p].labels
                                       THEN Prop(neo.nodes[p], "programId") ELSE Unset
    BY <2>1, HomesAgree DEF AtHome
  <2> HIDE DEF related
  <2>3. scope.program # Unset => (scope.program \in programs(n) <=> \E p \in r.links : AtHome(p) = scope.program)
    BY <2>1, <2>2
  <2>4. QED  BY <2>1, <2>3
<1>2. NeoIntegrationPoints(neo, scope) = {Listing("integration", n) : n \in Nodes(neo, "integration") \cap S}
  BY DEF NeoIntegrationPoints, Listing
<1> HIDE DEF S, T
<1>3. NeoIntegrationPoints(neo, scope) = Latest("integration") \cap T
  BY <1>0, <1>1, <1>2, FilteredListing DEF Comparable
<1>4. QED  BY <1>3 DEF T

LEMMA ContractsListed ==
    ASSUME Comparable, NEW scope
    PROVE  NeoContracts(neo, scope) =
              {r \in Latest("contract") : /\ Holds(scope.program, AtHome(r.project))
                                          /\ AnyOf(scope.projects, {r.project})}
<1> DEFINE producer(n) == neo.nodes[Prop(n, "producerProjectId")]
           S == {n \in Nodes(neo, "contract") :
                   /\ "project" \in producer(n).labels
                   /\ Holds(scope.program, Prop(producer(n), "programId"))
                   /\ AnyOf(scope.projects, {Prop(n, "producerProjectId")})}
           T == {r \in Latest("contract") : /\ Holds(scope.program, AtHome(r.project))
                                            /\ AnyOf(scope.projects, {r.project})}
<1>0. "contract" \in NodeKinds
  BY DEF NodeKinds
<1>1. ASSUME NEW n \in Nodes(neo, "contract"), NEW r \in Latest("contract"), n.props = Props(r)
      PROVE  n \in S <=> r \in T
  <2>1. Prop(n, "producerProjectId") = r.project
    BY <1>0, <1>1, PropsRead, LatestAre
  <2>2. PICK o \in WrittenOf("project") : o.ref = r.project
    <3>1. r \in WrittenOf("contract")
      BY DEF Latest
    <3>2. QED  BY <3>1 DEF Comparable, Regular, Registered
  <2>3. r.project \in Refs /\ "project" \in neo.nodes[r.project].labels
    <3>1. o \in Inputs /\ o.kind = "project" /\ o \in WrittenRecords
      BY TypeIs DEF Comparable, WrittenOf, WrittenRecords
    <3>2. r.project \in Refs
      BY <2>2, <3>1, BackendsAssumption DEF NodeInput, NodeKinds
    <3>3. "project" \in KindsOf(r.project)
      BY <2>2, <3>1 DEF KindsOf, NodeRecords, NodeKinds
    <3>4. QED  BY <3>2, <3>3, HeldIs DEF Comparable, NodesHeld
  <2>4. AtHome(r.project) = Prop(neo.nodes[r.project], "programId")
    BY <2>3, HomesAgree DEF AtHome
  <2>5. QED  BY <2>1, <2>3, <2>4
<1>2. NeoContracts(neo, scope) = {Listing("contract", n) : n \in Nodes(neo, "contract") \cap S}
  BY DEF NeoContracts, Listing
<1> HIDE DEF S, T
<1>3. NeoContracts(neo, scope) = Latest("contract") \cap T
  BY <1>0, <1>1, <1>2, FilteredListing DEF Comparable
<1>4. QED  BY <1>3 DEF T

LEMMA PointersListed ==
    ASSUME Comparable, NEW refs
    PROVE  /\ NeoEvidenceRefs(neo, refs) = {r \in Latest("evidence") : AnyOf(refs, {r.ref})}
           /\ NeoArtifactRefs(neo, refs) = {r \in Latest("artifact") : AnyOf(refs, {r.ref})}
<1> DEFINE S == {n \in Nodes(neo, "evidence") : AnyOf(refs, {Prop(n, "evidenceRef")})}
           T == {r \in Latest("evidence") : AnyOf(refs, {r.ref})}
           U == {n \in Nodes(neo, "artifact") : AnyOf(refs, {Prop(n, "artifactRef")})}
           V == {r \in Latest("artifact") : AnyOf(refs, {r.ref})}
<1>0. "evidence" \in NodeKinds /\ "artifact" \in NodeKinds
  BY DEF NodeKinds
<1>1. \A n \in Nodes(neo, "evidence"), r \in Latest("evidence") : n.props = Props(r) => (n \in S <=> r \in T)
  BY <1>0, PropsRead, LatestAre
<1>2. \A n \in Nodes(neo, "artifact"), r \in Latest("artifact") : n.props = Props(r) => (n \in U <=> r \in V)
  BY <1>0, PropsRead, LatestAre
<1>3. /\ NeoEvidenceRefs(neo, refs) = {Listing("evidence", n) : n \in Nodes(neo, "evidence") \cap S}
      /\ NeoArtifactRefs(neo, refs) = {Listing("artifact", n) : n \in Nodes(neo, "artifact") \cap U}
  BY DEF NeoEvidenceRefs, NeoArtifactRefs, Listing
<1> HIDE DEF S, T, U, V
<1>4. NeoEvidenceRefs(neo, refs) = Latest("evidence") \cap T
  BY <1>0, <1>1, <1>3, FilteredListing DEF Comparable
<1>5. NeoArtifactRefs(neo, refs) = Latest("artifact") \cap V
  BY <1>0, <1>2, <1>3, FilteredListing DEF Comparable
<1>6. QED  BY <1>4, <1>5 DEF T, V

LEMMA DecisionsListed ==
    ASSUME Comparable, NEW q
    PROVE  NeoDecisions(neo, q) =
              {r \in Latest("decision") :
                 /\ Holds(q.scope.program, r.program) /\ AnyOf(q.scope.projects, {r.project})
                 /\ WithinContextAnchor(r.body, q) /\ AnyOf(q.statuses, {r.body.status})
                 /\ AnyOf(q.targets, {r.ref} \cup r.links)}
<1> DEFINE S == {n \in Nodes(neo, "decision") :
                   /\ Holds(q.scope.program, Prop(n, "programId"))
                   /\ AnyOf(q.scope.projects, {Prop(n, "projectId")})
                   /\ WithinContextAnchor(NeoBody(n), q)
                   /\ AnyOf(q.statuses, {Prop(n, "status")})
                   /\ AnyOf(q.targets, {Prop(n, "decisionId")} \cup Prop(n, "appliesToRefs"))}
           T == {r \in Latest("decision") :
                   /\ Holds(q.scope.program, r.program) /\ AnyOf(q.scope.projects, {r.project})
                   /\ WithinContextAnchor(r.body, q) /\ AnyOf(q.statuses, {r.body.status})
                   /\ AnyOf(q.targets, {r.ref} \cup r.links)}
<1>0. "decision" \in NodeKinds
  BY DEF NodeKinds
<1>1. ASSUME NEW n \in Nodes(neo, "decision"), NEW r \in Latest("decision"), n.props = Props(r)
      PROVE  n \in S <=> r \in T
  <2>1. r \in Inputs /\ r.kind = "decision"
    BY <1>0, LatestAre
  <2>2. QED  BY <1>1, <2>1, PropsRead, AnchorsRead
<1>2. NeoDecisions(neo, q) = {Listing("decision", n) : n \in Nodes(neo, "decision") \cap S}
  BY DEF NeoDecisions, Listing
<1> HIDE DEF S, T
<1>3. NeoDecisions(neo, q) = Latest("decision") \cap T
  BY <1>0, <1>1, <1>2, FilteredListing DEF Comparable
<1>4. QED  BY <1>3 DEF T

LEMMA IntelligenceListed ==
    ASSUME Comparable, NEW q
    PROVE  NeoIntelligenceRecords(neo, q) =
              {r \in Latest("intelligence") :
                 /\ Holds(q.scope.program, r.program) /\ AnyOf(q.scope.projects, {r.project})
                 /\ WithinContextAnchor(r.body, q) /\ AnyOf(q.targets, {r.ref} \cup r.links)}
<1> DEFINE S == {n \in Nodes(neo, "intelligence") :
                   /\ Holds(q.scope.program, Prop(n, "programId"))
                   /\ AnyOf(q.scope.projects, {Prop(n, "projectId")})
                   /\ WithinContextAnchor(NeoBody(n), q)
                   /\ AnyOf(q.targets, {Prop(n, "recordId")} \cup Prop(n, "appliesToRefs"))}
           T == {r \in Latest("intelligence") :
                   /\ Holds(q.scope.program, r.program) /\ AnyOf(q.scope.projects, {r.project})
                   /\ WithinContextAnchor(r.body, q) /\ AnyOf(q.targets, {r.ref} \cup r.links)}
<1>0. "intelligence" \in NodeKinds
  BY DEF NodeKinds
<1>1. ASSUME NEW n \in Nodes(neo, "intelligence"), NEW r \in Latest("intelligence"), n.props = Props(r)
      PROVE  n \in S <=> r \in T
  <2>1. r \in Inputs /\ r.kind = "intelligence"
    BY <1>0, LatestAre
  <2>2. QED  BY <1>1, <2>1, PropsRead, AnchorsRead
<1>2. NeoIntelligenceRecords(neo, q) = {Listing("intelligence", n) : n \in Nodes(neo, "intelligence") \cap S}
  BY DEF NeoIntelligenceRecords, Listing
<1> HIDE DEF S, T
<1>3. NeoIntelligenceRecords(neo, q) = Latest("intelligence") \cap T
  BY <1>0, <1>1, <1>2, FilteredListing DEF Comparable
<1>4. QED  BY <1>3 DEF T

LEMMA FactsListed ==
    ASSUME Comparable, NEW scope
    PROVE  NeoMacroFacts(neo, scope) = {r \in Latest("macro") : MatchesLedgerScope(r, scope)}
<1> DEFINE S == {n \in Nodes(neo, "macro") : /\ Holds(scope.program, Prop(n, "programId"))
                                             /\ AnyOf(scope.projects, {Prop(n, "projectId")})}
           T == {r \in Latest("macro") : MatchesLedgerScope(r, scope)}
<1>0. "macro" \in NodeKinds
  BY DEF NodeKinds
<1>1. \A n \in Nodes(neo, "macro"), r \in Latest("macro") : n.props = Props(r) => (n \in S <=> r \in T)
  BY <1>0, PropsRead, LatestAre DEF MatchesLedgerScope, InScope, MatchesProjectScope
<1>2. NeoMacroFacts(neo, scope) = {Listing("macro", n) : n \in Nodes(neo, "macro") \cap S}
  BY DEF NeoMacroFacts, Listing
<1> HIDE DEF S, T
<1>3. NeoMacroFacts(neo, scope) = Latest("macro") \cap T
  BY <1>0, <1>1, <1>2, FilteredListing DEF Comparable
<1>4. QED  BY <1>3 DEF T

-----------------------------------------------------------------------------
(* The graph repository answers alike over either store.                   *)

LEMMA GraphHoldsLatest ==
    ASSUME Comparable
    PROVE  /\ \A k \in ArrayKinds : k # "membership" => Graph!All(graph, k) = Latest(k)
           /\ \A k \in ArrayKinds : k # "membership" => Memory!All(memory, k) = Latest(k)
           /\ NodeKinds \cup LedgerKinds \cup {"cursor", "registry", "relationship"} \subseteq ArrayKinds
           /\ "membership" \notin NodeKinds \cup LedgerKinds \cup {"cursor", "registry", "relationship"}
<1>1. /\ NodeKinds \cup LedgerKinds \cup {"cursor", "registry", "relationship"} \subseteq ArrayKinds
      /\ "membership" \notin NodeKinds \cup LedgerKinds \cup {"cursor", "registry", "relationship"}
  BY KindsOfArrays, OneKindOfArray
<1>2. QED  BY <1>1, ArraysAreLatest DEF Comparable

LEMMA NodeKindsHeld ==
    ASSUME Comparable, NEW k \in NodeKinds \cup LedgerKinds \cup {"cursor", "registry", "relationship"}
    PROVE  Graph!All(graph, k) = Latest(k) /\ Memory!All(memory, k) = Latest(k)
BY GraphHoldsLatest

LEMMA HomesListAlike ==
    ASSUME Comparable, NEW scope
    PROVE  /\ NeoPrograms(neo, scope) = Graph!GraphPrograms(graph, scope)
           /\ NeoProjects(neo, scope) = Graph!GraphProjects(graph, scope)
           /\ NeoIntegrationPoints(neo, scope) = Graph!GraphIntegrationPoints(graph, scope)
           /\ NeoContracts(neo, scope) = Graph!GraphContracts(graph, scope)
           /\ NeoMemberships(neo, scope) = Graph!GraphMemberships(graph, scope)
<1>1. /\ Graph!All(graph, "program") = Latest("program") /\ Graph!All(graph, "project") = Latest("project")
      /\ Graph!All(graph, "integration") = Latest("integration")
      /\ Graph!All(graph, "contract") = Latest("contract")
  BY NodeKindsHeld DEF NodeKinds
<1>2. NeoPrograms(neo, scope) = Graph!GraphPrograms(graph, scope)
  BY <1>1, ProgramsListed, FiltersAreOne DEF Graph!GraphPrograms
<1>3. NeoProjects(neo, scope) = Graph!GraphProjects(graph, scope)
  <2>1. \A ref : Graph!MatchesProjectScope(ref, scope) <=> AnyOf(scope.projects, {ref})
    BY FiltersAreOne
  <2>2. Graph!GraphProjects(graph, scope) =
           {r \in Latest("project") :
              /\ scope.program = Unset
                 \/ scope.program \in IF r.links # Unset THEN r.links ELSE {r.program}
              /\ AnyOf(scope.projects, {r.ref})}
    BY <1>1, <2>1 DEF Graph!GraphProjects, Graph!ActivePrograms
  <2>3. QED  BY <2>2, ProjectsListed
<1>4. NeoIntegrationPoints(neo, scope) = Graph!GraphIntegrationPoints(graph, scope)
  <2>1. Graph!GraphIntegrationPoints(graph, scope) =
           {r \in Latest("integration") :
              /\ scope.program = Unset \/ \E p \in r.links : AtHome(p) = scope.program
              /\ Graph!AnyOf(scope.projects, r.links)}
    BY <1>1 DEF Graph!GraphIntegrationPoints, AtHome
  <2>2. \A filter, value : Graph!AnyOf(filter, value) <=> AnyOf(filter, value)
    BY FiltersAreOne
  <2>3. QED  BY <2>1, <2>2, IntegrationsListed
<1>5. NeoContracts(neo, scope) = Graph!GraphContracts(graph, scope)
  BY <1>1, ContractsListed, FiltersAreOne DEF Graph!GraphContracts, AtHome
<1>6. neo.members = Graph!All(graph, "membership")
  BY ArraysAre, OneKindOfArray DEF Comparable
<1>7. NeoMemberships(neo, scope) = Graph!GraphMemberships(graph, scope)
  BY <1>6, FiltersAreOne
     DEF NeoMemberships, Graph!GraphMemberships, MatchesLedgerScope, InScope, MatchesProjectScope
<1>8. QED  BY <1>2, <1>3, <1>4, <1>5, <1>7

LEMMA DependenciesListAlike ==
    ASSUME Comparable, DependencyListedOnce, Settled, NEW scope
    PROVE  NeoRelationships(neo, scope) = Graph!GraphRelationships(graph, scope)
<1>1. neo.edges = Graph!All(graph, "relationship")
  BY EdgesAreLatest, NodeKindsHeld DEF Comparable
<1>2. QED
  BY <1>1, FiltersAreOne
     DEF NeoRelationships, Graph!GraphRelationships, MatchesLedgerScope, InScope, MatchesProjectScope

LEMMA PointersListAlike ==
    ASSUME Comparable, NEW refs, refs # {}
    PROVE  /\ NeoEvidenceRefs(neo, refs) = Graph!GraphPointers(graph, "evidence", refs)
           /\ NeoArtifactRefs(neo, refs) = Graph!GraphPointers(graph, "artifact", refs)
           /\ NeoEvidenceRefs(neo, refs) = Memory!MemoryPointers(memory, "evidence", refs)
<1>1. /\ Graph!All(graph, "evidence") = Latest("evidence")
      /\ Graph!All(graph, "artifact") = Latest("artifact")
      /\ Memory!All(memory, "evidence") = Latest("evidence")
  BY NodeKindsHeld DEF NodeKinds
<1>2. \A ref : AnyOf(refs, {ref}) <=> refs = Unset \/ ref \in refs
  BY DEF AnyOf
<1>3. QED  BY <1>1, <1>2, PointersListed DEF Graph!GraphPointers, Memory!MemoryPointers

LEMMA DecisionsListAlike ==
    ASSUME Comparable, NEW q, q.statuses # {}
    PROVE  NeoDecisions(neo, q) = Graph!GraphDecisions(graph, q)
<1>1. Graph!All(graph, "decision") = Latest("decision")
  BY NodeKindsHeld DEF NodeKinds
<1>2. \A status : AnyOf(q.statuses, {status}) <=> q.statuses = Unset \/ status \in q.statuses
  BY DEF AnyOf
<1>3. Graph!GraphDecisions(graph, q) =
         {r \in Latest("decision") :
            /\ Holds(q.scope.program, r.program) /\ AnyOf(q.scope.projects, {r.project})
            /\ WithinContextAnchor(r.body, q)
            /\ q.statuses = Unset \/ r.body.status \in q.statuses
            /\ AnyOf(q.targets, {r.ref} \cup r.links)}
  <2>1. \A r : /\ Graph!MatchesLedgerScope(r, q.scope)
                     <=> Holds(q.scope.program, r.program) /\ AnyOf(q.scope.projects, {r.project})
               /\ Graph!WithinContextAnchor(r.body, q) <=> WithinContextAnchor(r.body, q)
               /\ Graph!AnyOf(q.targets, {r.ref} \cup r.links) <=> AnyOf(q.targets, {r.ref} \cup r.links)
    BY FiltersAreOne DEF MatchesLedgerScope, InScope, MatchesProjectScope
  <2>2. QED  BY <1>1, <2>1 DEF Graph!GraphDecisions
<1>4. NeoDecisions(neo, q) =
         {r \in Latest("decision") :
            /\ Holds(q.scope.program, r.program) /\ AnyOf(q.scope.projects, {r.project})
            /\ WithinContextAnchor(r.body, q) /\ AnyOf(q.statuses, {r.body.status})
            /\ AnyOf(q.targets, {r.ref} \cup r.links)}
  BY DecisionsListed
<1>5. QED  BY <1>2, <1>3, <1>4

LEMMA FactsListAlike ==
    ASSUME Comparable, NEW q, NEW scope
    PROVE  /\ NeoIntelligenceRecords(neo, q) = Graph!GraphIntelligenceRecords(graph, q)
           /\ NeoMacroFacts(neo, scope) = Graph!GraphMacroFacts(graph, scope)
<1>1. /\ Graph!All(graph, "intelligence") = Latest("intelligence")
      /\ Graph!All(graph, "macro") = Latest("macro")
  BY NodeKindsHeld DEF NodeKinds
<1>2. NeoIntelligenceRecords(neo, q) = Graph!GraphIntelligenceRecords(graph, q)
  <2>1. \A r : /\ Graph!MatchesLedgerScope(r, q.scope)
                     <=> Holds(q.scope.program, r.program) /\ AnyOf(q.scope.projects, {r.project})
               /\ Graph!WithinContextAnchor(r.body, q) <=> WithinContextAnchor(r.body, q)
               /\ Graph!AnyOf(q.targets, {r.ref} \cup r.links) <=> AnyOf(q.targets, {r.ref} \cup r.links)
    BY FiltersAreOne DEF MatchesLedgerScope, InScope, MatchesProjectScope
  <2>2. Graph!GraphIntelligenceRecords(graph, q) =
           {r \in Latest("intelligence") :
              /\ Holds(q.scope.program, r.program) /\ AnyOf(q.scope.projects, {r.project})
              /\ WithinContextAnchor(r.body, q) /\ AnyOf(q.targets, {r.ref} \cup r.links)}
    BY <1>1, <2>1 DEF Graph!GraphIntelligenceRecords
  <2>3. QED  BY <2>2, IntelligenceListed
<1>3. NeoMacroFacts(neo, scope) = Graph!GraphMacroFacts(graph, scope)
  BY <1>1, FactsListed, FiltersAreOne DEF Graph!GraphMacroFacts
<1>4. QED  BY <1>2, <1>3

LEMMA RowsListAlike ==
    ASSUME Comparable
    PROVE  /\ \A k \in LedgerKinds : \A scope :
                 /\ NeoLedgerRows(neo, k, scope) = Graph!GraphLedgerRows(graph, k, scope)
                 /\ NeoLedgerRows(neo, k, scope) = Memory!MemoryLedgerRows(memory, k, scope)
           /\ NeoCursors(neo) = Graph!GraphCursors(graph)
           /\ NeoRegistry(neo) = Graph!GraphRegistry(graph)
           /\ NeoRegistry(neo) = Memory!MemoryRegistry(memory)
<1>1. ASSUME NEW k \in LedgerKinds \cup {"cursor", "registry"}
      PROVE  /\ {r \in neo.rows : r.kind = k} = Latest(k)
             /\ Graph!All(graph, k) = Latest(k) /\ Memory!All(memory, k) = Latest(k)
  BY KindsOfArrays, RowsAreLatest, NodeKindsHeld DEF Comparable
<1>2. ASSUME NEW k \in LedgerKinds, NEW scope
      PROVE  /\ NeoLedgerRows(neo, k, scope) = Graph!GraphLedgerRows(graph, k, scope)
             /\ NeoLedgerRows(neo, k, scope) = Memory!MemoryLedgerRows(memory, k, scope)
  <2>1. NeoLedgerRows(neo, k, scope) = {r \in Latest(k) : MatchesLedgerScope(r, scope)}
    BY <1>1 DEF NeoLedgerRows
  <2>2. QED  BY <1>1, <2>1, FiltersAreOne DEF Graph!GraphLedgerRows, Memory!MemoryLedgerRows
<1>3. NeoCursors(neo) = Graph!GraphCursors(graph)
  BY <1>1 DEF NeoCursors, Graph!GraphCursors
<1> DEFINE Newest(R) == {r \in R : \A o \in R : o.body <= r.body}
<1>4. /\ NeoRegistry(neo) = Newest({r \in neo.rows : r.kind = "registry"})
      /\ Graph!GraphRegistry(graph) = Newest(Graph!All(graph, "registry"))
      /\ Memory!MemoryRegistry(memory) = Newest(Memory!All(memory, "registry"))
  BY DEF NeoRegistry, Graph!GraphRegistry, Memory!MemoryRegistry
<1> HIDE DEF Newest
<1>5. QED  BY <1>1, <1>2, <1>3, <1>4

LEMMA EventsListAlike ==
    ASSUME EventsAreHeld, Settled, Regular
    PROVE  /\ NeoEvents(neo) = Memory!ToSet(Graph!GraphEvents(graph))
           /\ NeoEvents(neo) = Memory!ToSet(Memory!MemoryEvents(memory))
<1>1. EventsHeld
  BY EventsAre DEF Settled, Regular, Calm
<1>2. QED
  BY <1>1, EventsRead DEF NeoEvents, Graph!GraphEvents, Memory!MemoryEvents, Memory!ToSet, Graph!ToSet

(* A question without its targets, or about every project.                 *)
LEMMA Unasked ==
    ASSUME NEW q \in Queries
    PROVE  /\ LET p == [q EXCEPT !.targets = Unset] IN
              /\ p.scope = q.scope /\ p.branch = q.branch /\ p.asOf = q.asOf
              /\ p.statuses = q.statuses /\ p.targets = Unset
           /\ LET s == [q.scope EXCEPT !.projects = Unset] IN
              s.program = q.scope.program /\ s.projects = Unset
BY BackendsAssumption

LEMMA ViewsAlike ==
    ASSUME Comparable, DependencyListedOnce, Settled, NEW q \in Asked
    PROVE  NeoView(q) = GraphView(q)
<1>1. q \in Queries /\ q.statuses # {}
  BY DEF Asked
<1> DEFINE p == [q EXCEPT !.targets = Unset]
<1>2. p.statuses # {}
  BY <1>1, Unasked
<1> HIDE DEF p
<1>3. NeoDecisions(neo, p) = Graph!GraphDecisions(graph, p)
  BY <1>2, DecisionsListAlike
<1>4. /\ NeoEvidenceRefs(neo, Unset) = Graph!GraphPointers(graph, "evidence", Unset)
      /\ NeoArtifactRefs(neo, Unset) = Graph!GraphPointers(graph, "artifact", Unset)
  <2>1. CASE Unset # {}
    BY <2>1, PointersListAlike
  <2>2. CASE Unset = {}
    <3>1. \A refs : AnyOf(Unset, refs)
      BY DEF AnyOf
    <3>2. /\ Graph!All(graph, "evidence") = Latest("evidence")
          /\ Graph!All(graph, "artifact") = Latest("artifact")
      BY NodeKindsHeld DEF NodeKinds
    <3>3. QED  BY <3>1, <3>2, PointersListed DEF Graph!GraphPointers
  <2>3. QED  BY <2>1, <2>2
<1>5. QED
  BY <1>3, <1>4, HomesListAlike, DependenciesListAlike DEF NeoView, GraphView, p

LEMMA GraphAnswersAlike ==
    ASSUME Comparable, DependencyListedOnce, EventsAreHeld, Settled
    PROVE  GraphAgrees
<1>1. ASSUME NEW q \in Asked
      PROVE  /\ NeoMemberships(neo, q.scope) = Graph!GraphMemberships(graph, q.scope)
             /\ NeoDecisions(neo, q) = Graph!GraphDecisions(graph, q)
             /\ NeoIntelligenceRecords(neo, q) = Graph!GraphIntelligenceRecords(graph, q)
             /\ NeoMacroFacts(neo, q.scope) = Graph!GraphMacroFacts(graph, q.scope)
  BY HomesListAlike, DecisionsListAlike, FactsListAlike DEF Asked
<1>2. ASSUME NEW q \in Asked, q.targets # {}
      PROVE  /\ NeoEvidenceRefs(neo, q.targets) = Graph!GraphPointers(graph, "evidence", q.targets)
             /\ NeoArtifactRefs(neo, q.targets) = Graph!GraphPointers(graph, "artifact", q.targets)
  BY <1>2, PointersListAlike
<1>3. ASSUME NEW q \in Asked, NEW k \in LogKinds
      PROVE  NeoLedgerLog(neo, k, q.scope) = Graph!GraphLedgerLog(graph, k, q.scope)
  BY LogsAgree DEF Comparable
<1>4. NeoEvents(neo) = Memory!ToSet(Graph!GraphEvents(graph))
  BY EventsListAlike DEF Comparable
<1>5. \A q \in Asked : NeoView(q) = GraphView(q)
  BY ViewsAlike
<1>6. /\ \A q \in Asked, k \in LedgerKinds :
            NeoLedgerRows(neo, k, q.scope) = Graph!GraphLedgerRows(graph, k, q.scope)
      /\ NeoCursors(neo) = Graph!GraphCursors(graph)
      /\ NeoRegistry(neo) = Graph!GraphRegistry(graph)
  BY RowsListAlike
<1>7. QED  BY Zenon, <1>1, <1>2, <1>3, <1>4, <1>5, <1>6 DEF GraphAgrees

-----------------------------------------------------------------------------
(* So does the in-memory repository.                                       *)

LEMMA MemoryHomesListAlike ==
    ASSUME Comparable, NEW scope
    PROVE  /\ NeoPrograms(neo, scope) = Memory!MemoryPrograms(memory, scope)
           /\ scope.projects # {} => NeoProjects(neo, scope) = Memory!MemoryProjects(memory, scope)
           /\ NeoIntegrationPoints(neo, scope) = Memory!MemoryIntegrationPoints(memory, scope)
<1>1. /\ Memory!All(memory, "program") = Latest("program")
      /\ Memory!All(memory, "project") = Latest("project")
      /\ Memory!All(memory, "integration") = Latest("integration")
  BY NodeKindsHeld DEF NodeKinds
<1>2. NeoPrograms(neo, scope) = Memory!MemoryPrograms(memory, scope)
  BY <1>1, ProgramsListed, FiltersAreOne DEF Memory!MemoryPrograms
<1>3. ASSUME scope.projects # {}
      PROVE  NeoProjects(neo, scope) = Memory!MemoryProjects(memory, scope)
  <2>1. \A ref : AnyOf(scope.projects, {ref}) <=> scope.projects = Unset \/ ref \in scope.projects
    BY <1>3 DEF AnyOf
  <2>2. Memory!MemoryProjects(memory, scope) =
           {r \in Latest("project") :
              /\ scope.program = Unset
                 \/ scope.program \in IF r.links # Unset THEN r.links ELSE {r.program}
              /\ AnyOf(scope.projects, {r.ref})}
    BY <1>1, <2>1 DEF Memory!MemoryProjects, Memory!ActivePrograms
  <2>3. QED  BY <2>2, ProjectsListed
<1>4. NeoIntegrationPoints(neo, scope) = Memory!MemoryIntegrationPoints(memory, scope)
  <2>1. ASSUME NEW r \in Latest("integration")
        PROVE  \A p \in r.links : Memory!ProjectToProgramId(memory["project"], p) = AtHome(p)
    <3>1. r.links \subseteq Refs
      BY NodesAre DEF Comparable, NodeInput, NodeKinds
    <3>2. QED  BY <3>1, HomesAgree DEF AtHome
  <2>2. \A filter, value : Memory!AnyOf(filter, value) <=> AnyOf(filter, value)
    BY FiltersAreOne
  <2>3. Memory!MemoryIntegrationPoints(memory, scope) =
           {r \in Latest("integration") :
              /\ scope.program = Unset \/ \E p \in r.links : AtHome(p) = scope.program
              /\ AnyOf(scope.projects, r.links)}
    BY <1>1, <2>1, <2>2 DEF Memory!MemoryIntegrationPoints
  <2>4. QED  BY <2>3, IntegrationsListed
<1>5. QED  BY <1>2, <1>3, <1>4

LEMMA MemoryDependenciesListAlike ==
    ASSUME Comparable, DependencyListedOnce, Settled, NEW scope, NEW s,
           s.program = scope.program, s.projects = Unset
    PROVE  NeoRelationships(neo, s) = Memory!MemoryRelationships(memory, scope)
<1>1. neo.edges = Memory!All(memory, "relationship")
  BY EdgesAreLatest, NodeKindsHeld DEF Comparable
<1>2. \A e : AnyOf(s.projects, {e.project})
  BY DEF AnyOf
<1>3. QED
  BY <1>1, <1>2, FiltersAreOne DEF NeoRelationships, Memory!MemoryRelationships, InScope

(* No project asked for is named Unset: a filter on projects leaves out    *)
(* what has no project.                                                    *)
LEMMA OfNoProject ==
    ASSUME NEW q \in Queries, NEW project
    PROVE  AnyOf(q.scope.projects, {project}) <=>
              /\ project = Unset \/ AnyOf(q.scope.projects, {project})
              /\ project # Unset \/ q.scope.projects \in {Unset, {}}
<1>1. q.scope.projects = Unset \/ q.scope.projects \subseteq Refs
  BY BackendsAssumption
<1>2. Unset \notin Refs
  BY BackendsAssumption
<1>3. QED  BY <1>1, <1>2 DEF AnyOf

LEMMA MemoryDecisionsListAlike ==
    ASSUME Comparable, NEW q \in Asked, NEW p,
           p.scope = q.scope, p.branch = q.branch, p.asOf = q.asOf, p.statuses = q.statuses,
           p.targets = Unset
    PROVE  NeoDecisions(neo, p) = {d \in Memory!MemoryDecisions(memory, q) :
                                     d.project # Unset \/ q.scope.projects \in {Unset, {}}}
<1>1. Memory!All(memory, "decision") = Latest("decision")
  BY NodeKindsHeld DEF NodeKinds
<1>2. q \in Queries /\ q.statuses # {}
  BY DEF Asked
<1>3. \A status : AnyOf(q.statuses, {status}) <=> q.statuses = Unset \/ status \in q.statuses
  BY <1>2 DEF AnyOf
<1>4. \A refs : AnyOf(p.targets, refs)
  BY DEF AnyOf
<1>5. \A body : WithinContextAnchor(body, p) <=> WithinContextAnchor(body, q)
  BY DEF WithinContextAnchor
<1>6. NeoDecisions(neo, p) =
         {r \in Latest("decision") :
            /\ Holds(p.scope.program, r.program) /\ AnyOf(p.scope.projects, {r.project})
            /\ WithinContextAnchor(r.body, p) /\ AnyOf(p.statuses, {r.body.status})
            /\ AnyOf(p.targets, {r.ref} \cup r.links)}
  BY DecisionsListed
<1>7. NeoDecisions(neo, p) =
         {r \in Latest("decision") :
            /\ Holds(q.scope.program, r.program) /\ AnyOf(q.scope.projects, {r.project})
            /\ WithinContextAnchor(r.body, q)
            /\ q.statuses = Unset \/ r.body.status \in q.statuses}
  BY <1>3, <1>4, <1>5, <1>6
<1>8. Memory!MemoryDecisions(memory, q) =
         {r \in Latest("decision") :
            /\ Holds(q.scope.program, r.program) /\ WithinContextAnchor(r.body, q)
            /\ q.statuses = Unset \/ r.body.status \in q.statuses
            /\ r.project = Unset \/ AnyOf(q.scope.projects, {r.project})}
  <2>1. \A r : /\ Memory!InScope(r, q.scope) <=> Holds(q.scope.program, r.program)
               /\ Memory!MatchesProjectScope(r.project, q.scope) <=> AnyOf(q.scope.projects, {r.project})
               /\ Memory!WithinContextAnchor(r.body, q) <=> WithinContextAnchor(r.body, q)
    BY FiltersAreOne DEF InScope
  <2>2. QED  BY <1>1, <2>1 DEF Memory!MemoryDecisions
<1>9. \A project : AnyOf(q.scope.projects, {project}) <=>
         /\ project = Unset \/ AnyOf(q.scope.projects, {project})
         /\ project # Unset \/ q.scope.projects \in {Unset, {}}
  BY <1>2, OfNoProject
<1>10. QED  BY <1>7, <1>8, <1>9

LEMMA MemoryFactsListAlike ==
    ASSUME Comparable, NEW q \in Asked
    PROVE  /\ NeoIntelligenceRecords(neo, q)
                = {r \in Memory!MemoryIntelligenceRecords(memory, q) :
                      r.project # Unset \/ q.scope.projects \in {Unset, {}}}
           /\ Repository!ListMacroFacts(NeoMacroFacts(neo, q.scope), q)
                = Memory!MemoryMacroFacts(memory, q)
<1>1. /\ Memory!All(memory, "intelligence") = Latest("intelligence")
      /\ Memory!All(memory, "macro") = Latest("macro")
  BY NodeKindsHeld DEF NodeKinds
<1>2. Memory!MemoryIntelligenceRecords(memory, q) =
         {r \in Latest("intelligence") :
            /\ Holds(q.scope.program, r.program) /\ WithinContextAnchor(r.body, q)
            /\ r.project = Unset \/ AnyOf(q.scope.projects, {r.project})
            /\ AnyOf(q.targets, {r.ref} \cup r.links)}
  <2>1. \A r : /\ Memory!InScope(r, q.scope) <=> Holds(q.scope.program, r.program)
               /\ Memory!MatchesProjectScope(r.project, q.scope) <=> AnyOf(q.scope.projects, {r.project})
               /\ Memory!WithinContextAnchor(r.body, q) <=> WithinContextAnchor(r.body, q)
               /\ Memory!AnyOf(q.targets, {r.ref} \cup r.links) <=> AnyOf(q.targets, {r.ref} \cup r.links)
    BY FiltersAreOne DEF InScope
  <2>2. QED  BY <1>1, <2>1 DEF Memory!MemoryIntelligenceRecords
<1>3. \A project : AnyOf(q.scope.projects, {project}) <=>
         /\ project = Unset \/ AnyOf(q.scope.projects, {project})
         /\ project # Unset \/ q.scope.projects \in {Unset, {}}
  BY OfNoProject DEF Asked
<1>4. NeoIntelligenceRecords(neo, q)
         = {r \in Memory!MemoryIntelligenceRecords(memory, q) :
               r.project # Unset \/ q.scope.projects \in {Unset, {}}}
  BY <1>2, <1>3, IntelligenceListed
<1>5. Repository!ListMacroFacts(NeoMacroFacts(neo, q.scope), q) = Memory!MemoryMacroFacts(memory, q)
  <2>1. \A r : /\ Memory!MatchesLedgerScope(r, q.scope) <=> MatchesLedgerScope(r, q.scope)
               /\ Memory!WithinContextAnchor(r.body, q) <=> Repository!WithinContextAnchor(r.body, q)
               /\ Memory!AnyOf(q.targets, {r.ref, r.project} \cup r.links)
                     <=> Repository!AnyOf(q.targets, {r.ref, r.project} \cup r.links)
    BY FiltersAreOne
  <2>2. NeoMacroFacts(neo, q.scope) = {r \in Latest("macro") : MatchesLedgerScope(r, q.scope)}
    BY FactsListed
  <2>3. QED  BY <1>1, <2>1, <2>2 DEF Repository!ListMacroFacts, Memory!MemoryMacroFacts
<1>6. QED  BY <1>4, <1>5

LEMMA MemoryAnswersAlike ==
    ASSUME Comparable, DependencyListedOnce, EventsAreHeld, Settled
    PROVE  MemoryAgrees
<1>1. ASSUME NEW q \in Asked
      PROVE  /\ NeoPrograms(neo, q.scope) = Memory!MemoryPrograms(memory, q.scope)
             /\ q.scope.projects # {} =>
                   NeoProjects(neo, q.scope) = Memory!MemoryProjects(memory, q.scope)
             /\ NeoIntegrationPoints(neo, q.scope) = Memory!MemoryIntegrationPoints(memory, q.scope)
  BY MemoryHomesListAlike
<1>2. ASSUME NEW q \in Asked
      PROVE  NeoRelationships(neo, [q.scope EXCEPT !.projects = Unset])
                = Memory!MemoryRelationships(memory, q.scope)
  <2> DEFINE s == [q.scope EXCEPT !.projects = Unset]
  <2>1. s.program = q.scope.program /\ s.projects = Unset
    BY Unasked DEF Asked
  <2> HIDE DEF s
  <2>2. NeoRelationships(neo, s) = Memory!MemoryRelationships(memory, q.scope)
    BY <2>1, MemoryDependenciesListAlike
  <2>3. QED  BY <2>2 DEF s
<1>3. ASSUME NEW q \in Asked, q.targets # {}
      PROVE  NeoEvidenceRefs(neo, q.targets) = Memory!MemoryPointers(memory, "evidence", q.targets)
  BY <1>3, PointersListAlike
<1>4. ASSUME NEW q \in Asked
      PROVE  NeoDecisions(neo, [q EXCEPT !.targets = Unset])
                = {d \in Memory!MemoryDecisions(memory, q) :
                      d.project # Unset \/ q.scope.projects \in {Unset, {}}}
  <2> DEFINE p == [q EXCEPT !.targets = Unset]
  <2>1. /\ p.scope = q.scope /\ p.branch = q.branch /\ p.asOf = q.asOf
        /\ p.statuses = q.statuses /\ p.targets = Unset
    BY Unasked DEF Asked
  <2> HIDE DEF p
  <2>2. NeoDecisions(neo, p) = {d \in Memory!MemoryDecisions(memory, q) :
                                  d.project # Unset \/ q.scope.projects \in {Unset, {}}}
    BY <2>1, MemoryDecisionsListAlike
  <2>3. QED  BY <2>2 DEF p
<1>5. ASSUME NEW q \in Asked
      PROVE  /\ NeoIntelligenceRecords(neo, q)
                  = {r \in Memory!MemoryIntelligenceRecords(memory, q) :
                        r.project # Unset \/ q.scope.projects \in {Unset, {}}}
             /\ Repository!ListMacroFacts(NeoMacroFacts(neo, q.scope), q)
                  = Memory!MemoryMacroFacts(memory, q)
  BY MemoryFactsListAlike
<1>6. ASSUME NEW q \in Asked, NEW k \in LogKinds
      PROVE  NeoLedgerLog(neo, k, q.scope) = Memory!MemoryLedgerLog(memory, k, q.scope)
  BY LogsAgree DEF Comparable
<1>7. NeoEvents(neo) = Memory!ToSet(Memory!MemoryEvents(memory))
  BY EventsListAlike DEF Comparable
<1>8. /\ \A q \in Asked, k \in LedgerKinds :
            NeoLedgerRows(neo, k, q.scope) = Memory!MemoryLedgerRows(memory, k, q.scope)
      /\ NeoRegistry(neo) = Memory!MemoryRegistry(memory)
  BY RowsListAlike
<1>9. QED
  BY Zenon, <1>1, <1>2, <1>3, <1>4, <1>5, <1>6, <1>7, <1>8 DEF MemoryAgrees

LEMMA BackendsAnswerAlike ==
    ASSUME TypeOK, DependencyListedOnce, LatestIsHeld, ArraysAreHeld, EventsAreHeld
    PROVE  StoresAgree
<1>1. CASE Settled /\ Regular
  BY <1>1, GraphAnswersAlike, MemoryAnswersAlike DEF Comparable, StoresAgree
<1>2. CASE ~(Settled /\ Regular)
  BY <1>2 DEF StoresAgree, GraphAgrees, MemoryAgrees
<1>3. QED  BY <1>1, <1>2

(* The repository interface has one meaning: once no write is half done or *)
(* has met another, and as long as refs are of one kind, projects stay at  *)
(* home, who is named is registered and ids of events differ, the graph    *)
(* repository answers every question alike over the Neo4j store and over   *)
(* the in-memory one, and the in-memory repository like both but where     *)
(* MemoryAgrees says otherwise (the lists of the three backends, for any   *)
(* number of callers, records and questions).                              *)
THEOREM StoresAgreeAlways == Spec => []StoresAgree
<1>1. StoresInv => StoresAgree
  BY BackendsAnswerAlike DEF StoresInv
<1>2. QED  BY <1>1, BackendsInvariant, PTL

-----------------------------------------------------------------------------
(* The walk of an impact assessment.                                       *)

InReach(view, asOf) == {e \in view.relationships : Repository!InWindow(e, asOf)}

Start(change) == [queue |-> <<change>>, visited |-> {change}, edges |-> {}]

(* A walk has a state after every number of turns.                         *)
LEMMA WalkTurns ==
    ASSUME NEW view, NEW change, NEW asOf
    PROVE  LET walk == Repository!Walk(view, change, asOf) IN
           /\ walk[0] = Start(change)
           /\ \A n \in Nat : walk[n + 1] = Repository!VisitNext(walk[n], view, asOf)
<1> DEFINE V(w) == Repository!VisitNext(w, view, asOf)
           Turns(n, g) ==
               /\ g[0] = Start(change)
               /\ \A i \in Nat : i < n => g[i + 1] = V(g[i])
           Turned == {n \in Nat : \E g : Turns(n, g)}
           Path(n) == CHOOSE g : Turns(n, g)
           f == [n \in Nat |-> Path(n)[n]]
<1> HIDE DEF V
<1>1. ASSUME NEW n \in Nat
      PROVE  \E g : Turns(n, g)
  <2>1. 0 \in Turned
    <3>1. Turns(0, [i \in Nat |-> Start(change)])
      OBVIOUS
    <3>2. QED  BY <3>1
  <2>2. ASSUME NEW m \in Turned
        PROVE  m + 1 \in Turned
    <3>1. PICK g : Turns(m, g)
      OBVIOUS
    <3> DEFINE h == [i \in Nat |-> IF i = m + 1 THEN V(g[m]) ELSE g[i]]
    <3>2. h[0] = Start(change)
      BY <3>1
    <3>3. ASSUME NEW i \in Nat, i < m + 1
          PROVE  h[i + 1] = V(h[i])
      <4>1. h[i] = g[i]
        BY <3>3
      <4>2. CASE i = m
        BY <4>1, <4>2
      <4>3. CASE i < m
        BY <3>1, <4>1, <4>3
      <4>4. QED  BY <3>3, <4>2, <4>3
    <3> HIDE DEF h
    <3>4. Turns(m + 1, h)
      BY <3>2, <3>3
    <3>5. QED  BY <3>4
  <2> HIDE DEF Turned
  <2>3. Nat \subseteq Turned
    BY <2>1, <2>2, InductiveSet
  <2>4. QED  BY <2>3 DEF Turned
<1>2. ASSUME NEW m \in Nat, NEW n \in Nat, NEW g, NEW h, Turns(m, g), Turns(n, h),
             NEW i \in Nat, i <= m, i <= n
      PROVE  g[i] = h[i]
  <2> DEFINE S == {k \in Nat : k <= m /\ k <= n => g[k] = h[k]}
  <2>1. 0 \in S
    BY <1>2
  <2>2. ASSUME NEW k \in Nat, k \in S
        PROVE  k + 1 \in S
    <3> SUFFICES ASSUME k + 1 <= m, k + 1 <= n
                 PROVE  g[k + 1] = h[k + 1]
      OBVIOUS
    <3>1. g[k] = h[k] /\ k < m /\ k < n
      BY <2>2
    <3>2. QED  BY <1>2, <3>1
  <2> HIDE DEF S
  <2>3. i \in S
    BY <2>1, <2>2, InductiveSet
  <2>4. QED  BY <1>2, <2>3 DEF S
<1>3. ASSUME NEW n \in Nat
      PROVE  Turns(n, Path(n))
  BY <1>1
<1> HIDE DEF Turns, Path, Turned
<1>4. f[0] = Start(change)
  BY <1>3 DEF Turns
<1>5. ASSUME NEW n \in Nat
      PROVE  f[n + 1] = V(f[n])
  <2>1. Path(n + 1)[n + 1] = V(Path(n + 1)[n])
    BY <1>3 DEF Turns
  <2>2. Path(n + 1)[n] = Path(n)[n]
    BY <1>2, <1>3
  <2>3. QED  BY <2>1, <2>2
<1>6. f = [n \in Nat |-> IF n = 0 THEN Start(change) ELSE V(f[n - 1])]
  <2>1. ASSUME NEW n \in Nat, n # 0
        PROVE  f[n] = V(f[n - 1])
    <3>1. n - 1 \in Nat /\ (n - 1) + 1 = n
      BY <2>1
    <3> HIDE DEF f
    <3>2. f[(n - 1) + 1] = V(f[n - 1])
      BY <1>5, <3>1
    <3>3. QED  BY <3>1, <3>2
  <2>2. \A n \in Nat : f[n] = IF n = 0 THEN Start(change) ELSE V(f[n - 1])
    BY <1>4, <2>1
  <2> DEFINE g == [n \in Nat |-> IF n = 0 THEN Start(change) ELSE V(f[n - 1])]
  <2>3. f = [n \in Nat |-> f[n]]
    BY Zenon
  <2> HIDE DEF f
  <2>4. QED  BY <2>2, <2>3
<1> DEFINE walk == Repository!Walk(view, change, asOf)
<1> HIDE DEF f
<1>7. walk = [n \in Nat |-> IF n = 0 THEN Start(change) ELSE V(walk[n - 1])]
  BY <1>6, Zenon DEF Repository!Walk, Start, V
<1> HIDE DEF walk
<1>8. walk[0] = Start(change)
  BY <1>7
<1>9. \A n \in Nat : walk[n + 1] = V(walk[n])
  <2>1. ASSUME NEW n \in Nat
        PROVE  walk[n + 1] = V(walk[n])
    <3>1. n + 1 \in Nat /\ n + 1 # 0 /\ (n + 1) - 1 = n
      OBVIOUS
    <3>2. walk[n + 1] = IF n + 1 = 0 THEN Start(change) ELSE V(walk[(n + 1) - 1])
      BY <1>7, <3>1
    <3>3. QED  BY <3>1, <3>2
  <2>2. QED  BY <2>1
<1>10. QED  BY <1>8, <1>9 DEF walk, V

(* A finite set made a sequence has its elements, each once.               *)
LEMMA SetToSeqLists ==
    ASSUME NEW S, IsFiniteSet(S)
    PROVE  LET s == Repository!SetToSeq(S) IN
           /\ s \in Seq(S) /\ Len(s) = Cardinality(S)
           /\ \A x \in S : \E i \in 1 .. Len(s) : s[i] = x
<1> DEFINE s == Repository!SetToSeq(S)
           n == Cardinality(S)
<1>1. \A T : Repository!Cardinality(T) = Cardinality(T)
  BY Zenon DEF Repository!Cardinality, Cardinality
<1>2. s = CHOOSE g \in [1 .. n -> S] : Repository!IsInjective(g)
  <2>1. s = CHOOSE g \in [1 .. Repository!Cardinality(S) -> S] : Repository!IsInjective(g)
    BY Zenon DEF Repository!SetToSeq
  <2>2. QED  BY <1>1, <2>1
<1> HIDE DEF s
<1>3. n \in Nat /\ ExistsBijection(1 .. n, S)
  BY FS_CardinalityType
<1>4. PICK b : b \in Bijection(1 .. n, S)
  BY <1>3 DEF ExistsBijection
<1>5. b \in [1 .. n -> S] /\ Repository!IsInjective(b)
  BY <1>4 DEF Bijection, Injection, IsInjective, Repository!IsInjective
<1>6. s \in [1 .. n -> S] /\ Repository!IsInjective(s)
  BY <1>2, <1>5
<1>7. s \in Injection(1 .. n, S)
  BY <1>6 DEF Injection, IsInjective, Repository!IsInjective
<1>8. IsFiniteSet(1 .. n) /\ Cardinality(1 .. n) = n
  BY <1>3, FS_Interval
<1>9. s \in Surjection(1 .. n, S)
  BY <1>7, <1>8, FS_Injection
<1>10. s \in Seq(S) /\ Len(s) = n
  BY <1>3, <1>6
<1>11. \A x \in S : \E i \in 1 .. n : s[i] = x
  BY <1>9 DEF Surjection
<1>12. QED  BY <1>10, <1>11 DEF s

-----------------------------------------------------------------------------
(* What a walk keeps from turn to turn.                                    *)

LEMMA ReachedOn ==
    ASSUME NEW E, NEW change, NEW e \in E, e.links.from \in Reached(E, change) \cup {change}
    PROVE  e.links.to \in Reached(E, change)
<1> DEFINE ends == {d.links.to : d \in E}
           next(S) == {d.links.to : d \in {d \in E : d.links.from \in S}}
<1>1. Reached(E, change)
        = {x \in ends : \A S \in SUBSET ends : next(S \cup {change}) \subseteq S => x \in S}
  BY DEF Reached
<1>2. e.links.to \in ends
  OBVIOUS
<1>3. ASSUME NEW S \in SUBSET ends, next(S \cup {change}) \subseteq S
      PROVE  e.links.to \in S
  <2>1. e.links.from \in S \cup {change}
    BY <1>1, <1>3
  <2>2. e.links.to \in next(S \cup {change})
    BY <2>1
  <2>3. QED  BY <1>3, <2>2
<1>4. QED  BY <1>1, <1>2, <1>3

Queued(queue, x) == \E i \in 1 .. Len(queue) : queue[i] = x

(* Every ref visited is still queued or has all its edges walked, what is  *)
(* visited is reached, and each turn took one of the visited refs.         *)
WalkInv(w, turns, E, change) ==
    /\ w.queue \in Seq(Refs) /\ w.visited \subseteq Refs /\ w.edges \subseteq E
    /\ change \in w.visited /\ w.visited \subseteq Reached(E, change) \cup {change}
    /\ \A x : Queued(w.queue, x) => x \in w.visited
    /\ \A x \in w.visited : Queued(w.queue, x) \/ \A e \in E : e.links.from = x => e \in w.edges
    /\ \A e \in w.edges : e.links.to \in w.visited /\ e.links.to \in Reached(E, change)
    /\ w.queue # <<>> => Cardinality(w.visited) = turns + Len(w.queue)

LEMMA WalkStarts ==
    ASSUME NEW E, NEW change \in Refs
    PROVE  WalkInv(Start(change), 0, E, change)
<1>1. /\ <<change>> \in Seq(Refs) /\ Len(<<change>>) = 1
      /\ \A x : Queued(<<change>>, x) <=> x = change
  BY DEF Queued
<1>2. Cardinality({change}) = 1
  BY FS_Singleton
<1>3. QED  BY <1>1, <1>2 DEF WalkInv, Start

(* The head of a queue goes and what a turn finds is put behind it.        *)
LEMMA QueueMoves ==
    ASSUME NEW queue \in Seq(Refs), queue # <<>>, NEW found \in Seq(Refs)
    PROVE  LET moved == Tail(queue) \o found IN
           /\ moved \in Seq(Refs) /\ Len(moved) = Len(queue) - 1 + Len(found)
           /\ \A x : Queued(moved, x) => Queued(queue, x) \/ Queued(found, x)
           /\ \A x : Queued(queue, x) => x = Head(queue) \/ Queued(moved, x)
           /\ \A x : Queued(found, x) => Queued(moved, x)
<1> DEFINE moved == Tail(queue) \o found
           n == Len(queue)
           k == Len(found)
<1>1. n \in Nat /\ n # 0 /\ k \in Nat
  OBVIOUS
<1>2. Tail(queue) \in Seq(Refs) /\ Len(Tail(queue)) = n - 1
  BY <1>1
<1>3. \A i \in 1 .. n - 1 : Tail(queue)[i] = queue[i + 1]
  BY <1>1
<1>4. moved \in Seq(Refs) /\ Len(moved) = n - 1 + k
  BY <1>2
<1>5. \A i \in 1 .. n - 1 : moved[i] = queue[i + 1]
  BY <1>1, <1>2, <1>3
<1>6. \A i \in 1 .. k : moved[n - 1 + i] = found[i]
  BY <1>1, <1>2
<1>7. Head(queue) = queue[1]
  OBVIOUS
<1> HIDE DEF moved, n, k
<1>8. ASSUME NEW x, NEW i \in 1 .. n - 1 + k, moved[i] = x
      PROVE  (\E j \in 1 .. n : queue[j] = x) \/ (\E j \in 1 .. k : found[j] = x)
  <2>1. CASE i <= n - 1
    <3>1. i + 1 \in 1 .. n /\ queue[i + 1] = x
      BY <1>1, <1>5, <1>8, <2>1
    <3>2. QED  BY <3>1
  <2>2. CASE i > n - 1
    <3>1. i - (n - 1) \in 1 .. k /\ n - 1 + (i - (n - 1)) = i
      BY <1>1, <2>2
    <3>2. found[i - (n - 1)] = x
      BY <1>6, <1>8, <3>1
    <3>3. QED  BY <3>1, <3>2
  <2>3. QED  BY <1>1, <2>1, <2>2
<1>9. ASSUME NEW x, NEW i \in 1 .. n, queue[i] = x, i # 1
      PROVE  \E j \in 1 .. n - 1 + k : moved[j] = x
  <2>1. i - 1 \in 1 .. n - 1 /\ (i - 1) + 1 = i /\ i - 1 \in 1 .. n - 1 + k
    BY <1>1, <1>9
  <2>2. moved[i - 1] = x
    BY <1>5, <1>9, <2>1
  <2>3. QED  BY <2>1, <2>2
<1>10. ASSUME NEW x, NEW i \in 1 .. k, found[i] = x
       PROVE  \E j \in 1 .. n - 1 + k : moved[j] = x
  <2>1. n - 1 + i \in 1 .. n - 1 + k
    BY <1>1
  <2>2. QED  BY <1>6, <1>10, <2>1
<1>11. QED  BY <1>4, <1>7, <1>8, <1>9, <1>10 DEF Queued, moved, n, k

LEMMA WalkTurn ==
    ASSUME NEW view, NEW asOf, NEW change \in Refs, NEW w, NEW n \in Nat,
           \A e \in InReach(view, asOf) : e.links.to \in Refs,
           WalkInv(w, n, InReach(view, asOf), change)
    PROVE  WalkInv(Repository!VisitNext(w, view, asOf), n + 1, InReach(view, asOf), change)
<1> DEFINE E == InReach(view, asOf)
           head == Head(w.queue)
           edges == {e \in E : e.links.from = head}
           fresh == {e.links.to : e \in edges} \ w.visited
           found == Repository!SetToSeq(fresh)
           v == [queue |-> Tail(w.queue) \o found, visited |-> w.visited \cup fresh,
                 edges |-> w.edges \cup edges]
<1>1. CASE w.queue = <<>>
  BY <1>1 DEF WalkInv, Repository!VisitNext
<1>2. CASE w.queue # <<>>
  <2>1. Repository!VisitNext(w, view, asOf) = v
    BY <1>2 DEF Repository!VisitNext, Repository!Departing, InReach
  <2> HIDE DEF E
  <2>2. /\ w.queue \in Seq(Refs) /\ w.visited \subseteq Refs /\ w.edges \subseteq E
        /\ change \in w.visited /\ w.visited \subseteq Reached(E, change) \cup {change}
        /\ \A x : Queued(w.queue, x) => x \in w.visited
        /\ \A x \in w.visited :
              Queued(w.queue, x) \/ \A e \in E : e.links.from = x => e \in w.edges
        /\ \A e \in w.edges : e.links.to \in w.visited /\ e.links.to \in Reached(E, change)
        /\ Cardinality(w.visited) = n + Len(w.queue)
    BY <1>2 DEF WalkInv, E
  <2>3. edges \subseteq E /\ \A e \in edges : e.links.from = head
    OBVIOUS
  <2>4. fresh \subseteq Refs /\ IsFiniteSet(fresh) /\ IsFiniteSet(w.visited)
    <3>1. fresh \subseteq Refs
      BY <2>3 DEF E
    <3>2. QED  BY <2>2, <3>1, BackendsAssumption, FS_Subset
  <2>5. \A e \in edges : e.links.to \in w.visited \cup fresh
    OBVIOUS
  <2>6. \A e \in E : e.links.from = head => e \in edges
    OBVIOUS
  <2>7. \A x \in fresh : x \notin w.visited /\ \E e \in edges : x = e.links.to
    OBVIOUS
  <2> HIDE DEF edges, fresh
  <2>8. /\ found \in Seq(fresh) /\ Len(found) = Cardinality(fresh)
        /\ \A x : Queued(found, x) <=> x \in fresh
    <3>1. /\ found \in Seq(fresh) /\ Len(found) = Cardinality(fresh)
          /\ \A x \in fresh : \E i \in 1 .. Len(found) : found[i] = x
      BY <2>4, SetToSeqLists
    <3>2. \A i \in 1 .. Len(found) : found[i] \in fresh
      BY <3>1
    <3>3. QED  BY <3>1, <3>2 DEF Queued
  <2> HIDE DEF found
  <2>9. found \in Seq(Refs)
    BY <2>4, <2>8
  <2> DEFINE moved == Tail(w.queue) \o found
  <2>10. /\ moved \in Seq(Refs) /\ Len(moved) = Len(w.queue) - 1 + Len(found)
         /\ \A x : Queued(moved, x) => Queued(w.queue, x) \/ Queued(found, x)
         /\ \A x : Queued(w.queue, x) => x = head \/ Queued(moved, x)
         /\ \A x : Queued(found, x) => Queued(moved, x)
    BY <1>2, <2>2, <2>9, QueueMoves
  <2>11. head \in w.visited
    <3>1. 1 \in 1 .. Len(w.queue) /\ head = w.queue[1]
      BY <1>2, <2>2
    <3>2. QED  BY <2>2, <3>1 DEF Queued
  <2> HIDE DEF head
  <2>12. \A e \in edges : e.links.to \in Reached(E, change)
    BY <2>2, <2>3, <2>11, ReachedOn
  <2>13. Cardinality(w.visited \cup fresh) = (n + 1) + Len(moved)
    <3>1. w.visited \cap fresh = {}
      BY <2>7
    <3>2. /\ Cardinality(w.visited \cup fresh) = Cardinality(w.visited) + Cardinality(fresh) - 0
      BY <2>4, <3>1, FS_Union, FS_EmptySet
    <3>3. Len(w.queue) \in Nat /\ Cardinality(fresh) \in Nat
      BY <2>2, <2>4, FS_CardinalityType
    <3> DEFINE more == Cardinality(fresh)
               held == Len(w.queue)
    <3>4. /\ Cardinality(w.visited) = n + held /\ Len(moved) = held - 1 + more
          /\ Cardinality(w.visited \cup fresh) = Cardinality(w.visited) + more - 0
      BY <2>2, <2>8, <2>10, <3>2
    <3> HIDE DEF moved
    <3>5. QED  BY <3>3, <3>4
  <2>14. v.queue = moved /\ v.visited = w.visited \cup fresh /\ v.edges = w.edges \cup edges
    OBVIOUS
  <2> HIDE DEF v, moved
  <2>15. /\ v.queue \in Seq(Refs) /\ v.visited \subseteq Refs /\ v.edges \subseteq E
         /\ change \in v.visited
    BY <2>2, <2>3, <2>4, <2>10, <2>14
  <2>16. v.visited \subseteq Reached(E, change) \cup {change}
    BY <2>2, <2>7, <2>12, <2>14
  <2>17. \A x : Queued(v.queue, x) => x \in v.visited
    BY <2>2, <2>8, <2>10, <2>14
  <2>18. ASSUME NEW x \in v.visited
         PROVE  Queued(v.queue, x) \/ \A e \in E : e.links.from = x => e \in v.edges
    <3>1. CASE x \in fresh
      BY <2>8, <2>10, <2>14, <3>1
    <3>2. CASE x = head
      BY <2>6, <2>14, <3>2
    <3>3. CASE x \in w.visited /\ x # head
      BY <2>2, <2>10, <2>14, <3>3
    <3>4. QED  BY <2>14, <3>1, <3>2, <3>3
  <2>19. \A e \in v.edges : e.links.to \in v.visited /\ e.links.to \in Reached(E, change)
    BY <2>2, <2>5, <2>12, <2>14
  <2>20. WalkInv(v, n + 1, E, change)
    BY <2>13, <2>14, <2>15, <2>16, <2>17, <2>18, <2>19 DEF WalkInv
  <2>21. QED  BY <2>1, <2>20 DEF E
<1>3. QED  BY <1>1, <1>2

(* The edges a walk ends with lead to what the change reaches and to no    *)
(* other ref.                                                              *)
LEMMA WalkReaches ==
    ASSUME NEW view, NEW asOf, NEW change \in Refs,
           \A e \in InReach(view, asOf) : e.links.to \in Refs
    PROVE  {e.links.to : e \in Repository!Walked(view, change, asOf)}
              = Reached(InReach(view, asOf), change)
<1> DEFINE E == InReach(view, asOf)
           walk == Repository!Walk(view, change, asOf)
           N == Cardinality(Refs)
           w == walk[N]
           Kept == {n \in Nat : WalkInv(walk[n], n, E, change)}
<1> HIDE DEF E, walk
<1>1. /\ walk[0] = Start(change)
      /\ \A n \in Nat : walk[n + 1] = Repository!VisitNext(walk[n], view, asOf)
  BY WalkTurns DEF walk
<1>2. 0 \in Kept
  BY <1>1, WalkStarts
<1>3. ASSUME NEW n \in Nat, n \in Kept
      PROVE  n + 1 \in Kept
  <2>1. WalkInv(walk[n], n, E, change)
    BY <1>3
  <2>2. WalkInv(Repository!VisitNext(walk[n], view, asOf), n + 1, E, change)
    BY <2>1, WalkTurn DEF E
  <2>3. QED  BY <1>1, <2>2
<1> HIDE DEF Kept
<1>4. Nat \subseteq Kept
  BY <1>2, <1>3, InductiveSet
<1>5. N \in Nat
  BY BackendsAssumption, FS_CardinalityType
<1>6. WalkInv(w, N, E, change)
  BY <1>4, <1>5 DEF Kept
<1> HIDE DEF w
<1>7. w.queue = <<>>
  <2> SUFFICES ASSUME w.queue # <<>>
               PROVE  FALSE
    OBVIOUS
  <2>1. /\ w.queue \in Seq(Refs) /\ w.visited \subseteq Refs
        /\ Cardinality(w.visited) = N + Len(w.queue)
    BY <1>6 DEF WalkInv
  <2>2. Len(w.queue) \in Nat /\ Len(w.queue) # 0
    BY <2>1
  <2>3. Cardinality(w.visited) <= N
    BY <2>1, BackendsAssumption, FS_Subset
  <2>4. QED  BY <1>5, <2>1, <2>2, <2>3
<1>8. \A x : ~Queued(w.queue, x)
  BY <1>7 DEF Queued
<1> DEFINE reached == {e.links.to : e \in w.edges}
<1>9. reached \subseteq Reached(E, change)
  BY <1>6 DEF WalkInv
<1>10. reached \subseteq {e.links.to : e \in E}
  BY <1>6 DEF WalkInv
<1>11. ASSUME NEW e \in E, e.links.from \in reached \cup {change}
       PROVE  e.links.to \in reached
  <2>1. e.links.from \in w.visited
    BY <1>6, <1>11 DEF WalkInv
  <2>2. e \in w.edges
    BY <1>6, <1>8, <2>1 DEF WalkInv
  <2>3. QED  BY <2>2
<1> HIDE DEF reached
<1>12. Reached(E, change) \subseteq reached
  BY <1>10, <1>11 DEF Reached
<1>13. Repository!Walked(view, change, asOf) = w.edges
  <2>1. \A T : Repository!Cardinality(T) = Cardinality(T)
    BY Zenon DEF Repository!Cardinality, Cardinality
  <2>2. Repository!Walked(view, change, asOf) = walk[Repository!Cardinality(Refs)].edges
    BY Zenon DEF Repository!Walked, walk
  <2>3. QED  BY <2>1, <2>2 DEF w
<1>14. QED  BY <1>9, <1>12, <1>13 DEF reached, E

-----------------------------------------------------------------------------
(* Impact over what the Neo4j store lists.                                 *)

LEMMA EdgesReach ==
    ASSUME TypeOK, ArraysAreHeld
    PROVE  ImpactIsReachability
<1> SUFFICES ASSUME NEW q \in Queries,
                    NEW change \in {e.links.from : e \in InReach(NeoView(q), q.asOf)}
             PROVE  Repository!AssessImpact(NeoView(q), change, q.targets, q.asOf).affected
                       = {x \in Reached(InReach(NeoView(q), q.asOf), change) :
                             AnyOf(q.targets, {x})}
  BY DEF ImpactIsReachability, InReach
<1> DEFINE view == NeoView(q)
<1>1. \A e \in view.relationships : e.links.from \in Refs /\ e.links.to \in Refs
  <2>1. view.relationships \subseteq neo.edges
    BY DEF NeoView, NeoRelationships
  <2>2. neo.edges \subseteq Inputs
    BY DEF TypeOK
  <2>3. \A e \in neo.edges : e.kind = "relationship"
    BY ArraysAre DEF WrittenOf
  <2>4. QED  BY <2>1, <2>2, <2>3, BackendsAssumption
<1> HIDE DEF view
<1>2. InReach(view, q.asOf) \subseteq view.relationships
  BY DEF InReach
<1>3. change \in Refs /\ \A e \in InReach(view, q.asOf) : e.links.to \in Refs
  BY <1>1, <1>2 DEF view
<1> DEFINE walked == Repository!Walked(view, change, q.asOf)
<1>4. {e.links.to : e \in walked} = Reached(InReach(view, q.asOf), change)
  BY <1>3, WalkReaches
<1>5. Repository!AssessImpact(view, change, q.targets, q.asOf).affected
         = {e.links.to : e \in {e \in walked : AnyOf(q.targets, {e.links.to})}}
  BY DEF Repository!AssessImpact, Repository!AnyOf, AnyOf
<1> HIDE DEF walked
<1>6. {e.links.to : e \in {e \in walked : AnyOf(q.targets, {e.links.to})}}
         = {x \in {e.links.to : e \in walked} : AnyOf(q.targets, {x})}
  OBVIOUS
<1>7. QED  BY <1>4, <1>5, <1>6 DEF view

(* The walk of an impact assessment ends, and names exactly the refs the   *)
(* change reaches along edges of the time asked about: whatever cycles and *)
(* diamonds the graph has, for every number of refs (assessImpact, over    *)
(* the edges the Neo4j store lists).                                       *)
THEOREM ImpactIsReachabilityAlways == Spec => []ImpactIsReachability
<1>1. StoresInv => ImpactIsReachability
  BY EdgesReach DEF StoresInv
<1>2. QED  BY <1>1, BackendsInvariant, PTL
=============================================================================
