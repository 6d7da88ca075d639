---------------------- MODULE IntegrationRecordsProofs ----------------------
(***************************************************************************)
(* Proofs about IntegrationRecords: the inductive invariant, the safety    *)
(* properties that follow from it, and that manage_integrations implements *)
(* RecordStore, for every set of calls, points, items and keys.            *)
(***************************************************************************)
EXTENDS IntegrationRecords, TLAPS

(* A call whose verdict is to write is no read and repeats no key.         *)
LEMMA WriteVerdict ==
    ASSUME NEW q, NEW old, NEW expects,
           IntegrationVerdict(q, old, expects) = "write"
    PROVE  q.kind # "read" /\ q.key \notin KeysOf(old)
BY DEF IntegrationVerdict

LEMMA VerdictType ==
    ASSUME NEW q, NEW old, NEW expects
    PROVE  IntegrationVerdict(q, old, expects) \in {"ok", "duplicate", "blocked", "write"}
BY DEF IntegrationVerdict

(* A read is never refused a write it did not ask for.                     *)
LEMMA OkVerdict ==
    ASSUME NEW q, NEW old, NEW expects,
           IntegrationVerdict(q, old, expects) = "ok"
    PROVE  q.kind = "read"
BY DEF IntegrationVerdict

(* The parts of a record, or of none, are well typed.                      *)
LEMMA PartsType ==
    ASSUME NEW old \in Record \cup {NoRecord}
    PROVE  /\ Items(old) \in SUBSET Item /\ KeysOf(old) \in SUBSET Keys
           /\ RefsOf(old) \in SUBSET Refs /\ Consumers(old) \in SUBSET Projects
           /\ History(old) \in SUBSET HistoryEntry /\ StatusOf(old) \in Status
BY RecordAssumption DEF Items, KeysOf, RefsOf, Consumers, History, StatusOf, Record, Status

(* Merging an item keeps every item id, holds the new one, and adds no     *)
(* contributor but the caller.                                             *)
LEMMA MergeKeepsItems ==
    ASSUME NEW items \in SUBSET Item, NEW q \in Call, NEW a \in Attempts
    PROVE  LET merged == MergeCoordinationItems(items, q, a)
           IN  /\ merged \in SUBSET Item
               /\ \A i \in items : \E j \in merged : j.id = i.id
               /\ q.item # NoItem => \E j \in merged : j.id = q.item.id
               /\ \A j \in merged : j.createdBy = a \/ \E i \in items : i.createdBy = j.createdBy
<1> DEFINE held == {i \in items : i.id = q.item.id}
           given(project, earlier) ==
               IF project # NoProject \/ held = {} THEN project ELSE earlier
           remade(old) == [id |-> q.item.id, status |-> q.item.status,
                           reporter |-> given(q.item.reporter, old.reporter),
                           blocked |-> given(q.item.blocked, old.blocked),
                           createdBy |-> old.createdBy]
           fresh == [id |-> q.item.id, status |-> q.item.status,
                     reporter |-> q.item.reporter, blocked |-> q.item.blocked,
                     createdBy |-> a]
           merged == MergeCoordinationItems(items, q, a)
<1>1. CASE q.item = NoItem
  BY <1>1 DEF MergeCoordinationItems
<1>2. CASE q.item # NoItem
  <2>1. q.item \in ItemInput
    BY <1>2 DEF Call
  <2>2. fresh \in Item /\ \A i \in items : remade(i) \in Item
    BY <2>1 DEF ItemInput, Item
  <2>3. merged = (items \ held) \cup
                     (IF held = {} THEN {fresh} ELSE {remade(i) : i \in held})
    BY <1>2 DEF MergeCoordinationItems
  <2>4. fresh.id = q.item.id /\ fresh.createdBy = a
    OBVIOUS
  <2>5. \A i \in items : remade(i).id = q.item.id /\ remade(i).createdBy = i.createdBy
    OBVIOUS
  <2> HIDE DEF fresh, remade, merged
  <2>6. CASE held = {}
    <3>1. merged = items \cup {fresh}
      BY <2>3, <2>6
    <3>2. QED  BY <2>2, <2>4, <3>1 DEF merged
  <2>7. CASE held # {}
    <3>1. merged = (items \ held) \cup {remade(i) : i \in held}
      BY <2>3, <2>7
    <3>2. merged \in SUBSET Item
      BY <2>2, <3>1
    <3>3. PICK h \in items : h.id = q.item.id /\ remade(h) \in merged
      BY <2>7, <3>1
    <3>4. \A i \in items : \E j \in merged : j.id = i.id
      BY <2>5, <3>1, <3>3
    <3>5. \E j \in merged : j.id = q.item.id
      BY <2>5, <3>3
    <3>6. \A j \in merged : \E i \in items : i.createdBy = j.createdBy
      BY <2>5, <3>1
    <3>7. QED  BY <3>2, <3>4, <3>5, <3>6 DEF merged
  <2>8. QED  BY <2>6, <2>7
<1>3. QED  BY <1>1, <1>2

(* Record new is well typed, holds no less than record old, and shows call *)
(* a, which alone contributes to it.                                       *)
Fields(new, old, q, a) ==
    /\ new \in Record
    /\ new.by = a
    /\ new.keys = KeysOf(old) \cup {q.key}
    /\ RefsOf(old) \cup q.refs \subseteq new.refs
    /\ \A i \in Items(old) : \E j \in new.items : j.id = i.id
    /\ q.item # NoItem => \E j \in new.items : j.id = q.item.id
    /\ History(old) \subseteq new.history
    /\ Historic(q) => \E h \in new.history : h.by = a
    /\ \A b \in Contributors(new) :
         \/ b = a
         \/ \E i \in Items(old) : i.createdBy = b
         \/ \E h \in History(old) : h.by = b

(* So is the record a call writes.                                         *)
LEMMA RebuiltFields ==
    ASSUME NEW q \in Call, NEW old \in Record \cup {NoRecord}, NEW a \in Attempts
    PROVE  Fields(RebuiltIntegration(q, old, a), old, q, a)
<1> DEFINE new == RebuiltIntegration(q, old, a)
           items == MergeCoordinationItems(Items(old), q, a)
           entry == [status |-> NextStatus(q, old), by |-> a]
           history == History(old) \cup (IF Historic(q) THEN {entry} ELSE {})
<1>1. /\ Items(old) \in SUBSET Item /\ KeysOf(old) \in SUBSET Keys
      /\ RefsOf(old) \in SUBSET Refs /\ Consumers(old) \in SUBSET Projects
      /\ History(old) \in SUBSET HistoryEntry /\ StatusOf(old) \in Status
  BY PartsType
<1>2. NextConsumers(q, old) \in SUBSET Projects
  BY <1>1 DEF NextConsumers, Call
<1>3. NextStatus(q, old) \in Status
  BY <1>1 DEF NextStatus, Call, Status
<1>4. entry \in HistoryEntry /\ entry.by = a
  BY <1>3 DEF HistoryEntry
<1>5. /\ items \in SUBSET Item
      /\ \A i \in Items(old) : \E j \in items : j.id = i.id
      /\ q.item # NoItem => \E j \in items : j.id = q.item.id
      /\ \A j \in items : j.createdBy = a \/ \E i \in Items(old) : i.createdBy = j.createdBy
  BY <1>1, MergeKeepsItems
<1>6. /\ new.consumers = NextConsumers(q, old) /\ new.refs = RefsOf(old) \cup q.refs
      /\ new.items = items /\ new.keys = KeysOf(old) \cup {q.key}
      /\ new.status = NextStatus(q, old) /\ new.history = history /\ new.by = a
  BY DEF RebuiltIntegration
<1>7. q.refs \in SUBSET Refs /\ q.key \in Keys
  BY DEF Call
<1> HIDE DEF items, entry
<1>8. history \in SUBSET HistoryEntry
  BY <1>1, <1>4
<1>9. new \in Record
  BY <1>1, <1>2, <1>3, <1>5, <1>7, <1>8 DEF Record, RebuiltIntegration, items, entry
<1> HIDE DEF new
<1>10. \A b \in Contributors(new) :
         \/ b = a
         \/ \E i \in Items(old) : i.createdBy = b
         \/ \E h \in History(old) : h.by = b
  BY <1>4, <1>5, <1>6 DEF Contributors
<1>11. QED
  BY <1>4, <1>5, <1>6, <1>9, <1>10 DEF new, Fields
-----------------------------------------------------------------------------
(* Type correctness.                                                       *)

LEMMA InitType == Init => TypeOK
<1> SUFFICES ASSUME Init PROVE TypeOK
  OBVIOUS
<1>1. IdleAttempt \in AttemptState
  BY CallAssumption DEF IdleAttempt, AttemptState
<1>2. QED  BY <1>1 DEF Init, TypeOK

LEMMA QueryType ==
    ASSUME TypeOK, NEW a \in Attempts
    PROVE  /\ Query(a) \in Call /\ Query(a) \in Calls /\ WellFormed(Query(a))
           /\ Point(a) \in Points /\ Query(a).correlation \in Correlations
           /\ Query(a).key \in Keys /\ Point(a) = Query(a).point
<1>1. attempt[a] \in AttemptState
  BY DEF TypeOK
<1>2. Query(a) \in Calls
  BY <1>1 DEF Query, AttemptState
<1>3. Query(a) \in Call /\ WellFormed(Query(a))
  BY <1>2, CallAssumption
<1>4. QED  BY <1>2, <1>3 DEF Query, Point, Call

(* A call that moves on to a well-typed state keeps the types.             *)
LEMMA AttemptUpdate ==
    ASSUME TypeOK, NEW a \in Attempts, NEW next \in AttemptState,
           attempt' = [attempt EXCEPT ![a] = next],
           records' \in [Points -> Record \cup {NoRecord}], links' \subseteq Link,
           events' \subseteq Event, versions' \in [Points -> SUBSET Record]
    PROVE  TypeOK'
BY DEF TypeOK

(* The record a call is about to write, from what it read.                 *)
LEMMA NewRecordFields ==
    ASSUME TypeOK, NEW a \in Attempts
    PROVE  Fields(RebuiltIntegration(Query(a), attempt[a].old, a), attempt[a].old, Query(a), a)
<1>1. attempt[a].old \in Record \cup {NoRecord}
  BY DEF TypeOK, AttemptState
<1>2. Query(a) \in Call
  BY QueryType
<1>3. QED  BY <1>1, <1>2, RebuiltFields

LEMMA StepType ==
    ASSUME TypeOK, NEW a \in Attempts, Start(a) \/ Handle(a) \/ StopAttempt(a)
    PROVE  TypeOK'
<1>0. attempt[a] \in AttemptState /\ Query(a) \in Call /\ Point(a) \in Points
  BY QueryType DEF TypeOK
<1>1. ASSUME NEW q \in Calls, NEW expects \in versions[q.point] \cup {NoRecord},
             ManageIntegrations(a, q, expects)
      PROVE  TypeOK'
  <2> DEFINE next == [attempt[a] EXCEPT
             !.query = q, !.expects = expects,
             !.phase = IF q.authorized THEN "reading" ELSE "answered",
             !.answer = IF q.authorized THEN "none" ELSE "blocked"]
  <2>1. expects \in Record \cup {NoRecord}
    BY CallAssumption DEF TypeOK, Call
  <2>2. next \in AttemptState
    BY <1>0, <2>1 DEF AttemptState, Busy
  <2>3. attempt' = [attempt EXCEPT ![a] = next]
    BY <1>1 DEF ManageIntegrations
  <2> HIDE DEF next
  <2>4. QED  BY <1>1, <2>2, <2>3, AttemptUpdate DEF ManageIntegrations, TypeOK
<1>2. CASE ListIntegrationPoints(a)
  <2> DEFINE next == [attempt[a] EXCEPT !.phase = "deciding", !.old = records[Point(a)]]
  <2>1. next \in AttemptState
    BY <1>0 DEF AttemptState, Busy, TypeOK
  <2>2. attempt' = [attempt EXCEPT ![a] = next]
    BY <1>2 DEF ListIntegrationPoints
  <2> HIDE DEF next
  <2>3. QED  BY <1>2, <2>1, <2>2, AttemptUpdate DEF ListIntegrationPoints, TypeOK
<1>3. CASE DecideIntegration(a)
  <2> DEFINE verdict == IntegrationVerdict(Query(a), attempt[a].old, attempt[a].expects)
             next == [attempt[a] EXCEPT
               !.phase = IF verdict = "write" THEN "storing" ELSE "answered",
               !.answer = IF verdict = "write" THEN "none" ELSE verdict]
  <2>1. verdict \in {"ok", "duplicate", "blocked", "write"}
    BY VerdictType
  <2>2. attempt' = [attempt EXCEPT ![a] = next]
    BY <1>3 DEF DecideIntegration
  <2> HIDE DEF verdict
  <2>3. next \in AttemptState
    BY <1>0, <2>1 DEF AttemptState, Busy
  <2> HIDE DEF next
  <2>4. QED  BY <1>3, <2>2, <2>3, AttemptUpdate DEF DecideIntegration, TypeOK
<1>4. CASE UpsertIntegrationPoint(a)
  <2> DEFINE new == RebuiltIntegration(Query(a), attempt[a].old, a)
             next == [attempt[a] EXCEPT !.phase = "linking", !.todo = new.consumers]
  <2>1. new \in Record
    BY NewRecordFields DEF Fields
  <2>2. /\ attempt' = [attempt EXCEPT ![a] = next]
        /\ records' = [records EXCEPT ![Point(a)] = new]
        /\ versions' = [versions EXCEPT ![Point(a)] = versions[Point(a)] \cup {new}]
        /\ UNCHANGED <<links, events>>
    BY <1>4 DEF UpsertIntegrationPoint
  <2> HIDE DEF new
  <2>3. next \in AttemptState
    BY <1>0, <2>1 DEF AttemptState, Busy, Record
  <2> HIDE DEF next
  <2>4. /\ records' \in [Points -> Record \cup {NoRecord}]
        /\ versions' \in [Points -> SUBSET Record]
    BY <1>0, <2>1, <2>2 DEF TypeOK
  <2>5. QED  BY <2>2, <2>3, <2>4, AttemptUpdate DEF TypeOK
<1>5. ASSUME NEW c \in Projects, LinkConsumer(a, c)
      PROVE  TypeOK'
  <2> DEFINE next == [attempt[a] EXCEPT !.todo = attempt[a].todo \ {c}]
  <2>1. next \in AttemptState
    BY <1>0 DEF AttemptState
  <2>2. attempt' = [attempt EXCEPT ![a] = next]
    BY <1>0, <1>5 DEF LinkConsumer, TypeOK, AttemptState
  <2>3. links' \subseteq Link
    BY <1>0, <1>5 DEF LinkConsumer, TypeOK, Link
  <2> HIDE DEF next
  <2>4. QED  BY <1>5, <2>1, <2>2, <2>3, AttemptUpdate DEF LinkConsumer, TypeOK
<1>6. CASE PutIntegrationEvent(a)
  <2>1. attempt' \in [Attempts -> AttemptState]
    BY <1>6 DEF PutIntegrationEvent, TypeOK, AttemptState, Busy
  <2>2. events' \subseteq Event
    BY <1>6, QueryType DEF PutIntegrationEvent, TypeOK, Event
  <2>3. QED  BY <1>6, <2>1, <2>2 DEF PutIntegrationEvent, TypeOK
<1>7. CASE AnswerIntegration(a)
  <2> DEFINE next == [attempt[a] EXCEPT !.phase = "answered", !.answer = "ok"]
  <2>1. next \in AttemptState
    BY <1>0 DEF AttemptState, Busy
  <2>2. QED  BY <1>7, <2>1, AttemptUpdate DEF AnswerIntegration, TypeOK
<1>8. CASE StopAttempt(a)
  BY <1>8 DEF StopAttempt, TypeOK, AttemptState, Busy
<1>9. QED
  BY <1>1, <1>2, <1>3, <1>4, <1>5, <1>6, <1>7, <1>8 DEF Start, Handle

(* Type correctness of the integration records, for any number of calls,   *)
(* points, items and keys.                                                 *)
THEOREM RecordsTypeCorrect == Spec => []TypeOK
<1>1. TypeOK /\ [Next]_vars => TypeOK'
  BY StepType DEF Next, TypeOK, vars
<1>2. QED  BY InitType, <1>1, PTL DEF Spec
-----------------------------------------------------------------------------
(* The inductive invariant.                                                *)

(* Everyone who had a hand in a record is an attempt.                      *)
LEMMA ContributorsAreAttempts ==
    ASSUME NEW v \in Record
    PROVE  Contributors(v) \cup {v.by} \subseteq Attempts
BY DEF Contributors, Record, Item, HistoryEntry

(* Records already in the store keep their properties while their writers  *)
(* keep their requests.                                                    *)
LEMMA HistoryKept ==
    ASSUME IntegrationInv, versions' = versions,
           \A b \in Attempts : Wrote(b) => Wrote(b)' /\ Query(b)' = Query(b)
    PROVE  WritersAreKnown' /\ KeyShowsEffect' /\ RepeatsApplyOnce'
<1>1. ASSUME NEW p \in Points, NEW v \in versions[p], NEW b \in Contributors(v) \cup {v.by}
      PROVE  b \in Attempts /\ Wrote(b) /\ Point(b) = p /\ Query(b).key \in v.keys
  <2>1. v \in Record
    BY DEF IntegrationInv, TypeOK
  <2>2. QED  BY <2>1, ContributorsAreAttempts DEF IntegrationInv, WritersAreKnown
<1>2. ASSUME NEW p \in Points, NEW v \in versions[p], NEW b \in Contributors(v) \cup {v.by}
      PROVE  Wrote(b)' /\ Query(b)' = Query(b) /\ Point(b)' = p
  BY <1>1 DEF Point, Query
<1>3. WritersAreKnown'
  BY <1>1, <1>2 DEF WritersAreKnown
<1>4. KeyShowsEffect'
  <2> SUFFICES ASSUME NEW p \in Points, NEW v \in versions[p], NEW k \in v.keys
               PROVE  \E w \in versions[p] : Query(w.by)'.key = k /\ Shows(v, w.by)'
    BY DEF KeyShowsEffect
  <2>1. PICK w \in versions[p] : Query(w.by).key = k /\ Shows(v, w.by)
    BY DEF IntegrationInv, KeyShowsEffect
  <2>2. Query(w.by)' = Query(w.by)
    BY <1>2
  <2>3. QED  BY <2>1, <2>2 DEF Shows
<1>5. RepeatsApplyOnce'
  BY <1>2 DEF IntegrationInv, RepeatsApplyOnce
<1>6. QED  BY <1>3, <1>4, <1>5

(* A step of one call that writes nothing.                                 *)
LEMMA LocalStep ==
    ASSUME IntegrationInv, TypeOK', NEW a \in Attempts, NEW next \in AttemptState,
           attempt' = [attempt EXCEPT ![a] = next],
           UNCHANGED <<records, links, events, versions>>,
           Wrote(a) => next.query = Query(a) /\ Wrote(a)',
           next.old \in versions[next.query.point] \cup {NoRecord},
           next.expects \in versions[next.query.point] \cup {NoRecord},
           next.phase \notin {"idle", "linking", "replying"},
           next.answer # "none" => next.phase = "answered",
           next.phase = "storing" =>
               IntegrationVerdict(next.query, next.old, next.expects) = "write",
           next.answer = "ok" /\ next.query.kind # "read" =>
               attempt[a].phase = "replying" /\ next.query = Query(a),
           Serial => /\ a \in InFlight \/ InFlight = {}
                     /\ next.phase \in {"deciding", "storing"} =>
                            next.old = records[next.query.point]
    PROVE  IntegrationInv'
<1>1. /\ attempt'[a] = next
      /\ \A b \in Attempts \ {a} : attempt'[b] = attempt[b]
  BY DEF IntegrationInv, TypeOK
<1>2. \A b \in Attempts : Wrote(b) => Wrote(b)' /\ Query(b)' = Query(b)
  BY <1>1 DEF Wrote, Query
<1>3. WritersAreKnown' /\ KeyShowsEffect' /\ RepeatsApplyOnce'
  BY <1>2, HistoryKept
<1>4. SnapshotsArePast'
  BY <1>1 DEF IntegrationInv, SnapshotsArePast, Point, TypeOK
<1>5. \A e \in events : e.by \in Attempts
  BY DEF IntegrationInv, TypeOK, Event
<1>6. WritesFollowPhase'
  BY <1>1, <1>2, <1>5 DEF IntegrationInv, WritesFollowPhase, Point, Query
<1>7. TurnsAreTaken'
  BY <1>1 DEF IntegrationInv, TurnsAreTaken, InFlight, Point
<1>8. AcceptedIsComplete'
  <2> SUFFICES ASSUME NEW b \in Attempts, attempt'[b].answer = "ok", Query(b)'.kind # "read"
               PROVE  /\ \E v \in versions[Point(b)'] :
                           /\ v.by = b
                           /\ \A c \in v.consumers \cap Registered :
                                [point |-> Point(b)', consumer |-> c] \in links
                      /\ \E e \in events : e.id = Query(b)'.correlation
    BY DEF AcceptedIsComplete
  <2>1. CASE b = a
    <3>1. attempt[a].phase = "replying" /\ Query(a)' = Query(a) /\ Point(a)' = Point(a)
      BY <1>1, <2>1 DEF Query, Point
    <3>2. QED  BY <2>1, <3>1 DEF IntegrationInv, WritesFollowPhase
  <2>2. CASE b # a
    <3>1. attempt'[b] = attempt[b] /\ Query(b)' = Query(b) /\ Point(b)' = Point(b)
      BY <1>1, <2>2 DEF Query, Point
    <3>2. QED  BY <3>1 DEF IntegrationInv, AcceptedIsComplete
  <2>3. QED  BY <2>1, <2>2
<1>9. QED
  BY <1>3, <1>4, <1>6, <1>7, <1>8 DEF IntegrationInv

LEMMA ManageKeepsInv ==
    ASSUME IntegrationInv, TypeOK', NEW a \in Attempts, NEW q \in Calls,
           NEW expects \in versions[q.point] \cup {NoRecord},
           ManageIntegrations(a, q, expects)
    PROVE  IntegrationInv'
<1> DEFINE next == [attempt[a] EXCEPT
           !.query = q, !.expects = expects,
           !.phase = IF q.authorized THEN "reading" ELSE "answered",
           !.answer = IF q.authorized THEN "none" ELSE "blocked"]
<1>1. TypeOK /\ attempt[a] \in AttemptState
  BY DEF IntegrationInv, TypeOK
<1>2. attempt' = [attempt EXCEPT ![a] = next] /\ attempt'[a] = next
  BY <1>1 DEF ManageIntegrations, TypeOK
<1>3. next \in AttemptState
  BY <1>1, <1>2 DEF TypeOK
<1>4. /\ next.query = q /\ next.expects = expects /\ next.old = NoRecord
      /\ next.phase \in {"reading", "answered"}
      /\ next.answer \in {"none", "blocked"}
      /\ next.answer # "none" => next.phase = "answered"
  BY <1>1 DEF AttemptState, ManageIntegrations, IntegrationInv, SnapshotsArePast
<1>5. ~Wrote(a)
  BY <1>1 DEF Wrote, ManageIntegrations
<1>6. Serial => InFlight = {}
  BY DEF ManageIntegrations
<1> HIDE DEF next
<1>7. QED
  BY <1>2, <1>3, <1>4, <1>5, <1>6, LocalStep DEF ManageIntegrations

LEMMA ListKeepsInv ==
    ASSUME IntegrationInv, TypeOK', NEW a \in Attempts, ListIntegrationPoints(a)
    PROVE  IntegrationInv'
<1> DEFINE next == [attempt[a] EXCEPT !.phase = "deciding", !.old = records[Point(a)]]
<1>1. TypeOK /\ attempt[a] \in AttemptState /\ Point(a) \in Points
  BY QueryType DEF IntegrationInv, TypeOK
<1>2. attempt' = [attempt EXCEPT ![a] = next] /\ attempt'[a] = next
  BY <1>1 DEF ListIntegrationPoints, TypeOK
<1>3. next \in AttemptState
  BY <1>1, <1>2 DEF TypeOK
<1>4. /\ next.query = Query(a) /\ next.query.point = Point(a)
      /\ next.expects = attempt[a].expects /\ next.old = records[Point(a)]
      /\ next.phase = "deciding" /\ next.answer = attempt[a].answer
  BY <1>1 DEF AttemptState, Query, Point
<1>5. /\ records[Point(a)] \in versions[Point(a)] \cup {NoRecord}
      /\ attempt[a].expects \in versions[Point(a)] \cup {NoRecord}
      /\ attempt[a].answer = "none"
  BY <1>1 DEF IntegrationInv, SnapshotsArePast, WritesFollowPhase, ListIntegrationPoints
<1>6. ~Wrote(a) /\ a \in InFlight
  BY <1>1 DEF Wrote, ListIntegrationPoints, InFlight, Busy
<1> HIDE DEF next
<1>7. UNCHANGED <<records, links, events, versions>>
  BY DEF ListIntegrationPoints
<1>8. /\ next.old \in versions[next.query.point] \cup {NoRecord}
      /\ next.expects \in versions[next.query.point] \cup {NoRecord}
      /\ next.phase \notin {"idle", "linking", "replying"}
      /\ Serial => /\ a \in InFlight \/ InFlight = {}
                   /\ next.phase \in {"deciding", "storing"} =>
                          next.old = records[next.query.point]
  BY <1>4, <1>5, <1>6
<1>9. QED
  BY <1>2, <1>3, <1>4, <1>5, <1>6, <1>7, <1>8, LocalStep

LEMMA DecideKeepsInv ==
    ASSUME IntegrationInv, TypeOK', NEW a \in Attempts, DecideIntegration(a)
    PROVE  IntegrationInv'
<1> DEFINE verdict == IntegrationVerdict(Query(a), attempt[a].old, attempt[a].expects)
           next == [attempt[a] EXCEPT
               !.phase = IF verdict = "write" THEN "storing" ELSE "answered",
               !.answer = IF verdict = "write" THEN "none" ELSE verdict]
<1>1. TypeOK /\ attempt[a] \in AttemptState /\ Point(a) \in Points
  BY QueryType DEF IntegrationInv, TypeOK
<1>2. attempt' = [attempt EXCEPT ![a] = next] /\ attempt'[a] = next
  BY <1>1 DEF DecideIntegration, TypeOK
<1>3. next \in AttemptState
  BY <1>1, <1>2 DEF TypeOK
<1>4. verdict = "ok" => Query(a).kind = "read"
  BY OkVerdict
<1>5. next.phase = "storing" =>
          IntegrationVerdict(Query(a), attempt[a].old, attempt[a].expects) = "write"
  BY <1>1 DEF AttemptState
<1> HIDE DEF verdict
<1>6. /\ next.query = Query(a) /\ next.query.point = Point(a)
      /\ next.expects = attempt[a].expects /\ next.old = attempt[a].old
      /\ next.phase \in {"storing", "answered"}
      /\ next.answer # "none" => next.phase = "answered"
      /\ next.answer = "ok" => Query(a).kind = "read"
  BY <1>1, <1>4 DEF AttemptState, Query, Point
<1>7. /\ attempt[a].old \in versions[Point(a)] \cup {NoRecord}
      /\ attempt[a].expects \in versions[Point(a)] \cup {NoRecord}
  BY DEF IntegrationInv, SnapshotsArePast
<1>8. ~Wrote(a) /\ a \in InFlight /\ (Serial => attempt[a].old = records[Point(a)])
  BY <1>1 DEF Wrote, DecideIntegration, InFlight, Busy, IntegrationInv, TurnsAreTaken
<1> HIDE DEF next
<1>9. UNCHANGED <<records, links, events, versions>>
  BY DEF DecideIntegration
<1>10. /\ next.old \in versions[next.query.point] \cup {NoRecord}
      /\ next.expects \in versions[next.query.point] \cup {NoRecord}
      /\ next.phase \notin {"idle", "linking", "replying"}
      /\ Serial => /\ a \in InFlight \/ InFlight = {}
                   /\ next.phase \in {"deciding", "storing"} =>
                          next.old = records[next.query.point]
  BY <1>5, <1>6, <1>7, <1>8
<1>11. QED
  BY <1>2, <1>3, <1>5, <1>6, <1>7, <1>8, <1>9, <1>10, LocalStep

LEMMA AnswerKeepsInv ==
    ASSUME IntegrationInv, TypeOK', NEW a \in Attempts, AnswerIntegration(a)
    PROVE  IntegrationInv'
<1> DEFINE next == [attempt[a] EXCEPT !.phase = "answered", !.answer = "ok"]
<1>1. TypeOK /\ attempt[a] \in AttemptState
  BY DEF IntegrationInv, TypeOK
<1>2. attempt' = [attempt EXCEPT ![a] = next] /\ attempt'[a] = next
  BY <1>1 DEF AnswerIntegration, TypeOK
<1>3. next \in AttemptState
  BY <1>1, <1>2 DEF TypeOK
<1>4. /\ next.query = Query(a) /\ next.query.point = Point(a)
      /\ next.expects = attempt[a].expects /\ next.old = attempt[a].old
      /\ next.phase = "answered" /\ next.answer = "ok"
  BY <1>1 DEF AttemptState, Query, Point
<1>5. /\ attempt[a].old \in versions[Point(a)] \cup {NoRecord}
      /\ attempt[a].expects \in versions[Point(a)] \cup {NoRecord}
      /\ attempt[a].phase = "replying" /\ Query(a).kind # "read"
  BY DEF IntegrationInv, SnapshotsArePast, WritesFollowPhase, AnswerIntegration
<1>6. a \in InFlight
  BY <1>5 DEF InFlight, Busy
<1>7. Wrote(a)'
  BY <1>2, <1>4, <1>5 DEF Wrote, Query
<1> HIDE DEF next
<1>8. QED
  BY <1>2, <1>3, <1>4, <1>5, <1>6, <1>7, LocalStep DEF AnswerIntegration

LEMMA StopKeepsInv ==
    ASSUME IntegrationInv, TypeOK', NEW a \in Attempts, StopAttempt(a)
    PROVE  IntegrationInv'
<1> DEFINE next == [attempt[a] EXCEPT !.phase = "stopped"]
<1>1. TypeOK /\ attempt[a] \in AttemptState
  BY DEF IntegrationInv, TypeOK
<1>2. attempt' = [attempt EXCEPT ![a] = next] /\ attempt'[a] = next
  BY <1>1 DEF StopAttempt, TypeOK, AttemptState
<1>3. next \in AttemptState
  BY <1>1, <1>2 DEF TypeOK
<1>4. /\ next.query = Query(a) /\ next.query.point = Point(a)
      /\ next.expects = attempt[a].expects /\ next.old = attempt[a].old
      /\ next.phase = "stopped" /\ next.answer = attempt[a].answer
  BY <1>1 DEF AttemptState, Query, Point
<1>5. /\ attempt[a].old \in versions[Point(a)] \cup {NoRecord}
      /\ attempt[a].expects \in versions[Point(a)] \cup {NoRecord}
      /\ attempt[a].answer = "none"
  BY DEF IntegrationInv, SnapshotsArePast, WritesFollowPhase, StopAttempt, Busy
<1>6. a \in InFlight
  BY DEF StopAttempt, InFlight
<1>7. Wrote(a) => Wrote(a)'
  BY <1>2, <1>4 DEF Wrote, Query
<1> HIDE DEF next
<1>8. UNCHANGED <<records, links, events, versions>>
  BY DEF StopAttempt
<1>9. /\ next.old \in versions[next.query.point] \cup {NoRecord}
      /\ next.expects \in versions[next.query.point] \cup {NoRecord}
      /\ next.phase \notin {"idle", "linking", "replying"}
      /\ Serial => /\ a \in InFlight \/ InFlight = {}
                   /\ next.phase \in {"deciding", "storing"} =>
                          next.old = records[next.query.point]
  BY <1>4, <1>5, <1>6, <1>7
<1>10. QED
  BY <1>2, <1>3, <1>4, <1>5, <1>6, <1>7, <1>8, <1>9, LocalStep

(* The calls that link consumers or put events wrote their record before.  *)
LEMMA LinkKeepsInv ==
    ASSUME IntegrationInv, TypeOK', NEW a \in Attempts, NEW c \in Projects, LinkConsumer(a, c)
    PROVE  IntegrationInv'
<1>1. TypeOK /\ attempt[a] \in AttemptState
  BY DEF IntegrationInv, TypeOK
<1>2. /\ attempt[a].phase = "linking" /\ attempt'[a].phase = "linking"
      /\ attempt'[a].todo = attempt[a].todo \ {c}
      /\ \A b \in Attempts \ {a} : attempt'[b] = attempt[b]
      /\ \A b \in Attempts : /\ attempt'[b].phase = attempt[b].phase
                             /\ attempt'[b].query = attempt[b].query
                             /\ attempt'[b].answer = attempt[b].answer
                             /\ attempt'[b].old = attempt[b].old
                             /\ attempt'[b].expects = attempt[b].expects
  BY <1>1 DEF LinkConsumer, TypeOK, AttemptState
<1>3. UNCHANGED <<records, events, versions>>
  BY DEF LinkConsumer
<1>4. /\ links \subseteq links'
      /\ c \in Registered => [point |-> Point(a), consumer |-> c] \in links'
  BY DEF LinkConsumer
<1>5. \A b \in Attempts : /\ Query(b)' = Query(b) /\ Point(b)' = Point(b)
                          /\ Wrote(b)' <=> Wrote(b)
  BY <1>2 DEF Wrote, Query, Point
<1>6. WritersAreKnown' /\ KeyShowsEffect' /\ RepeatsApplyOnce'
  BY <1>3, <1>5, HistoryKept
<1>7. SnapshotsArePast'
  BY <1>2, <1>3, <1>5 DEF IntegrationInv, SnapshotsArePast
<1>8. \A e \in events : e.by \in Attempts
  BY DEF IntegrationInv, TypeOK, Event
<1>9. WritesFollowPhase'
  <2>1. \A e \in events' : Wrote(e.by)'
    BY <1>3, <1>5, <1>8 DEF IntegrationInv, WritesFollowPhase
  <2>2. ASSUME NEW b \in Attempts, attempt'[b].phase \in {"linking", "replying"}
        PROVE  \E v \in versions'[Point(b)'] :
                  /\ v.by = b
                  /\ \A d \in v.consumers \cap Registered :
                       \/ d \in attempt'[b].todo
                       \/ [point |-> Point(b)', consumer |-> d] \in links'
    <3>1. PICK v \in versions[Point(b)] :
             /\ v.by = b
             /\ \A d \in v.consumers \cap Registered :
                  d \in attempt[b].todo \/ [point |-> Point(b), consumer |-> d] \in links
      BY <1>2, <2>2 DEF IntegrationInv, WritesFollowPhase
    <3>2. CASE b = a
      BY <1>2, <1>3, <1>4, <1>5, <3>1, <3>2
    <3>3. CASE b # a
      BY <1>2, <1>3, <1>4, <1>5, <3>1, <3>3
    <3>4. QED  BY <3>2, <3>3
  <2>3. ASSUME NEW b \in Attempts
        PROVE  /\ attempt'[b].answer # "none" => attempt'[b].phase = "answered"
               /\ attempt'[b].phase = "storing" =>
                    IntegrationVerdict(Query(b)', attempt'[b].old, attempt'[b].expects) = "write"
               /\ attempt'[b].phase \in {"linking", "replying"} => Query(b)'.kind # "read"
               /\ attempt'[b].phase = "replying" =>
                    /\ attempt'[b].todo = {}
                    /\ \E e \in events' : e.id = Query(b)'.correlation
    BY <1>2, <1>3, <1>5 DEF IntegrationInv, WritesFollowPhase
  <2>4. QED  BY <2>1, <2>2, <2>3 DEF WritesFollowPhase
<1>10. TurnsAreTaken'
  BY <1>2, <1>3, <1>5 DEF IntegrationInv, TurnsAreTaken, InFlight
<1>11. AcceptedIsComplete'
  BY <1>2, <1>3, <1>4, <1>5 DEF IntegrationInv, AcceptedIsComplete
<1>12. QED
  BY <1>6, <1>7, <1>9, <1>10, <1>11 DEF IntegrationInv

LEMMA PutEventKeepsInv ==
    ASSUME IntegrationInv, TypeOK', NEW a \in Attempts, PutIntegrationEvent(a)
    PROVE  IntegrationInv'
<1> DEFINE event == [id |-> Query(a).correlation, by |-> a]
<1>1. TypeOK /\ attempt[a] \in AttemptState
  BY DEF IntegrationInv, TypeOK
<1>2. /\ attempt[a].phase = "linking" /\ attempt'[a].phase = "replying"
      /\ attempt[a].todo = {}
      /\ \A b \in Attempts \ {a} : attempt'[b] = attempt[b]
      /\ \A b \in Attempts : /\ attempt'[b].todo = attempt[b].todo
                             /\ attempt'[b].query = attempt[b].query
                             /\ attempt'[b].answer = attempt[b].answer
                             /\ attempt'[b].old = attempt[b].old
                             /\ attempt'[b].expects = attempt[b].expects
  BY <1>1 DEF PutIntegrationEvent, TypeOK, AttemptState
<1>3. UNCHANGED <<records, links, versions>>
  BY DEF PutIntegrationEvent
<1>4. /\ events' = {e \in events : e.id # Query(a).correlation} \cup {event}
      /\ event.id = Query(a).correlation /\ event.by = a
  BY DEF PutIntegrationEvent
<1> HIDE DEF event
<1>5. \A b \in Attempts : /\ Query(b)' = Query(b) /\ Point(b)' = Point(b)
                          /\ Wrote(b) => Wrote(b)'
  BY <1>2 DEF Wrote, Query, Point
<1>6. Wrote(a)'
  BY <1>2, <1>5 DEF IntegrationInv, WritesFollowPhase, Wrote
<1>7. \A k : (\E e \in events : e.id = k) => \E e \in events' : e.id = k
  BY <1>4
<1>8. WritersAreKnown' /\ KeyShowsEffect' /\ RepeatsApplyOnce'
  BY <1>3, <1>5, HistoryKept
<1>9. SnapshotsArePast'
  BY <1>2, <1>3, <1>5 DEF IntegrationInv, SnapshotsArePast
<1>10. WritesFollowPhase'
  <2>1. \A e \in events : e.by \in Attempts
    BY DEF IntegrationInv, TypeOK, Event
  <2>2. \A e \in events' : Wrote(e.by)'
    BY <1>4, <1>5, <1>6, <2>1 DEF IntegrationInv, WritesFollowPhase
  <2>3. attempt[a].answer = "none"
    BY <1>2 DEF IntegrationInv, WritesFollowPhase
  <2>4. ASSUME NEW b \in Attempts
        PROVE  /\ attempt'[b].answer # "none" => attempt'[b].phase = "answered"
               /\ attempt'[b].phase = "storing" =>
                    IntegrationVerdict(Query(b)', attempt'[b].old, attempt'[b].expects) = "write"
               /\ attempt'[b].phase = "replying" =>
                    /\ attempt'[b].todo = {}
                    /\ \E e \in events' : e.id = Query(b)'.correlation
    BY <1>2, <1>4, <1>5, <1>7, <2>3 DEF IntegrationInv, WritesFollowPhase
  <2>5. ASSUME NEW b \in Attempts, attempt'[b].phase \in {"linking", "replying"}
        PROVE  /\ Query(b)'.kind # "read"
               /\ \E v \in versions'[Point(b)'] :
                    /\ v.by = b
                    /\ \A d \in v.consumers \cap Registered :
                         \/ d \in attempt'[b].todo
                         \/ [point |-> Point(b)', consumer |-> d] \in links'
    <3>1. attempt[b].phase \in {"linking", "replying"}
      BY <1>2, <2>5
    <3>2. QED  BY <1>2, <1>3, <1>5, <3>1 DEF IntegrationInv, WritesFollowPhase
  <2>6. QED  BY <2>2, <2>4, <2>5 DEF WritesFollowPhase
<1>11. TurnsAreTaken'
  BY <1>2, <1>3, <1>5 DEF IntegrationInv, TurnsAreTaken, InFlight, Busy
<1>12. AcceptedIsComplete'
  BY <1>2, <1>3, <1>5, <1>7 DEF IntegrationInv, AcceptedIsComplete
<1>13. QED
  BY <1>8, <1>9, <1>10, <1>11, <1>12 DEF IntegrationInv

(* A call that writes has written no record before: its own key would have *)
(* been among those of the record it read.                                 *)
LEMMA FirstWrite ==
    ASSUME IntegrationInv, NEW a \in Attempts, attempt[a].phase = "storing"
    PROVE  /\ \A p \in Points : \A v \in versions[p] : a \notin Contributors(v) \cup {v.by}
           /\ \A e \in events : e.by # a
<1>1. ~Wrote(a)
  BY DEF Wrote
<1>2. QED  BY <1>1 DEF IntegrationInv, WritersAreKnown, WritesFollowPhase

LEMMA UpsertKeepsInv ==
    ASSUME IntegrationInv, TypeOK', NEW a \in Attempts, UpsertIntegrationPoint(a)
    PROVE  IntegrationInv'
<1> DEFINE old == attempt[a].old
           new == RebuiltIntegration(Query(a), old, a)
           point == Point(a)
<1>1. TypeOK /\ attempt[a] \in AttemptState /\ point \in Points
  BY QueryType DEF IntegrationInv, TypeOK
<1>2. Fields(new, old, Query(a), a)
  BY <1>1, NewRecordFields
<1>3. /\ records' = [records EXCEPT ![point] = new]
      /\ versions' = [versions EXCEPT ![point] = versions[point] \cup {new}]
      /\ UNCHANGED <<links, events>>
  BY DEF UpsertIntegrationPoint
<1>4. /\ attempt[a].phase = "storing" /\ attempt'[a].phase = "linking"
      /\ attempt'[a].todo = new.consumers
      /\ \A b \in Attempts \ {a} : attempt'[b] = attempt[b]
      /\ \A b \in Attempts : /\ attempt'[b].query = attempt[b].query
                             /\ attempt'[b].answer = attempt[b].answer
                             /\ attempt'[b].old = attempt[b].old
                             /\ attempt'[b].expects = attempt[b].expects
  BY <1>1 DEF UpsertIntegrationPoint, TypeOK, AttemptState
<1>5. /\ IntegrationVerdict(Query(a), old, attempt[a].expects) = "write"
      /\ attempt[a].answer = "none"
      /\ old \in versions[point] \cup {NoRecord}
  BY <1>4 DEF IntegrationInv, WritesFollowPhase, SnapshotsArePast
<1>6. Query(a).kind # "read" /\ Query(a).key \notin KeysOf(old)
  BY <1>5, WriteVerdict
<1> HIDE DEF new
<1>7. /\ new \in versions'[point] /\ records'[point] = new
      /\ \A p \in Points : versions[p] \subseteq versions'[p]
      /\ \A p \in Points : \A v \in versions'[p] : v \in versions[p] \/ (p = point /\ v = new)
      /\ \A p \in Points \ {point} : records'[p] = records[p]
  BY <1>1, <1>3 DEF TypeOK
<1>8. \A b \in Attempts : /\ Query(b)' = Query(b) /\ Point(b)' = Point(b)
                          /\ Wrote(b) => Wrote(b)'
  BY <1>4 DEF Wrote, Query, Point
<1>9. Wrote(a)'
  BY <1>4, <1>6, <1>8 DEF Wrote
<1>10. ASSUME NEW p \in Points, NEW v \in versions[p], NEW b \in Contributors(v) \cup {v.by}
       PROVE  b \in Attempts /\ Wrote(b) /\ Point(b) = p /\ Query(b).key \in v.keys
  BY <1>1, ContributorsAreAttempts DEF IntegrationInv, WritersAreKnown, TypeOK
<1>11. \A b \in Contributors(new) :
          b = a \/ (old \in versions[point] /\ b \in Contributors(old))
  BY <1>2, <1>5 DEF Fields, Contributors, Items, History
<1>12. SnapshotsArePast'
  BY <1>4, <1>7, <1>8, QueryType, <1>1 DEF IntegrationInv, SnapshotsArePast
<1>13. WritersAreKnown'
  <2> SUFFICES ASSUME NEW p \in Points, NEW v \in versions'[p],
                      NEW b \in Contributors(v) \cup {v.by}
               PROVE  Wrote(b)' /\ Point(b)' = p /\ Query(b)'.key \in v.keys
    BY DEF WritersAreKnown
  <2>1. CASE v \in versions[p]
    BY <1>8, <1>10, <2>1
  <2>2. CASE p = point /\ v = new
    <3>1. CASE b = a
      BY <1>2, <1>8, <1>9, <2>2, <3>1 DEF Fields
    <3>2. CASE b # a
      <4>1. old \in versions[point] /\ b \in Contributors(old)
        BY <1>2, <1>11, <2>2, <3>2 DEF Fields
      <4>2. KeysOf(old) = old.keys
        BY <1>1, <4>1, RecordAssumption DEF KeysOf, TypeOK
      <4>3. QED  BY <1>1, <1>2, <1>8, <1>10, <2>2, <4>1, <4>2 DEF Fields
    <3>3. QED  BY <3>1, <3>2
  <2>3. QED  BY <1>7, <2>1, <2>2
<1>14. KeyShowsEffect'
  <2> SUFFICES ASSUME NEW p \in Points, NEW v \in versions'[p], NEW k \in v.keys
               PROVE  \E w \in versions'[p] : Query(w.by)'.key = k /\ Shows(v, w.by)'
    BY DEF KeyShowsEffect
  <2>1. CASE v \in versions[p]
    <3>1. PICK w \in versions[p] : Query(w.by).key = k /\ Shows(v, w.by)
      BY <2>1 DEF IntegrationInv, KeyShowsEffect
    <3>2. Query(w.by)' = Query(w.by) /\ w \in versions'[p]
      BY <1>7, <1>8, <1>10
    <3>3. QED  BY <3>1, <3>2 DEF Shows
  <2>2. CASE p = point /\ v = new
    <3>1. CASE k = Query(a).key
      <4>1. Shows(new, a)
        BY <1>2 DEF Fields, Shows
      <4>2. new.by = a
        BY <1>2 DEF Fields
      <4>3. QED  BY <1>7, <1>8, <2>2, <3>1, <4>1, <4>2 DEF Shows
    <3>2. CASE k # Query(a).key
      <4>1. k \in KeysOf(old) /\ old \in versions[p]
        BY <1>2, <1>5, <2>2, <3>2 DEF Fields, KeysOf
      <4>2. /\ KeysOf(old) = old.keys /\ RefsOf(old) = old.refs
            /\ Items(old) = old.items /\ History(old) = old.history
        BY <1>1, <4>1, RecordAssumption DEF KeysOf, RefsOf, Items, History, TypeOK
      <4>3. PICK w \in versions[p] : Query(w.by).key = k /\ Shows(old, w.by)
        BY <4>1, <4>2 DEF IntegrationInv, KeyShowsEffect
      <4>4. Query(w.by)' = Query(w.by) /\ w \in versions'[p]
        BY <1>7, <1>8, <1>10
      <4>5. Shows(new, w.by)
        BY <1>2, <4>2, <4>3 DEF Shows, Fields
      <4>6. QED  BY <2>2, <4>3, <4>4, <4>5 DEF Shows
    <3>3. QED  BY <3>1, <3>2
  <2>3. QED  BY <1>7, <2>1, <2>2
<1>15. RepeatsApplyOnce'
  <2> SUFFICES ASSUME NEW p \in Points, NEW v \in versions'[p],
                      NEW b \in Contributors(v), NEW d \in Contributors(v),
                      Query(b)'.key = Query(d)'.key
               PROVE  b = d
    BY DEF RepeatsApplyOnce
  <2>1. CASE v \in versions[p]
    BY <1>8, <1>10, <2>1 DEF IntegrationInv, RepeatsApplyOnce
  <2>2. CASE p = point /\ v = new
    <3>1. ASSUME NEW x \in Contributors(new), x # a
          PROVE  /\ x \in Contributors(old) /\ old \in versions[point]
                 /\ Query(x).key \in KeysOf(old) /\ Query(x)' = Query(x)
      <4>1. x \in Contributors(old) /\ old \in versions[point]
        BY <1>11, <3>1
      <4>2. KeysOf(old) = old.keys
        BY <1>1, <4>1, RecordAssumption DEF KeysOf, TypeOK
      <4>3. QED  BY <1>1, <1>8, <1>10, <4>1, <4>2
    <3>2. CASE b # a /\ d # a
      BY <1>1, <2>2, <3>1, <3>2 DEF IntegrationInv, RepeatsApplyOnce
    <3>3. CASE b = a \/ d = a
      BY <1>6, <1>8, <2>2, <3>1, <3>3
    <3>4. QED  BY <3>2, <3>3
  <2>3. QED  BY <1>7, <2>1, <2>2
<1>16. WritesFollowPhase'
  <2>1. \A e \in events : e.by \in Attempts
    BY DEF IntegrationInv, TypeOK, Event
  <2>2. \A e \in events' : Wrote(e.by)'
    BY <1>3, <1>8, <2>1 DEF IntegrationInv, WritesFollowPhase
  <2>3. ASSUME NEW b \in Attempts
        PROVE  /\ attempt'[b].answer # "none" => attempt'[b].phase = "answered"
               /\ attempt'[b].phase = "storing" =>
                    IntegrationVerdict(Query(b)', attempt'[b].old, attempt'[b].expects) = "write"
               /\ attempt'[b].phase = "replying" =>
                    /\ attempt'[b].todo = {}
                    /\ \E e \in events' : e.id = Query(b)'.correlation
    BY <1>3, <1>4, <1>5, <1>8 DEF IntegrationInv, WritesFollowPhase
  <2>4. ASSUME NEW b \in Attempts, attempt'[b].phase \in {"linking", "replying"}
        PROVE  /\ Query(b)'.kind # "read"
               /\ \E v \in versions'[Point(b)'] :
                    /\ v.by = b
                    /\ \A d \in v.consumers \cap Registered :
                         \/ d \in attempt'[b].todo
                         \/ [point |-> Point(b)', consumer |-> d] \in links'
    <3>1. CASE b = a
      BY <1>2, <1>4, <1>6, <1>7, <1>8, <3>1 DEF Fields
    <3>2. CASE b # a
      <4>1. Point(b) \in Points /\ attempt[b].phase \in {"linking", "replying"}
        BY <1>1, <1>4, <2>4, <3>2, QueryType
      <4>2. QED  BY <1>3, <1>4, <1>7, <1>8, <3>2, <4>1 DEF IntegrationInv, WritesFollowPhase
    <3>3. QED  BY <3>1, <3>2
  <2>5. QED  BY <2>2, <2>3, <2>4 DEF WritesFollowPhase
<1>17. TurnsAreTaken'
  <2>1. Serial => \A b \in Attempts : attempt'[b].phase \in {"deciding", "storing"} => FALSE
    BY <1>4 DEF IntegrationInv, TurnsAreTaken, InFlight, Busy
  <2>2. Serial => \A b, d \in InFlight' : b = d
    BY <1>4 DEF IntegrationInv, TurnsAreTaken, InFlight, Busy
  <2>3. QED  BY <2>1, <2>2 DEF TurnsAreTaken
<1>18. AcceptedIsComplete'
  <2> SUFFICES ASSUME NEW b \in Attempts, attempt[b].answer = "ok", Query(b).kind # "read"
               PROVE  /\ \E v \in versions'[Point(b)] :
                           /\ v.by = b
                           /\ \A d \in v.consumers \cap Registered :
                                [point |-> Point(b), consumer |-> d] \in links
                      /\ \E e \in events : e.id = Query(b).correlation
    BY <1>3, <1>4, <1>8 DEF AcceptedIsComplete
  <2>1. Point(b) \in Points
    BY <1>1, QueryType
  <2>2. QED  BY <1>7, <2>1 DEF IntegrationInv, AcceptedIsComplete
<1>19. QED
  BY <1>12, <1>13, <1>14, <1>15, <1>16, <1>17, <1>18 DEF IntegrationInv

LEMMA InitInv == Init => IntegrationInv
<1> SUFFICES ASSUME Init PROVE IntegrationInv
  OBVIOUS
<1>1. TypeOK
  BY InitType
<1>2. \A a \in Attempts : /\ attempt[a].phase = "idle" /\ attempt[a].answer = "none"
                          /\ attempt[a].old = NoRecord /\ attempt[a].expects = NoRecord
  BY DEF Init, IdleAttempt
<1>3. /\ \A p \in Points : records[p] = NoRecord /\ versions[p] = {}
      /\ events = {}
  BY DEF Init
<1>4. SnapshotsArePast /\ AcceptedIsComplete
  BY <1>2, <1>3 DEF SnapshotsArePast, AcceptedIsComplete
<1>5. WritersAreKnown /\ KeyShowsEffect /\ RepeatsApplyOnce
  BY <1>3 DEF WritersAreKnown, KeyShowsEffect, RepeatsApplyOnce
<1>6. WritesFollowPhase
  BY <1>2, <1>3 DEF WritesFollowPhase
<1>7. TurnsAreTaken
  BY <1>2 DEF TurnsAreTaken, InFlight, Busy
<1>8. QED
  BY <1>1, <1>4, <1>5, <1>6, <1>7 DEF IntegrationInv

LEMMA StepInv ==
    ASSUME IntegrationInv, [Next]_vars
    PROVE  IntegrationInv'
<1>1. ASSUME NEW a \in Attempts, Start(a) \/ Handle(a) \/ StopAttempt(a)
      PROVE  IntegrationInv'
  <2>0. TypeOK'
    BY <1>1, StepType DEF IntegrationInv
  <2>1. ASSUME Start(a) PROVE IntegrationInv'
    BY <2>0, <2>1, ManageKeepsInv DEF Start
  <2>2. ASSUME NEW c \in Projects, LinkConsumer(a, c) PROVE IntegrationInv'
    BY <2>0, <2>2, LinkKeepsInv
  <2>3. QED
    BY <1>1, <2>0, <2>1, <2>2, ListKeepsInv, DecideKeepsInv, UpsertKeepsInv,
       PutEventKeepsInv, AnswerKeepsInv, StopKeepsInv DEF Handle
<1>2. ASSUME UNCHANGED vars PROVE IntegrationInv'
  BY <1>2 DEF vars, IntegrationInv, TypeOK, SnapshotsArePast, WritersAreKnown,
              WritesFollowPhase, TurnsAreTaken, KeyShowsEffect, RepeatsApplyOnce,
              AcceptedIsComplete, InFlight, Wrote, Shows, Point, Query
<1>3. QED  BY <1>1, <1>2 DEF Next

(* The invariant holds however the calls interleave and stop.              *)
THEOREM RecordsCorrect == Spec => []IntegrationInv
<1>1. QED  BY InitInv, StepInv, PTL DEF Spec

(* An idempotency key in a record is always that of a call the record      *)
(* shows, so a retry answered "duplicate" was indeed applied.              *)
THEOREM KeysShowEffects == Spec => []KeyShowsEffect
<1>1. IntegrationInv => KeyShowsEffect
  BY DEF IntegrationInv
<1>2. QED  BY RecordsCorrect, <1>1, PTL

(* No record holds the effects of two calls with one key.                  *)
THEOREM RepeatsAppliedOnce == Spec => []RepeatsApplyOnce
<1>1. IntegrationInv => RepeatsApplyOnce
  BY DEF IntegrationInv
<1>2. QED  BY RecordsCorrect, <1>1, PTL

(* Reads, refused calls and duplicates change nothing.                     *)
THEOREM RefusalsLeaveNoTrace == Spec => []RefusedLeavesNoTrace
<1>1. IntegrationInv => RefusedLeavesNoTrace
  <2> SUFFICES ASSUME IntegrationInv, NEW a \in Attempts,
                      \/ attempt[a].answer \in {"blocked", "duplicate"}
                      \/ attempt[a].phase # "idle" /\ Query(a).kind = "read"
               PROVE  /\ \A p \in Points : \A v \in versions[p] : v.by # a
                      /\ \A e \in events : e.by # a
    BY DEF RefusedLeavesNoTrace
  <2>1. ~Wrote(a)
    BY DEF IntegrationInv, WritesFollowPhase, Wrote
  <2>2. QED  BY <2>1 DEF IntegrationInv, WritersAreKnown, WritesFollowPhase
<1>2. QED  BY RecordsCorrect, <1>1, PTL

(* What is answered "ok" is in the store, links and event included.        *)
THEOREM AcceptedAreComplete == Spec => []AcceptedIsComplete
<1>1. IntegrationInv => AcceptedIsComplete
  BY DEF IntegrationInv
<1>2. QED  BY RecordsCorrect, <1>1, PTL
-----------------------------------------------------------------------------
(* Whoever rewrites a record is the call the new record names, and its     *)
(* verdict on what it read was to write.                                   *)
LEMMA RewriterDecided ==
    ASSUME IntegrationInv, Next, NEW p \in Points, Rewritten(p)
    PROVE  \E a \in Attempts :
              /\ records'[p] = RebuiltIntegration(Query(a), attempt[a].old, a)
              /\ Writer(p) = attempt[a] /\ Writer(p).query = Query(a)
              /\ IntegrationVerdict(Query(a), attempt[a].old, attempt[a].expects) = "write"
<1>1. PICK a \in Attempts : UpsertIntegrationPoint(a)
  <2>1. ASSUME NEW a \in Attempts, Start(a) \/ Handle(a) \/ StopAttempt(a)
        PROVE  UpsertIntegrationPoint(a) \/ records' = records
    <3>1. Start(a) \/ StopAttempt(a) => records' = records
      <4>1. \A q, expects : ManageIntegrations(a, q, expects) => records' = records
        BY Zenon DEF ManageIntegrations
      <4>2. QED  BY <4>1 DEF Start, StopAttempt
    <3>2. ListIntegrationPoints(a) \/ DecideIntegration(a) => records' = records
      BY DEF ListIntegrationPoints, DecideIntegration
    <3>3. (\E c \in Projects : LinkConsumer(a, c)) => records' = records
      BY DEF LinkConsumer
    <3>4. PutIntegrationEvent(a) \/ AnswerIntegration(a) => records' = records
      BY DEF PutIntegrationEvent, AnswerIntegration
    <3>5. QED  BY <2>1, <3>1, <3>2, <3>3, <3>4 DEF Handle
  <2>2. QED  BY <2>1 DEF Next, Rewritten
<1> DEFINE new == RebuiltIntegration(Query(a), attempt[a].old, a)
<1>2. records' = [records EXCEPT ![Point(a)] = new] /\ attempt[a].phase = "storing"
  BY <1>1 DEF UpsertIntegrationPoint
<1>3. new.by = a
  BY DEF RebuiltIntegration
<1> HIDE DEF new
<1>4. records'[p] = new
  BY <1>2 DEF IntegrationInv, TypeOK, Rewritten
<1>5. Writer(p) = attempt[a] /\ Writer(p).query = Query(a)
  BY <1>3, <1>4 DEF Writer, Query
<1>6. IntegrationVerdict(Query(a), attempt[a].old, attempt[a].expects) = "write"
  BY <1>2 DEF IntegrationInv, WritesFollowPhase
<1>7. QED  BY <1>4, <1>5, <1>6 DEF new

(* No call that replaces the record it read makes a retired integration    *)
(* active, but an update or rename.                                        *)
THEOREM RetirementStands == Spec => RetiredStaysRetired
<1>1. ASSUME NEW q, NEW old, NEW expects, NEW a,
             IntegrationVerdict(q, old, expects) = "write", StatusOf(old) = "retired"
      PROVE  RebuiltIntegration(q, old, a).status = "retired" \/ q.kind = "update"
  <2>1. q.kind \in {"update", "retire"}
    BY <1>1 DEF IntegrationVerdict, AllowedKinds
  <2>2. QED  BY <2>1 DEF RebuiltIntegration, NextStatus
<1>2. IntegrationInv /\ [Next]_vars
      => [\A p \in Points :
             Rewritten(p) /\ UpToDate(p) /\ StatusOf(records[p]) = "retired" =>
                 records'[p].status = "retired" \/ Writer(p).query.kind = "update"]_vars
  <2> SUFFICES ASSUME IntegrationInv, Next, NEW p \in Points,
                      Rewritten(p), UpToDate(p), StatusOf(records[p]) = "retired"
               PROVE  records'[p].status = "retired" \/ Writer(p).query.kind = "update"
    OBVIOUS
  <2>1. PICK a \in Attempts :
           /\ records'[p] = RebuiltIntegration(Query(a), attempt[a].old, a)
           /\ Writer(p) = attempt[a] /\ Writer(p).query = Query(a)
           /\ IntegrationVerdict(Query(a), attempt[a].old, attempt[a].expects) = "write"
    BY RewriterDecided
  <2>2. attempt[a].old = records[p]
    BY <2>1 DEF UpToDate
  <2>3. QED  BY <1>1, <2>1, <2>2
<1>3. QED  BY <1>2, RecordsCorrect, PTL DEF Spec, RetiredStaysRetired
-----------------------------------------------------------------------------
(* manage_integrations implements RecordStore: the upsert is the change,   *)
(* every other step a stutter.                                             *)
THEOREM RecordStoreImplemented == Spec => ImplementsRecordStore
<1>1. Init => Store!Init
  BY DEF Init, Store!Init
<1>2. ASSUME IntegrationInv, [Next]_vars
      PROVE  [Store!Next]_(Store!vars)
  <2>1. ASSUME NEW a \in Attempts, UpsertIntegrationPoint(a)
        PROVE  Store!Next
    <3> DEFINE q == Query(a)
               old == attempt[a].old
               expects == attempt[a].expects
    <3>1. attempt[a].phase = "storing"
      BY <2>1 DEF UpsertIntegrationPoint
    <3>2. q \in Calls /\ Point(a) = q.point
      BY <1>2, QueryType DEF IntegrationInv
    <3>3. \A p \in Points : \A v \in versions[p] : v.by # a
      BY <1>2, <3>1, FirstWrite
    <3>4. IntegrationVerdict(q, old, expects) = "write"
      BY <1>2, <3>1 DEF IntegrationInv, WritesFollowPhase
    <3>5. old \in Store!Bases(q.point)
      BY <1>2, <3>1, <3>2 DEF IntegrationInv, SnapshotsArePast, TurnsAreTaken, Store!Bases
    <3>6. expects \in versions[q.point] \cup {NoRecord}
      BY <1>2, <3>2 DEF IntegrationInv, SnapshotsArePast
    <3>7. /\ records' = [records EXCEPT ![q.point] = RebuiltIntegration(q, old, a)]
          /\ versions' = [versions EXCEPT ![q.point] =
                              versions[q.point] \cup {RebuiltIntegration(q, old, a)}]
      BY <2>1, <3>2 DEF UpsertIntegrationPoint
    <3> HIDE DEF q, old, expects
    <3>8. Store!Change(q, a)
      BY <3>3, <3>4, <3>5, <3>6, <3>7 DEF Store!Change
    <3>9. QED  BY <3>2, <3>8 DEF Store!Next
  <2>2. ASSUME NEW a \in Attempts,
               \/ Start(a) \/ StopAttempt(a)
               \/ ListIntegrationPoints(a) \/ DecideIntegration(a)
               \/ \E c \in Projects : LinkConsumer(a, c)
               \/ PutIntegrationEvent(a) \/ AnswerIntegration(a)
        PROVE  UNCHANGED Store!vars
    BY <2>2 DEF Start, ManageIntegrations, StopAttempt, ListIntegrationPoints,
                DecideIntegration, LinkConsumer, PutIntegrationEvent, AnswerIntegration,
                Store!vars
  <2>3. UNCHANGED vars => UNCHANGED Store!vars
    BY DEF vars, Store!vars
  <2>4. QED  BY <1>2, <2>1, <2>2, <2>3 DEF Next, Handle
<1>3. QED
  BY <1>1, <1>2, RecordsCorrect, PTL DEF Spec, Store!Spec, ImplementsRecordStore
=============================================================================
