------------------------- MODULE IntegrationRecords -------------------------
(***************************************************************************)
(* The integration records every Program Manager server process shares.    *)
(*                                                                         *)
(* An attempt is one call of manage_integrations; a retry is another       *)
(* attempt with the same idempotency key.  The handler reads the records   *)
(* of the portfolio, decides, rebuilds the whole record from what it read  *)
(* and writes it, links the consumers, and puts the audit event, each in a *)
(* transaction of its own; calls interleave at every await, and may stop   *)
(* at any of them.  The handler's second and third read, of the records in *)
(* the caller's scope, only fill the answer and are not modelled; nor is   *)
(* the producer's link, which is written with the record.                  *)
(***************************************************************************)
EXTENDS IntegrationRules

CONSTANTS
    Calls,          \* the requests clients make
    Registered,     \* the projects manage_projects has registered
    Serial          \* whether clients take turns

ASSUME CallAssumption ==
    /\ Calls \subseteq {q \in Call : WellFormed(q)}
    /\ Calls # {}
    /\ Registered \subseteq Projects
    /\ Serial \in BOOLEAN

VARIABLES
    records,    \* the integration record in the store, by point
    links,      \* the CONSUMES_INTEGRATION_POINT edges in the store
    events,     \* the audit events in the store, one per event id
    versions,   \* history: every record the store ever held, by point
    attempt     \* control state and local variables of every call

vars == <<records, links, events, versions, attempt>>

-----------------------------------------------------------------------------
(* Types.                                                                  *)

Link == [point : Points, consumer : Projects]
Event == [id : Correlations, by : Attempts]

Busy == {"reading", "deciding", "storing", "linking", "replying"}

AttemptState ==
    [phase : Busy \cup {"idle", "answered", "stopped"}, query : Calls,
     expects : Record \cup {NoRecord}, old : Record \cup {NoRecord},
     todo : SUBSET Projects, answer : {"none", "ok", "duplicate", "blocked"}]

TypeOK ==
    /\ records \in [Points -> Record \cup {NoRecord}]
    /\ links \subseteq Link
    /\ events \subseteq Event
    /\ versions \in [Points -> SUBSET Record]
    /\ attempt \in [Attempts -> AttemptState]

(* The query of an idle attempt is unused.                                 *)
IdleAttempt ==
    [phase |-> "idle", query |-> CHOOSE q \in Calls : TRUE, expects |-> NoRecord,
     old |-> NoRecord, todo |-> {}, answer |-> "none"]

Init ==
    /\ records = [p \in Points |-> NoRecord]
    /\ links = {} /\ events = {}
    /\ versions = [p \in Points |-> {}]
    /\ attempt = [a \in Attempts |-> IdleAttempt]

-----------------------------------------------------------------------------
(* manage_integrations.                                                    *)

Query(a) == attempt[a].query
Point(a) == attempt[a].query.point
InFlight == {a \in Attempts : attempt[a].phase \in Busy}

(* The call arrives, expecting a state hash it got from an earlier answer  *)
(* or none; one from the wrong actor is blocked before any store read.     *)
ManageIntegrations(a, q, expects) ==
    /\ attempt[a].phase = "idle"
    /\ Serial => InFlight = {}
    /\ attempt' = [attempt EXCEPT ![a] = [@ EXCEPT
           !.query = q, !.expects = expects,
           !.phase = IF q.authorized THEN "reading" ELSE "answered",
           !.answer = IF q.authorized THEN "none" ELSE "blocked"]]
    /\ UNCHANGED <<records, links, events, versions>>

ListIntegrationPoints(a) ==
    /\ attempt[a].phase = "reading"
    /\ attempt' = [attempt EXCEPT ![a] = [@ EXCEPT
           !.phase = "deciding", !.old = records[Point(a)]]]
    /\ UNCHANGED <<records, links, events, versions>>

(* A mutant: the event is put for every call, also one that is refused.    *)
DecideAndPublish(a) ==
    LET verdict == IntegrationVerdict(Query(a), attempt[a].old, attempt[a].expects)
    IN  /\ attempt[a].phase = "deciding"
        /\ attempt' = [attempt EXCEPT ![a] = [@ EXCEPT
               !.phase = IF verdict = "write" THEN "storing" ELSE "answered",
               !.answer = IF verdict = "write" THEN "none" ELSE verdict]]
        /\ events' = events \cup {[id |-> Query(a).correlation, by |-> a]}
        /\ UNCHANGED <<records, links, versions>>

(* The decision is taken on the record read, not on the one in the store.  *)
DecideIntegration(a) ==
    LET verdict == IntegrationVerdict(Query(a), attempt[a].old, attempt[a].expects)
    IN  /\ attempt[a].phase = "deciding"
        /\ attempt' = [attempt EXCEPT ![a] = [@ EXCEPT
               !.phase = IF verdict = "write" THEN "storing" ELSE "answered",
               !.answer = IF verdict = "write" THEN "none" ELSE verdict]]
        /\ UNCHANGED <<records, links, events, versions>>

(* A mutant: the write may be made once more from the same read.           *)
UpsertMaybeTwice(a) ==
    LET new == RebuiltIntegration(Query(a), attempt[a].old, a)
    IN  /\ attempt[a].phase \in {"storing", "linking"}
        /\ records' = [records EXCEPT ![Point(a)] = new]
        /\ versions' = [versions EXCEPT ![Point(a)] = versions[Point(a)] \cup {new}]
        /\ attempt' = [attempt EXCEPT ![a] = [@ EXCEPT
               !.phase = "linking", !.todo = new.consumers]]
        /\ UNCHANGED <<links, events>>

(* MERGE on (portfolioId, integrationPointId), then SET every property.    *)
UpsertIntegrationPoint(a) ==
    LET new == RebuiltIntegration(Query(a), attempt[a].old, a)
    IN  /\ attempt[a].phase = "storing"
        /\ records' = [records EXCEPT ![Point(a)] = new]
        /\ versions' = [versions EXCEPT ![Point(a)] = versions[Point(a)] \cup {new}]
        /\ attempt' = [attempt EXCEPT ![a] = [@ EXCEPT
               !.phase = "linking", !.todo = new.consumers]]
        /\ UNCHANGED <<links, events>>

(* One transaction per consumer; an unregistered one matches nothing.      *)
LinkConsumer(a, c) ==
    /\ attempt[a].phase = "linking" /\ c \in attempt[a].todo
    /\ links' = links \cup
           (IF c \in Registered THEN {[point |-> Point(a), consumer |-> c]} ELSE {})
    /\ attempt' = [attempt EXCEPT ![a].todo = attempt[a].todo \ {c}]
    /\ UNCHANGED <<records, events, versions>>

(* A mutant: the event does not wait for the links.                        *)
PutEventUnawaited(a) ==
    /\ attempt[a].phase = "linking"
    /\ events' = {e \in events : e.id # Query(a).correlation}
                     \cup {[id |-> Query(a).correlation, by |-> a]}
    /\ attempt' = [attempt EXCEPT ![a].phase = "replying"]
    /\ UNCHANGED <<records, links, versions>>

(* MERGE on the event id, which the correlation id alone determines.       *)
PutIntegrationEvent(a) ==
    /\ attempt[a].phase = "linking" /\ attempt[a].todo = {}
    /\ events' = {e \in events : e.id # Query(a).correlation}
                     \cup {[id |-> Query(a).correlation, by |-> a]}
    /\ attempt' = [attempt EXCEPT ![a].phase = "replying"]
    /\ UNCHANGED <<records, links, versions>>

AnswerIntegration(a) ==
    /\ attempt[a].phase = "replying"
    /\ attempt' = [attempt EXCEPT ![a] = [@ EXCEPT !.phase = "answered", !.answer = "ok"]]
    /\ UNCHANGED <<records, links, events, versions>>

(* The process is killed, or a store call fails and the handler throws.    *)
StopAttempt(a) ==
    /\ attempt[a].phase \in Busy
    /\ attempt' = [attempt EXCEPT ![a].phase = "stopped"]
    /\ UNCHANGED <<records, links, events, versions>>

Handle(a) ==
    \/ ListIntegrationPoints(a) \/ DecideIntegration(a)
    \/ UpsertIntegrationPoint(a)
    \/ \E c \in Projects : LinkConsumer(a, c)
    \/ PutIntegrationEvent(a) \/ AnswerIntegration(a)

Start(a) ==
    \E q \in Calls : \E expects \in versions[q.point] \cup {NoRecord} :
        ManageIntegrations(a, q, expects)

Next == \E a \in Attempts : Start(a) \/ Handle(a) \/ StopAttempt(a)

Spec == Init /\ [][Next]_vars
-----------------------------------------------------------------------------
(* The inductive invariant the proofs rest on, with the properties below.  *)

(* The calls that made an item or a history entry of record v.             *)
Contributors(v) == {i.createdBy : i \in v.items} \cup {h.by : h \in v.history}

(* Call a may have written its record.                                     *)
Wrote(a) ==
    /\ Query(a).kind # "read"
    /\ \/ attempt[a].phase \in {"linking", "replying", "stopped"}
       \/ attempt[a].phase = "answered" /\ attempt[a].answer = "ok"

(* What was read or expected was once in the store.                        *)
SnapshotsArePast ==
    /\ \A p \in Points : records[p] \in versions[p] \cup {NoRecord}
    /\ \A a \in Attempts :
        /\ attempt[a].old \in versions[Point(a)] \cup {NoRecord}
        /\ attempt[a].expects \in versions[Point(a)] \cup {NoRecord}
        /\ attempt[a].phase = "idle" => attempt[a].old = NoRecord

(* The key of whoever contributed to a record is among the record's keys.  *)
WritersAreKnown ==
    \A p \in Points : \A v \in versions[p] :
        \A a \in Contributors(v) \cup {v.by} :
            Wrote(a) /\ Point(a) = p /\ Query(a).key \in v.keys

(* How far the writes of a call have come, by its phase.                   *)
WritesFollowPhase ==
    /\ \A e \in events : Wrote(e.by)
    /\ \A a \in Attempts :
        /\ attempt[a].answer # "none" => attempt[a].phase = "answered"
        /\ attempt[a].phase = "storing" =>
               IntegrationVerdict(Query(a), attempt[a].old, attempt[a].expects) = "write"
        /\ attempt[a].phase \in {"linking", "replying"} =>
               /\ Query(a).kind # "read"
               /\ \E v \in versions[Point(a)] :
                    /\ v.by = a
                    /\ \A c \in v.consumers \cap Registered :
                         \/ c \in attempt[a].todo
                         \/ [point |-> Point(a), consumer |-> c] \in links
        /\ attempt[a].phase = "replying" =>
               /\ attempt[a].todo = {}
               /\ \E e \in events : e.id = Query(a).correlation

(* When calls take turns, what a call read is still there when it writes.  *)
TurnsAreTaken ==
    Serial =>
        /\ \A a, b \in InFlight : a = b
        /\ \A a \in Attempts :
             attempt[a].phase \in {"deciding", "storing"} =>
                 attempt[a].old = records[Point(a)]

-----------------------------------------------------------------------------
(* Properties.                                                             *)

(* Record v shows what call a asked for.                                   *)
Shows(v, a) ==
    /\ Query(a).refs \subseteq v.refs
    /\ Query(a).item # NoItem => \E i \in v.items : i.id = Query(a).item.id
    /\ Historic(Query(a)) => \E h \in v.history : h.by = a

(* The answer "duplicate" is true: an idempotency key in a record the      *)
(* store ever held is the key of a call that wrote the integration, and    *)
(* the record shows what that call asked for, however many stale writes    *)
(* replaced the record meanwhile.  (The keys and their effects are         *)
(* rewritten together, from one read.)                                     *)
KeyShowsEffect ==
    \A p \in Points : \A v \in versions[p] : \A k \in v.keys :
        \E w \in versions[p] : Query(w.by).key = k /\ Shows(v, w.by)

(* "Repeated writes with the same idempotencyKey return the existing       *)
(* managed refs without duplicating records": no record ever holds items   *)
(* or history entries of two calls with one key, not even when the calls   *)
(* race.  (The duplicate check on a stale read.)                           *)
RepeatsApplyOnce ==
    \A p \in Points : \A v \in versions[p] : \A a, b \in Contributors(v) :
        Query(a).key = Query(b).key => a = b

(* A call that read, or was refused or recognised as a duplicate, changed  *)
(* nothing: no record, no event.  (The early returns.)                     *)
RefusedLeavesNoTrace ==
    \A a \in Attempts :
        \/ attempt[a].answer \in {"blocked", "duplicate"}
        \/ attempt[a].phase # "idle" /\ Query(a).kind = "read"
        =>
            /\ \A p \in Points : \A v \in versions[p] : v.by # a
            /\ \A e \in events : e.by # a

(* A write is answered "ok" only once its record has been in the store,    *)
(* its registered consumers are linked to the integration, and an event    *)
(* under its correlation id is in the store.  (The awaited writes.)        *)
AcceptedIsComplete ==
    \A a \in Attempts :
        attempt[a].answer = "ok" /\ Query(a).kind # "read" =>
            /\ \E v \in versions[Point(a)] :
                 /\ v.by = a
                 /\ \A c \in v.consumers \cap Registered :
                      [point |-> Point(a), consumer |-> c] \in links
            /\ \E e \in events : e.id = Query(a).correlation

IntegrationInv ==
    /\ TypeOK
    /\ SnapshotsArePast
    /\ WritersAreKnown
    /\ WritesFollowPhase
    /\ TurnsAreTaken
    /\ KeyShowsEffect
    /\ RepeatsApplyOnce
    /\ AcceptedIsComplete

Store == INSTANCE RecordStore
             WITH Decide <- IntegrationVerdict, Rebuild <- RebuiltIntegration

(* However its steps interleave, a call changes a record at most once, in  *)
(* one step, by the rules, from a record the store once held; from the one *)
(* it holds if calls take turns.  (The whole of manage_integrations.)      *)
ImplementsRecordStore == Store!Spec

Rewritten(p) == records'[p] # records[p]
Writer(p) == attempt[records'[p].by]

(* Of calls that race the later undoes the earlier.  This is promised of a *)
(* call that replaces the record it read.                                  *)
UpToDate(p) == Writer(p).old = records[p]

(* "Do not infer closure or reactivation when the state machine disallows  *)
(* it": only an update or rename makes a retired integration active.       *)
RetiredStaysRetired ==
    [][\A p \in Points :
         Rewritten(p) /\ UpToDate(p) /\ StatusOf(records[p]) = "retired" =>
             records'[p].status = "retired" \/ Writer(p).query.kind = "update"]_vars
=============================================================================
