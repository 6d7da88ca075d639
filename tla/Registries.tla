----------------------------- MODULE Registries -----------------------------
(***************************************************************************)
(* The registries of a portfolio: manage_projects, manage_evidence_items   *)
(* and pmo_macro edit_registry, over the store all servers share.          *)
(*                                                                         *)
(* All three handlers have one shape.  A call reads records, decides, and  *)
(* writes up to two whole records built from what it read, each write      *)
(* followed by its audit event; every read and write is a transaction of   *)
(* its own, calls interleave at every await and may stop at any of them.   *)
(* The reads that only fill the answer are not modelled.                   *)
(***************************************************************************)
EXTENDS ProjectRules, EvidenceRules, MacroRules, Naturals

CONSTANTS
    Attempts,       \* the calls that can be made
    Workloads,      \* the sets of requests a behaviour draws its calls from
    MaxInFlight     \* bound: calls at work at one time

ASSUME WorkloadAssumption ==
    /\ \A w \in Workloads : \A q \in w : Accepted(q)
    /\ {} \notin Workloads /\ Workloads # {}
    /\ MaxInFlight \in Nat \ {0}

VARIABLES
    workload,   \* the requests of this behaviour
    records,    \* the record in the store, by ref
    events,     \* the audit events in the store, one per event id
    attempt     \* control state and local variables of every call

vars == <<workload, records, events, attempt>>

-----------------------------------------------------------------------------
(* The rules of a call, by its tool.                                       *)

ActorAllowed(q) ==
    CASE q.tool = "manage_projects" -> ProjectActorAllowed(q)
      [] q.tool = "manage_evidence_items" -> q.role \in Managers
      [] q.tool = "pmo_macro" -> q.role # "stranger"

(* The transactions a call reads in, as sets of refs.                      *)
Reads(q) ==
    CASE q.tool = "manage_projects" -> <<Programs, Projects>>
      [] q.tool = "manage_evidence_items" -> <<Evidence \cap {q.evidence}, Artifacts \cap {q.artifact}>>
      [] q.tool = "pmo_macro" -> << {Registry} >>

Blocked(q, seen) ==
    CASE q.tool = "manage_projects" -> ProjectBlocked(q, seen)
      [] q.tool = "manage_evidence_items" -> EvidenceBlocked(q, seen)
      [] q.tool = "pmo_macro" -> EditBlocked(q)

Parts(q, seen) ==
    CASE q.tool = "manage_projects" -> ProjectParts(q, seen)
      [] q.tool = "manage_evidence_items" -> EvidenceParts(q, seen)
      [] q.tool = "pmo_macro" -> MacroParts(q, seen)

RefsIn(parts) == {parts[i][1] : i \in DOMAIN parts}

(* The event put after part i: manage_projects puts one and the same event *)
(* after both its writes, which names both refs.                           *)
EventOf(q, parts, i) ==
    CASE q.tool = "manage_projects" ->
             [id |-> <<q.tool, q.correlation>>, targets |-> RefsIn(parts)]
      [] q.tool = "manage_evidence_items" ->
             [id |-> <<q.tool, q.correlation, parts[i][1] \in Artifacts>>,
              targets |-> {parts[i][1]}]
      [] q.tool = "pmo_macro" ->
             [id |-> <<q.tool, q.correlation>>, targets |-> {}]

-----------------------------------------------------------------------------
(* Types.                                                                  *)

Busy == {"reading", "deciding", "storing", "logging", "replying"}

Requests == UNION Workloads
Nothing == [r \in Refs |-> None]

EventIds ==
    ({"manage_projects", "pmo_macro"} \X Correlations)
        \cup ({"manage_evidence_items"} \X Correlations \X BOOLEAN)

Event == [id : EventIds, targets : SUBSET Refs, by : Attempts]

(* What the store, or a call that has read it, holds under every ref.      *)
IsPortfolio(f) ==
    /\ f = [r \in Refs |-> f[r]]
    /\ \A r \in Refs : f[r] \in RecordsOf(r) \cup {None}

IsAttempt(s) ==
    /\ DOMAIN s = {"phase", "call", "seen", "step", "answer"}
    /\ s.phase \in Busy \cup {"idle", "answered", "stopped"}
    /\ s.phase # "idle" => s.call \in Requests
    /\ IsPortfolio(s.seen)
    /\ s.step \in 0 .. 2
    /\ s.answer \in {"none", "ok", "blocked", "guidance", "blocked_unshown"}

TypeOK ==
    /\ workload \in Workloads
    /\ IsPortfolio(records)
    /\ events \subseteq Event
    /\ attempt = [a \in Attempts |-> attempt[a]]
    /\ \A a \in Attempts : IsAttempt(attempt[a])

IdleAttempt == [phase |-> "idle", call |-> None, seen |-> Nothing, step |-> 0, answer |-> "none"]

Init ==
    /\ workload \in Workloads
    /\ records = Nothing
    /\ events = {}
    /\ attempt = [a \in Attempts |-> IdleAttempt]

-----------------------------------------------------------------------------
(* The handlers.                                                           *)

Call(a) == attempt[a].call
InFlight == {a \in Attempts : attempt[a].phase \in Busy}
PartsOf(a) == Parts(Call(a), attempt[a].seen)

StartCall(a, q) ==
    /\ attempt[a].phase = "idle" /\ Cardinality(InFlight) < MaxInFlight
    /\ attempt' = [attempt EXCEPT
           ![a].call = q,
           ![a].phase = IF ActorAllowed(q) THEN "reading" ELSE "answered",
           ![a].answer = IF ActorAllowed(q) THEN "none" ELSE "blocked"]
    /\ UNCHANGED <<workload, records, events>>

(* step counts the reads here, and the writes from then on.                *)
ReadRecords(a) ==
    LET reads == Reads(Call(a))
        n == attempt[a].step + 1
    IN  /\ attempt[a].phase = "reading"
        /\ attempt' = [attempt EXCEPT
               ![a].seen = [r \in Refs |-> IF r \in reads[n] THEN records[r] ELSE @[r]],
               ![a].step = IF n = Len(reads) THEN 0 ELSE n,
               ![a].phase = IF n = Len(reads) THEN "deciding" ELSE "reading"]
        /\ UNCHANGED <<workload, records, events>>

(* A refused edit shows the registry there is.  When the result schema does *)
(* not accept that, the refusal is answered with the guidance too.          *)
RefusalOf(q, seen) ==
    IF q.tool = "pmo_macro" /\ ~Presentable(Current(seen)) THEN "blocked_unshown"
                                                           ELSE "blocked"

Decide(a) ==
    LET blocked == Blocked(Call(a), attempt[a].seen)
    IN  /\ attempt[a].phase = "deciding"
        /\ attempt' = [attempt EXCEPT
               ![a].phase = IF blocked THEN "answered"
                            ELSE IF PartsOf(a) # <<>> THEN "storing" ELSE "replying",
               ![a].answer = IF blocked THEN RefusalOf(Call(a), attempt[a].seen) ELSE "none"]
        /\ UNCHANGED <<workload, records, events>>

(* MERGE on the ref, then SET every property: the whole record is replaced.*)
StoreRecord(a) ==
    LET part == PartsOf(a)[attempt[a].step + 1]
    IN  /\ attempt[a].phase = "storing"
        /\ records' = [records EXCEPT ![part[1]] = part[2]]
        /\ attempt' = [attempt EXCEPT ![a].step = @ + 1, ![a].phase = "logging"]
        /\ UNCHANGED <<workload, events>>

(* A mutant: the answer does not wait for the writes after the first.      *)
PutEventAndReply(a) ==
    LET event == EventOf(Call(a), PartsOf(a), attempt[a].step)
    IN  /\ attempt[a].phase = "logging"
        /\ events' = {e \in events : e.id # event.id}
                         \cup {[id |-> event.id, targets |-> event.targets, by |-> a]}
        /\ attempt' = [attempt EXCEPT ![a].phase = "replying"]
        /\ UNCHANGED <<workload, records>>

(* A mutant: the event of a second write is left to the first.             *)
PutFirstEvent(a) ==
    LET event == EventOf(Call(a), PartsOf(a), attempt[a].step)
    IN  /\ attempt[a].phase = "logging"
        /\ events' = IF attempt[a].step > 1 THEN events
                     ELSE {e \in events : e.id # event.id}
                         \cup {[id |-> event.id, targets |-> event.targets, by |-> a]}
        /\ attempt' = [attempt EXCEPT ![a].phase =
               IF attempt[a].step < Len(PartsOf(a)) THEN "storing" ELSE "replying"]
        /\ UNCHANGED <<workload, records>>

(* MERGE on the event id, then SET: an event of the same id is replaced.   *)
PutEvent(a) ==
    LET event == EventOf(Call(a), PartsOf(a), attempt[a].step)
    IN  /\ attempt[a].phase = "logging"
        /\ events' = {e \in events : e.id # event.id}
                         \cup {[id |-> event.id, targets |-> event.targets, by |-> a]}
        /\ attempt' = [attempt EXCEPT ![a].phase =
               IF attempt[a].step < Len(PartsOf(a)) THEN "storing" ELSE "replying"]
        /\ UNCHANGED <<workload, records>>

(* The registry an answer of pmo_macro shows.                              *)
ShownRegistry(a) ==
    IF Call(a).action = "list" THEN Current(attempt[a].seen)
    ELSE EditedRegistry(Call(a), attempt[a].seen)

Reply(a) ==
    /\ attempt[a].phase = "replying"
    /\ attempt' = [attempt EXCEPT
           ![a].phase = "answered",
           ![a].answer = IF Call(a).tool = "pmo_macro" /\ ~Presentable(ShownRegistry(a))
                           THEN "guidance" ELSE "ok"]
    /\ UNCHANGED <<workload, records, events>>

(* The process is killed, or a store call fails and the handler throws.    *)
StopCall(a) ==
    /\ attempt[a].phase \in Busy
    /\ attempt' = [attempt EXCEPT ![a].phase = "stopped"]
    /\ UNCHANGED <<workload, records, events>>

Handle(a) ==
    \/ ReadRecords(a) \/ Decide(a) \/ StoreRecord(a) \/ PutEvent(a) \/ Reply(a)

Next ==
    \E a \in Attempts :
        \/ \E q \in workload : StartCall(a, q)
        \/ Handle(a)
        \/ StopCall(a)

Spec == Init /\ [][Next]_vars

-----------------------------------------------------------------------------
(* Properties.                                                             *)

(* Evidence never points to an artifact the registry does not hold, nor    *)
(* does the evidence a call has read, wherever calls interleave or stop.   *)
(* (The artifact is written before its evidence, on every path.)           *)
BackedIn(f) == \A e \in Evidence : f[e] # None /\ f[e].artifact # None =>
                   records[f[e].artifact] # None

EvidenceBacked ==
    /\ BackedIn(records)
    /\ \A a \in Attempts : BackedIn(attempt[a].seen)

(* A call that has got past its decision, other than by being stopped.     *)
Accepting(a) ==
    \/ attempt[a].phase \in {"storing", "logging", "replying"}
    \/ attempt[a].phase = "answered" /\ attempt[a].answer \in {"ok", "guidance"}

(* How far the reads and writes of a call have come, by its phase.         *)
FollowsPhase(a) ==
    LET writes == Len(PartsOf(a))
        s == attempt[a]
    IN  /\ s.answer # "none" => s.phase = "answered"
        /\ s.phase = "reading" => s.step < Len(Reads(Call(a)))
        /\ s.phase \in {"idle", "deciding"} => s.step = 0
        /\ s.phase = "storing" => s.step < writes
        /\ s.phase = "logging" => s.step \in 1 .. writes
        /\ Accepting(a) =>
               /\ ~Blocked(Call(a), s.seen)
               /\ s.phase \notin {"storing", "logging"} => s.step = writes
               /\ \A i \in 1 .. s.step : records[PartsOf(a)[i][1]] # None

WritesFollowPhase == \A a \in Attempts : FollowsPhase(a)

(* An event names what the call that put it has written or, of the projects *)
(* handler, is about to write beside what it has written.                   *)
NamesItsWrites(e) ==
    \E j \in 1 .. attempt[e.by].step :
        LET own == EventOf(Call(e.by), PartsOf(e.by), j)
        IN  e.id = own.id /\ e.targets = own.targets

(* An event is that of a call that has begun to write.                     *)
EventsFollowWrites ==
    \A e \in events :
        /\ Accepting(e.by) \/ attempt[e.by].phase = "stopped"
        /\ e.targets \subseteq RefsIn(PartsOf(e.by))
        /\ NamesItsWrites(e)

(* Under the id of the event of write i of call a there is the call's own  *)
(* event, which names what it wrote, or that of another call that has the  *)
(* same correlation id, which names what that call wrote.                  *)
Logged(a, i) ==
    LET event == EventOf(Call(a), PartsOf(a), i)
    IN  \E e \in events :
            /\ e.id = event.id /\ NamesItsWrites(e)
            /\ IF e.by = a THEN e.targets = event.targets
                          ELSE Call(e.by).correlation = Call(a).correlation

WritesAreLogged ==
    \A a \in Attempts : Accepting(a) =>
        \A i \in 1 .. attempt[a].step :
            Logged(a, i) \/ (i = attempt[a].step /\ attempt[a].phase = "logging")

(* The registries hold records of their kinds, and evidence its artifact;  *)
(* writes and their events come in order.                                  *)
RegistriesInv ==
    /\ TypeOK /\ WritesFollowPhase /\ EventsFollowWrites /\ WritesAreLogged
    /\ EvidenceBacked

(* An event names only records the registry holds, unless its call is yet  *)
(* to write them or never will, having stopped.  (The event of             *)
(* manage_projects is put before the second of the writes it names.)       *)
EventsNameRecords ==
    \A e \in events : \A r \in e.targets :
        \/ records[r] # None
        \/ attempt[e.by].phase \in Busy \cup {"stopped"}

(* A call is answered only once each of its writes has its event, and that *)
(* event goes on naming what was written until another call of the same    *)
(* correlation id replaces it; the one that stands then names what that    *)
(* call wrote, and the earlier write is named by no event.  (The awaited   *)
(* writes, and the ids of the events.)                                     *)
AnsweredIsLogged ==
    \A a \in Attempts :
        attempt[a].answer \in {"ok", "guidance"} =>
            \A i \in DOMAIN PartsOf(a) : Logged(a, i)

Storing(a) == attempt[a].phase = "storing" /\ attempt'[a].phase = "logging"

(* What call a replaces now is what it read.                               *)
UpToDate(a, r) == attempt[a].seen[r] = records[r]

IsRetired(v) ==
    /\ v # None
    /\ \/ "status" \in DOMAIN v /\ v.status = "retired"
       \/ "redaction" \in DOMAIN v /\ v.redaction = "blocked"

StatesStatus(q) ==
    IF q.tool = "manage_projects" THEN {q.programBody.status, q.projectBody.status} # {None}
                                  ELSE q.redaction # None

(* Retirement lasts: a retired program or project, or evidence retired to  *)
(* "blocked", comes back only by a call that states a status, or by one    *)
(* that read the record before it was retired.                             *)
RetirementLasts ==
    [][\A a \in Attempts : \A r \in Refs \ {Registry} :
         Storing(a) /\ IsRetired(records[r]) /\ ~IsRetired(records'[r]) =>
             StatesStatus(Call(a)) \/ ~UpToDate(a, r)]_vars

(* Nothing of record v is lost in record w but what call q says.           *)
KeepsTheRest(q, r, v, w) ==
    /\ r \in Programs => w.pointer \in {v.pointer, q.programBody.pointer}
    /\ r \in Projects =>
           /\ v.active \ w.active \subseteq
                  IF q.action = "remove_project" THEN {w.home} ELSE {}
           /\ w.active \ v.active \subseteq
                  {q.program, q.programBody.id, q.projectBody.program, v.home}
           /\ w.pointer \in {v.pointer, q.projectBody.pointer}
    /\ r \in Artifacts => w.hash \in {v.hash, q.hash}
    /\ r \in Evidence =>
           /\ v.attaches \subseteq w.attaches
           /\ w.artifact \in {v.artifact, q.artifact}
    /\ r = Registry => \A m \in Macros \ {q.macro} : w[m] = v[m]

(* Whole records are replaced, and yet a call whose reading is still       *)
(* current changes only what it names: a project keeps its other programs, *)
(* evidence its attachments and its artifact, an artifact its hash, the    *)
(* registry its other macros.  (Every "given ?? existing" of the rebuilt   *)
(* record.)                                                                *)
OnlyNamedPartsChange ==
    [][\A a \in Attempts : \A r \in Refs :
         Storing(a) /\ records[r] # None /\ records'[r] # records[r] /\ UpToDate(a, r) =>
             KeepsTheRest(Call(a), r, records[r], records'[r])]_vars
=============================================================================
