-------------------------- MODULE IntegrationRules --------------------------
(***************************************************************************)
(* The pure rules of manage_integrations: what the handler decides about a *)
(* call, given the integration record it read, and the whole record it     *)
(* puts in that record's place.                                            *)
(*                                                                         *)
(* The 32 actions fall into eight kinds by what they do to the record.     *)
(* Artifact and evidence refs are one accumulated set of refs; purpose,    *)
(* producer and project roles, which no rule reads, are left out.  The     *)
(* state hash of a record is the record; recordedAt and createdAt are the  *)
(* call that wrote the record and the one that created the item.  A record *)
(* read back is the record stored, as its collections are kept sorted and  *)
(* without duplicates.                                                     *)
(***************************************************************************)

CONSTANTS
    Points,         \* integrationPointIds
    Keys,           \* idempotency keys, given or derived from the request
    Correlations,   \* correlation ids
    Projects,       \* project ids
    Refs,           \* artifact and evidence refs
    ItemIds,        \* coordination item ids
    ItemStatuses,   \* coordination statuses
    Attempts,       \* calls; the one that wrote a record stands for its time
    NoProject,      \* an absent optional project id
    NoItem,         \* no coordination item
    NoRecord        \* no integration record, or no state hash

(* create, upsert; update, rename; retire, delete; add_project;            *)
(* remove_project; the actions that record a coordination item, of which   *)
(* mark_blocker_unblocked, mark_blocker_resolved and reopen_blocker decide *)
(* a blocker; and help, list, get, inbox and catch_up.                     *)
Kinds == {"read", "create", "update", "retire", "add_project", "remove_project",
          "coordinate", "decide_blocker"}
Status == {"active", "retired"}

(* The part of request.integration.item the rules tell apart.              *)
ItemInput == [id : ItemIds, status : ItemStatuses,
              reporter : Projects \cup {NoProject}, blocked : Projects \cup {NoProject}]

Call == [point : Points, kind : Kinds, key : Keys, correlation : Correlations,
         authorized : BOOLEAN, grants : SUBSET Projects,
         consumers : SUBSET Projects, refs : SUBSET Refs,
         status : Status \cup {"unset"}, item : ItemInput \cup {NoItem}]

Item == [id : ItemIds, status : ItemStatuses, reporter : Projects \cup {NoProject},
         blocked : Projects \cup {NoProject}, createdBy : Attempts]
HistoryEntry == [status : Status, by : Attempts]
Record == [consumers : SUBSET Projects, refs : SUBSET Refs, items : SUBSET Item,
           keys : SUBSET Keys, status : Status, history : SUBSET HistoryEntry,
           by : Attempts]

(* Only kinds "coordinate" and "decide_blocker" carry an item, and the     *)
(* latter always does; who joins or leaves is named.                       *)
WellFormed(q) ==
    /\ q.kind \in {"add_project", "remove_project"} => q.consumers # {}
    /\ q.item # NoItem => q.kind \in {"coordinate", "decide_blocker"}
    /\ q.kind = "decide_blocker" => q.item # NoItem

ASSUME RecordAssumption == NoRecord \notin Record
ASSUME ItemAssumption == NoItem \notin ItemInput
ASSUME AbsentAssumption == NoProject \notin Projects

-----------------------------------------------------------------------------
(* What a new integration starts from; `by` is not read.                   *)
Items(old) == IF old = NoRecord THEN {} ELSE old.items
KeysOf(old) == IF old = NoRecord THEN {} ELSE old.keys
RefsOf(old) == IF old = NoRecord THEN {} ELSE old.refs
Consumers(old) == IF old = NoRecord THEN {} ELSE old.consumers
History(old) == IF old = NoRecord THEN {} ELSE old.history
StatusOf(old) == IF old = NoRecord THEN "active" ELSE old.status

(* A mutant: every action in every state.                                  *)
AllKindsAllowed(status) == Kinds

(* allowedIntegrationActionsForState.                                      *)
AllowedKinds(status) ==
    IF status = "retired" THEN {"read", "update", "retire"} ELSE Kinds

(* actorMayResolveBlocker, asked of the item the record holds under the    *)
(* id, or else of the one the call brings.                                 *)
MayResolveBlocker(q, old) ==
    LET held == {i \in Items(old) : i.id = q.item.id}
        parties == IF held = {}
                   THEN {q.item.reporter, q.item.blocked}
                   ELSE UNION {{i.reporter, i.blocked} : i \in held}
        eligible == parties \ {NoProject}
    IN  eligible = {} \/ eligible \cap q.grants # {}

(* A mutant: a repeated key is looked for after the state hash only.       *)
VerdictIgnoringKeys(q, old, expects) ==
    CASE old = NoRecord /\ q.kind \notin {"read", "create"}   -> "blocked"
      [] q.kind \notin AllowedKinds(StatusOf(old))            -> "blocked"
      [] /\ old # NoRecord /\ expects # NoRecord
         /\ expects # old                                     -> "blocked"
      [] q.kind = "decide_blocker" /\ ~MayResolveBlocker(q, old) -> "blocked"
      [] q.kind = "read"                                      -> "ok"
      [] OTHER                                                -> "write"

(* The handler's decision on call q, which expects the state hash of       *)
(* `expects`, given the record it read, in the order of its early returns. *)
IntegrationVerdict(q, old, expects) ==
    CASE old = NoRecord /\ q.kind \notin {"read", "create"}   -> "blocked"
      [] q.kind \notin AllowedKinds(StatusOf(old))            -> "blocked"
      [] q.kind # "read" /\ q.key \in KeysOf(old)             -> "duplicate"
      [] /\ old # NoRecord /\ expects # NoRecord
         /\ expects # old                                     -> "blocked"
      [] q.kind = "decide_blocker" /\ ~MayResolveBlocker(q, old) -> "blocked"
      [] q.kind = "read"                                      -> "ok"
      [] OTHER                                                -> "write"

(* A mutant: the item of the call replaces all others.                     *)
MergeDroppingOthers(items, q, a) ==
    IF q.item = NoItem THEN items
    ELSE {[id |-> q.item.id, status |-> q.item.status, reporter |-> q.item.reporter,
           blocked |-> q.item.blocked, createdBy |-> a]}

(* The item of call q merged into those of the record: it keeps the        *)
(* creation and the parties the call does not name.                        *)
MergeCoordinationItems(items, q, a) ==
    LET held == {i \in items : i.id = q.item.id}
        given(project, earlier) ==
            IF project # NoProject \/ held = {} THEN project ELSE earlier
        merged(old) == [id |-> q.item.id, status |-> q.item.status,
                        reporter |-> given(q.item.reporter, old.reporter),
                        blocked |-> given(q.item.blocked, old.blocked),
                        createdBy |-> old.createdBy]
        fresh == [id |-> q.item.id, status |-> q.item.status,
                  reporter |-> q.item.reporter, blocked |-> q.item.blocked,
                  createdBy |-> a]
    IN  IF q.item = NoItem THEN items
        ELSE (items \ held) \cup (IF held = {} THEN {fresh} ELSE {merged(i) : i \in held})

NextConsumers(q, old) ==
    CASE q.kind = "add_project"    -> Consumers(old) \cup q.consumers
      [] q.kind = "remove_project" -> Consumers(old) \ q.consumers
      [] q.kind \notin {"add_project", "remove_project"} /\ q.consumers # {}
                                   -> q.consumers
      [] OTHER                     -> Consumers(old)

NextStatus(q, old) ==
    CASE q.kind = "retire"                        -> "retired"
      [] q.kind # "retire" /\ q.status # "unset"  -> q.status
      [] OTHER                                    -> StatusOf(old)

(* Only these leave an entry in the status history.                        *)
Historic(q) == q.kind \in {"create", "update", "retire"}

(* The record call a, making request q, writes in place of the record it   *)
(* read.                                                                   *)
RebuiltIntegration(q, old, a) ==
    [consumers |-> NextConsumers(q, old),
     refs |-> RefsOf(old) \cup q.refs,
     items |-> MergeCoordinationItems(Items(old), q, a),
     keys |-> KeysOf(old) \cup {q.key},
     status |-> NextStatus(q, old),
     history |-> History(old) \cup
         (IF Historic(q) THEN {[status |-> NextStatus(q, old), by |-> a]} ELSE {}),
     by |-> a]
=============================================================================
