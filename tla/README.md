# A formal model of the Program Manager control plane

The Program Manager (PMO) is a TypeScript MCP server
(`src/control-plane/packages/program-manager`, below `P`).  Agents call its
tools; every tool reads and writes one Neo4j database that all server
processes share.  A handler is a sequence of awaited store calls, each a
transaction of its own, and nothing is locked between two of them.  The
interesting questions are therefore about interleavings of handlers, calls cut
short between two writes, retries, and decisions taken on what was read
earlier.  This directory holds TLA+ modules that model those handlers store
call by store call, TLC configurations that check them on small instances, and
TLAPS proofs of the properties that matter most for every instance.

`S` below is `P/src/service/program-tool-service.ts`, `GR` is
`P/src/repository/program-manager-graph-repository.ts`, `NEO` is
`P/src/repository/program-manager-neo4j-store.ts`, `GW` is
`P/src/mcp/program-manager-mcp-gateway.ts`, `ADP` is
`P/src/adapters/program-adapter-registry.ts`.

## The system

| Part | State it keeps | Operations | Model |
|---|---|---|---|
| Receipt recording (`S` 5280-5719) | none of its own | `recordProgramReceipt`, `submitAgenticOsReceipt` | `ReceiptLedger` |
| Reconciliation (`S` 5721-5984) | none | `reconcileProgramState` | `ReceiptLedger`; its adapter reads in `AdapterRegistry` |
| Stores (`NEO`, in-memory graph store, in-memory repository) and `GR` | everything the tools write | upserts, appends, scoped lists, context, impact | `StoreBackends` and what it instantiates |
| Integration lifecycle (`S` 3962-4570) | integration records: consumers, coordination items, keys, roles, status, history | `manageIntegrations` (32 actions) | `IntegrationRecords` |
| Project registry (`S` 3408-3705) | programs, projects | `manageProjects` | `Registries` |
| Evidence registry (`S` 3706-3961) | evidence refs, artifact refs | `manageEvidenceItems` | `Registries` |
| Macro registry (`P/src/macros`) | one registry record | `edit_registry` of `pmo_macro` | `Registries` |
| Workflow macros (`S` 2675-3280) | none | `pmo_macro`: catch up, drift, unblock plan, impact | not modelled |
| Program events (`GR` 360-395, `NEO` 623) | audit events | `putEvent`, `appendEvent`, audit trail query | with every writer; `appendEvent` in `StoreBackends`; the query is not |
| Adapter registry (`ADP`) | failure count and open time of each adapter, in process | `readState`, health, circuit | `AdapterRegistry` |
| Flight planner (`S` 4749-5278) | none; whoever keeps a plan stores its obligations | `planProgramAction`, `getAgenticOsContextPacket` | `FlightPlanner`; the packet is not |
| Impact assessment (`S` 6632, `GR` 749) | relationships | breadth-first walk, `upsertRelationship` | `GraphRepository`, `StoreBackends` |
| Server process (`P/bin/server.js`) | database mode, system identity, what is known of the database | startup, request loop, shutdown | `ServerRuntime` |
| Gateway (`GW`), alias normalisation | none | validation, guidance with a corrected form | `ToolGuidance`, `ServerRuntime` |
| Authorisation (`P/src/authz`) | none | grant checks | an input of each call: allowed or not |
| Queries, documentation, redaction, hashing | none | filter, format, digest | partly, see below |

**How they interact.**  Parts share state only through the database: the
planner's obligations are what recording validates against, recorded receipts
and obligations are what reconciliation joins, and statuses are written by
both.  `bin/server.js` starts `handleRequest` for every line it receives
without waiting for the last, so the handlers of one process interleave at
every `await`; several processes interleave anyway.  Only the adapter circuit
is shared memory of one process.

**What is hard.**

* Check-then-act: the duplicate check, the state hash check, the lifecycle
  check are made on a read that precedes the write.
* Writes that belong together are several transactions: receipt, audit event,
  entry, status; integration node, consumer edges, event; artifact, evidence;
  the deletion and the creation of one dependency.
* Retries carry an idempotency key; what was left by the call they repeat
  decides what they do.
* Records are rewritten as a whole from an earlier read, so a late write can
  undo another caller's.
* Statuses are derived data, written by several parties, in any order.
* Three stores implement one interface, each with its own idea of a merge.
* The circuit's clock is each call's own, captured before its reads.
* Database outages hit a server between any two steps of its start.
* An agent may follow what it is answered with: corrected forms, plans.

**What makes each part correct.**

* Recording: a receipt answers an obligation of its plan and scope; a refused
  submission leaves nothing; an accepted one has left everything; a repeat is
  recognised whenever the earlier receipt could be seen.
* Reconciliation: a status never claims a receipt that is not there, and ends
  up right however calls race.
* Integrations: no accepted change is lost when calls take turns; a retired
  integration stays retired until somebody revives it; a repeated key changes
  nothing, and the answer "duplicate" is true.
* Registries: no evidence without its artifact; an event tells of what was
  stored; what is retired stays so; a call changes what it names.
* Stores: what is written is listed, alike by all; one event per key; impact
  is reachability.
* Adapter circuit: it opens after the configured failures in a row and holds
  for its window, which no call it refuses prolongs; answers name what they lack
  and hold nothing stale.
* Server: one system identity; degraded mode never writes; every line is
  answered, whatever its handler throws; guidance leads to a call that is
  accepted, as far as a repair can.
* Planner: propagation ends, and the same steps owe the same receipts.

## Modules

| Module | What it is |
|---|---|
| `ReceiptRules` | pure rules of the ledger: scope filter, submission verdict, reconcile verdict |
| `ReceiptLedger` | the ledger, submissions and reconcile passes as a state machine; its properties |
| `DurableSubmission` | what a submitter is promised, without the ledger |
| `IntegrationRules` | pure rules of `manage_integrations`: the verdict on a call, the record a call writes |
| `IntegrationRecords` | integration records, consumer links, events and concurrent calls as a state machine; its properties |
| `RecordStore` | what `manage_integrations` makes of the records, without its handlers |
| `RegistryRecords` | records and calls of the three registries, and which calls their schemas accept |
| `ProjectRules`, `EvidenceRules`, `MacroRules` | pure rules of each registry: early returns, the records a call writes |
| `Registries` | the three handlers over the shared store as one state machine; its properties |
| `StoreRecords` | records, scopes and filters common to the stores |
| `Neo4jStore`, `InMemoryGraphStore`, `InMemoryRepository` | writes and lists of each store, as operators on its contents |
| `GraphRepository` | what is worked out from a store's lists: impact, context, macro facts |
| `StoreBackends` | the three stores under the same writers; the operations of several transactions; its properties |
| `AdapterRegistry` | read circuits, health, and the calls that read through them |
| `ToolGuidance` | the tool schemas and the corrected form of a refused call |
| `ServerRuntime` | server processes, lines, outages, shutdown, over `ToolGuidance` |
| `FlightPlanner` | plans and the agents that follow them, over `GraphRepository` |
| `MC...` | small instances for TLC |
| `ReceiptLedgerProofs`, `IntegrationRecordsProofs`, `RegistriesProofs`, `StoreBackendsProofs`, `AdapterRegistryProofs`, `ToolGuidanceProofs`, `ServerRuntimeProofs`, `FlightPlannerProofs` | TLAPS proofs |

### ReceiptRules

The fields of the receipt schemas (`src/shared/schemas/program-manager.ts`)
that the rules tell apart.  A *plan* is the pair of a flight-plan hash and
state hash; `PlanIdOf` gives its flightPlanId, so two plans of one id model the
case that an action was planned again.  `ReceiptVerdict` is the chain of early
returns of `recordProgramReceipt` in the order of the code.  What is abstracted:
the dozen single-field checks on evidence, actor, verifier, digest and
signature are three kinds of flaw, by their place relative to the duplicate
check: `authz` (before any read), `policy` (before the duplicate check) and
`evidence` (after it).  `ReconcileVerdict` and `DueStatus` keep the clock
arithmetic on whole seconds.

### ReceiptLedger

| Variable | In the code |
|---|---|
| `expected` | `PmExpectedReceipt` nodes, MERGEd by `receiptRequirementId` |
| `observed` | `PmObservedReceipt` nodes, CREATEd: one per attempt that wrote one |
| `entries` | `PmActionLedgerEntry` nodes, CREATEd |
| `status` | `PmReceiptReconcileStatus` nodes, MERGEd by requirement |
| `events` | `PmEvent` nodes, MERGEd by event id |
| `attempt[a]` | locals and program counter of one `recordProgramReceipt` call |
| `pass[p]` | locals and program counter of one `reconcileProgramState` call |
| `issued` | history: every obligation ever stored |

Each store call is an action.  A submission goes `reading` (two reads of
`listReceiptLedger`, in either order), decides in `ValidateReceipt`, then
`appending` (receipt), `publishing` (event), `entering` (ledger entry),
`settling` (status), `replying`.  A pass reads the two collections, decides all
statuses in `EvaluateLedger`, and writes them in any order, the audit event
following the status write that carries it.  `StopAttempt` and `StopPass` end a
call at any `await`: the process dies, or a store call fails and the handler
throws.  A retry is another attempt with the same key.

Abstracted: what an adapter reports is an arbitrary set of supported refs (the
adapters are external and a failing one supports nothing); findings and
compensating proposals are derived output; a pass's targets are the requirement
ids that pass both of the code's filters; a receipt is identified with the
attempt that wrote it.

### DurableSubmission

The abstract specification: per submission, record at most once, book only
what is recorded, acknowledge only what is booked, refuse only what is not
recorded, withdraw nothing.  `ReceiptLedger` implements it with
`recorded <- observed`, `booked <- entries` and an outcome read off the phase.

### IntegrationRules

The 32 actions of `manage_integrations` fall into eight kinds by what the
handler does with them: `read` (help, list, get, inbox, catch_up), `create`
(create, upsert), `update` (update, rename), `retire` (retire, delete),
`add_project`, `remove_project`, `decide_blocker` (the three actions that need
blocker authority) and `coordinate` (every other action; supersede carries no
item when the request gives no item type).  `IntegrationVerdict` is the chain
of early returns in the order of the code: unknown integration, action not
allowed in the state, repeated key, stale state hash, blocker authority, read.
`RebuiltIntegration` is the whole record a call writes in place of the one it
read.  What is abstracted: a state hash is the record it is the hash of;
artifact and evidence refs are one set of refs, both being accumulated; a
timestamp is the call that took it; purpose, producer and project roles are
read by no rule.

### IntegrationRecords

| Variable | In the code |
|---|---|
| `records` | `PmIntegrationPoint` nodes, MERGEd by id, every property SET |
| `links` | `CONSUMES_INTEGRATION_POINT` edges, MERGEd |
| `events` | `PmEvent` nodes of integration changes, by correlation id |
| `attempt[a]` | locals and program counter of one `manageIntegrations` call |
| `versions` | history: every record ever stored, by point |

A call goes `reading` (`ListIntegrationPoints`), `deciding`
(`DecideIntegration`, on what it read), `storing` (`UpsertIntegrationPoint`),
`linking` (`LinkConsumer`, a transaction per consumer, then
`PutIntegrationEvent`) and `replying`; `StopAttempt` ends it at any await.  The
state hash a call supplies is that of some version the store held, or none.
The handler's second and third read only fill the answer and are left out, as
is the producer's edge, which is written in the record's own transaction.
`Registered` projects are fixed; an unregistered consumer matches no node and
gets no edge.  The constant `Serial` says whether clients take turns.  A call
that has stopped writes nothing later: a transaction in flight when its process
dies has either committed (the call stopped after it) or not.

### RecordStore

The abstract specification: each call changes a record at most once, in one
step, by the rules; from the record in the store if `Serial`, otherwise from
any record the store ever held.  The second case is the weakest a caller may
rely on and shows what concurrent callers are *not* promised: no change is
safe from a later stale write.  `Decide` and `Rebuild` are constant operators,
so the specification does not depend on the rules' details.

### RegistryRecords, ProjectRules, EvidenceRules, MacroRules, Registries

A record keeps the fields that some rule reads or must keep: status, home and
active programs of a project, artifact, attachments and redaction of evidence,
digest of an artifact, text and switch of a macro; `Pointers` stand for
trackers, repositories, roles and goals.  A body that was not sent has the id
`None`.  `ProjectCallAccepted` and `EvidenceCallAccepted` are what the request
schemas let through, so calls the schema refuses never start.

| Variable | In the code |
|---|---|
| `records` | `PmProgram`, `PmProject`, `PmEvidenceRef`, `PmArtifactRef` nodes and the registry record |
| `events` | `PmEvent` nodes by event id; `manage_projects` uses one id for both its writes, `manage_evidence_items` one per kind |
| `attempt[a]` | locals and program counter of one call: what it read (`seen`), the part it is at, its answer |
| `workload` | which registry's requests a behaviour draws from |

A call goes `reading` (one transaction per kind of record), `deciding`,
`storing` and `logging` for each of up to two parts, `replying`; `StopCall`
ends it anywhere.  An answer that fails its own schema after the write
(`ShownRegistry`) is "guidance" though the write was made; a refused edit of a
registry that cannot be shown is answered so too, without a write
("blocked_unshown").

### StoreRecords, Neo4jStore, InMemoryGraphStore, InMemoryRepository, GraphRepository

A record is its kind, ref, program, project, links and body.  `Neo4jStore`
keeps what the Cypher of each upsert keeps: `PmRef` nodes shared by all kinds
(labels accumulate, properties of one name are overlaid), edges, rows MERGEd by
key, logs CREATEd.  The in-memory stores keep arrays.  `Picked` is the filter
that keeps the order of a log.  Every list of each store
is an operator with its own `WHERE`; `GraphRepository` works on a *view*, the
lists of one scope.  The walk of `assessImpact` is a function from turns of its
loop (`VisitNext`) to what it has queued, visited and walked, read off after as
many turns as there are refs, when its queue is empty (proved).

### StoreBackends

`neo`, `graph` and `memory` are the contents of the three stores.  Ordinary
writes reach all three in one step.  `BeginRelationship`/`EndRelationship` are
the two transactions of a dependency; `LookUpKey`, `LookUpId`, `PutEvent` the
steps of `appendEvent`; `Stop` ends a caller between them.  `written` and
`unsettled` are history: what was written last, and which dependencies, keys and
ids were written by two callers at a time or cut short; each is tagged with what
it is, as an id and a key may be equal strings.

`LatestIsHeld` says what the Neo4j store holds of what was written, record by
record, and `LatestRecordListed` what its lists then show.  `OneKind` excepts
refs that several kinds of record, or a membership's end and another kind,
share: their properties mix.  `ArraysAreHeld` says the same of the arrays, which
both in-memory stores keep alike but for events: of every key, once, the record
last written.  `EventsAreHeld` says that all three hold the events written, and
that a caller of `appendEvent` has found the same in both graph stores, as long
as no appends of one key or id met.  The in-memory repository puts an event
through `appendEvent`'s check, or, for the event of evidence or an artifact,
without it (`MemoryAddEvent`).

The stores differ, and `GraphAgrees` and `MemoryAgrees` say where: Neo4j merges
records of different kinds under one ref, and a membership creates nodes that
later upserts turn into records; an empty list of refs or projects is "all" to
one store and "none" to another, and so is an empty list of statuses
(program-manager-neo4j-store.ts:999 against
program-manager-graph-store.ts:1096), about which `Asked` asks nothing; a
project whose home changes leaves two records in the array store; of two events
of one id Neo4j keeps the last, the in-memory repository the first, the array
store both; the in-memory repository ignores some filters.  Relationships are
only ever written by seeding, and `appendEvent` with a key only by tests.

### AdapterRegistry

| Variable | In the code |
|---|---|
| `circuit[a]` | `failures` and `openUntil` of an adapter, in process memory |
| `call[c]` | one tool call: its `now`, health seen, reads and what they showed |
| `clock` | the server's clock; a call captures it when it starts |
| `streak`, `tripped` | history for the properties |
| `statuses[a]` | the statuses the manifest of an adapter allows; it never changes |

`BeginRead` and `ReadSucceeds`/`ReadFails` are the two sides of the adapter's
promise, so reads of several calls are under way together.  Adapters are
external: any read may fail.  A read that finds the circuit open is "refused":
it is thrown before the block in which failures are counted (`ADP` 929-944).
`Normalized` replaces a status the manifest does not list by "unavailable", or
by "degraded" when that is not listed either; under a manifest of the latter
kind an open circuit does not block, and `SaysStale` says for which manifests a
stale adapter does.

The properties name three exceptions.  A reconciliation uses its caller's
`asOf` as the time (`S` 5754): when that is past the window, it clears the
circuit for all (`LookedPast`).  A late failure of an earlier call replaces a
longer window by a shorter one, and a success closes it.  Reconciliation passes
over a failing adapter in silence (`S` 5785-5789), although the hand-off
document asks for an explicit gap, and a receipt that was confirmed may thereby
turn "conflicting".

### ToolGuidance and ServerRuntime

A request is which paths are given, and for each whether its value is valid, a
slug, text with a blank, empty, out of order or of another type.  `Accepts` is
the schemas, `Corrected` the form `correctionForToolInput` builds, with its
repairs in their order.  A ref's repair takes a known ref or puts a scheme
before what was submitted (`GW` 1203-1231), which makes a ref of a slug and none
of text with a blank: that form is refused again, unless the path is one of
`ProgramRefs` and the program is told otherwise, by the namespace of a given
integration point (`KnownNamespaces`) or as the only one the caller is granted
(`SoleGrant`).  Both are constants; the run has the former, the theorems any.

| Variable | In the code |
|---|---|
| `db` | up or down, uniqueness constraint, identity nodes, whether programs exist, writes made |
| `server[s]` | phase of `bin/server.js` (`verify`, `migrate`, `identify`, `create`, `list`, then `serving`, `degraded`, `closing`, `exited`) and what it knows of the shared PMO |
| `line[q]` | one JSON-RPC line: server, request, phase, answer, how often its agent tried |

`Outage` and `Recovery` come between any two steps.  A result that fails its
own schema is answered like a refused input (`GW` 195-197).  That answer is
"unfit" here, and may come before the write (`ReadStore`) or after it
(`ListStore`) of any tool that writes, the receipt tools and reconciliation
included (`LedgerTools`); an agent cannot tell it from a refusal, and `Follow`
is an agent that sends the form it was answered with, in either case.  What a
handler throws otherwise is answered as an error (`Fail`).  What the model
shows of guidance besides its properties: the form of a refused
`manage_projects` call about a role, a link or a goal carries no field for it
and is refused again (`GW` 609), although
`docs/agent-pmo-onboarding/README.md:84` advises to retry with it; the form for
"help" carries placeholder bodies, and help with a body writes; any refused
`pmo_macro` call is answered with "invoke"; a stray `artifactRefs` turns a read
into `add_artifact`; forms drop idempotency keys and expected state hashes;
knowledge found "warning" or "blocked" at start stays so for the server's life;
two servers of one default identity on different databases both claim to share;
a registry edit that is followed has no patch in its form; shutdown loses
answers under way.

### FlightPlanner

`agent[a]` holds a `plan_program_action` call of an agent (the request, the two
reads that end in any order), the plan it was answered, and the actions it has
followed; `graph` is the program graph others change meanwhile; `seeded` the
assessment an in-memory repository is seeded with, or `Unset` for a graph
store.  An edge is an adapter, a target and a type, numbered as
`comparePlanActionCandidates` sorts them.  An agent that executes a proposed
action plans what this brings about (`Spread`) and hands back the depth or the
path of the plan's causation, or both: the planner is stateless and cannot stop
an agent that hands back neither.

An idempotency key digests the whole action with its caller's rationale and the
whole proposed change with its summary (`S` 4898-4903, 4948-4954).
`RequirementId` keeps both, as one of a few `Words`: two agents that put one
change differently, or give other reasons for one action, owe different
receipts, so `StepsAreIdempotent` speaks of agents that use the same words.

Left out: manifests, cursors, rule versions and expiry.  With them go two facts
the reader should know: the expiry time enters `flightPlanHash` and comes from
the clock when the context has no `asOf`, so the same request then has another
hash later; the state hash covers the impact but not the relationships.

## Runs

| Run | Shows | Bounds |
|---|---|---|
| `receipt_submissions` | two concurrent submissions of every kind keep `ReceiptWasOwed`, `DuplicateOnlyUnseen`, `BlockedLeavesNoTrace`, `AcknowledgedIsDurable` and implement `DurableSubmission`, wherever they are cut short | 2 attempts, 9 requests over 2 keys, 2 plans of one id, scopes of 0, 1 and 2 projects |
| `receipt_reconcile` | with a reconcile caller beside them, `StatusIsBacked` and the inductive invariant `LedgerInv` hold | 2 attempts, 1 caller, 3 pass requests with early and late clocks |
| `receipt_convergence` | with two racing callers every fulfilled obligation ends up reported so | 1 attempt, 2 callers |
| `receipt_race` | violation: two concurrent submissions of one request are both accepted | 2 attempts |
| `receipt_replan` | violation: a replaced plan's receipt satisfies its successor's obligation | 1 in flight, 1 caller |
| `integration_concurrent` | calls that interleave at every await keep `KeyShowsEffect`, `RepeatsApplyOnce`, `RefusedLeavesNoTrace` and the inductive invariant `IntegrationInv`, and implement `RecordStore`; whoever read the current record does not revive a retired one | 3 calls out of 9 requests, every kind but `add_project` and a wrong actor among them |
| `registries` | evidence has its artifact, events name stored records, an answer means that its writes are logged, retirement lasts, a call changes only what it names | 3 calls, 2 at a time, out of 11, 9 or 7 requests of one registry |
| `store_backends` | the stores agree, list what was last written, keep one event per key; impact is reachability and wider targets show more | 2 writers, 3 writes out of 30 records of every kind, 7 queries |
| `adapter_circuit` | the circuit trips by its limit, holds for its window and is prolonged by no refused call; answers name their gaps and hold nothing stale | 3 calls, 1 adapter with 2 observations and one of 2 manifests, limit 2, window 2, clock to 3, reconciliations as of 0, 3 or now |
| `server_runtime` | servers agree on an identity, settle whatever outages come, answer every line truthfully; guidance is accepted where the property says, and does not make a write of a read | 2 servers in 4 environments with an outage; and one line per slip in the actions of four tools (two actions on items, which schemas and forms treat alike), and calls of the others |
| `flight_planner` | propagation ends and is not proposed twice; the same steps owe the same receipts | 2 agents, 4 edges, 3 targets of which two lead to each other, depth 1 or 2, 2 wordings |
| `plan_approvals` | violation: over a store no plan is blocked, whatever approval its targets depend on | the same |

Why the bounds suffice.  In the ledger one requirement is enough because
requirements do not interact: every read and every write is by requirement id,
except for the event id, which the key alone decides.  Two attempts are needed
for every race, and the third party of a race (the planner, a pass) is always
there.  Two plans of one id is the smallest replanning; scopes of none, one and
two projects are the three cases of `ReceiptProject`.  Times 0 to 3 with
`lostAfter = 2` reach all of in flight, late, stuck and lost.

One integration point is enough because every rule and every write of a call is
about its own point; only event ids are shared, and the correlation ids of the
requests overlap.  Three calls are one to create the integration and two to
race, or a call, its retry and a third party.  Two projects, one of them
registered, two refs and two item ids are the least that tell a kept value from
a replaced one.  `Serial` is FALSE in the run, which has every behaviour of
taking turns among its own; TRUE is for the theorem.

The three registries share no record and no event id, so each behaviour draws
from one of them; two programs, one project, an artifact and evidence of it,
and two macros are the least that tell a kept part from a replaced one.  Three
calls of which two overlap make a record, and a race on it.

A store difference shows after one or two writes of one ref, and the third is
for an event, a cut or a reader; the seven queries vary scope, time and targets,
and the four dependencies make a cycle, a branch and an edge that moves and is
out of its time.  Two callers at most can be inside a two-transaction write, as
a third would add only a repetition of the second.

Two failures open the circuit; three calls are those and a third that finds it
open, or was under way.  A window of 2 lasts longer than some calls and ends
within the clock for others; a reconciliation as of 3 is past every window of a
call that starts by 1, one as of 0 is late.  One manifest has no "stale", the
other no status for an open circuit.  In the server run one line carries every
request that differs from a meant one in one path: a form depends on the paths
given, each by itself but for the few the schemas relate.  Two servers are a
race; one outage at a time between all steps reaches every error path of the
start.

Two agents and three actions are the least that come to one change by two
orders, and two wordings the least that differ.  `MaxFollowed` is the longest
propagation that ends (the three actions that bring about a change), so it cuts
off only one that does not, which the liveness property then reports.

Bounds in guards: `MaxInFlight` (`ReceiptLedger`, `Registries`), `Serial`
(`IntegrationRecords`), `MaxWrites` (`StoreBackends`), `LastStart` and
`LastTime` (`AdapterRegistry`), `MaxOutages` (`ServerRuntime`), `MaxFollowed`
(`FlightPlanner`).  The proofs have none of these bounds.  Attempts and writers
are interchangeable and are symmetry sets where no liveness is checked.

Deadlock is checked in the receipt runs: planners may always persist an
obligation.  It is not in the others, where the system stops when all calls
are answered or stopped, all lines sent, the clock at its end.

**Fairness.**

* `ReceiptLedger`: weak fairness of the steps of a started submission and of a
  started pass: the event loop runs every continuation and the store answers
  every call, or the call is stopped, which is an action too.  Nothing forces a
  client to call or a call not to be stopped, so `StatusesConverge` states its
  assumption about the environment (`ReconciliationGoesOn`): somebody keeps
  asking for full reconciliation, and passes eventually stop being cut short.
  A pass in a narrower scope does not see a receipt without a project and
  writes the status back each time, which is why the passes must be full.
* `ServerRuntime`: every await of a server's start and of a call ends, with an
  error if the database is down.  Nothing is assumed of agents, signals or
  the database.
* `FlightPlanner`: the planner's two reads end, and an agent goes on while
  anything is proposed.  The latter is not what agents must do but the worst
  they can: an agent that stops ends the propagation by itself.

## What is proved

`ReceiptLedgerProofs` proves, for any sets of attempts, callers, requests,
obligations and plans:

* `TypeCorrect`, `LedgerCorrect`: the type invariant and the inductive
  invariant `LedgerInv`;
* `StatusesBacked`, `ReceiptsOwed`, `DuplicatesUnseen`, `RefusalsLeaveNoTrace`,
  `AcknowledgementsDurable`: the five safety properties the runs check;
* `SubmissionsDurable`: `Spec` implements `DurableSubmission`.

Assumptions: `PlanAssumption` (every plan has an id), `ProjectAssumption`
(`NoProject` is not a project), `InputAssumption` (requests and obligations are
well-formed and there is a request of each kind, so that an idle record has a
value) and `IdentityAssumption` (event ids of submissions and of passes differ,
as their prefixes in the code do).

The argument.  None of the properties is inductive.  A status may be written
long after its pass decided it, so `StatusIsBacked` needs
`PendingStatusIsBacked` (statuses on their way are backed too), which needs
`SnapshotsArePast` (what was read is still there: receipts are never removed).
`ReceiptWasOwed` needs `ValidatedStaysOwed`: a submission past validation keeps
the facts it validated, because `issued` only grows while `expected` changes
under it.  `AcknowledgedIsDurable` needs `WritesFollowPhase`, which says how
far the writes have come in each phase, and `LedgerWritesInOrder`.  The
conjunction `LedgerInv` is inductive; the proof has one lemma per action group
and, under each, one step per conjunct the action can disturb.  The refinement
proof maps each action to the abstract step it takes (`AppendObservedReceipt`
to `Record`, `AppendActionLedgerEntry` to `Book`, `AcceptReceipt` to
`Acknowledge`, refusing to `Refuse`, stopping to `LoseContact`, all others to
stuttering) from the same invariant.

`IntegrationRecordsProofs` proves, for any sets of calls, points, projects,
refs, items and keys, and both values of `Serial`:

* `RecordsTypeCorrect`, `RecordsCorrect`: the type invariant and the inductive
  invariant `IntegrationInv`;
* `KeysShowEffects`, `RepeatsAppliedOnce`, `RefusalsLeaveNoTrace`,
  `AcceptedAreComplete`: three safety properties of the run, and that an
  accepted call was stored, linked and logged;
* `RetirementStands`: the action property of the run, from lemma
  `RewriterDecided`: whoever rewrites a record decided to, on what it read;
* `RecordStoreImplemented`: `Spec` implements `RecordStore`.

Assumptions: `RecordAssumption`, `ItemAssumption`, `AbsentAssumption` (the
values that stand for nothing are distinct from the real ones) and
`CallAssumption` (requests are well-formed and there is one).

The argument.  Records are only ever replaced by `RebuiltIntegration` of a
record that was once stored (`SnapshotsArePast`), and lemma `RebuiltFields`
says what that keeps: refs, item ids, history and keys grow.  Whoever
contributed to a record left its key in that record (`WritersAreKnown`), so a
call that passed the duplicate check on the record it read has no part in that
record, and neither has a call with the same key: hence `RepeatsApplyOnce`
although the check is made on a stale read, and hence a call writes once
(`FirstWrite`).  `KeyShowsEffect` is inductive with it, since keys and effects
are carried over together.  `WritesFollowPhase` and `TurnsAreTaken` give
`AcceptedIsComplete` and the serial case of the refinement.  Steps that write
nothing share lemma `LocalStep`; the three that write have a lemma each, with
one step per conjunct.  In the refinement the upsert is `Change` and all other
actions stutter.

`AdapterRegistryProofs` proves, for any adapters, tools, number of calls,
limit, window and clock:

* `CircuitsAreOpenedForAReason`: the inductive invariant `CircuitInv`;
* `StaleAdaptersNeverAnswer`, `GapsAreNamed`: `StaleNeverAnswers` and
  `AnswerNamesItsGaps`, which follow from it;
* `RefusalsNeverProlong`: `RefusalsProlongNothing`, inductive with it;
* `WindowsAreSuppressed`: the action property `SuppressedUntilWindow`, whatever
  times callers state.

Assumption: `RegistryAssumption` (limit and window are positive, the times are
natural numbers, a manifest allows some of the statuses there are).

The argument.  `TrippedByLimit` is not inductive: a circuit may be cleared and
counted by different calls.  `FailuresAreCounted` bounds its count by the
failures that happened since the last success, and says an open circuit has
counted enough.  `FollowsHealth` relates, for one call and one adapter, the
health it was told, what became of its read and what the read showed; a step of
one call preserves it for that call alone (`OneCallChanges`), whatever the
other calls did to the circuit since.  `WindowStands` says that only a
reconciliation has a time that is not past, and that a window that is not over
is still in the circuit unless such a call has looked past it: a call that
started early cannot clear it.  `GetHealth` and `BeginRead` share lemma
`LookingKeepsCircuits`.  A window is kept, given up, or that of a read that
fails (`WindowsComeOfFailures`), and a failed read stays one (`FailuresStand`).

`RegistriesProofs` proves, for any refs, any calls the schemas accept and any
number of them in flight:

* `RegistriesInvariant`: the inductive invariant `RegistriesInv`;
* `EventsNameRecordsAlways`, `AnsweredIsLoggedAlways`: `EventsNameRecords` and
  `AnsweredIsLogged`, which follow from it;
* `RetirementLastsAlways`, `OnlyNamedPartsChangeAlways`: the two action
  properties.

Assumptions: `RefsAreDistinct`, `NoneIsNoRecord` (the value for nothing is no
record) and `WorkloadAssumption` (calls are those the schemas accept).

The argument.  What a call writes are records of their kinds (`PartsType`, by
handler).  `WritesFollowPhase` says what a call has written in each phase;
`EventsFollowWrites` and `WritesAreLogged` tie events to writes both ways,
although two calls may share a correlation id and so an event id
(`EventsOfOneId`).  `EvidenceBacked` needs `EvidenceIsLast`: the artifact is
written in the part before its evidence.  For the action properties
`WhatIsWritten` says, rule by rule, which parts of the record a call read it
keeps.

`StoreBackendsProofs` proves, for any number of callers and any records of the
kinds:

* `BackendsInvariant`: `StoresInv`;
* `EventOncePerKeyAlways`, `LatestRecordListedAlways`: `EventOncePerKey` and
  `LatestRecordListed`;
* `StoresAgreeAlways`: `StoresAgree`, that the graph repository answers every
  question alike over either store, and the in-memory repository like them;
* `WideningLosesNothingAlways`: `WideningLosesNothing`, from lemma
  `ContextsWiden` about `GetProgramContext` over any view;
* `ImpactIsReachabilityAlways`: `ImpactIsReachability`, from lemma
  `WalkReaches` about `assessImpact` over any view.

Assumption: `BackendsAssumption` (records have the shape their kind has in the
code, so that the store keeps all they say: an integration point or contract
has no program of its own, a membership no id but its ends; refs of nodes and
ends of dependencies are refs, these are finitely many, and none is the absent
value; a question has the fields its type has, and names refs of projects).

The argument.  That a dependency is listed once is not inductive, as its edge is
deleted in one transaction and merged in the next, with other callers between
them.  `FoundStillHolds` says what a caller in between relies on (no edge of its
dependency, no event of its key), unless another is at the same;
`OverlapsAreUnsettled` says that such overlaps are known.  The invariant is
their conjunction with `DependencyListedOnce` and `EventOncePerKey`; each
action has a lemma with a step per conjunct.  `LatestIsHeld` is inductive with
`TypeOK`: records of one kind set the same properties (`PropsReplaced`), so an
upsert leaves none of the record before; a log's items of a kind grow as the log
does (`OfKindGrows`).  `Rebuilt` then reads every field back from the
properties of a node.

`StoresAgree` needs to know of all three what they hold.  `ArraysAreHeld` is
inductive with `TypeOK`: an upsert replaces the record of its key, which is the
only one, or adds it (`UpsertEntityIs`), and so does the history of what was
last written under a key (`LatestOfKeyGrows`).  `EventsAreHeld` needs
`FoundStillHolds`: what a caller has not found is still not there when it puts
its event into the stores, unless its append met another.  Neither says that
records with one ref have one key, or that a node is that of one record: that is
what `Regular` adds (`KeysAreRefs`, `NodesAre`).  Then every list of every store
is the same filter over `Latest` of its kind: on the side of Neo4j by reading
the filtered properties back from the node (`FilteredListing` and a lemma per
list), on the side of the arrays because the modules share their filters
(`FiltersAreOne`).  Lists that look at a project's home read it from the
project's node or from the array of projects; `HomesAgree` says these are one.
Logs are equal as sequences (`LogsAgree`), as picking by kind and then by scope
is picking by both (`ThoseOfThose`).

The walk exists for every number of turns (`WalkTurns`)
and keeps `WalkInv`: a ref visited is still queued or has all its edges walked,
what is visited is reached, and, while the queue is not empty, as many refs are
visited as turns were made and refs are queued.  So the queue is empty after as
many turns as there are refs, and what the edges then lead to is closed under
the edges: it is what is reached.

`ToolGuidanceProofs` proves `FormsAreAccepted`: the form for a request is
accepted, but for a value no repair reaches (an empty string, text with a blank
where a ref belongs), an action about a field no form has, a registry edit, or a
legacy tool, whoever is granted what.  The repairs make every value they reach
valid (`RepairsAreValid`), a form keeps known paths with such values
(`KeepIsSound`), and has what its tool asks of the action: one lemma per tool.

`ServerRuntimeProofs` proves, for any servers, lines, messages, configurations
and number of outages:

* `ServersInvariant`: the inductive invariant `ServersInv`;
* `AnswersAreTrueAlways`: `AnswersAreTrue`;
* `FollowedGuidanceAcceptedAlways`, `GuidedReadsStayReadsAlways`: the two
  properties of agents that follow guidance, which hold of every form, by
  `FormsAreAccepted` and `FormsOfReads`.

Assumptions: `GuidanceAssumption` (the two constants are Booleans),
`RuntimeAssumption` (configurations and messages are well-formed).

`AnswersAreTrue` says nothing of an error, or of an "unfit" answer: the code may
have written before either.

The argument.  `OneIdentity` depends on the uniqueness constraint a server has
verified or created before it looks; `StartupFollowsPhase` says what a server
knows in each phase, and `CallsFollowPhase` which writes a line has made.  A
step is of the database, of one server or of one line (`Steps`), and what the
other two say is untouched.

`FlightPlannerProofs` proves, for any graph, edges, spread of changes and number
of agents:

* `PlannerInvariant`: `PlannerInv`, of which `PropagationIsLoopSafe` is the
  point: an agent that hands back its path takes no action twice, and one that
  hands back its depth takes no more than its maximum;
* `StepsAreIdempotentAlways`: `StepsAreIdempotent`.

Assumption: `PlannerAssumption` (edges are numbers, requests start at depth 0
with an empty path, an agent hands back the path, the depth or both).

The argument.  What an agent asks with is what it has followed, whatever others
did to the graph while its call was reading (`CausationIsCarried`), and a plan
owes no receipt for an action on its path; that path comes back sorted.  The
sorted path is defined by counting, so the lemmas are about counts: each place
of it has exactly one action (`OnePlace`), sorting keeps how often each action
is there (`SortedKeepsCounts`), and paths with equal counts sort alike
(`SameCounts`, `SameSorted`).

Type correctness and `AcceptedIsComplete` are conjuncts of invariants proved
here and are checked with them.

The prover has no induction over a predicate.  Where one is needed (paths,
turns of a walk, places in a log) the predicate is a set of naturals, and
`LeastNatural` and `InductiveSet` are proved from well-foundedness.

Only model-checked: all liveness (`StatusesConverge`, `EveryServerSettles`,
`EveryLineAnswered`, `EveryPropagationEnds`), which is beyond the prover.

## Disagreements met

`PROJECT.json` lists each with the document's line.

* Two concurrent submissions of one request are both accepted
  (`receipt_race`).
* A stale plan's receipt satisfies the obligation of the plan that replaced it
  (`receipt_replan`).
* Over a store no plan is blocked by an approval: the planner asks for the
  impact of a ref made of the digest of the change, from which no dependency
  departs (`plan_approvals`).  The tests use a repository seeded with the
  assessment.

Behaviour a user of the model should know, allowed by the properties as stated:
a request of a two-project scope, sent twice in sequence, is accepted twice,
because a receipt without a project is filtered out of the second read; a retry
after a cut-short submission is "duplicate", though its ledger entry is never
written; concurrent `manage_integrations` calls undo each other's changes (a
stale coordination call makes a retired integration active, as `UpToDate` in
`RetiredStaysRetired` admits, and a state hash does not guard the write it was
sent with: of two calls with one hash both pass); a stopped call leaves a
change without an event, which no retry supplies.  Of the registries:
`remove_project` leaves the removed program as the project's home, so that a
later write without a program rejoins it; `retire` of projects named only in
the scope answers "ok" and does nothing, and with a program and projects
retires both; of two calls with one correlation id the later event replaces the
other's, so that a write is named by no event; a macro text that the result
schema refuses is stored, and every later list is answered as a refused input;
whether a macro is enabled, and the roles it names, are consulted by no
invocation; of two overlapping edits one is lost.

## What is not modelled

* A Neo4j write is executed once.  `executeWrite` may run a CREATE again when
  the acknowledgement of a commit is lost.
* Character-level work: redaction, slugs, sorting, canonical JSON, documents.
  A digest is an atom equal exactly when its input is.
* Authorisation: each call is allowed or not.  The grant rules are one pure
  function without state, and its tests enumerate it.
* Workflow macros, including drift detection with its row limits: fixed
  narratives over lists whose stores are modelled; invoking one writes
  nothing.
* The context packet, documentation, capabilities, intelligence, updates and
  the audit trail query: they filter and format what the lists return.
* Blocker authority beyond the handler's own check: `update_blocker` and the
  generic item actions may set the status of a blocker without it.
* Migrations beyond the constraint the identity relies on, seeds, fixtures,
  scripts.

## Plan

1. `ReceiptRules`, `ReceiptLedger`, `DurableSubmission` and their proofs: done.
2. `IntegrationRules`, `IntegrationRecords`, `RecordStore` and their proofs:
   done.
3. Stores, events, impact: `StoreBackends`, its parts and their proofs: done.
4. `Registries` and its proofs: done.
5. `AdapterRegistry` and its safety proofs: done.
6. `ToolGuidance`, `ServerRuntime` and their proofs: done.
7. `FlightPlanner` and its proofs: done; open: the planner composed with the
   ledger, so that obligations of a propagation are fulfilled and reconciled.
8. Authorisation rules as operators against a reference definition, the
   context packet, drift detection with its row limits: open.

Violation runs that share a cause (a check on an earlier read; writes in
several transactions) give way to the one that shows it best as the project
grows; what the others showed is kept in the section on disagreements.
