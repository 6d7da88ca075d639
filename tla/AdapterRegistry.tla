--------------------------- MODULE AdapterRegistry ---------------------------
(***************************************************************************)
(* The adapter registry of one server process and the tool calls that read *)
(* program state through it.                                               *)
(*                                                                         *)
(* Every adapter has a read circuit in memory, shared by all calls: enough *)
(* failures in a row open it for a while, a read that succeeds resets it.  *)
(* A call captures its time when it starts and hands it to every later use *)
(* of the circuit; calls interleave at every await.  An adapter's health   *)
(* follows from the age of its source cursor, which was observed at time   *)
(* zero, and from its circuit.  An adapter holds Matches observations of a *)
(* call's targets.  What it observed, the call's use of the store, and     *)
(* calls that are not authorised, which touch no adapter, are left out; of *)
(* a health result only the status is kept.                                *)
(***************************************************************************)
EXTENDS Naturals

CONSTANTS
    Adapters,       \* the registered adapters
    CallCount,      \* tool calls, numbered in the order they start
    Tools,          \* the tools called
    AsOfs,          \* the times a reconcile caller states instead of its own
    Manifests,      \* what the manifests of the adapters may allow as statuses
    Limit,          \* circuitOpenAfterFailures
    Window,         \* circuitOpenSeconds
    MaxStale,       \* maxStaleCursorSeconds
    DegradedFloor,  \* the 60 seconds below which age does not degrade
    Matches,        \* observations an adapter has of a call's targets
    CallLimit,      \* request.limit, or the default 10
    LastStart,      \* bound: no call starts later
    LastTime        \* bound: the clock stops here

Calls == 1 .. CallCount

AllTools == {"query_program_context", "assess_program_impact",
             "list_program_capabilities", "reconcile_program_state"}
HealthStatus == {"healthy", "degraded", "stale", "unavailable", "circuit_open"}
Blocking == {"stale", "unavailable", "circuit_open"}

ASSUME RegistryAssumption ==
    /\ Tools \subseteq AllTools
    /\ Limit \in Nat \ {0} /\ Window \in Nat \ {0} /\ MaxStale \in Nat
    /\ DegradedFloor \in Nat /\ Matches \in Nat /\ CallLimit \in Nat
    /\ CallCount \in Nat /\ LastStart \in Nat /\ LastTime \in Nat /\ AsOfs \subseteq Nat
    /\ Manifests \subseteq [Adapters -> SUBSET HealthStatus]

VARIABLES
    statuses,   \* the statuses each adapter's manifest allows
    clock,      \* the server's time
    circuit,    \* the read circuit of every adapter
    call,       \* control state and local variables of every call
    streak,     \* history: failed reads since the last success, by adapter
    tripped     \* history: the end of the window the last failure opened

vars == <<statuses, clock, circuit, call, streak, tripped>>

ContextTools == {"query_program_context", "assess_program_impact"}
Read == {"none", "reading", "read", "failed", "refused", "skipped"}

-----------------------------------------------------------------------------
(* The circuit; openUntil is 0 when it is null.                            *)

Closed == [failures |-> 0, openUntil |-> 0]

IsOpen(k, now) == k.openUntil > now

(* Mutant: the window counts as over one second early.                     *)
ClearEarly(k, now) ==
    IF k.openUntil # 0 /\ k.openUntil <= now + 1 THEN Closed ELSE k

ClearStaleCircuitState(k, now) ==
    IF k.openUntil # 0 /\ ~IsOpen(k, now) THEN Closed ELSE k

RegisterReadFailure(k, now) ==
    [failures |-> k.failures + 1,
     openUntil |-> IF k.failures + 1 >= Limit THEN now + Window ELSE k.openUntil]

OwnStatus(now) ==
    LET half == MaxStale \div 2
        degradedAge == IF half > DegradedFloor THEN half ELSE DegradedFloor IN
    IF now > MaxStale THEN "stale"
    ELSE IF now > degradedAge THEN "degraded" ELSE "healthy"

(* Mutant: an unlisted status becomes degraded.                            *)
NormalizedToDegraded(a, status) ==
    IF status \in statuses[a] THEN status ELSE "degraded"

Normalized(a, status) ==
    IF status \in statuses[a] THEN status
    ELSE IF "unavailable" \in statuses[a] THEN "unavailable" ELSE "degraded"

(* k has been cleared of an expired window.                                *)
DeriveHealth(a, k, now) ==
    IF IsOpen(k, now) THEN Normalized(a, "circuit_open")
    ELSE IF k.failures \in 1 .. Limit - 1 /\ OwnStatus(now) = "healthy" THEN "degraded"
    ELSE Normalized(a, OwnStatus(now))

-----------------------------------------------------------------------------
CallState ==
    [phase : {"idle", "running", "answered"}, tool : Tools \cup {"none"}, now : Nat,
     health : [Adapters -> HealthStatus \cup {"unknown"}],
     read : [Adapters -> Read], shown : [Adapters -> 0 .. Matches]]

TypeOK ==
    /\ statuses \in Manifests
    /\ clock \in Nat
    /\ circuit \in [Adapters -> [failures : Nat, openUntil : Nat]]
    /\ call \in [Calls -> CallState]
    /\ streak \in [Adapters -> Nat]
    /\ tripped \in [Adapters -> Nat]

Init ==
    /\ statuses \in Manifests
    /\ clock = 0
    /\ circuit = [a \in Adapters |-> Closed]
    /\ call = [c \in Calls |->
                  [phase |-> "idle", tool |-> "none", now |-> 0,
                   health |-> [a \in Adapters |-> "unknown"],
                   read |-> [a \in Adapters |-> "none"],
                   shown |-> [a \in Adapters |-> 0]]]
    /\ streak = [a \in Adapters |-> 0]
    /\ tripped = [a \in Adapters |-> 0]

Tick ==
    /\ clock < LastTime
    /\ clock' = clock + 1
    /\ UNCHANGED <<statuses, circuit, call, streak, tripped>>

(* A call captures the server's time; reconcile the caller's asOf instead, *)
(* when there is one.                                                      *)
StartCall(c, tool, now) ==
    /\ call[c].phase = "idle" /\ clock <= LastStart
    /\ \A d \in 1 .. c - 1 : call[d].phase # "idle"
    /\ now = clock \/ (tool = "reconcile_program_state" /\ now \in AsOfs)
    /\ call' = [call EXCEPT ![c].phase = "running", ![c].tool = tool, ![c].now = now]
    /\ UNCHANGED <<statuses, clock, circuit, streak, tripped>>

GetHealth(c, a) ==
    LET now == call[c].now
        k == ClearStaleCircuitState(circuit[a], now) IN
    /\ call[c].phase = "running" /\ call[c].health[a] = "unknown"
    /\ circuit' = [circuit EXCEPT ![a] = k]
    /\ call' = [call EXCEPT ![c].health[a] = DeriveHealth(a, k, now)]
    /\ UNCHANGED <<statuses, clock, streak, tripped>>

(* query and assess read once they know the health of every adapter, and   *)
(* only an adapter whose health does not block; reconcile reads at once;   *)
(* list_program_capabilities does not read.                                *)
MayRead(c, a) ==
    /\ call[c].phase = "running" /\ call[c].read[a] = "none"
    /\ \/ call[c].tool = "reconcile_program_state"
       \/ /\ call[c].tool \in ContextTools
          /\ \A b \in Adapters : call[c].health[b] # "unknown"

SkipRead(c, a) ==
    /\ MayRead(c, a)
    /\ call[c].tool \in ContextTools /\ call[c].health[a] \in Blocking
    /\ call' = [call EXCEPT ![c].read[a] = "skipped"]
    /\ UNCHANGED <<statuses, clock, circuit, streak, tripped>>

(* Mutant: the refusal is thrown where failures are caught and counted.    *)
BeginReadCounted(c, a) ==
    LET now == call[c].now
        k == ClearStaleCircuitState(circuit[a], now) IN
    /\ MayRead(c, a)
    /\ call[c].tool \in ContextTools => call[c].health[a] \notin Blocking
    /\ circuit' = [circuit EXCEPT ![a] = IF IsOpen(k, now) THEN RegisterReadFailure(k, now) ELSE k]
    /\ call' = [call EXCEPT ![c].read[a] = IF IsOpen(k, now) THEN "refused" ELSE "reading"]
    /\ UNCHANGED <<statuses, clock, streak, tripped>>

(* Past the circuit, or refused by it.                                     *)
BeginRead(c, a) ==
    LET now == call[c].now
        k == ClearStaleCircuitState(circuit[a], now) IN
    /\ MayRead(c, a)
    /\ call[c].tool \in ContextTools => call[c].health[a] \notin Blocking
    /\ circuit' = [circuit EXCEPT ![a] = k]
    /\ call' = [call EXCEPT ![c].read[a] = IF IsOpen(k, now) THEN "refused" ELSE "reading"]
    /\ UNCHANGED <<statuses, clock, streak, tripped>>

(* readState is given limit 1 when degraded; the answer of assessImpact is *)
(* cut to one; reconcile asks for all its targets.                         *)
ShownOf(q, a) ==
    LET limit == IF q.tool = "reconcile_program_state" THEN Matches
                 ELSE IF q.health[a] = "degraded" THEN 1
                 ELSE IF q.tool = "query_program_context" THEN CallLimit ELSE Matches IN
    IF limit < Matches THEN limit ELSE Matches

(* Mutant: a success does not reset the circuit.                           *)
ReadSucceedsUnnoted(c, a) ==
    /\ call[c].read[a] = "reading"
    /\ call' = [call EXCEPT ![c].read[a] = "read",
                            ![c].shown[a] = ShownOf(call[c], a)]
    /\ streak' = [streak EXCEPT ![a] = 0]
    /\ tripped' = [tripped EXCEPT ![a] = 0]
    /\ UNCHANGED <<statuses, clock, circuit>>

ReadSucceeds(c, a) ==
    /\ call[c].read[a] = "reading"
    /\ circuit' = [circuit EXCEPT ![a] = Closed]
    /\ call' = [call EXCEPT ![c].read[a] = "read",
                            ![c].shown[a] = ShownOf(call[c], a)]
    /\ streak' = [streak EXCEPT ![a] = 0]
    /\ tripped' = [tripped EXCEPT ![a] = 0]
    /\ UNCHANGED <<statuses, clock>>

ReadFails(c, a) ==
    LET k == RegisterReadFailure(circuit[a], call[c].now) IN
    /\ call[c].read[a] = "reading"
    /\ circuit' = [circuit EXCEPT ![a] = k]
    /\ call' = [call EXCEPT ![c].read[a] = "failed"]
    /\ streak' = [streak EXCEPT ![a] = @ + 1]
    /\ tripped' = [tripped EXCEPT ![a] = k.openUntil]
    /\ UNCHANGED <<statuses, clock>>

Settled(q) ==
    \A a \in Adapters :
        /\ q.health[a] # "unknown"
        /\ q.tool # "list_program_capabilities" => q.read[a] \notin {"none", "reading"}

Answer(c) ==
    /\ call[c].phase = "running" /\ Settled(call[c])
    /\ call' = [call EXCEPT ![c].phase = "answered"]
    /\ UNCHANGED <<statuses, clock, circuit, streak, tripped>>

(* Mutant: a read that throws is dropped, as reconcile does.               *)
WarnedOfHealthOnly(q) ==
    {a \in Adapters :
        \/ q.health[a] # "healthy"
        \/ (q.tool = "query_program_context" /\ q.read[a] = "read" /\ q.shown[a] < Matches)}

(* The adapters the warnings of an answer name: those not healthy, those   *)
(* whose read returned a bounded window, and those whose read threw, be it *)
(* that the circuit refused it; the last reconcile passes over in silence. *)
Warned(q) ==
    {a \in Adapters :
        \/ q.health[a] # "healthy"
        \/ (q.tool = "query_program_context" /\ q.read[a] = "read" /\ q.shown[a] < Matches)
        \/ (q.tool \in ContextTools /\ q.read[a] \in {"failed", "refused"})}

-----------------------------------------------------------------------------
Next ==
    \/ Tick
    \/ \E c \in Calls :
          \/ \E tool \in Tools, now \in {clock} \cup AsOfs : StartCall(c, tool, now)
          \/ \E a \in Adapters :
                \/ GetHealth(c, a) \/ SkipRead(c, a) \/ BeginRead(c, a)
                \/ ReadSucceeds(c, a) \/ ReadFails(c, a)
          \/ Answer(c)

Spec == Init /\ [][Next]_vars

-----------------------------------------------------------------------------
(* Only as many failures in a row as the manifest says open a circuit: a   *)
(* read that succeeds in between, in whichever call, starts the count      *)
(* afresh (#registerReadFailure, #resetReadState).                         *)
TrippedByLimit ==
    \A a \in Adapters : tripped[a] # 0 => streak[a] >= Limit

(* A circuit counts no failure that did not happen, and is open only once  *)
(* it has counted enough.                                                  *)
FailuresAreCounted ==
    \A a \in Adapters :
        /\ circuit[a].failures <= streak[a]
        /\ circuit[a].openUntil # 0 => circuit[a].failures >= Limit

(* A manifest that has a blocking status for an adapter that is stale, be  *)
(* its circuit open or not.                                                *)
SaysStale(a) == "unavailable" \in statuses[a] \/ {"stale", "circuit_open"} \subseteq statuses[a]

(* query and assess read what their health allows, and no more than that,  *)
(* and a call that comes too late for such an adapter finds it blocking.   *)
FollowsHealth(q, a) ==
    /\ q.phase = "idle" => q.health[a] = "unknown" /\ q.read[a] = "none"
    /\ q.read[a] # "read" => q.shown[a] = 0
    /\ q.health[a] # "unknown" /\ q.now > MaxStale /\ SaysStale(a) => q.health[a] \in Blocking
    /\ q.tool \in ContextTools =>
          /\ q.read[a] \in {"reading", "read", "failed", "refused"} =>
                q.health[a] \notin Blocking \cup {"unknown"}
          /\ q.read[a] = "skipped" => q.health[a] \in Blocking
          /\ q.read[a] = "read" => q.shown[a] = ShownOf(q, a)
          /\ q.phase = "answered" => q.read[a] \notin {"none", "reading"}

ReadsFollowHealth ==
    \A c \in Calls, a \in Adapters : FollowsHealth(call[c], a)

(* Call d states a time of its own, by which the window is over, and has   *)
(* looked at the circuit.                                                  *)
LookedPast(d, a) ==
    /\ call[d].tool = "reconcile_program_state" /\ call[d].now >= tripped[a]
    /\ call[d].health[a] # "unknown" \/ call[d].read[a] # "none"

(* A window that is not over is still that of its circuit, unless a caller *)
(* looked past it.                                                         *)
WindowStands ==
    /\ \A c \in Calls : call[c].now > clock => call[c].tool = "reconcile_program_state"
    /\ \A a \in Adapters : tripped[a] > clock =>
          circuit[a].openUntil = tripped[a] \/ \E d \in Calls : LookedPast(d, a)

(* The state of every circuit and call is one of its kind, and every open  *)
(* circuit was opened for a reason.                                        *)
CircuitInv ==
    /\ TypeOK /\ TrippedByLimit /\ FailuresAreCounted /\ ReadsFollowHealth
    /\ WindowStands

(* Once opened, and until a read that was under way succeeds or fails with *)
(* an earlier time, a circuit lets no read start before its window is over,*)
(* whichever calls look at it in the meantime and with whatever time they  *)
(* started, unless one of them is a reconciliation whose caller states a   *)
(* time past the window: it clears the circuit for all                     *)
(* (#withReadProtectedAdapter, #clearStaleCircuitState).                   *)
SuppressedUntilWindow ==
    [][\A c \in Calls, a \in Adapters :
          call[c].read[a] # "reading" /\ call'[c].read[a] = "reading"
              => clock >= tripped[a] \/ \E d \in Calls : LookedPast(d, a)']_vars

(* A circuit is open for no more than one window from the time of a call   *)
(* whose read was made and failed: the calls it refuses, however often     *)
(* they come, count for nothing and prolong nothing                        *)
(* (#withReadProtectedAdapter, which throws before it tries).              *)
RefusalsProlongNothing ==
    \A a \in Adapters : circuit[a].openUntil # 0 =>
        \E c \in Calls : /\ call[c].read[a] = "failed"
                         /\ circuit[a].openUntil = call[c].now + Window

(* An answer of query_program_context or assess_program_impact that lacks  *)
(* something an adapter observed of its targets says so: a circuit that    *)
(* opens or a read that fails between health and answer is no exception.   *)
AnswerNamesItsGaps ==
    \A c \in Calls :
        call[c].phase = "answered" /\ call[c].tool \in ContextTools =>
            \A a \in Adapters : call[c].shown[a] < Matches => a \in Warned(call[c])

(* No such answer holds observations older than the manifest allows, though*)
(* an adapter whose status is not in its manifest is renamed unavailable;  *)
(* only a manifest that lacks that status, and stale or circuit_open, lets *)
(* them pass, as degraded (normalizeHealthStatusForManifest,               *)
(* isBlockingHealthStatus).                                                *)
StaleNeverAnswers ==
    \A c \in Calls, a \in Adapters :
        call[c].tool \in ContextTools /\ call[c].now > MaxStale /\ SaysStale(a)
            => call[c].shown[a] = 0
=============================================================================
