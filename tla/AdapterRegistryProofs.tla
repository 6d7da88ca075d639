------------------------ MODULE AdapterRegistryProofs ------------------------
(***************************************************************************)
(* Proofs about AdapterRegistry: the inductive invariant of circuits and   *)
(* calls and the safety properties that follow from it, for any number of  *)
(* adapters and calls, any limit, window and clock.                        *)
(***************************************************************************)
EXTENDS AdapterRegistry, TLAPS

CircuitState == [failures : Nat, openUntil : Nat]

(* Clearing keeps a circuit as it is or closes it, and does the latter only*)
(* when its window is over.                                                *)
LEMMA ClearedCircuit ==
    ASSUME NEW k \in CircuitState, NEW now \in Nat
    PROVE  LET l == ClearStaleCircuitState(k, now) IN
           /\ l \in CircuitState
           /\ l = k \/ (l = Closed /\ k.openUntil <= now)
BY DEF CircuitState, ClearStaleCircuitState, IsOpen, Closed

(* A failure is counted, and opens the circuit at the limit.               *)
LEMMA CountedFailure ==
    ASSUME NEW k \in CircuitState, NEW now \in Nat
    PROVE  LET l == RegisterReadFailure(k, now) IN
           /\ l \in CircuitState
           /\ l.failures = k.failures + 1
           /\ l.openUntil = k.openUntil \/ l.failures >= Limit
BY RegistryAssumption DEF CircuitState, RegisterReadFailure

(* Health is a status, and blocks when the call is too late, if a status of *)
(* the manifest says so.                                                   *)
LEMMA DerivedHealth ==
    ASSUME TypeOK, NEW a \in Adapters, NEW k \in CircuitState, NEW now \in Nat
    PROVE  /\ DeriveHealth(a, k, now) \in HealthStatus
           /\ now > MaxStale /\ SaysStale(a) => DeriveHealth(a, k, now) \in Blocking
<1>1. statuses[a] \subseteq HealthStatus
  BY RegistryAssumption DEF TypeOK
<1>2. OwnStatus(now) \in HealthStatus /\ (now > MaxStale => OwnStatus(now) = "stale")
  BY DEF OwnStatus, HealthStatus
<1>3. \A h \in HealthStatus : Normalized(a, h) \in HealthStatus
  BY DEF Normalized, HealthStatus
<1>4. SaysStale(a) => Normalized(a, "stale") \in Blocking
  BY DEF SaysStale, Normalized, Blocking
<1>5. SaysStale(a) /\ IsOpen(k, now) /\ now > MaxStale => DeriveHealth(a, k, now) \in Blocking
  BY DEF DeriveHealth, Normalized, SaysStale, Blocking
<1>6. DeriveHealth(a, k, now) \in HealthStatus
  BY <1>2, <1>3 DEF DeriveHealth, HealthStatus
<1>7. now > MaxStale /\ SaysStale(a) => DeriveHealth(a, k, now) \in Blocking
  BY <1>2, <1>4, <1>5 DEF DeriveHealth, Blocking
<1> QED BY <1>6, <1>7

LEMMA ShownIsBounded ==
    ASSUME NEW q \in CallState, NEW a \in Adapters
    PROVE  ShownOf(q, a) \in 0 .. Matches
BY RegistryAssumption DEF ShownOf

-----------------------------------------------------------------------------
LEMMA InitiallyInv == Init => CircuitInv
<1> SUFFICES ASSUME Init PROVE CircuitInv
  OBVIOUS
<1>1. TypeOK
  BY RegistryAssumption DEF Init, TypeOK, CallState, Closed, Read
<1>2. TrippedByLimit /\ FailuresAreCounted
  BY DEF Init, TrippedByLimit, FailuresAreCounted, Closed
<1>3. ReadsFollowHealth
  BY DEF Init, ReadsFollowHealth, FollowsHealth, ContextTools
<1>4. WindowStands
  BY DEF Init, WindowStands, Closed
<1> QED BY <1>1, <1>2, <1>3, <1>4 DEF CircuitInv

(* When one call changes, the calls are in order if its new state is.      *)
LEMMA OneCallChanges ==
    ASSUME CircuitInv, NEW c \in Calls, NEW q \in CallState,
           \A a \in Adapters : FollowsHealth(q, a),
           call' = [call EXCEPT ![c] = q], statuses' = statuses
    PROVE  call' \in [Calls -> CallState] /\ ReadsFollowHealth'
<1>1. call \in [Calls -> CallState]
  BY DEF CircuitInv, TypeOK
<1>2. call' \in [Calls -> CallState]
  BY <1>1
<1>3. \A d \in Calls : call'[d] = IF d = c THEN q ELSE call[d]
  BY <1>1
<1>4. ASSUME NEW d \in Calls, NEW b \in Adapters
      PROVE  FollowsHealth(call'[d], b)
  BY <1>3 DEF CircuitInv, ReadsFollowHealth
<1>5. ReadsFollowHealth'
  BY <1>4 DEF ReadsFollowHealth, FollowsHealth, ShownOf, SaysStale
<1> QED BY <1>2, <1>5

(* Calls keep their tool and time, and what they have looked at.           *)
CallsGoOn ==
    \A d \in Calls :
        /\ call'[d].now = call[d].now /\ call'[d].tool = call[d].tool
        /\ \A b \in Adapters :
              /\ call[d].health[b] # "unknown" => call'[d].health[b] # "unknown"
              /\ call[d].read[b] # "none" => call'[d].read[b] # "none"

LEMMA GoingOnKeepsLooks ==
    ASSUME CallsGoOn, tripped' = tripped, NEW b \in Adapters,
           \E d \in Calls : LookedPast(d, b)
    PROVE  \E d \in Calls : LookedPast(d, b)'
BY DEF CallsGoOn, LookedPast

(* A window that stands does so while the circuits stay as they are.       *)
LEMMA GoingOnKeepsWindows ==
    ASSUME CircuitInv, CallsGoOn, UNCHANGED <<clock, circuit, tripped>>
    PROVE  WindowStands'
<1>1. \A d \in Calls : call'[d].now > clock => call'[d].tool = "reconcile_program_state"
  BY DEF CircuitInv, WindowStands, CallsGoOn
<1>2. \A b \in Adapters : tripped[b] > clock =>
          circuit[b].openUntil = tripped[b] \/ \E d \in Calls : LookedPast(d, b)'
  BY GoingOnKeepsLooks DEF CircuitInv, WindowStands
<1> QED BY <1>1, <1>2 DEF WindowStands

(* A step of call c that looks at the circuit of adapter a, closing it when*)
(* its window is over, and changes nothing else of the circuits' state.    *)
LEMMA LookingKeepsCircuits ==
    ASSUME CircuitInv, NEW c \in Calls, NEW a \in Adapters,
           circuit' = [circuit EXCEPT ![a] = ClearStaleCircuitState(circuit[a], call[c].now)],
           UNCHANGED <<statuses, clock, streak, tripped>>, CallsGoOn,
           call'[c].health[a] # "unknown" \/ call'[c].read[a] # "none"
    PROVE  /\ circuit' \in [Adapters -> CircuitState]
           /\ TrippedByLimit' /\ FailuresAreCounted' /\ WindowStands'
<1>1. circuit \in [Adapters -> CircuitState] /\ call[c].now \in Nat /\ clock \in Nat
      /\ streak \in [Adapters -> Nat] /\ tripped \in [Adapters -> Nat]
  BY DEF CircuitInv, TypeOK, CircuitState, CallState
<1>2. circuit'[a] \in CircuitState
      /\ (circuit'[a] = circuit[a]
          \/ (circuit'[a] = Closed /\ circuit[a].openUntil <= call[c].now))
  BY <1>1, ClearedCircuit
<1>3. circuit' \in [Adapters -> CircuitState]
  BY <1>1, <1>2
<1>4. TrippedByLimit'
  BY DEF CircuitInv, TrippedByLimit
<1>5. FailuresAreCounted'
  BY <1>1, <1>2 DEF CircuitInv, FailuresAreCounted, CircuitState, Closed
<1>6. WindowStands'
  <2>1. \A d \in Calls : call'[d].now > clock => call'[d].tool = "reconcile_program_state"
    BY DEF CircuitInv, WindowStands, CallsGoOn
  <2>2. ASSUME NEW b \in Adapters, tripped[b] > clock
        PROVE  circuit'[b].openUntil = tripped[b] \/ \E d \in Calls : LookedPast(d, b)'
    <3>1. CASE \E d \in Calls : LookedPast(d, b)
      BY <3>1, GoingOnKeepsLooks
    <3>2. CASE circuit[b].openUntil = tripped[b] /\ circuit'[b] = circuit[b]
      BY <3>2
    <3>3. CASE b = a /\ circuit[a].openUntil = tripped[a] /\ circuit[a].openUntil <= call[c].now
      <4>1. call[c].now >= tripped[a] /\ call[c].now > clock
        BY <1>1, <2>2, <3>3
      <4>2. call[c].tool = "reconcile_program_state"
        BY <4>1 DEF CircuitInv, WindowStands
      <4>3. LookedPast(c, a)'
        BY <4>1, <4>2 DEF LookedPast, CallsGoOn
      <4> QED BY <3>3, <4>3
    <3>4. circuit[b].openUntil = tripped[b] \/ \E d \in Calls : LookedPast(d, b)
      BY <2>2 DEF CircuitInv, WindowStands
    <3> QED BY <1>1, <1>2, <3>1, <3>2, <3>3, <3>4
  <2> QED BY <2>1, <2>2 DEF WindowStands
<1> QED BY <1>3, <1>4, <1>5, <1>6

LEMMA TickKeepsInv == CircuitInv /\ Tick => CircuitInv'
<1> SUFFICES ASSUME CircuitInv, Tick PROVE CircuitInv'
  OBVIOUS
<1>1. TypeOK'
  BY DEF CircuitInv, TypeOK, Tick
<1>2. TrippedByLimit' /\ FailuresAreCounted' /\ ReadsFollowHealth'
  BY DEF CircuitInv, Tick, TrippedByLimit, FailuresAreCounted, ReadsFollowHealth,
         FollowsHealth, ShownOf, SaysStale
<1>3. WindowStands'
  <2>1. clock \in Nat /\ clock' = clock + 1 /\ UNCHANGED <<circuit, call, tripped>>
        /\ tripped \in [Adapters -> Nat] /\ \A c \in Calls : call[c].now \in Nat
    BY DEF CircuitInv, TypeOK, CallState, Tick
  <2>2. \A d \in Calls, b \in Adapters : LookedPast(d, b)' <=> LookedPast(d, b)
    BY <2>1 DEF LookedPast
  <2> QED BY <2>1, <2>2 DEF CircuitInv, WindowStands
<1> QED BY <1>1, <1>2, <1>3 DEF CircuitInv

LEMMA StartKeepsInv ==
    ASSUME CircuitInv, NEW c \in Calls, NEW tool \in Tools, NEW now \in {clock} \cup AsOfs,
           StartCall(c, tool, now)
    PROVE  CircuitInv'
<1> DEFINE q == [call[c] EXCEPT !.phase = "running", !.tool = tool, !.now = now]
<1>0. statuses' = statuses
  BY DEF StartCall
<1>1. now \in Nat /\ (now > clock => tool = "reconcile_program_state")
  BY RegistryAssumption DEF CircuitInv, TypeOK, StartCall
<1>2. call[c] \in CallState /\ call \in [Calls -> CallState]
  BY DEF CircuitInv, TypeOK
<1>3. q \in CallState
  BY <1>1, <1>2 DEF CallState
<1>4. \A b \in Adapters : FollowsHealth(q, b)
  BY <1>2 DEF CircuitInv, StartCall, ReadsFollowHealth, FollowsHealth, CallState, ContextTools
<1>5. call' = [call EXCEPT ![c] = q]
  BY <1>2 DEF StartCall
<1>6. call' \in [Calls -> CallState] /\ ReadsFollowHealth'
  BY <1>3, <1>4, <1>5, OneCallChanges, <1>0
<1>7. TypeOK' /\ TrippedByLimit' /\ FailuresAreCounted'
  BY <1>6 DEF CircuitInv, StartCall, TypeOK, TrippedByLimit, FailuresAreCounted
<1>8. WindowStands'
  <2>1. /\ UNCHANGED <<clock, circuit, tripped>>
        /\ \A d \in Calls : call'[d] = IF d = c THEN q ELSE call[d]
        /\ q.now = now /\ q.tool = tool /\ call[c].phase = "idle"
    BY <1>2, <1>5 DEF StartCall, CallState
  <2>2. \A d \in Calls : call'[d].now > clock => call'[d].tool = "reconcile_program_state"
    BY <1>1, <2>1 DEF CircuitInv, WindowStands
  <2>3. \A b \in Adapters : ~LookedPast(c, b)
    BY <2>1 DEF CircuitInv, ReadsFollowHealth, FollowsHealth, LookedPast
  <2>4. \A d \in Calls, b \in Adapters : LookedPast(d, b) => LookedPast(d, b)'
    BY <2>1, <2>3 DEF LookedPast
  <2> QED BY <2>1, <2>2, <2>4 DEF CircuitInv, WindowStands
<1> QED BY <1>6, <1>7, <1>8 DEF CircuitInv

LEMMA GetHealthKeepsInv ==
    ASSUME CircuitInv, NEW c \in Calls, NEW a \in Adapters, GetHealth(c, a)
    PROVE  CircuitInv'
<1> DEFINE k == ClearStaleCircuitState(circuit[a], call[c].now)
           h == DeriveHealth(a, k, call[c].now)
           q == [call[c] EXCEPT !.health[a] = h]
<1>0. statuses' = statuses
  BY DEF GetHealth
<1>1. call[c] \in CallState /\ call \in [Calls -> CallState] /\ call[c].now \in Nat
      /\ circuit[a] \in CircuitState
  BY DEF CircuitInv, TypeOK, CallState, CircuitState
<1>2. k \in CircuitState
  BY <1>1, ClearedCircuit
<1>3. h \in HealthStatus /\ (call[c].now > MaxStale /\ SaysStale(a) => h \in Blocking)
  BY <1>1, <1>2, DerivedHealth DEF CircuitInv
<1>4. q \in CallState
  BY <1>1, <1>3 DEF CallState
<1>5. \A b \in Adapters : q.health[b] = IF b = a THEN h ELSE call[c].health[b]
  BY <1>1 DEF CallState
<1>6. call[c].phase = "running" /\ call[c].health[a] = "unknown"
      /\ (call[c].tool \in ContextTools => call[c].read[a] \in {"none"})
  BY <1>1 DEF CircuitInv, GetHealth, ReadsFollowHealth, FollowsHealth, CallState, Blocking, Read
<1>7. \A b \in Adapters : FollowsHealth(q, b)
  <2> SUFFICES ASSUME NEW b \in Adapters PROVE FollowsHealth(q, b)
    OBVIOUS
  <2>1. FollowsHealth(call[c], b)
    BY DEF CircuitInv, ReadsFollowHealth
  <2>2. CASE b = a
    BY <2>1, <2>2, <1>1, <1>3, <1>5, <1>6 DEF FollowsHealth, CallState
  <2>3. CASE b # a
    BY <2>1, <2>3, <1>1, <1>5 DEF FollowsHealth, ShownOf, CallState
  <2> QED BY <2>2, <2>3
<1>8. call' = [call EXCEPT ![c] = q]
  BY <1>1 DEF GetHealth
<1>9. call' \in [Calls -> CallState] /\ ReadsFollowHealth'
  BY <1>4, <1>7, <1>8, OneCallChanges, <1>0
<1>10. CallsGoOn /\ call'[c].health[a] # "unknown"
  BY <1>1, <1>3, <1>8 DEF CallState, CallsGoOn, HealthStatus
<1>11. circuit' \in [Adapters -> CircuitState]
       /\ TrippedByLimit' /\ FailuresAreCounted' /\ WindowStands'
  BY <1>10, LookingKeepsCircuits DEF GetHealth
<1>12. TypeOK'
  BY <1>9, <1>11 DEF CircuitInv, GetHealth, TypeOK, CircuitState
<1> QED BY <1>9, <1>11, <1>12 DEF CircuitInv

LEMMA SkipReadKeepsInv ==
    ASSUME CircuitInv, NEW c \in Calls, NEW a \in Adapters, SkipRead(c, a)
    PROVE  CircuitInv'
<1> DEFINE q == [call[c] EXCEPT !.read[a] = "skipped"]
<1>0. statuses' = statuses
  BY DEF SkipRead
<1>1. call[c] \in CallState /\ call \in [Calls -> CallState]
  BY DEF CircuitInv, TypeOK
<1>2. q \in CallState
  BY <1>1 DEF CallState, Read
<1>3. \A b \in Adapters : FollowsHealth(q, b)
  <2> SUFFICES ASSUME NEW b \in Adapters PROVE FollowsHealth(q, b)
    OBVIOUS
  <2>1. FollowsHealth(call[c], b)
    BY DEF CircuitInv, ReadsFollowHealth
  <2> QED BY <2>1, <1>1 DEF FollowsHealth, CallState, SkipRead, MayRead, ShownOf
<1>4. call' = [call EXCEPT ![c] = q]
  BY <1>1 DEF SkipRead
<1>5. call' \in [Calls -> CallState] /\ ReadsFollowHealth'
  BY <1>2, <1>3, <1>4, OneCallChanges, <1>0
<1>6. TypeOK' /\ TrippedByLimit' /\ FailuresAreCounted'
  BY <1>5 DEF CircuitInv, SkipRead, TypeOK, TrippedByLimit, FailuresAreCounted
<1>7. WindowStands'
  <2>1. CallsGoOn
    BY <1>1, <1>4 DEF CallState, CallsGoOn
  <2> QED BY <2>1, GoingOnKeepsWindows DEF SkipRead
<1> QED BY <1>5, <1>6, <1>7 DEF CircuitInv

LEMMA BeginReadKeepsInv ==
    ASSUME CircuitInv, NEW c \in Calls, NEW a \in Adapters, BeginRead(c, a)
    PROVE  CircuitInv'
<1> DEFINE k == ClearStaleCircuitState(circuit[a], call[c].now)
           r == IF IsOpen(k, call[c].now) THEN "refused" ELSE "reading"
           q == [call[c] EXCEPT !.read[a] = r]
<1>0. statuses' = statuses
  BY DEF BeginRead
<1>1. call[c] \in CallState /\ call \in [Calls -> CallState]
  BY DEF CircuitInv, TypeOK
<1>2. r \in {"refused", "reading"}
  OBVIOUS
<1> HIDE DEF r
<1>3. q \in CallState
  BY <1>1, <1>2 DEF CallState, Read
<1>4. call' = [call EXCEPT ![c] = q]
  BY <1>1 DEF BeginRead, r
<1>5. \A b \in Adapters : FollowsHealth(q, b)
  <2> SUFFICES ASSUME NEW b \in Adapters PROVE FollowsHealth(q, b)
    OBVIOUS
  <2>1. FollowsHealth(call[c], b)
    BY DEF CircuitInv, ReadsFollowHealth
  <2>2. call[c].phase = "running" /\ call[c].read[a] = "none"
        /\ (call[c].tool \in ContextTools => call[c].health[a] \notin Blocking \cup {"unknown"})
    BY DEF BeginRead, MayRead, ContextTools
  <2>3. q.health = call[c].health /\ q.tool = call[c].tool /\ q.phase = "running"
        /\ q.now = call[c].now /\ q.shown = call[c].shown
        /\ q.read[b] = IF b = a THEN r ELSE call[c].read[b]
    BY <1>1, <2>2 DEF CallState
  <2>4. CASE b = a
    BY <2>1, <2>2, <2>3, <2>4, <1>2 DEF FollowsHealth
  <2>5. CASE b # a
    BY <2>1, <2>2, <2>3, <2>5 DEF FollowsHealth, ShownOf
  <2> QED BY <2>4, <2>5
<1>6. call' \in [Calls -> CallState] /\ ReadsFollowHealth'
  BY <1>3, <1>4, <1>5, OneCallChanges, <1>0
<1>7. CallsGoOn /\ call'[c].read[a] # "none"
  BY <1>1, <1>2, <1>4 DEF CallState, CallsGoOn
<1>8. circuit' \in [Adapters -> CircuitState]
      /\ TrippedByLimit' /\ FailuresAreCounted' /\ WindowStands'
  BY <1>7, LookingKeepsCircuits DEF BeginRead
<1>9. TypeOK'
  BY <1>6, <1>8 DEF CircuitInv, BeginRead, TypeOK, CircuitState
<1> QED BY <1>6, <1>8, <1>9 DEF CircuitInv

(* The windows of the other adapters stand when one adapter is read, and   *)
(* so does its own if it is over or just opened.                           *)
LEMMA OtherWindowsStand ==
    ASSUME CircuitInv, CallsGoOn, clock' = clock, NEW a \in Adapters, NEW u,
           tripped' = [tripped EXCEPT ![a] = u],
           \A b \in Adapters \ {a} : circuit'[b] = circuit[b],
           u = 0 \/ u = circuit'[a].openUntil
    PROVE  WindowStands'
<1>1. clock \in Nat /\ tripped \in [Adapters -> Nat]
  BY DEF CircuitInv, TypeOK
<1>2. \A d \in Calls : call'[d].now > clock => call'[d].tool = "reconcile_program_state"
  BY DEF CircuitInv, WindowStands, CallsGoOn
<1>3. ASSUME NEW b \in Adapters, tripped'[b] > clock
      PROVE  circuit'[b].openUntil = tripped'[b] \/ \E d \in Calls : LookedPast(d, b)'
  <2>1. CASE b = a
    BY <1>1, <1>3, <2>1
  <2>2. CASE b # a
    <3>1. tripped'[b] = tripped[b] /\ circuit'[b] = circuit[b]
      BY <1>1, <2>2
    <3>2. \A d \in Calls : LookedPast(d, b) => LookedPast(d, b)'
      BY <3>1 DEF LookedPast, CallsGoOn
    <3> QED BY <1>3, <3>1, <3>2 DEF CircuitInv, WindowStands
  <2> QED BY <2>1, <2>2
<1> QED BY <1>2, <1>3 DEF WindowStands

LEMMA ReadSucceedsKeepsInv ==
    ASSUME CircuitInv, NEW c \in Calls, NEW a \in Adapters, ReadSucceeds(c, a)
    PROVE  CircuitInv'
<1> DEFINE n == ShownOf(call[c], a)
           q == [call[c] EXCEPT !.read[a] = "read", !.shown[a] = n]
<1>0. statuses' = statuses /\ statuses \in Manifests
  BY DEF CircuitInv, TypeOK, ReadSucceeds
<1>1. call[c] \in CallState /\ call \in [Calls -> CallState]
      /\ circuit \in [Adapters -> CircuitState] /\ clock \in Nat
      /\ streak \in [Adapters -> Nat] /\ tripped \in [Adapters -> Nat]
  BY DEF CircuitInv, TypeOK, CircuitState
<1>2. n \in 0 .. Matches
  BY <1>1, ShownIsBounded
<1>3. q \in CallState
  BY <1>1, <1>2 DEF CallState, Read
<1>4. call' = [call EXCEPT ![c] = q]
  BY <1>1 DEF ReadSucceeds
<1>5. \A b \in Adapters : FollowsHealth(q, b)
  <2> SUFFICES ASSUME NEW b \in Adapters PROVE FollowsHealth(q, b)
    OBVIOUS
  <2>1. FollowsHealth(call[c], b) /\ call[c].read[a] = "reading"
    BY DEF CircuitInv, ReadsFollowHealth, ReadSucceeds
  <2>2. q.health = call[c].health /\ q.tool = call[c].tool /\ q.phase = call[c].phase
        /\ q.now = call[c].now
        /\ q.read[b] = (IF b = a THEN "read" ELSE call[c].read[b])
        /\ q.shown[b] = (IF b = a THEN n ELSE call[c].shown[b])
    BY <1>1 DEF CallState
  <2>3. CASE b = a
    BY <2>1, <2>2, <2>3 DEF FollowsHealth, ShownOf
  <2>4. CASE b # a
    BY <2>1, <2>2, <2>4 DEF FollowsHealth, ShownOf
  <2> QED BY <2>3, <2>4
<1>6. call' \in [Calls -> CallState] /\ ReadsFollowHealth'
  BY <1>3, <1>4, <1>5, OneCallChanges, <1>0
<1>7. TypeOK'
  BY <1>0, <1>1, <1>6 DEF ReadSucceeds, TypeOK, CircuitState, Closed
<1>8. TrippedByLimit' /\ FailuresAreCounted'
  BY <1>1 DEF CircuitInv, ReadSucceeds, TrippedByLimit, FailuresAreCounted, Closed
<1>9. CallsGoOn
  BY <1>1, <1>4 DEF CallState, CallsGoOn
<1>10. WindowStands'
  <2>1. /\ clock' = clock /\ tripped' = [tripped EXCEPT ![a] = 0]
        /\ \A b \in Adapters \ {a} : circuit'[b] = circuit[b]
    BY <1>1 DEF ReadSucceeds
  <2> QED BY <1>1, <1>9, <2>1, OtherWindowsStand
<1> QED BY <1>6, <1>7, <1>8, <1>10 DEF CircuitInv

LEMMA ReadFailsKeepsInv ==
    ASSUME CircuitInv, NEW c \in Calls, NEW a \in Adapters, ReadFails(c, a)
    PROVE  CircuitInv'
<1> DEFINE k == RegisterReadFailure(circuit[a], call[c].now)
           q == [call[c] EXCEPT !.read[a] = "failed"]
<1>0. statuses' = statuses /\ statuses \in Manifests
  BY DEF CircuitInv, TypeOK, ReadFails
<1>1. call[c] \in CallState /\ call \in [Calls -> CallState]
      /\ circuit \in [Adapters -> CircuitState] /\ clock \in Nat
      /\ streak \in [Adapters -> Nat] /\ tripped \in [Adapters -> Nat]
  BY DEF CircuitInv, TypeOK, CircuitState
<1>2. k \in CircuitState /\ k.failures = circuit[a].failures + 1
      /\ (k.openUntil = circuit[a].openUntil \/ k.failures >= Limit)
  BY <1>1, CountedFailure DEF CallState
<1>3. q \in CallState
  BY <1>1 DEF CallState, Read
<1>4. call' = [call EXCEPT ![c] = q]
  BY <1>1 DEF ReadFails
<1>5. \A b \in Adapters : FollowsHealth(q, b)
  <2> SUFFICES ASSUME NEW b \in Adapters PROVE FollowsHealth(q, b)
    OBVIOUS
  <2>1. FollowsHealth(call[c], b) /\ call[c].read[a] = "reading"
    BY DEF CircuitInv, ReadsFollowHealth, ReadFails
  <2>2. q.health = call[c].health /\ q.tool = call[c].tool /\ q.phase = call[c].phase
        /\ q.now = call[c].now /\ q.shown = call[c].shown
        /\ q.read[b] = (IF b = a THEN "failed" ELSE call[c].read[b])
    BY <1>1 DEF CallState
  <2> QED BY <2>1, <2>2 DEF FollowsHealth, ShownOf
<1>6. call' \in [Calls -> CallState] /\ ReadsFollowHealth'
  BY <1>3, <1>4, <1>5, OneCallChanges, <1>0
<1> HIDE DEF k
<1>7. /\ circuit' = [circuit EXCEPT ![a] = k] /\ streak' = [streak EXCEPT ![a] = @ + 1]
      /\ tripped' = [tripped EXCEPT ![a] = k.openUntil] /\ clock' = clock
  BY DEF ReadFails, k
<1>8. TypeOK'
  BY <1>0, <1>1, <1>2, <1>6, <1>7 DEF TypeOK, CircuitState
<1>9. k.openUntil # 0 => k.failures >= Limit
  BY <1>1, <1>2, RegistryAssumption DEF CircuitInv, FailuresAreCounted, CircuitState
<1>10. FailuresAreCounted'
  BY <1>1, <1>2, <1>7, <1>9 DEF CircuitInv, FailuresAreCounted, CircuitState
<1>11. TrippedByLimit'
  BY <1>1, <1>2, <1>7, <1>9, RegistryAssumption
     DEF CircuitInv, TrippedByLimit, FailuresAreCounted, CircuitState
<1>12. CallsGoOn
  BY <1>1, <1>4 DEF CallState, CallsGoOn
<1>13. WindowStands'
  <2>1. tripped'[a] = circuit'[a].openUntil /\ clock' = clock
        /\ tripped' = [tripped EXCEPT ![a] = k.openUntil]
        /\ \A b \in Adapters \ {a} : circuit'[b] = circuit[b]
    BY <1>1, <1>7
  <2> QED BY <1>1, <1>12, <2>1, OtherWindowsStand
<1> QED BY <1>6, <1>8, <1>10, <1>11, <1>13 DEF CircuitInv

LEMMA AnswerKeepsInv ==
    ASSUME CircuitInv, NEW c \in Calls, Answer(c)
    PROVE  CircuitInv'
<1> DEFINE q == [call[c] EXCEPT !.phase = "answered"]
<1>0. statuses' = statuses
  BY DEF Answer
<1>1. call[c] \in CallState /\ call \in [Calls -> CallState]
  BY DEF CircuitInv, TypeOK
<1>2. q \in CallState
  BY <1>1 DEF CallState
<1>3. call' = [call EXCEPT ![c] = q]
  BY <1>1 DEF Answer
<1>4. \A b \in Adapters : FollowsHealth(q, b)
  <2> SUFFICES ASSUME NEW b \in Adapters PROVE FollowsHealth(q, b)
    OBVIOUS
  <2>1. FollowsHealth(call[c], b)
    BY DEF CircuitInv, ReadsFollowHealth
  <2>2. q.health = call[c].health /\ q.tool = call[c].tool /\ q.phase = "answered"
        /\ q.now = call[c].now /\ q.shown = call[c].shown /\ q.read = call[c].read
    BY <1>1 DEF CallState
  <2>3. call[c].tool \in ContextTools => call[c].read[b] \notin {"none", "reading"}
    BY DEF Answer, Settled, ContextTools
  <2> QED BY <2>1, <2>2, <2>3 DEF FollowsHealth, ShownOf
<1>5. call' \in [Calls -> CallState] /\ ReadsFollowHealth'
  BY <1>2, <1>3, <1>4, OneCallChanges, <1>0
<1>6. TypeOK' /\ TrippedByLimit' /\ FailuresAreCounted'
  BY <1>5 DEF CircuitInv, Answer, TypeOK, TrippedByLimit, FailuresAreCounted
<1>7. WindowStands'
  <2>1. CallsGoOn
    BY <1>1, <1>3 DEF CallState, CallsGoOn
  <2> QED BY <2>1, GoingOnKeepsWindows DEF Answer
<1> QED BY <1>5, <1>6, <1>7 DEF CircuitInv

LEMMA NextKeepsInv == CircuitInv /\ [Next]_vars => CircuitInv'
<1> SUFFICES ASSUME CircuitInv, [Next]_vars PROVE CircuitInv'
  OBVIOUS
<1>1. CASE Tick
  BY <1>1, TickKeepsInv
<1>2. ASSUME NEW c \in Calls, NEW tool \in Tools, NEW now \in {clock} \cup AsOfs,
             StartCall(c, tool, now)
      PROVE  CircuitInv'
  BY <1>2, StartKeepsInv
<1>3. ASSUME NEW c \in Calls, NEW a \in Adapters,
             \/ GetHealth(c, a) \/ SkipRead(c, a) \/ BeginRead(c, a)
             \/ ReadSucceeds(c, a) \/ ReadFails(c, a)
      PROVE  CircuitInv'
  BY <1>3, GetHealthKeepsInv, SkipReadKeepsInv, BeginReadKeepsInv,
     ReadSucceedsKeepsInv, ReadFailsKeepsInv
<1>4. ASSUME NEW c \in Calls, Answer(c) PROVE CircuitInv'
  BY <1>4, AnswerKeepsInv
<1>5. CASE UNCHANGED vars
  BY <1>5 DEF vars, CircuitInv, TypeOK, TrippedByLimit, FailuresAreCounted,
              ReadsFollowHealth, FollowsHealth, ShownOf, SaysStale, WindowStands, LookedPast
<1> QED BY <1>1, <1>2, <1>3, <1>4, <1>5 DEF Next

-----------------------------------------------------------------------------
(* No circuit is opened by fewer failures in a row than the manifest says, *)
(* however the calls that share it interleave, and every read follows the  *)
(* health its call was told (#registerReadFailure, #resetReadState).       *)
THEOREM CircuitsAreOpenedForAReason == Spec => []CircuitInv
<1>1. Init => CircuitInv
  BY InitiallyInv
<1>2. CircuitInv /\ [Next]_vars => CircuitInv'
  BY NextKeepsInv
<1> QED BY <1>1, <1>2, PTL DEF Spec

(* An answer of query_program_context or assess_program_impact never holds *)
(* observations of an adapter whose cursor is older than its manifest      *)
(* allows (normalizeHealthStatusForManifest, isBlockingHealthStatus).      *)
THEOREM StaleAdaptersNeverAnswer == Spec => []StaleNeverAnswers
<1>1. CircuitInv => StaleNeverAnswers
  <2> SUFFICES ASSUME CircuitInv, NEW c \in Calls, NEW a \in Adapters,
                      call[c].tool \in ContextTools, call[c].now > MaxStale, SaysStale(a)
               PROVE  call[c].shown[a] = 0
    BY DEF StaleNeverAnswers
  <2>1. FollowsHealth(call[c], a)
    BY DEF CircuitInv, ReadsFollowHealth
  <2> QED BY <2>1 DEF FollowsHealth
<1> QED BY <1>1, CircuitsAreOpenedForAReason, PTL

(* Such an answer names in its warnings every adapter it lacks something   *)
(* of, also when a circuit opens or a read throws after the adapter was    *)
(* found healthy.                                                          *)
THEOREM GapsAreNamed == Spec => []AnswerNamesItsGaps
<1>1. CircuitInv => AnswerNamesItsGaps
  <2> SUFFICES ASSUME CircuitInv, NEW c \in Calls, NEW a \in Adapters,
                      call[c].phase = "answered", call[c].tool \in ContextTools,
                      call[c].shown[a] < Matches
               PROVE  a \in Warned(call[c])
    BY DEF AnswerNamesItsGaps
  <2>1. FollowsHealth(call[c], a) /\ call[c] \in CallState
    BY DEF CircuitInv, ReadsFollowHealth, TypeOK
  <2>2. call[c].read[a] \in {"read", "failed", "refused", "skipped"}
    BY <2>1 DEF FollowsHealth, CallState, Read
  <2>3. CASE call[c].read[a] \in {"failed", "refused"}
    BY <2>3 DEF Warned
  <2>4. CASE call[c].read[a] = "skipped"
    BY <2>1, <2>4 DEF Warned, FollowsHealth, Blocking
  <2>5. CASE call[c].read[a] = "read"
    <3>1. call[c].shown[a] = ShownOf(call[c], a)
      BY <2>1, <2>5 DEF FollowsHealth
    <3>2. call[c].tool = "query_program_context" \/ call[c].health[a] = "degraded"
      BY <3>1, RegistryAssumption DEF ShownOf, ContextTools
    <3> QED BY <2>5, <3>2 DEF Warned
  <2> QED BY <2>2, <2>3, <2>4, <2>5
<1> QED BY <1>1, CircuitsAreOpenedForAReason, PTL

(* An open circuit starts no read before its window is over, whichever     *)
(* call looks at it in the meantime, but for a reconciliation whose caller *)
(* states a time past the window (#withReadProtectedAdapter,               *)
(* #clearStaleCircuitState).                                               *)
THEOREM WindowsAreSuppressed == Spec => SuppressedUntilWindow
<1>1. CircuitInv /\ [Next]_vars
      => [\A c \in Calls, a \in Adapters :
             call[c].read[a] # "reading" /\ call'[c].read[a] = "reading"
                 => clock >= tripped[a] \/ \E d \in Calls : LookedPast(d, a)']_vars
  <2> SUFFICES ASSUME CircuitInv, Next, NEW c \in Calls, NEW a \in Adapters,
                      call[c].read[a] # "reading", call'[c].read[a] = "reading",
                      tripped[a] > clock
               PROVE  \E d \in Calls : LookedPast(d, a)'
    BY DEF CircuitInv, TypeOK
  <2>1. call \in [Calls -> CallState] /\ circuit[a] \in CircuitState
        /\ call[c].now \in Nat /\ clock \in Nat /\ tripped[a] \in Nat
    BY DEF CircuitInv, TypeOK, CircuitState, CallState
  <2>2. BeginRead(c, a) /\ ~IsOpen(ClearStaleCircuitState(circuit[a], call[c].now), call[c].now)
    <3>1. \E d \in Calls, b \in Adapters : BeginRead(d, b)
      <4>1. ~Tick
        BY DEF Tick
      <4>2. \A d \in Calls, tool \in Tools, now \in {clock} \cup AsOfs : ~StartCall(d, tool, now)
        <5> SUFFICES ASSUME NEW d \in Calls, NEW tool \in Tools, NEW now \in {clock} \cup AsOfs,
                            StartCall(d, tool, now)
                     PROVE  FALSE
          OBVIOUS
        <5>1. call'[c].read = call[c].read
          <6>1. CASE d = c
            BY <2>1, <6>1 DEF StartCall, CallState
          <6>2. CASE d # c
            BY <2>1, <6>2 DEF StartCall
          <6> QED BY <6>1, <6>2
        <5> QED BY <5>1
      <4>3. \A d \in Calls, b \in Adapters : ~GetHealth(d, b)
        BY <2>1 DEF GetHealth, CallState
      <4>4. \A d \in Calls, b \in Adapters : ~SkipRead(d, b)
        BY <2>1 DEF SkipRead, CallState
      <4>5. \A d \in Calls, b \in Adapters : ~ReadSucceeds(d, b)
        <5> SUFFICES ASSUME NEW d \in Calls, NEW b \in Adapters, ReadSucceeds(d, b)
                     PROVE  FALSE
          OBVIOUS
        <5>1. call'[c].read = IF d = c THEN [call[c].read EXCEPT ![b] = "read"] ELSE call[c].read
          <6>1. CASE d = c
            BY <2>1, <6>1 DEF ReadSucceeds, CallState
          <6>2. CASE d # c
            BY <2>1, <6>2 DEF ReadSucceeds
          <6> QED BY <6>1, <6>2
        <5> QED BY <2>1, <5>1 DEF CallState
      <4>6. \A d \in Calls, b \in Adapters : ~ReadFails(d, b)
        <5> SUFFICES ASSUME NEW d \in Calls, NEW b \in Adapters, ReadFails(d, b)
                     PROVE  FALSE
          OBVIOUS
        <5>1. call'[c].read = IF d = c THEN [call[c].read EXCEPT ![b] = "failed"] ELSE call[c].read
          <6>1. CASE d = c
            BY <2>1, <6>1 DEF ReadFails, CallState
          <6>2. CASE d # c
            BY <2>1, <6>2 DEF ReadFails
          <6> QED BY <6>1, <6>2
        <5> QED BY <2>1, <5>1 DEF CallState
      <4>7. \A d \in Calls : ~Answer(d)
        BY <2>1 DEF Answer, CallState
      <4> QED BY <4>1, <4>2, <4>3, <4>4, <4>5, <4>6, <4>7 DEF Next
    <3>2. PICK d \in Calls, b \in Adapters : BeginRead(d, b)
      BY <3>1
    <3>3. d = c /\ b = a
      BY <2>1, <3>2 DEF BeginRead, CallState
    <3>4. ~IsOpen(ClearStaleCircuitState(circuit[a], call[c].now), call[c].now)
      BY <2>1, <3>2, <3>3 DEF BeginRead, CallState
    <3> QED BY <3>2, <3>3, <3>4
  <2>3. circuit[a].openUntil <= call[c].now
    BY <2>1, <2>2 DEF ClearStaleCircuitState, IsOpen, CircuitState
  <2>4. /\ tripped' = tripped /\ call'[c].now = call[c].now /\ call'[c].tool = call[c].tool
        /\ \A d \in Calls \ {c} : call'[d] = call[d]
        /\ call[c].read[a] = "none" /\ call'[c].health = call[c].health
    BY <2>1, <2>2 DEF BeginRead, MayRead, CallState
  <2>5. CASE \E d \in Calls : LookedPast(d, a)
    <3>1. PICK d \in Calls : LookedPast(d, a)
      BY <2>5
    <3>2. LookedPast(d, a)'
      <4>1. CASE d = c
        BY <2>4, <3>1, <4>1 DEF LookedPast
      <4>2. CASE d # c
        BY <2>4, <3>1, <4>2 DEF LookedPast
      <4> QED BY <4>1, <4>2
    <3> QED BY <3>2
  <2>6. CASE circuit[a].openUntil = tripped[a]
    <3>1. call[c].now >= tripped[a] /\ call[c].now > clock
      BY <2>1, <2>3, <2>6
    <3>2. call[c].tool = "reconcile_program_state"
      BY <3>1 DEF CircuitInv, WindowStands
    <3>3. LookedPast(c, a)'
      BY <2>4, <3>1, <3>2 DEF LookedPast
    <3> QED BY <3>3
  <2> QED BY <2>5, <2>6 DEF CircuitInv, WindowStands
<1> QED BY <1>1, CircuitsAreOpenedForAReason, PTL DEF Spec, SuppressedUntilWindow

-----------------------------------------------------------------------------
(* A read that failed stays one of its call, at the call's time.           *)
LEMMA FailuresStand ==
    ASSUME CircuitInv, Next, NEW d \in Calls, NEW b \in Adapters, call[d].read[b] = "failed"
    PROVE  call'[d].read[b] = "failed" /\ call'[d].now = call[d].now
<1>1. call \in [Calls -> CallState] /\ call[d] \in CallState /\ call[d].phase # "idle"
  BY DEF CircuitInv, TypeOK, ReadsFollowHealth, FollowsHealth
<1>2. CASE Tick
  BY <1>2 DEF Tick
<1>3. ASSUME NEW c \in Calls, NEW tool \in Tools, NEW now \in {clock} \cup AsOfs,
             StartCall(c, tool, now)
      PROVE  call'[d] = call[d]
  BY <1>1, <1>3 DEF StartCall
<1>4. ASSUME NEW c \in Calls, NEW a \in Adapters, GetHealth(c, a)
      PROVE  call'[d].read = call[d].read /\ call'[d].now = call[d].now
  BY <1>1, <1>4 DEF GetHealth, CallState
<1>5. ASSUME NEW c \in Calls, NEW a \in Adapters, NEW r, c # d \/ a # b,
             call' = [call EXCEPT ![c].read[a] = r]
      PROVE  call'[d].read[b] = "failed" /\ call'[d].now = call[d].now
  BY <1>1, <1>5 DEF CallState
<1>6. ASSUME NEW c \in Calls, NEW a \in Adapters, SkipRead(c, a) \/ BeginRead(c, a)
      PROVE  call'[d].read[b] = "failed" /\ call'[d].now = call[d].now
  <2>1. c # d \/ a # b
    BY <1>6 DEF SkipRead, BeginRead, MayRead
  <2>2. \E r : call' = [call EXCEPT ![c].read[a] = r]
    BY <1>6 DEF SkipRead, BeginRead
  <2> QED BY <1>5, <2>1, <2>2
<1>7. ASSUME NEW c \in Calls, NEW a \in Adapters, ReadFails(c, a)
      PROVE  call'[d].read[b] = "failed" /\ call'[d].now = call[d].now
  <2>1. c # d \/ a # b
    BY <1>7 DEF ReadFails
  <2> QED BY <1>5, <1>7, <2>1 DEF ReadFails
<1>8. ASSUME NEW c \in Calls, NEW a \in Adapters, ReadSucceeds(c, a)
      PROVE  call'[d].read[b] = "failed" /\ call'[d].now = call[d].now
  <2>1. c # d \/ a # b
    BY <1>8 DEF ReadSucceeds
  <2>2. call'[d].now = call[d].now
        /\ call'[d].read = IF d = c THEN [call[d].read EXCEPT ![a] = "read"] ELSE call[d].read
    <3>1. CASE d = c
      BY <1>1, <1>8, <3>1 DEF ReadSucceeds, CallState
    <3>2. CASE d # c
      BY <1>1, <1>8, <3>2 DEF ReadSucceeds
    <3> QED BY <3>1, <3>2
  <2> QED BY <1>1, <2>1, <2>2 DEF CallState
<1>9. ASSUME NEW c \in Calls, Answer(c)
      PROVE  call'[d].read = call[d].read /\ call'[d].now = call[d].now
  BY <1>1, <1>9 DEF Answer, CallState
<1> QED BY <1>2, <1>3, <1>4, <1>6, <1>7, <1>8, <1>9 DEF Next

(* A circuit's window is kept, or given up, or that of a read that fails.  *)
LEMMA WindowsComeOfFailures ==
    ASSUME CircuitInv, Next, NEW b \in Adapters
    PROVE  \/ circuit'[b].openUntil \in {circuit[b].openUntil, 0}
           \/ \E d \in Calls : /\ call'[d].read[b] = "failed"
                               /\ circuit'[b].openUntil = call'[d].now + Window
<1>1. circuit \in [Adapters -> CircuitState] /\ call \in [Calls -> CallState]
      /\ \A c \in Calls : call[c].now \in Nat
  BY DEF CircuitInv, TypeOK, CircuitState, CallState
<1>2. ASSUME NEW c \in Calls, NEW a \in Adapters,
             circuit' = [circuit EXCEPT ![a] = ClearStaleCircuitState(circuit[a], call[c].now)]
      PROVE  circuit'[b].openUntil \in {circuit[b].openUntil, 0}
  <2>1. circuit[a] \in CircuitState /\ call[c].now \in Nat
    BY <1>1
  <2>2. ClearStaleCircuitState(circuit[a], call[c].now) \in {circuit[a], Closed}
    BY <2>1, ClearedCircuit
  <2> QED BY <1>1, <1>2, <2>2 DEF Closed
<1>3. ASSUME NEW c \in Calls, NEW a \in Adapters, ReadFails(c, a)
      PROVE  \/ circuit'[b].openUntil = circuit[b].openUntil
             \/ /\ call'[c].read[b] = "failed"
                /\ circuit'[b].openUntil = call'[c].now + Window
  <2>1. CASE a # b
    BY <1>1, <1>3, <2>1 DEF ReadFails
  <2>2. CASE a = b
    <3>1. circuit'[b] = RegisterReadFailure(circuit[b], call[c].now)
      BY <1>1, <1>3, <2>2 DEF ReadFails
    <3>2. call'[c].read[b] = "failed" /\ call'[c].now = call[c].now
      BY <1>1, <1>3, <2>2 DEF ReadFails, CallState
    <3> QED BY <3>1, <3>2 DEF RegisterReadFailure
  <2> QED BY <2>1, <2>2
<1>4. ASSUME NEW c \in Calls, NEW a \in Adapters, ReadSucceeds(c, a)
      PROVE  circuit'[b].openUntil \in {circuit[b].openUntil, 0}
  BY <1>1, <1>4 DEF ReadSucceeds, Closed
<1>5. CASE circuit' = circuit
  BY <1>5
<1>6. CASE \E c \in Calls, a \in Adapters : GetHealth(c, a) \/ BeginRead(c, a)
  BY <1>2, <1>6 DEF GetHealth, BeginRead
<1>7. CASE \E c \in Calls, a \in Adapters : ReadFails(c, a)
  BY <1>3, <1>7
<1>8. CASE \E c \in Calls, a \in Adapters : ReadSucceeds(c, a)
  BY <1>4, <1>8
<1> QED BY <1>5, <1>6, <1>7, <1>8 DEF Next, Tick, StartCall, SkipRead, Answer

(* However many calls an open circuit refuses, its window is over one      *)
(* window after a read that was made and failed                            *)
(* (#withReadProtectedAdapter).                                            *)
THEOREM RefusalsNeverProlong == Spec => []RefusalsProlongNothing
<1>1. Init => RefusalsProlongNothing
  BY DEF Init, RefusalsProlongNothing, Closed
<1>2. CircuitInv /\ RefusalsProlongNothing /\ [Next]_vars => RefusalsProlongNothing'
  <2>1. CASE UNCHANGED vars
    BY <2>1 DEF vars, RefusalsProlongNothing
  <2>2. ASSUME CircuitInv, RefusalsProlongNothing, Next, NEW b \in Adapters,
               circuit'[b].openUntil # 0
        PROVE  \E d \in Calls : /\ call'[d].read[b] = "failed"
                                /\ circuit'[b].openUntil = call'[d].now + Window
    <3>1. CASE circuit'[b].openUntil = circuit[b].openUntil
      <4>1. PICK d \in Calls : /\ call[d].read[b] = "failed"
                               /\ circuit[b].openUntil = call[d].now + Window
        BY <2>2, <3>1 DEF RefusalsProlongNothing
      <4>2. call'[d].read[b] = "failed" /\ call'[d].now = call[d].now
        BY <2>2, <4>1, FailuresStand
      <4> QED BY <3>1, <4>1, <4>2
    <3> QED BY <2>2, <3>1, WindowsComeOfFailures
  <2> QED BY <2>1, <2>2 DEF RefusalsProlongNothing
<1> QED BY <1>1, <1>2, CircuitsAreOpenedForAReason, PTL DEF Spec

==============================================================================
