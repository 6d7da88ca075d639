------------------------- MODULE ReceiptLedgerProofs -------------------------
(***************************************************************************)
(* Proofs about ReceiptLedger for any number of submissions, reconcile     *)
(* callers, requests and obligations.                                      *)
(***************************************************************************)
EXTENDS ReceiptLedger, TLAPS

-----------------------------------------------------------------------------
(* The rules.                                                              *)

(* A verdict is an answer, and an accepted call was owed by every row its  *)
(* query returned, at least one, and repeats no receipt it returned.       *)
LEMMA AcceptedVerdict ==
    ASSUME NEW q, NEW obligations, NEW receipts
    PROVE  /\ ReceiptVerdict(q, obligations, receipts)
                 \in {"accepted", "duplicate", "rejected"}
           /\ ReceiptVerdict(q, obligations, receipts) = "accepted" =>
                 /\ obligations # {}
                 /\ \A o \in obligations : o.plan = q.plan
                 /\ \A r \in receipts : ~DuplicateOf(r, q)
BY DEF ReceiptVerdict

(* A pass reports a status of the vocabulary, and "satisfied" only with a  *)
(* receipt in hand.                                                        *)
LEMMA SatisfiedVerdict ==
    ASSUME NEW o, NEW receipts, NEW support, NEW now, NEW lostAfter
    PROVE  /\ ReconcileVerdict(o, receipts, support, now, lostAfter) \in ReconcileStatus
           /\ ReconcileVerdict(o, receipts, support, now, lostAfter) = "satisfied" =>
                 receipts # {}
<1>1. DueStatus(o, now, lostAfter) \in OpenStatus
  BY DEF DueStatus, OpenStatus
<1>2. QED  BY <1>1 DEF ReconcileVerdict, ReconcileStatus, OpenStatus

-----------------------------------------------------------------------------
(* Type correctness.                                                       *)

(* Every submission is asked for in terms the types allow.                 *)
LEMMA QueryType ==
    ASSUME TypeOK, NEW a \in Attempts
    PROVE  /\ Query(a) \in Calls
           /\ Query(a).key \in Keys
           /\ Query(a).requirement \in Requirements
           /\ Query(a).plan \in Plans
<1>1. Query(a) \in Calls
  BY DEF Query, TypeOK, AttemptState
<1>2. Query(a) \in Call
  BY <1>1, InputAssumption
<1>3. QED  BY <1>1, <1>2 DEF Call

(* The step of a submission a to another well-typed record keeps the types.*)
LEMMA AttemptUpdate ==
    ASSUME TypeOK, NEW a \in Attempts, NEW next \in AttemptState,
           attempt' = [attempt EXCEPT ![a] = next],
           UNCHANGED <<expected, issued, pass>>,
           observed' \subseteq Attempts, entries' \subseteq Attempts,
           status' \subseteq StatusRecord, events' \subseteq Event
    PROVE  TypeOK'
BY DEF TypeOK

(* A step of a submission, or its arrival, keeps the types.                *)
LEMMA AttemptStepType ==
    ASSUME TypeOK, NEW a \in Attempts,
           \/ \E q \in Calls : RecordProgramReceipt(a, q)
           \/ AttemptStep(a)
           \/ StopAttempt(a)
    PROVE  TypeOK'
<1>0. attempt[a] \in AttemptState
  BY DEF TypeOK
<1>1. ASSUME NEW q \in Calls, RecordProgramReceipt(a, q)
      PROVE  TypeOK'
  <2> DEFINE next == [attempt[a] EXCEPT
           !.query = q,
           !.phase = IF q.flaw = "authz" THEN "answered" ELSE "reading",
           !.answer = IF q.flaw = "authz" THEN "blocked" ELSE "none"]
  <2>1. next \in AttemptState
    BY <1>0 DEF AttemptState, Busy
  <2>2. QED  BY <1>1, <2>1, AttemptUpdate DEF RecordProgramReceipt, TypeOK
<1>2. CASE ReadExpected(a)
  <2> DEFINE found == {o \in expected : ObligationMatches(o, Query(a))}
             next == [attempt[a] EXCEPT !.reads = attempt[a].reads \cup {"expected"},
                                        !.obligations = found]
  <2>1. found \in SUBSET Obligations
    BY DEF TypeOK
  <2>2. attempt' = [attempt EXCEPT ![a] = next]
    BY <1>2 DEF ReadExpected
  <2> HIDE DEF found
  <2>3. next \in AttemptState
    BY <1>0, <2>1 DEF AttemptState, Reads
  <2> HIDE DEF next
  <2>4. QED  BY <1>2, <2>2, <2>3, AttemptUpdate DEF ReadExpected, TypeOK
<1>3. CASE ReadObserved(a)
  <2> DEFINE next == [attempt[a] EXCEPT !.reads = attempt[a].reads \cup {"observed"},
                                        !.seen = observed]
  <2>1. next \in AttemptState
    BY <1>0 DEF AttemptState, Reads, TypeOK
  <2>2. attempt' = [attempt EXCEPT ![a] = next]
    BY <1>3 DEF ReadObserved
  <2> HIDE DEF next
  <2>3. QED  BY <1>3, <2>1, <2>2, AttemptUpdate DEF ReadObserved, TypeOK
<1>4. CASE ValidateReceipt(a)
  <2> DEFINE verdict == ReceiptVerdict(Query(a), attempt[a].obligations,
                                       {Query(b) : b \in SeenReceipts(a)})
             next == [attempt[a] EXCEPT
               !.phase = IF verdict = "accepted" THEN "appending" ELSE "answered",
               !.answer = IF verdict = "accepted" THEN "none" ELSE verdict]
  <2>1. verdict \in {"accepted", "duplicate", "rejected"}
    BY AcceptedVerdict
  <2>2. attempt' = [attempt EXCEPT ![a] = next]
    BY <1>4 DEF ValidateReceipt
  <2> HIDE DEF verdict
  <2>3. next \in AttemptState
    BY <1>0, <2>1 DEF AttemptState, Busy
  <2>4. QED  BY <1>4, <2>2, <2>3, AttemptUpdate DEF ValidateReceipt, TypeOK
<1>5. CASE AppendObservedReceipt(a)
  BY <1>5 DEF AppendObservedReceipt, Advance, TypeOK, AttemptState, Busy
<1>6. CASE PutReceiptEvent(a)
  <2>1. attempt' \in [Attempts -> AttemptState]
    BY <1>6 DEF PutReceiptEvent, Advance, TypeOK, AttemptState, Busy
  <2>2. events' \subseteq Event
    BY <1>6, QueryType DEF PutReceiptEvent, PutEvent, TypeOK, Event
  <2>3. QED  BY <1>6, <2>1, <2>2 DEF PutReceiptEvent, TypeOK
<1>7. CASE AppendActionLedgerEntry(a)
  BY <1>7 DEF AppendActionLedgerEntry, Advance, TypeOK, AttemptState, Busy
<1>8. CASE SettleReceipt(a)
  <2>1. attempt' \in [Attempts -> AttemptState]
    BY <1>8 DEF SettleReceipt, Advance, TypeOK, AttemptState, Busy
  <2>2. SeenReceipts(a) \cup {a} \in SUBSET Attempts
    BY DEF SeenReceipts, TypeOK, AttemptState
  <2>3. AcceptedStatus(a) \in StatusRecord
    BY <2>2, QueryType DEF AcceptedStatus, StatusRecord, ReconcileStatus
  <2>4. status' \subseteq StatusRecord
    BY <1>8, <2>3 DEF SettleReceipt, UpsertByRequirement, TypeOK
  <2>5. QED  BY <1>8, <2>1, <2>4 DEF SettleReceipt, TypeOK
<1>9. CASE AcceptReceipt(a)
  <2> DEFINE next == [attempt[a] EXCEPT !.phase = "answered", !.answer = "accepted"]
  <2>1. next \in AttemptState
    BY <1>0 DEF AttemptState, Busy
  <2>2. QED  BY <1>9, <2>1, AttemptUpdate DEF AcceptReceipt, TypeOK
<1>10. CASE StopAttempt(a)
  BY <1>10 DEF StopAttempt, TypeOK, AttemptState, Busy
<1>11. QED
  BY <1>1, <1>2, <1>3, <1>4, <1>5, <1>6, <1>7, <1>8, <1>9, <1>10 DEF AttemptStep

(* A step of a reconcile pass keeps the types.                             *)
LEMMA PassUpdate ==
    ASSUME TypeOK, NEW p \in Passes, NEW next \in PassState,
           pass' = [pass EXCEPT ![p] = next],
           UNCHANGED <<expected, issued, observed, entries, attempt>>,
           status' \subseteq StatusRecord, events' \subseteq Event
    PROVE  TypeOK'
BY DEF TypeOK

(* A pass that is idle, starts, stops or has writes left is well typed.    *)
LEMMA RemainingType ==
    ASSUME NEW todo \in SUBSET StatusRecord, NEW carrier \in SUBSET Requirements
    PROVE  /\ IdlePass \in PassState
           /\ Remaining(todo, carrier) \in PassState
           /\ \A c \in PassCalls :
                  [IdlePass EXCEPT !.phase = "reading", !.call = c] \in PassState
           /\ [IdlePass EXCEPT !.phase = "stopped"] \in PassState
<1>1. IdlePass \in PassState
  BY InputAssumption DEF IdlePass, PassState
<1>2. [IdlePass EXCEPT !.phase = "writing", !.todo = todo, !.carrier = carrier]
         \in PassState
  BY <1>1 DEF PassState
<1>3. /\ \A c \in PassCalls :
             [IdlePass EXCEPT !.phase = "reading", !.call = c] \in PassState
      /\ [IdlePass EXCEPT !.phase = "stopped"] \in PassState
  BY <1>1 DEF PassState
<1>4. QED  BY <1>1, <1>2, <1>3 DEF Remaining

(* What a pass reports is well typed.                                      *)
LEMMA ReconciledStatusType ==
    ASSUME TypeOK, NEW p \in Passes, NEW o \in pass[p].obligations, NEW support
    PROVE  ReconciledStatus(p, o, support) \in StatusRecord
<1> DEFINE receipts == {b \in pass[p].seen : Query(b).requirement = o.requirement}
<1>1. o \in Obligation
  BY InputAssumption DEF TypeOK, PassState
<1>2. receipts \in SUBSET Attempts
  BY DEF TypeOK, PassState
<1> HIDE DEF receipts
<1>3. QED
  BY <1>1, <1>2, SatisfiedVerdict
  DEF ReconciledStatus, StatusRecord, Obligation, receipts

LEMMA PassStepType ==
    ASSUME TypeOK, NEW p \in Passes, StartPass(p) \/ PassStep(p) \/ StopPass(p)
    PROVE  TypeOK'
<1>0. pass[p] \in PassState
  BY DEF TypeOK
<1>1. ASSUME NEW c \in PassCalls, ReconcileProgramState(p, c)
      PROVE  TypeOK'
  <2> DEFINE next == [IdlePass EXCEPT !.phase = "reading", !.call = c]
  <2>1. next \in PassState
    BY RemainingType
  <2>2. QED  BY <1>1, <2>1, PassUpdate DEF ReconcileProgramState, TypeOK
<1>2. CASE ReadExpectedForPass(p)
  <2> DEFINE c == pass[p].call
             found == {o \in expected : /\ o.requirement \in c.targets
                                        /\ PlanSelected(o.plan, c)
                                        /\ MatchesLedgerScope(o.project, c.projects)}
             next == [pass[p] EXCEPT !.reads = pass[p].reads \cup {"expected"}, !.obligations = found]
  <2>1. found \in SUBSET Obligations
    BY DEF TypeOK
  <2>2. pass' = [pass EXCEPT ![p] = next]
    BY <1>2 DEF ReadExpectedForPass
  <2> HIDE DEF found
  <2>3. next \in PassState
    BY <1>0, <2>1 DEF PassState, Reads
  <2> HIDE DEF next
  <2>4. QED  BY <1>2, <2>2, <2>3, PassUpdate DEF ReadExpectedForPass, TypeOK
<1>3. CASE ReadObservedForPass(p)
  <2> DEFINE c == pass[p].call
             found == {b \in observed :
                         /\ PlanSelected(Query(b).plan, c)
                         /\ MatchesLedgerScope(ReceiptProject(Query(b)), c.projects)}
             next == [pass[p] EXCEPT !.reads = pass[p].reads \cup {"observed"}, !.seen = found]
  <2>1. found \in SUBSET Attempts
    BY DEF TypeOK
  <2>2. pass' = [pass EXCEPT ![p] = next]
    BY <1>3 DEF ReadObservedForPass
  <2> HIDE DEF found
  <2>3. next \in PassState
    BY <1>0, <2>1 DEF PassState, Reads
  <2> HIDE DEF next
  <2>4. QED  BY <1>3, <2>2, <2>3, PassUpdate DEF ReadObservedForPass, TypeOK
<1>4. CASE EvaluateLedger(p)
  <2>1. PICK support \in SUBSET StateRefs :
          LET todo == {ReconciledStatus(p, o, support) : o \in pass[p].obligations}
          IN  \/ todo = {} /\ pass' = [pass EXCEPT ![p] = IdlePass]
              \/ \E first \in todo :
                   pass' = [pass EXCEPT ![p] = Remaining(todo, {first.requirement})]
    BY <1>4 DEF EvaluateLedger
  <2> DEFINE todo == {ReconciledStatus(p, o, support) : o \in pass[p].obligations}
  <2>2. todo \in SUBSET StatusRecord
    BY ReconciledStatusType
  <2> HIDE DEF todo
  <2>3. CASE pass' = [pass EXCEPT ![p] = IdlePass]
    BY <1>4, <2>3, RemainingType, PassUpdate DEF EvaluateLedger, TypeOK
  <2>4. ASSUME NEW first \in todo,
               pass' = [pass EXCEPT ![p] = Remaining(todo, {first.requirement})]
        PROVE  TypeOK'
    <3>1. {first.requirement} \in SUBSET Requirements
      BY <2>2 DEF StatusRecord
    <3>2. Remaining(todo, {first.requirement}) \in PassState
      BY <2>2, <3>1, RemainingType
    <3>3. QED  BY <1>4, <2>4, <3>2, PassUpdate DEF EvaluateLedger, TypeOK
  <2>5. QED  BY <2>1, <2>3, <2>4 DEF todo
<1>5. ASSUME NEW s \in pass[p].todo, UpsertReceiptReconcileStatus(p, s)
      PROVE  TypeOK'
  <2>1. Remaining(pass[p].todo \ {s}, pass[p].carrier) \in PassState
    BY <1>0, RemainingType DEF PassState
  <2>2. status' \subseteq StatusRecord
    BY <1>0, <1>5 DEF UpsertReceiptReconcileStatus, UpsertByRequirement, TypeOK, PassState
  <2>3. pass' = [pass EXCEPT ![p] = Remaining(pass[p].todo \ {s}, pass[p].carrier)]
    BY <1>5 DEF UpsertReceiptReconcileStatus
  <2>4. QED
    BY <1>5, <2>1, <2>2, <2>3, PassUpdate DEF UpsertReceiptReconcileStatus, TypeOK
<1>6. CASE PutPassEvent(p)
  <2>1. Remaining(pass[p].todo, {}) \in PassState
    BY <1>0, RemainingType DEF PassState
  <2>2. events' \subseteq Event
    BY <1>6 DEF PutPassEvent, PutEvent, TypeOK, Event
  <2>3. pass' = [pass EXCEPT ![p] = Remaining(pass[p].todo, {})]
    BY <1>6 DEF PutPassEvent
  <2>4. QED  BY <1>6, <2>1, <2>2, <2>3, PassUpdate DEF PutPassEvent, TypeOK
<1>7. CASE StopPass(p)
  BY <1>7, RemainingType, PassUpdate DEF StopPass, TypeOK
<1>8. QED
  BY <1>1, <1>2, <1>3, <1>4, <1>5, <1>6, <1>7 DEF PassStep, StartPass

(* A planner's step keeps the types.                                       *)
LEMMA PlannerStepType ==
    ASSUME TypeOK, NEW o \in Obligations, UpsertExpectedReceipt(o)
    PROVE  TypeOK'
BY DEF TypeOK, UpsertExpectedReceipt, UpsertByRequirement

(* The wrapper takes the step of the call it delegates to.                 *)
LEMMA NextCases ==
    ASSUME Next
    PROVE  \/ \E o \in Obligations : UpsertExpectedReceipt(o)
           \/ \E a \in Attempts : \/ \E q \in Calls : RecordProgramReceipt(a, q)
                                  \/ AttemptStep(a)
                                  \/ StopAttempt(a)
           \/ \E p \in Passes : StartPass(p) \/ PassStep(p) \/ StopPass(p)
BY DEF Next, SubmitAgenticOsReceipt

(* Initially nothing is stored and nobody is asked for anything.           *)
LEMMA InitType == Init => TypeOK
<1>1. IdleAttempt \in AttemptState
  BY InputAssumption DEF IdleAttempt, AttemptState
<1>2. IdlePass \in PassState
  BY RemainingType
<1>3. QED  BY <1>1, <1>2 DEF Init, TypeOK

(* The types hold always.                                                  *)
THEOREM TypeCorrect == Spec => []TypeOK
<1>1. TypeOK /\ [Next]_vars => TypeOK'
  <2> SUFFICES ASSUME TypeOK, [Next]_vars PROVE TypeOK'
    OBVIOUS
  <2>1. CASE Next
    BY <2>1, NextCases, AttemptStepType, PassStepType, PlannerStepType
  <2>2. CASE UNCHANGED vars
    BY <2>2 DEF vars, TypeOK
  <2>3. QED  BY <2>1, <2>2
<1>2. QED  BY <1>1, InitType, PTL DEF Spec

-----------------------------------------------------------------------------
(* The inductive invariant.                                                *)

(* What the steps of submissions leave alone: the others' variables.       *)
LEMMA AttemptFrame ==
    ASSUME TypeOK, NEW a \in Attempts, NEW next,
           attempt' = [attempt EXCEPT ![a] = next]
    PROVE  attempt'[a] = next /\ \A b \in Attempts \ {a} : attempt'[b] = attempt[b]
BY DEF TypeOK

(* A submission that only moves to another phase keeps the rest.           *)
LEMMA AdvanceFrame ==
    ASSUME TypeOK, NEW a \in Attempts, NEW from, NEW to, Advance(a, from, to)
    PROVE  /\ attempt[a].phase = from /\ attempt'[a].phase = to
           /\ \A b \in Attempts \ {a} : attempt'[b].phase = attempt[b].phase
           /\ \A b \in Attempts :
                /\ Query(b)' = Query(b)
                /\ attempt'[b].seen = attempt[b].seen
                /\ attempt'[b].obligations = attempt[b].obligations
                /\ attempt'[b].answer = attempt[b].answer
BY DEF Advance, TypeOK, AttemptState, Query

(* Receipts that stay, and keep their queries, back what they backed.     *)
LEMMA BackedStays ==
    ASSUME TypeOK, observed \subseteq observed',
           \A b \in observed : Query(b)' = Query(b)
    PROVE  \A s : Backed(s) => Backed(s)'
BY DEF Backed, ReceiptsFor

(* appendObservedReceipt keeps the invariant.                             *)
LEMMA AppendObservedReceiptInv ==
    ASSUME LedgerInv, NEW a \in Attempts, AppendObservedReceipt(a)
    PROVE  LedgerInv'
<1>1. TypeOK /\ TypeOK'
  BY AttemptStepType DEF LedgerInv, AttemptStep
<1>2. /\ attempt[a].phase = "appending" /\ attempt'[a].phase = "publishing"
      /\ \A b \in Attempts \ {a} : attempt'[b].phase = attempt[b].phase
      /\ \A b \in Attempts :
           /\ Query(b)' = Query(b)
           /\ attempt'[b].seen = attempt[b].seen
           /\ attempt'[b].obligations = attempt[b].obligations
           /\ attempt'[b].answer = attempt[b].answer
  BY <1>1, AdvanceFrame DEF AppendObservedReceipt
<1>3. /\ observed' = observed \cup {a}
      /\ UNCHANGED <<expected, issued, entries, status, events, pass>>
  BY DEF AppendObservedReceipt
<1>4. WritesFollowPhase'
  BY <1>2, <1>3 DEF LedgerInv, WritesFollowPhase
<1>5. LedgerWritesInOrder'
  BY <1>3 DEF LedgerInv, LedgerWritesInOrder
<1>6. SnapshotsArePast'
  BY <1>2, <1>3 DEF LedgerInv, SnapshotsArePast
<1>7. ValidatedStaysOwed'
  BY <1>1, <1>2, <1>3 DEF LedgerInv, ValidatedStaysOwed, TypeOK, AttemptState
<1>8. \A s : Backed(s) => Backed(s)'
  BY <1>1, <1>2, <1>3, BackedStays DEF TypeOK
<1>9. PendingStatusIsBacked'
  BY <1>3, <1>8 DEF LedgerInv, PendingStatusIsBacked
<1>10. StatusIsBacked'
  BY <1>3, <1>8 DEF LedgerInv, StatusIsBacked
<1>11. AcknowledgedIsDurable'
  BY <1>2, <1>3 DEF LedgerInv, AcknowledgedIsDurable
<1>12. QED
  BY <1>1, <1>4, <1>5, <1>6, <1>7, <1>9, <1>10, <1>11 DEF LedgerInv

(* So does the audit event: one event of the key replaces another.         *)
LEMMA PutReceiptEventInv ==
    ASSUME LedgerInv, NEW a \in Attempts, PutReceiptEvent(a)
    PROVE  LedgerInv'
<1>1. TypeOK /\ TypeOK'
  BY AttemptStepType DEF LedgerInv, AttemptStep
<1>2. /\ attempt[a].phase = "publishing" /\ attempt'[a].phase = "entering"
      /\ \A b \in Attempts \ {a} : attempt'[b].phase = attempt[b].phase
      /\ \A b \in Attempts :
           /\ Query(b)' = Query(b)
           /\ attempt'[b].seen = attempt[b].seen
           /\ attempt'[b].obligations = attempt[b].obligations
           /\ attempt'[b].answer = attempt[b].answer
  BY <1>1, AdvanceFrame DEF PutReceiptEvent
<1>3. /\ events' = {e \in events : e.id # Query(a).key}
                      \cup {[id |-> Query(a).key, by |-> a]}
      /\ UNCHANGED <<expected, issued, observed, entries, status, pass>>
  BY DEF PutReceiptEvent, PutEvent
<1>3a. /\ \E e \in events' : e.id = Query(a).key
       /\ \A k : (\E e \in events : e.id = k) => \E e \in events' : e.id = k
  <2> DEFINE new == [id |-> Query(a).key, by |-> a]
  <2>1. new \in events' /\ new.id = Query(a).key
    BY <1>3
  <2>2. \A e \in events : e.id # Query(a).key => e \in events'
    BY <1>3
  <2> HIDE DEF new
  <2>3. QED  BY <2>1, <2>2
<1>4. WritesFollowPhase'
  BY <1>2, <1>3, <1>3a DEF LedgerInv, WritesFollowPhase
<1>5. LedgerWritesInOrder'
  BY <1>2, <1>3 DEF LedgerInv, LedgerWritesInOrder, WritesFollowPhase
<1>6. SnapshotsArePast'
  BY <1>2, <1>3 DEF LedgerInv, SnapshotsArePast
<1>7. ValidatedStaysOwed'
  BY <1>1, <1>2, <1>3 DEF LedgerInv, ValidatedStaysOwed, TypeOK, AttemptState
<1>8. \A s : Backed(s) => Backed(s)'
  BY <1>1, <1>2, <1>3, BackedStays DEF TypeOK
<1>9. PendingStatusIsBacked'
  BY <1>3, <1>8 DEF LedgerInv, PendingStatusIsBacked
<1>10. StatusIsBacked'
  BY <1>3, <1>8 DEF LedgerInv, StatusIsBacked
<1>11. AcknowledgedIsDurable'
  BY <1>2, <1>3, <1>3a DEF LedgerInv, AcknowledgedIsDurable
<1>12. QED
  BY <1>1, <1>4, <1>5, <1>6, <1>7, <1>9, <1>10, <1>11 DEF LedgerInv

(* So does the action-ledger entry: its receipt is there.                  *)
LEMMA AppendActionLedgerEntryInv ==
    ASSUME LedgerInv, NEW a \in Attempts, AppendActionLedgerEntry(a)
    PROVE  LedgerInv'
<1>1. TypeOK /\ TypeOK'
  BY AttemptStepType DEF LedgerInv, AttemptStep
<1>2. /\ attempt[a].phase = "entering" /\ attempt'[a].phase = "settling"
      /\ \A b \in Attempts \ {a} : attempt'[b].phase = attempt[b].phase
      /\ \A b \in Attempts :
           /\ Query(b)' = Query(b)
           /\ attempt'[b].seen = attempt[b].seen
           /\ attempt'[b].obligations = attempt[b].obligations
           /\ attempt'[b].answer = attempt[b].answer
  BY <1>1, AdvanceFrame DEF AppendActionLedgerEntry
<1>3. /\ entries' = entries \cup {a}
      /\ UNCHANGED <<expected, issued, observed, status, events, pass>>
  BY DEF AppendActionLedgerEntry
<1>4. WritesFollowPhase'
  BY <1>2, <1>3 DEF LedgerInv, WritesFollowPhase
<1>5. LedgerWritesInOrder'
  BY <1>2, <1>3 DEF LedgerInv, LedgerWritesInOrder, WritesFollowPhase
<1>6. SnapshotsArePast'
  BY <1>2, <1>3 DEF LedgerInv, SnapshotsArePast
<1>7. ValidatedStaysOwed'
  BY <1>1, <1>2, <1>3 DEF LedgerInv, ValidatedStaysOwed, TypeOK, AttemptState
<1>8. \A s : Backed(s) => Backed(s)'
  BY <1>1, <1>2, <1>3, BackedStays DEF TypeOK
<1>9. PendingStatusIsBacked'
  BY <1>3, <1>8 DEF LedgerInv, PendingStatusIsBacked
<1>10. StatusIsBacked'
  BY <1>3, <1>8 DEF LedgerInv, StatusIsBacked
<1>11. AcknowledgedIsDurable'
  BY <1>2, <1>3 DEF LedgerInv, AcknowledgedIsDurable
<1>12. QED
  BY <1>1, <1>4, <1>5, <1>6, <1>7, <1>9, <1>10, <1>11 DEF LedgerInv

(* So does the status: it counts receipts that are there, its own included.*)
LEMMA SettleReceiptInv ==
    ASSUME LedgerInv, NEW a \in Attempts, SettleReceipt(a)
    PROVE  LedgerInv'
<1>1. TypeOK /\ TypeOK'
  BY AttemptStepType DEF LedgerInv, AttemptStep
<1>2. /\ attempt[a].phase = "settling" /\ attempt'[a].phase = "replying"
      /\ \A b \in Attempts \ {a} : attempt'[b].phase = attempt[b].phase
      /\ \A b \in Attempts :
           /\ Query(b)' = Query(b)
           /\ attempt'[b].seen = attempt[b].seen
           /\ attempt'[b].obligations = attempt[b].obligations
           /\ attempt'[b].answer = attempt[b].answer
  BY <1>1, AdvanceFrame DEF SettleReceipt
<1>3. /\ status' = UpsertByRequirement(status, AcceptedStatus(a))
      /\ UNCHANGED <<expected, issued, observed, entries, events, pass>>
  BY DEF SettleReceipt
<1>3a. /\ \E s \in status' : s.requirement = Query(a).requirement
       /\ \A r : (\E s \in status : s.requirement = r) =>
                    \E s \in status' : s.requirement = r
  BY <1>3 DEF UpsertByRequirement, AcceptedStatus
<1>3b. Backed(AcceptedStatus(a))
  <2>1. a \in observed /\ attempt[a].seen \subseteq observed
    BY <1>2 DEF LedgerInv, WritesFollowPhase, SnapshotsArePast
  <2>2. QED  BY <2>1 DEF Backed, AcceptedStatus, SeenReceipts, ReceiptMatches, ReceiptsFor
<1>4. WritesFollowPhase'
  BY <1>2, <1>3, <1>3a DEF LedgerInv, WritesFollowPhase
<1>5. LedgerWritesInOrder'
  BY <1>3 DEF LedgerInv, LedgerWritesInOrder
<1>6. SnapshotsArePast'
  BY <1>2, <1>3 DEF LedgerInv, SnapshotsArePast
<1>7. ValidatedStaysOwed'
  BY <1>1, <1>2, <1>3 DEF LedgerInv, ValidatedStaysOwed, TypeOK, AttemptState
<1>8. \A s : Backed(s) => Backed(s)'
  BY <1>1, <1>2, <1>3, BackedStays DEF TypeOK
<1>9. PendingStatusIsBacked'
  BY <1>3, <1>8 DEF LedgerInv, PendingStatusIsBacked
<1>10. StatusIsBacked'
  BY <1>3, <1>8, <1>3b DEF LedgerInv, StatusIsBacked, UpsertByRequirement
<1>11. AcknowledgedIsDurable'
  BY <1>2, <1>3, <1>3a DEF LedgerInv, AcknowledgedIsDurable
<1>12. QED
  BY <1>1, <1>4, <1>5, <1>6, <1>7, <1>9, <1>10, <1>11 DEF LedgerInv

(* An arriving call keeps it: an idle submission has left no trace.        *)
LEMMA RecordProgramReceiptInv ==
    ASSUME LedgerInv, NEW a \in Attempts, NEW q \in Calls, RecordProgramReceipt(a, q)
    PROVE  LedgerInv'
<1>1. TypeOK /\ TypeOK'
  BY AttemptStepType DEF LedgerInv
<1>2. /\ attempt[a].phase = "idle"
      /\ Query(a)' = q
      /\ \/ attempt'[a].phase = "reading" /\ attempt'[a].answer = "none"
         \/ attempt'[a].phase = "answered" /\ attempt'[a].answer = "blocked"
      /\ attempt'[a].seen = attempt[a].seen
      /\ attempt'[a].obligations = attempt[a].obligations
      /\ \A b \in Attempts \ {a} : attempt'[b] = attempt[b] /\ Query(b)' = Query(b)
  BY <1>1 DEF RecordProgramReceipt, TypeOK, AttemptState, Query
<1>3. UNCHANGED <<expected, issued, observed, entries, status, events, pass>>
  BY DEF RecordProgramReceipt
<1>4. a \notin observed /\ a \notin entries /\ attempt[a].obligations = {}
  BY <1>2 DEF LedgerInv, WritesFollowPhase, SnapshotsArePast
<1>5. WritesFollowPhase'
  BY <1>2, <1>3, <1>4 DEF LedgerInv, WritesFollowPhase
<1>6. LedgerWritesInOrder'
  BY <1>3 DEF LedgerInv, LedgerWritesInOrder
<1>7. SnapshotsArePast'
  BY <1>2, <1>3, <1>4 DEF LedgerInv, SnapshotsArePast
<1>8. ValidatedStaysOwed'
  <2>1. \A b \in Attempts : a \notin attempt[b].seen
    BY <1>4 DEF LedgerInv, SnapshotsArePast
  <2>2. QED
    BY <1>1, <1>2, <1>3, <1>4, <2>1
    DEF LedgerInv, ValidatedStaysOwed, TypeOK, AttemptState
<1>9. \A s : Backed(s) => Backed(s)'
  BY <1>1, <1>2, <1>3, <1>4, BackedStays DEF TypeOK
<1>10. PendingStatusIsBacked' /\ StatusIsBacked'
  BY <1>3, <1>9 DEF LedgerInv, PendingStatusIsBacked, StatusIsBacked
<1>11. AcknowledgedIsDurable'
  BY <1>2, <1>3 DEF LedgerInv, AcknowledgedIsDurable
<1>12. QED
  BY <1>1, <1>5, <1>6, <1>7, <1>8, <1>10, <1>11 DEF LedgerInv

(* A step of a submission that writes nothing to the store, keeps its      *)
(* query and moves its variables soundly keeps the invariant.              *)
LEMMA LocalStepInv ==
    ASSUME LedgerInv, TypeOK', NEW a \in Attempts,
           UNCHANGED <<expected, issued, observed, entries, status, events, pass>>,
           \A b \in Attempts \ {a} : attempt'[b] = attempt[b],
           Query(a)' = Query(a),
           attempt'[a].phase \in {"reading", "appending", "answered", "stopped"},
           attempt'[a].phase = "appending" =>
               /\ attempt[a].phase = "reading"
               /\ \E o \in issued : /\ o.requirement = Query(a).requirement
                                    /\ o.plan = Query(a).plan
                                    /\ MatchesLedgerScope(o.project, Query(a).projects)
               /\ \A b \in attempt[a].seen : ~DuplicateOf(Query(b), Query(a)),
           attempt'[a].phase \in {"reading", "appending"} => attempt[a].phase = "reading",
           a \in observed => attempt'[a].seen = attempt[a].seen,
           attempt'[a].phase = "appending" => attempt'[a].seen = attempt[a].seen,
           attempt'[a].seen \subseteq observed,
           attempt'[a].obligations \subseteq {o \in issued : ObligationMatches(o, Query(a))},
           attempt'[a].answer # "none" => attempt'[a].phase = "answered",
           attempt'[a].phase = "answered" =>
               \/ attempt[a].phase = "reading" /\ attempt'[a].answer # "accepted"
               \/ attempt[a].phase = "replying" /\ attempt'[a].answer = "accepted"
    PROVE  LedgerInv'
<1>1. \A b \in Attempts : Query(b)' = Query(b)
  BY DEF Query
<1>2. attempt'[a].phase # "answered" => attempt'[a].answer = "none"
  OBVIOUS
<1>3. attempt[a].phase = "reading" => a \notin observed /\ a \notin entries
  BY DEF LedgerInv, WritesFollowPhase
<1>4. WritesFollowPhase'
  BY <1>1, <1>2, <1>3 DEF LedgerInv, WritesFollowPhase
<1>5. LedgerWritesInOrder'
  BY DEF LedgerInv, LedgerWritesInOrder
<1>6. SnapshotsArePast'
  BY <1>1 DEF LedgerInv, SnapshotsArePast
<1>7. ValidatedStaysOwed'
  BY <1>1, <1>3 DEF LedgerInv, ValidatedStaysOwed, TypeOK, AttemptState
<1>8. \A s : Backed(s) => Backed(s)'
  BY <1>1, BackedStays DEF LedgerInv, TypeOK
<1>9. PendingStatusIsBacked' /\ StatusIsBacked'
  BY <1>8 DEF LedgerInv, PendingStatusIsBacked, StatusIsBacked
<1>10. AcknowledgedIsDurable'
  BY <1>1, <1>2 DEF LedgerInv, AcknowledgedIsDurable, WritesFollowPhase
<1>11. QED
  BY <1>4, <1>5, <1>6, <1>7, <1>9, <1>10 DEF LedgerInv

LEMMA ReadExpectedInv ==
    ASSUME LedgerInv, NEW a \in Attempts, ReadExpected(a)
    PROVE  LedgerInv'
<1>1. TypeOK /\ TypeOK'
  BY AttemptStepType DEF LedgerInv, AttemptStep
<1> DEFINE found == {o \in expected : ObligationMatches(o, Query(a))}
<1>2. /\ attempt[a].phase = "reading"
      /\ attempt' = [attempt EXCEPT ![a] = [@ EXCEPT
             !.reads = attempt[a].reads \cup {"expected"}, !.obligations = found]]
      /\ UNCHANGED <<expected, issued, observed, entries, status, events, pass>>
  BY DEF ReadExpected
<1>3. found \subseteq {o \in issued : ObligationMatches(o, Query(a))}
  BY DEF LedgerInv, SnapshotsArePast
<1> HIDE DEF found
<1>4. /\ attempt'[a].phase = "reading"
      /\ attempt'[a].seen = attempt[a].seen
      /\ attempt'[a].answer = attempt[a].answer
      /\ attempt'[a].obligations = found
      /\ Query(a)' = Query(a)
      /\ \A b \in Attempts \ {a} : attempt'[b] = attempt[b]
  BY <1>1, <1>2 DEF TypeOK, AttemptState, Query
<1>5. attempt[a].answer = "none" /\ attempt[a].seen \subseteq observed
  BY <1>2 DEF LedgerInv, WritesFollowPhase, SnapshotsArePast
<1>6. QED  BY <1>1, <1>2, <1>3, <1>4, <1>5, LocalStepInv

LEMMA ReadObservedInv ==
    ASSUME LedgerInv, NEW a \in Attempts, ReadObserved(a)
    PROVE  LedgerInv'
<1>1. TypeOK /\ TypeOK'
  BY AttemptStepType DEF LedgerInv, AttemptStep
<1>2. /\ attempt[a].phase = "reading"
      /\ attempt'[a].phase = "reading"
      /\ attempt'[a].seen = observed
      /\ attempt'[a].answer = attempt[a].answer
      /\ attempt'[a].obligations = attempt[a].obligations
      /\ Query(a)' = Query(a)
      /\ \A b \in Attempts \ {a} : attempt'[b] = attempt[b]
  BY <1>1 DEF ReadObserved, TypeOK, AttemptState, Query
<1>3. /\ attempt[a].answer = "none" /\ a \notin observed
      /\ attempt[a].obligations \subseteq {o \in issued : ObligationMatches(o, Query(a))}
  BY <1>2 DEF LedgerInv, WritesFollowPhase, SnapshotsArePast
<1>4. UNCHANGED <<expected, issued, observed, entries, status, events, pass>>
  BY DEF ReadObserved
<1>5. QED  BY <1>1, <1>2, <1>3, <1>4, LocalStepInv

(* An accepted call was owed by what it read, which had been persisted,    *)
(* and repeats nothing it read.                                            *)
LEMMA ValidateReceiptInv ==
    ASSUME LedgerInv, NEW a \in Attempts, ValidateReceipt(a)
    PROVE  LedgerInv'
<1>1. TypeOK /\ TypeOK'
  BY AttemptStepType DEF LedgerInv, AttemptStep
<1> DEFINE receipts == {Query(b) : b \in SeenReceipts(a)}
           verdict == ReceiptVerdict(Query(a), attempt[a].obligations, receipts)
<1>2. /\ verdict \in {"accepted", "duplicate", "rejected"}
      /\ verdict = "accepted" =>
            /\ attempt[a].obligations # {}
            /\ \A o \in attempt[a].obligations : o.plan = Query(a).plan
            /\ \A r \in receipts : ~DuplicateOf(r, Query(a))
  BY AcceptedVerdict
<1>3. /\ attempt[a].phase = "reading"
      /\ attempt' = [attempt EXCEPT ![a] = [@ EXCEPT
               !.phase = IF verdict = "accepted" THEN "appending" ELSE "answered",
               !.answer = IF verdict = "accepted" THEN "none" ELSE verdict]]
      /\ UNCHANGED <<expected, issued, observed, entries, status, events, pass>>
  BY DEF ValidateReceipt
<1>4. \A b \in attempt[a].seen :
         ~DuplicateOf(Query(b), Query(a)) \/ Query(b) \in receipts
  BY DEF DuplicateOf, SeenReceipts
<1> HIDE DEF verdict, receipts
<1>5. /\ attempt'[a].phase = (IF verdict = "accepted" THEN "appending" ELSE "answered")
      /\ attempt'[a].answer = (IF verdict = "accepted" THEN "none" ELSE verdict)
      /\ attempt'[a].seen = attempt[a].seen
      /\ attempt'[a].obligations = attempt[a].obligations
      /\ Query(a)' = Query(a)
      /\ \A b \in Attempts \ {a} : attempt'[b] = attempt[b]
  BY <1>1, <1>3 DEF TypeOK, AttemptState, Query
<1>6. /\ attempt[a].seen \subseteq observed
      /\ attempt[a].obligations \subseteq {o \in issued : ObligationMatches(o, Query(a))}
  BY DEF LedgerInv, SnapshotsArePast
<1>7. ASSUME verdict = "accepted"
      PROVE  \E o \in issued : /\ o.requirement = Query(a).requirement
                               /\ o.plan = Query(a).plan
                               /\ MatchesLedgerScope(o.project, Query(a).projects)
  BY <1>2, <1>6, <1>7 DEF ObligationMatches
<1>8. verdict = "accepted" => \A b \in attempt[a].seen : ~DuplicateOf(Query(b), Query(a))
  BY <1>2, <1>4
<1>9. QED
  BY <1>1, <1>2, <1>3, <1>5, <1>6, <1>7, <1>8, LocalStepInv

LEMMA AcceptReceiptInv ==
    ASSUME LedgerInv, NEW a \in Attempts, AcceptReceipt(a)
    PROVE  LedgerInv'
<1>1. TypeOK /\ TypeOK'
  BY AttemptStepType DEF LedgerInv, AttemptStep
<1>2. /\ attempt[a].phase = "replying"
      /\ attempt'[a].phase = "answered"
      /\ attempt'[a].answer = "accepted"
      /\ attempt'[a].seen = attempt[a].seen
      /\ attempt'[a].obligations = attempt[a].obligations
      /\ Query(a)' = Query(a)
      /\ \A b \in Attempts \ {a} : attempt'[b] = attempt[b]
  BY <1>1 DEF AcceptReceipt, TypeOK, AttemptState, Query
<1>3. /\ attempt[a].seen \subseteq observed
      /\ attempt[a].obligations \subseteq {o \in issued : ObligationMatches(o, Query(a))}
  BY DEF LedgerInv, SnapshotsArePast
<1>4. UNCHANGED <<expected, issued, observed, entries, status, events, pass>>
  BY DEF AcceptReceipt
<1>5. QED  BY <1>1, <1>2, <1>3, <1>4, LocalStepInv

LEMMA StopAttemptInv ==
    ASSUME LedgerInv, NEW a \in Attempts, StopAttempt(a)
    PROVE  LedgerInv'
<1>1. TypeOK /\ TypeOK'
  BY AttemptStepType DEF LedgerInv
<1>2. /\ attempt[a].phase # "answered"
      /\ attempt'[a].phase = "stopped"
      /\ attempt'[a].answer = attempt[a].answer
      /\ attempt'[a].seen = attempt[a].seen
      /\ attempt'[a].obligations = attempt[a].obligations
      /\ Query(a)' = Query(a)
      /\ \A b \in Attempts \ {a} : attempt'[b] = attempt[b]
  BY <1>1 DEF StopAttempt, Busy, TypeOK, AttemptState, Query
<1>3. /\ attempt[a].answer = "none"
      /\ attempt[a].seen \subseteq observed
      /\ attempt[a].obligations \subseteq {o \in issued : ObligationMatches(o, Query(a))}
  BY <1>2 DEF LedgerInv, WritesFollowPhase, SnapshotsArePast
<1>4. UNCHANGED <<expected, issued, observed, entries, status, events, pass>>
  BY DEF StopAttempt
<1>5. QED  BY <1>1, <1>2, <1>3, <1>4, LocalStepInv

(* A replaced obligation stays among those the store once held.            *)
LEMMA UpsertExpectedReceiptInv ==
    ASSUME LedgerInv, NEW o \in Obligations, UpsertExpectedReceipt(o)
    PROVE  LedgerInv'
<1>1. TypeOK /\ TypeOK'
  BY PlannerStepType DEF LedgerInv
<1>2. /\ expected' \subseteq expected \cup {o}
      /\ issued' = issued \cup {o}
      /\ UNCHANGED <<observed, entries, status, events, attempt, pass>>
  BY DEF UpsertExpectedReceipt, UpsertByRequirement
<1>3. WritesFollowPhase'
  BY <1>2 DEF LedgerInv, WritesFollowPhase, Query
<1>4. LedgerWritesInOrder'
  BY <1>2 DEF LedgerInv, LedgerWritesInOrder
<1>5. SnapshotsArePast'
  BY <1>2 DEF LedgerInv, SnapshotsArePast, Query
<1>6. ValidatedStaysOwed'
  BY <1>2 DEF LedgerInv, ValidatedStaysOwed, Query
<1>7. \A s : Backed(s) => Backed(s)'
  BY <1>1, <1>2, BackedStays DEF Query
<1>8. PendingStatusIsBacked' /\ StatusIsBacked'
  BY <1>2, <1>7 DEF LedgerInv, PendingStatusIsBacked, StatusIsBacked
<1>9. AcknowledgedIsDurable'
  BY <1>2 DEF LedgerInv, AcknowledgedIsDurable, Query
<1>10. QED
  BY <1>1, <1>3, <1>4, <1>5, <1>6, <1>8, <1>9 DEF LedgerInv

-----------------------------------------------------------------------------
(* What a pass leaves alone, and what it must keep.                        *)

(* A pass touches no receipt, no submission and no obligation; the status  *)
(* it may replace is as well backed, and the event it may put is its own.  *)
LEMMA PassFrameInv ==
    ASSUME LedgerInv, TypeOK', NEW p \in Passes,
           UNCHANGED <<expected, issued, observed, entries, attempt>>,
           \A r : (\E s \in status : s.requirement = r) =>
                     \E s \in status' : s.requirement = r,
           \A s \in status' : s \in status \/ Backed(s),
           \A e \in events : e \in events' \/ e.id = p,
           \A e \in events' : e \in events \/ e.by = p,
           \A x \in Passes \ {p} : pass'[x] = pass[x],
           pass'[p].seen \subseteq observed,
           \A s \in pass'[p].todo : Backed(s)
    PROVE  LedgerInv'
<1>1. \A a \in Attempts : Query(a)' = Query(a) /\ Query(a).key # p
  BY QueryType, IdentityAssumption DEF Query, LedgerInv
<1>2. \A a \in Attempts : (\E e \in events : e.id = Query(a).key) =>
                             \E e \in events' : e.id = Query(a)'.key
  BY <1>1
<1>3. WritesFollowPhase'
  BY <1>1, <1>2 DEF LedgerInv, WritesFollowPhase
<1>4. LedgerWritesInOrder'
  BY IdentityAssumption DEF LedgerInv, LedgerWritesInOrder
<1>5. SnapshotsArePast'
  BY <1>1 DEF LedgerInv, SnapshotsArePast
<1>6. ValidatedStaysOwed'
  BY <1>1 DEF LedgerInv, ValidatedStaysOwed, TypeOK, AttemptState
<1>7. \A s : Backed(s) => Backed(s)'
  BY <1>1, BackedStays DEF LedgerInv, TypeOK
<1>8. PendingStatusIsBacked'
  BY <1>7 DEF LedgerInv, PendingStatusIsBacked
<1>9. StatusIsBacked'
  BY <1>7 DEF LedgerInv, StatusIsBacked
<1>10. AcknowledgedIsDurable'
  BY <1>1, <1>2 DEF LedgerInv, AcknowledgedIsDurable
<1>11. QED
  BY <1>3, <1>4, <1>5, <1>6, <1>8, <1>9, <1>10 DEF LedgerInv

(* A pass with no reads back has seen nothing, and has nothing to write    *)
(* but what remains.                                                       *)
LEMMA RemainingFields ==
    ASSUME NEW todo, NEW carrier
    PROVE  /\ IdlePass.seen = {} /\ IdlePass.todo = {}
           /\ Remaining(todo, carrier).seen = {}
           /\ Remaining(todo, carrier).todo = todo
           /\ \A c : LET next == [IdlePass EXCEPT !.phase = "reading", !.call = c]
                      IN  next.seen = {} /\ next.todo = {}
           /\ LET next == [IdlePass EXCEPT !.phase = "stopped"]
              IN  next.seen = {} /\ next.todo = {}
BY DEF Remaining, IdlePass

(* What a pass reports is backed: the receipts it counts were there when   *)
(* it read them, and still are.                                            *)
LEMMA ReconciledStatusBacked ==
    ASSUME LedgerInv, NEW p \in Passes, NEW o, NEW support
    PROVE  Backed(ReconciledStatus(p, o, support))
<1> DEFINE receipts == {b \in pass[p].seen : Query(b).requirement = o.requirement}
           s == ReconciledStatus(p, o, support)
           c == pass[p].call
           verdict == ReconcileVerdict(o, {Query(b) : b \in receipts}, support,
                                       c.asOf, c.lostAfter)
<1>1. s.counted = receipts /\ s.requirement = o.requirement /\ s.status = verdict
  BY DEF ReconciledStatus
<1>2. receipts \subseteq ReceiptsFor(o.requirement)
  BY DEF LedgerInv, SnapshotsArePast, ReceiptsFor
<1>3. verdict = "satisfied" => {Query(b) : b \in receipts} # {}
  BY SatisfiedVerdict
<1>4. {Query(b) : b \in receipts} # {} => receipts # {}
  OBVIOUS
<1> HIDE DEF receipts, s, verdict
<1>5. Backed(s)
  BY <1>1, <1>2, <1>3, <1>4 DEF Backed
<1>6. QED  BY <1>5 DEF s

LEMMA PassStepInv ==
    ASSUME LedgerInv, NEW p \in Passes, StartPass(p) \/ PassStep(p) \/ StopPass(p)
    PROVE  LedgerInv'
<1>0. /\ TypeOK /\ TypeOK'
      /\ pass[p].seen \subseteq observed
      /\ \A s \in pass[p].todo : Backed(s)
  BY PassStepType DEF LedgerInv, SnapshotsArePast, PendingStatusIsBacked
<1>1. ASSUME NEW c \in PassCalls, ReconcileProgramState(p, c)
      PROVE  LedgerInv'
  <2>1. /\ pass'[p].seen = {} /\ pass'[p].todo = {}
        /\ \A x \in Passes \ {p} : pass'[x] = pass[x]
    BY <1>0, <1>1, RemainingFields DEF ReconcileProgramState, TypeOK
  <2>2. QED  BY <1>0, <1>1, <2>1, PassFrameInv DEF ReconcileProgramState
<1>2. CASE ReadExpectedForPass(p)
  <2> DEFINE c == pass[p].call
             found == {o \in expected : /\ o.requirement \in c.targets
                                        /\ PlanSelected(o.plan, c)
                                        /\ MatchesLedgerScope(o.project, c.projects)}
  <2>1. pass' = [pass EXCEPT ![p] = [@ EXCEPT
             !.reads = pass[p].reads \cup {"expected"}, !.obligations = found]]
    BY <1>2 DEF ReadExpectedForPass
  <2> HIDE DEF found
  <2>2. /\ pass'[p].seen = pass[p].seen /\ pass'[p].todo = pass[p].todo
        /\ \A x \in Passes \ {p} : pass'[x] = pass[x]
    BY <1>0, <2>1 DEF TypeOK, PassState
  <2>3. UNCHANGED <<expected, issued, observed, entries, status, events, attempt>>
    BY <1>2 DEF ReadExpectedForPass
  <2>4. QED  BY <1>0, <2>2, <2>3, PassFrameInv
<1>3. CASE ReadObservedForPass(p)
  <2> DEFINE c == pass[p].call
             found == {b \in observed :
                         /\ PlanSelected(Query(b).plan, c)
                         /\ MatchesLedgerScope(ReceiptProject(Query(b)), c.projects)}
  <2>1. pass' = [pass EXCEPT ![p] = [@ EXCEPT
             !.reads = pass[p].reads \cup {"observed"}, !.seen = found]]
    BY <1>3 DEF ReadObservedForPass
  <2>2. found \subseteq observed
    OBVIOUS
  <2> HIDE DEF found
  <2>3. /\ pass'[p].seen = found /\ pass'[p].todo = pass[p].todo
        /\ \A x \in Passes \ {p} : pass'[x] = pass[x]
    BY <1>0, <2>1 DEF TypeOK, PassState
  <2>4. UNCHANGED <<expected, issued, observed, entries, status, events, attempt>>
    BY <1>3 DEF ReadObservedForPass
  <2>5. QED  BY <1>0, <2>2, <2>3, <2>4, PassFrameInv
<1>4. CASE EvaluateLedger(p)
  <2>1. PICK support \in SUBSET StateRefs :
          LET todo == {ReconciledStatus(p, o, support) : o \in pass[p].obligations}
          IN  \/ todo = {} /\ pass' = [pass EXCEPT ![p] = IdlePass]
              \/ \E first \in todo :
                   pass' = [pass EXCEPT ![p] = Remaining(todo, {first.requirement})]
    BY <1>4 DEF EvaluateLedger
  <2> DEFINE todo == {ReconciledStatus(p, o, support) : o \in pass[p].obligations}
  <2>2. \A s \in todo : Backed(s)
    BY ReconciledStatusBacked
  <2> HIDE DEF todo
  <2>3. \/ pass' = [pass EXCEPT ![p] = IdlePass]
        \/ \E first \in todo :
             pass' = [pass EXCEPT ![p] = Remaining(todo, {first.requirement})]
    BY <2>1 DEF todo
  <2>4. UNCHANGED <<expected, issued, observed, entries, status, events, attempt>>
    BY <1>4 DEF EvaluateLedger
  <2>5. ASSUME pass' = [pass EXCEPT ![p] = IdlePass]
        PROVE  LedgerInv'
    <3>1. /\ pass'[p].seen = {} /\ pass'[p].todo = {}
          /\ \A x \in Passes \ {p} : pass'[x] = pass[x]
      BY <1>0, <2>5, RemainingFields DEF TypeOK
    <3>2. QED  BY <1>0, <2>4, <3>1, PassFrameInv
  <2>6. ASSUME NEW first \in todo,
               pass' = [pass EXCEPT ![p] = Remaining(todo, {first.requirement})]
        PROVE  LedgerInv'
    <3>1. /\ pass'[p].seen = {} /\ pass'[p].todo = todo
          /\ \A x \in Passes \ {p} : pass'[x] = pass[x]
      BY <1>0, <2>6, RemainingFields DEF TypeOK
    <3>2. QED  BY <1>0, <2>2, <2>4, <3>1, PassFrameInv
  <2>7. QED  BY <2>3, <2>5, <2>6
<1>5. ASSUME NEW s \in pass[p].todo, UpsertReceiptReconcileStatus(p, s)
      PROVE  LedgerInv'
  <2>1. /\ status' = UpsertByRequirement(status, s)
        /\ pass' = [pass EXCEPT ![p] = Remaining(pass[p].todo \ {s}, pass[p].carrier)]
        /\ UNCHANGED <<expected, issued, observed, entries, events, attempt>>
    BY <1>5 DEF UpsertReceiptReconcileStatus
  <2>2. /\ \A x \in status' : x \in status \/ x = s
        /\ \A r : (\E x \in status : x.requirement = r) =>
                     \E x \in status' : x.requirement = r
    BY <2>1 DEF UpsertByRequirement
  <2>3. /\ pass'[p].seen = {} /\ pass'[p].todo = pass[p].todo \ {s}
        /\ \A x \in Passes \ {p} : pass'[x] = pass[x]
    BY <1>0, <2>1, RemainingFields DEF TypeOK
  <2>4. QED  BY <1>0, <1>5, <2>1, <2>2, <2>3, PassFrameInv
<1>6. CASE PutPassEvent(p)
  <2>1. /\ events' = {e \in events : e.id # p} \cup {[id |-> p, by |-> p]}
        /\ pass' = [pass EXCEPT ![p] = Remaining(pass[p].todo, {})]
        /\ UNCHANGED <<expected, issued, observed, entries, status, attempt>>
    BY <1>6 DEF PutPassEvent, PutEvent
  <2>2. /\ \A e \in events : e \in events' \/ e.id = p
        /\ \A e \in events' : e \in events \/ e.by = p
    BY <2>1
  <2>3. /\ pass'[p].seen = {} /\ pass'[p].todo = pass[p].todo
        /\ \A x \in Passes \ {p} : pass'[x] = pass[x]
    BY <1>0, <2>1, RemainingFields DEF TypeOK
  <2>4. QED  BY <1>0, <2>1, <2>2, <2>3, PassFrameInv
<1>7. CASE StopPass(p)
  <2>1. /\ pass'[p].seen = {} /\ pass'[p].todo = {}
        /\ \A x \in Passes \ {p} : pass'[x] = pass[x]
    BY <1>0, <1>7, RemainingFields DEF StopPass, TypeOK
  <2>2. UNCHANGED <<expected, issued, observed, entries, status, events, attempt>>
    BY <1>7 DEF StopPass
  <2>3. QED  BY <1>0, <2>1, <2>2, PassFrameInv
<1>8. QED
  BY <1>1, <1>2, <1>3, <1>4, <1>5, <1>6, <1>7 DEF PassStep, StartPass

LEMMA InitInv == Init => LedgerInv
<1> SUFFICES ASSUME Init PROVE LedgerInv
  OBVIOUS
<1>1. \A a \in Attempts : /\ attempt[a].phase = "idle" /\ attempt[a].answer = "none"
                          /\ attempt[a].seen = {} /\ attempt[a].obligations = {}
  BY DEF Init, IdleAttempt
<1>2. \A p \in Passes : pass[p].seen = {} /\ pass[p].todo = {}
  BY DEF Init, IdlePass
<1>3. WritesFollowPhase /\ LedgerWritesInOrder /\ SnapshotsArePast
  BY <1>1, <1>2 DEF Init, WritesFollowPhase, LedgerWritesInOrder, SnapshotsArePast
<1>4. ValidatedStaysOwed /\ PendingStatusIsBacked /\ StatusIsBacked
  BY <1>1, <1>2 DEF Init, ValidatedStaysOwed, PendingStatusIsBacked, StatusIsBacked
<1>5. AcknowledgedIsDurable
  BY <1>1 DEF AcknowledgedIsDurable
<1>6. QED  BY <1>3, <1>4, <1>5, InitType DEF LedgerInv

LEMMA StepInv == LedgerInv /\ [Next]_vars => LedgerInv'
<1> SUFFICES ASSUME LedgerInv, [Next]_vars PROVE LedgerInv'
  OBVIOUS
<1>1. ASSUME NEW o \in Obligations, UpsertExpectedReceipt(o) PROVE LedgerInv'
  BY <1>1, UpsertExpectedReceiptInv
<1>2. ASSUME NEW a \in Attempts, NEW q \in Calls, RecordProgramReceipt(a, q)
      PROVE  LedgerInv'
  BY <1>2, RecordProgramReceiptInv
<1>3. ASSUME NEW a \in Attempts, AttemptStep(a) PROVE LedgerInv'
  BY <1>3, ReadExpectedInv, ReadObservedInv, ValidateReceiptInv,
     AppendObservedReceiptInv, PutReceiptEventInv, AppendActionLedgerEntryInv,
     SettleReceiptInv, AcceptReceiptInv
  DEF AttemptStep
<1>4. ASSUME NEW a \in Attempts, StopAttempt(a) PROVE LedgerInv'
  BY <1>4, StopAttemptInv
<1>5. ASSUME NEW p \in Passes, StartPass(p) \/ PassStep(p) \/ StopPass(p)
      PROVE  LedgerInv'
  BY <1>5, PassStepInv
<1>6. CASE UNCHANGED vars
  BY <1>6
  DEF vars, LedgerInv, TypeOK, WritesFollowPhase, LedgerWritesInOrder, SnapshotsArePast,
      ValidatedStaysOwed, PendingStatusIsBacked, StatusIsBacked, Backed, ReceiptsFor,
      AcknowledgedIsDurable, Query
<1>7. QED
  BY <1>1, <1>2, <1>3, <1>4, <1>5, <1>6, NextCases

(* The invariant holds always.                                             *)
THEOREM LedgerCorrect == Spec => []LedgerInv
BY InitInv, StepInv, PTL DEF Spec

(* Whoever wrote a reconcile status last, with whatever it had read, the   *)
(* status counts only receipts that are in the store.                      *)
THEOREM StatusesBacked == Spec => []StatusIsBacked
<1>1. LedgerInv => StatusIsBacked
  BY DEF LedgerInv
<1>2. QED  BY <1>1, LedgerCorrect, PTL

(* Every receipt in the ledger answers an obligation that was persisted,   *)
(* for the plan it names and in a scope it belongs to.                     *)
THEOREM ReceiptsOwed == Spec => []ReceiptWasOwed
<1>1. LedgerInv => ReceiptWasOwed
  BY DEF LedgerInv, ValidatedStaysOwed, TypeOK, ReceiptWasOwed
<1>2. QED  BY <1>1, LedgerCorrect, PTL

(* Two receipts repeat each other only if neither submission could have    *)
(* seen the other: the duplicate check misses nothing it could see.        *)
THEOREM DuplicatesUnseen == Spec => []DuplicateOnlyUnseen
<1>1. LedgerInv => DuplicateOnlyUnseen
  BY DEF LedgerInv, ValidatedStaysOwed, TypeOK, DuplicateOnlyUnseen
<1>2. QED  BY <1>1, LedgerCorrect, PTL

(* A submission that was not accepted left no receipt, no entry, no event  *)
(* and no count in a status.                                               *)
THEOREM RefusalsLeaveNoTrace == Spec => []BlockedLeavesNoTrace
<1>1. LedgerInv => BlockedLeavesNoTrace
  <2> SUFFICES ASSUME LedgerInv, NEW a \in Attempts,
                      attempt[a].phase = "answered", attempt[a].answer # "accepted"
               PROVE  /\ a \notin observed \cup entries
                      /\ \A e \in events : e.by # a
                      /\ \A s \in status : a \notin s.counted
    BY DEF BlockedLeavesNoTrace
  <2>1. a \notin observed
    BY DEF LedgerInv, WritesFollowPhase
  <2>2. a \notin entries /\ \A e \in events : e.by # a
    BY <2>1 DEF LedgerInv, LedgerWritesInOrder
  <2>3. \A s \in status : a \notin s.counted
    BY <2>1 DEF LedgerInv, StatusIsBacked, Backed, ReceiptsFor
  <2>4. QED  BY <2>1, <2>2, <2>3
<1>2. QED  BY <1>1, LedgerCorrect, PTL

(* An accepted submission has its receipt, its entry, an event under its   *)
(* key and a status for its requirement in the store, from then on.        *)
THEOREM AcknowledgementsDurable == Spec => []AcknowledgedIsDurable
<1>1. LedgerInv => AcknowledgedIsDurable
  BY DEF LedgerInv
<1>2. QED  BY <1>1, LedgerCorrect, PTL

-----------------------------------------------------------------------------
(* The promise to submitters.                                              *)

(* A step that moves the phase of one submission and writes nothing takes  *)
(* a step of the promise if it concludes the submission, none if not.      *)
LEMMA ConcludingStep ==
    ASSUME TypeOK, NEW a \in Attempts, UNCHANGED <<observed, entries>>,
           \A b \in Attempts \ {a} : Outcome(b)' = Outcome(b),
           \/ Outcome(a)' = Outcome(a)
           \/ /\ Outcome(a) = "pending"
              /\ \/ Outcome(a)' = "unknown"
                 \/ Outcome(a)' = "refused" /\ a \notin observed
                 \/ Outcome(a)' = "accepted" /\ a \in entries
    PROVE  [Durable!Next]_(Durable!vars)
<1> DEFINE outcome == [b \in Attempts |-> Outcome(b)]
<1>1. CASE Outcome(a)' = Outcome(a)
  <2>1. outcome' = outcome
    BY <1>1
  <2>2. QED  BY <2>1 DEF Durable!vars
<1>2. CASE Outcome(a) = "pending" /\ Outcome(a)' \in {"unknown", "refused", "accepted"}
  <2>1. outcome[a] = "pending" /\ outcome' = [outcome EXCEPT ![a] = Outcome(a)']
    BY <1>2
  <2>2. Durable!Conclude(a, Outcome(a)')
    BY <2>1 DEF Durable!Conclude
  <2>3. Durable!LoseContact(a) \/ Durable!Refuse(a) \/ Durable!Acknowledge(a)
    BY <1>2, <2>2 DEF Durable!LoseContact, Durable!Refuse, Durable!Acknowledge
  <2>4. QED  BY <2>3 DEF Durable!Next
<1>3. QED  BY <1>1, <1>2

(* A step that stores something concludes nothing.                         *)
LEMMA StoringStep ==
    ASSUME TypeOK, NEW a \in Attempts, Outcome(a) = "pending",
           \A b \in Attempts : Outcome(b)' = Outcome(b),
           \/ a \notin observed /\ observed' = observed \cup {a} /\ entries' = entries
           \/ a \in observed \ entries /\ entries' = entries \cup {a} /\ observed' = observed
    PROVE  [Durable!Next]_(Durable!vars)
<1> DEFINE outcome == [b \in Attempts |-> Outcome(b)]
<1>1. outcome' = outcome /\ outcome[a] = "pending"
  OBVIOUS
<1>2. Durable!Record(a) \/ Durable!Book(a)
  BY <1>1 DEF Durable!Record, Durable!Book
<1>3. QED  BY <1>2 DEF Durable!Next

(* Every step of the ledger is a step of the promise, or none.             *)
LEMMA DurableStep ==
    ASSUME LedgerInv, [Next]_vars
    PROVE  [Durable!Next]_(Durable!vars)
<1>0. TypeOK
  BY DEF LedgerInv
<1>1. ASSUME UNCHANGED <<observed, entries, attempt>>
      PROVE  [Durable!Next]_(Durable!vars)
  <2>1. \A b \in Attempts : Outcome(b)' = Outcome(b)
    BY <1>1 DEF Outcome
  <2>2. [b \in Attempts |-> Outcome(b)]' = [b \in Attempts |-> Outcome(b)]
    BY <2>1
  <2>3. QED  BY <1>1, <2>2 DEF Durable!vars
<1>2. ASSUME NEW a \in Attempts, NEW q \in Calls, RecordProgramReceipt(a, q)
      PROVE  [Durable!Next]_(Durable!vars)
  <2>1. /\ attempt[a].phase = "idle"
        /\ \/ attempt'[a].phase = "reading"
           \/ attempt'[a].phase = "answered" /\ attempt'[a].answer = "blocked"
        /\ \A b \in Attempts \ {a} : attempt'[b] = attempt[b]
        /\ UNCHANGED <<observed, entries>>
    BY <1>0, <1>2 DEF RecordProgramReceipt, TypeOK, AttemptState
  <2>2. a \notin observed
    BY <2>1 DEF LedgerInv, WritesFollowPhase
  <2>3. QED  BY <1>0, <2>1, <2>2, ConcludingStep DEF Outcome
<1>3. ASSUME NEW a \in Attempts, ReadExpected(a) \/ ReadObserved(a)
      PROVE  [Durable!Next]_(Durable!vars)
  <2>1. /\ attempt[a].phase = "reading" /\ attempt'[a].phase = "reading"
        /\ \A b \in Attempts \ {a} : attempt'[b] = attempt[b]
        /\ UNCHANGED <<observed, entries>>
    BY <1>0, <1>3 DEF ReadExpected, ReadObserved, TypeOK, AttemptState
  <2>2. QED  BY <1>0, <2>1, ConcludingStep DEF Outcome
<1>4. ASSUME NEW a \in Attempts, ValidateReceipt(a)
      PROVE  [Durable!Next]_(Durable!vars)
  <2> DEFINE verdict == ReceiptVerdict(Query(a), attempt[a].obligations,
                                       {Query(b) : b \in SeenReceipts(a)})
  <2>1. verdict \in {"accepted", "duplicate", "rejected"}
    BY AcceptedVerdict
  <2>2. /\ attempt[a].phase = "reading"
        /\ attempt' = [attempt EXCEPT ![a] = [@ EXCEPT
                 !.phase = IF verdict = "accepted" THEN "appending" ELSE "answered",
                 !.answer = IF verdict = "accepted" THEN "none" ELSE verdict]]
        /\ UNCHANGED <<observed, entries>>
    BY <1>4 DEF ValidateReceipt
  <2> HIDE DEF verdict
  <2>3. /\ \/ attempt'[a].phase = "appending"
           \/ attempt'[a].phase = "answered" /\ attempt'[a].answer # "accepted"
        /\ \A b \in Attempts \ {a} : attempt'[b] = attempt[b]
    BY <1>0, <2>1, <2>2 DEF TypeOK, AttemptState
  <2>4. a \notin observed
    BY <2>2 DEF LedgerInv, WritesFollowPhase
  <2>5. QED  BY <1>0, <2>2, <2>3, <2>4, ConcludingStep DEF Outcome
<1>5. ASSUME NEW a \in Attempts, AppendObservedReceipt(a)
      PROVE  [Durable!Next]_(Durable!vars)
  <2>1. /\ attempt[a].phase = "appending" /\ a \notin observed
        /\ attempt' = [attempt EXCEPT ![a].phase = "publishing"]
        /\ observed' = observed \cup {a} /\ entries' = entries
    BY <1>5 DEF AppendObservedReceipt, Advance, LedgerInv, WritesFollowPhase
  <2>2. /\ Outcome(a) = "pending"
        /\ \A b \in Attempts : Outcome(b)' = Outcome(b)
    BY <1>0, <2>1 DEF Outcome, TypeOK, AttemptState
  <2>3. QED  BY <1>0, <2>1, <2>2, StoringStep
<1>6. ASSUME NEW a \in Attempts, PutReceiptEvent(a) \/ SettleReceipt(a)
      PROVE  [Durable!Next]_(Durable!vars)
  <2>1. /\ attempt[a].phase \in {"publishing", "settling"}
        /\ attempt'[a].phase \in {"entering", "replying"}
        /\ \A b \in Attempts \ {a} : attempt'[b] = attempt[b]
        /\ UNCHANGED <<observed, entries>>
    BY <1>0, <1>6 DEF PutReceiptEvent, SettleReceipt, Advance, TypeOK, AttemptState
  <2>2. QED  BY <1>0, <2>1, ConcludingStep DEF Outcome
<1>7. ASSUME NEW a \in Attempts, AppendActionLedgerEntry(a)
      PROVE  [Durable!Next]_(Durable!vars)
  <2>1. /\ attempt[a].phase = "entering" /\ a \in observed \ entries
        /\ attempt' = [attempt EXCEPT ![a].phase = "settling"]
        /\ entries' = entries \cup {a} /\ observed' = observed
    BY <1>7 DEF AppendActionLedgerEntry, Advance, LedgerInv, WritesFollowPhase
  <2>2. /\ Outcome(a) = "pending"
        /\ \A b \in Attempts : Outcome(b)' = Outcome(b)
    BY <1>0, <2>1 DEF Outcome, TypeOK, AttemptState
  <2>3. QED  BY <1>0, <2>1, <2>2, StoringStep
<1>8. ASSUME NEW a \in Attempts, AcceptReceipt(a)
      PROVE  [Durable!Next]_(Durable!vars)
  <2>1. /\ attempt[a].phase = "replying" /\ a \in entries
        /\ attempt'[a].phase = "answered" /\ attempt'[a].answer = "accepted"
        /\ \A b \in Attempts \ {a} : attempt'[b] = attempt[b]
        /\ UNCHANGED <<observed, entries>>
    BY <1>0, <1>8
    DEF AcceptReceipt, TypeOK, AttemptState, LedgerInv, WritesFollowPhase
  <2>2. QED  BY <1>0, <2>1, ConcludingStep DEF Outcome
<1>8a. ASSUME NEW a \in Attempts, StopAttempt(a)
       PROVE  [Durable!Next]_(Durable!vars)
  <2>1. /\ attempt[a].phase \notin {"answered", "stopped"}
        /\ attempt'[a].phase = "stopped"
        /\ \A b \in Attempts \ {a} : attempt'[b] = attempt[b]
        /\ UNCHANGED <<observed, entries>>
    BY <1>0, <1>8a DEF StopAttempt, Busy, TypeOK, AttemptState
  <2>2. QED  BY <1>0, <2>1, ConcludingStep DEF Outcome
<1>9. ASSUME NEW o \in Obligations, UpsertExpectedReceipt(o)
      PROVE  [Durable!Next]_(Durable!vars)
  BY <1>1, <1>9 DEF UpsertExpectedReceipt
<1>10. ASSUME NEW p \in Passes, StartPass(p) \/ PassStep(p) \/ StopPass(p)
       PROVE  [Durable!Next]_(Durable!vars)
  BY <1>1, <1>10
  DEF StartPass, PassStep, StopPass, ReconcileProgramState, ReadExpectedForPass,
      ReadObservedForPass, EvaluateLedger, UpsertReceiptReconcileStatus, PutPassEvent
<1>11. CASE UNCHANGED vars
  BY <1>1, <1>11 DEF vars
<1>12. QED
  BY <1>2, <1>3, <1>4, <1>5, <1>6, <1>7, <1>8, <1>8a, <1>9, <1>10, <1>11, NextCases
  DEF AttemptStep

(* record_program_receipt implements the promise: recorded before booked,  *)
(* booked before acknowledged, each at most once, nothing withdrawn and    *)
(* nothing left by a refusal, however calls interleave and wherever they   *)
(* stop.                                                                   *)
THEOREM SubmissionsDurable == Spec => ImplementsDurableSubmission
<1>1. Init => Durable!Init
  BY DEF Init, IdleAttempt, Outcome, Durable!Init
<1>2. QED
  BY <1>1, DurableStep, LedgerCorrect, PTL DEF Spec, ImplementsDurableSubmission, Durable!Spec

=============================================================================
