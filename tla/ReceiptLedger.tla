---------------------------- MODULE ReceiptLedger ----------------------------
(***************************************************************************)
(* The receipt ledger shared by every Program Manager server process.      *)
(*                                                                         *)
(* An attempt is one call of record_program_receipt (or of its wrapper     *)
(* submit_agentic_os_receipt); a retry is another attempt with the same    *)
(* idempotency key.  A pass is one call of reconcile_program_state.        *)
(* Neither handler holds a transaction across its store calls, so every    *)
(* store call is an action of its own, and calls handled by one process    *)
(* or by several interleave at every await.  A call may stop between any   *)
(* two of its store calls: the process is killed, or the store answers     *)
(* with an error and the handler throws.                                   *)
(*                                                                         *)
(* A receipt and its action-ledger entry are identified with the attempt   *)
(* that wrote them, whose query holds their content: both are CREATEd, so  *)
(* two attempts never share a node even when they share an idempotency key.*)
(***************************************************************************)
EXTENDS ReceiptRules, FiniteSets

CONSTANTS
    Attempts,       \* submissions, each handled at most once
    Passes,         \* reconcile callers, each with one call in flight at a time
    Calls,          \* the submissions clients make
    Obligations,    \* the obligations planners persist
    PassCalls,      \* the reconcile requests clients make
    MaxInFlight     \* how many submissions may be in flight at once

PassCall == [projects : SUBSET Projects, planIds : SUBSET PlanIds,
             targets : SUBSET Requirements, asOf : Nat, lostAfter : Nat \ {0}]

ASSUME InputAssumption ==
    /\ Calls \subseteq Call /\ Calls # {}
    /\ Obligations \subseteq Obligation
    /\ PassCalls \subseteq PassCall /\ PassCalls # {}
    /\ MaxInFlight \in Nat
ASSUME IdentityAssumption == Keys \cap Passes = {} /\ Attempts \cap Passes = {}

VARIABLES
    expected,   \* the obligations in the store, one per requirement
    issued,     \* history: every obligation the store ever held
    observed,   \* the attempts whose observed receipt is in the store
    entries,    \* the attempts whose action-ledger entry is in the store
    status,     \* the reconcile status records in the store, one per requirement
    events,     \* the audit events in the store, one per event id
    attempt,    \* control state and local variables of every submission
    pass        \* control state and local variables of every reconcile pass

vars == <<expected, issued, observed, entries, status, events, attempt, pass>>

-----------------------------------------------------------------------------
(* Types.                                                                  *)

StatusRecord == [requirement : Requirements, status : ReconcileStatus,
                 plan : Plans, counted : SUBSET Attempts]
Event == [id : Keys \cup Passes, by : Attempts \cup Passes]

Busy == {"reading", "appending", "publishing", "entering", "settling", "replying"}
Reads == {"expected", "observed"}

AttemptState ==
    [phase : Busy \cup {"idle", "answered", "stopped"}, query : Calls,
     reads : SUBSET Reads, obligations : SUBSET Obligations, seen : SUBSET Attempts,
     answer : {"none", "accepted", "duplicate", "rejected", "blocked"}]

PassState ==
    [phase : {"idle", "reading", "writing", "stopped"}, call : PassCalls, reads : SUBSET Reads,
     obligations : SUBSET Obligations, seen : SUBSET Attempts,
     todo : SUBSET StatusRecord, carrier : SUBSET Requirements]

TypeOK ==
    /\ expected \subseteq Obligations
    /\ issued \subseteq Obligations
    /\ observed \subseteq Attempts
    /\ entries \subseteq Attempts
    /\ status \subseteq StatusRecord
    /\ events \subseteq Event
    /\ attempt \in [Attempts -> AttemptState]
    /\ pass \in [Passes -> PassState]

(* The query of an idle attempt and the call of an idle pass are unused.   *)
IdleAttempt ==
    [phase |-> "idle", query |-> CHOOSE q \in Calls : TRUE, reads |-> {},
     obligations |-> {}, seen |-> {}, answer |-> "none"]
IdlePass ==
    [phase |-> "idle", call |-> CHOOSE c \in PassCalls : TRUE, reads |-> {},
     obligations |-> {}, seen |-> {}, todo |-> {}, carrier |-> {}]

Init ==
    /\ expected = {} /\ issued = {}
    /\ observed = {} /\ entries = {} /\ status = {} /\ events = {}
    /\ attempt = [a \in Attempts |-> IdleAttempt]
    /\ pass = [p \in Passes |-> IdlePass]

-----------------------------------------------------------------------------
(* Store writes.                                                           *)

(* A mutant: the properties are set ON CREATE only.                        *)
UpsertOnCreateOnly(rows, row) ==
    IF \E old \in rows : old.requirement = row.requirement THEN rows ELSE rows \cup {row}

(* MERGE on (portfolioId, receiptRequirementId), then SET.                 *)
UpsertByRequirement(rows, row) ==
    {old \in rows : old.requirement # row.requirement} \cup {row}

(* MERGE on (portfolioId, eventId), then SET: an event id written again    *)
(* replaces the event it named.                                            *)
PutEvent(id, by) ==
    events' = {e \in events : e.id # id} \cup {[id |-> id, by |-> by]}

(* A planner persists an obligation of the plan it was given; a later plan *)
(* of the same action has the same requirement id and replaces it.  No     *)
(* planner outside the tests passes the optional audit event.              *)
UpsertExpectedReceipt(o) ==
    /\ expected' = UpsertByRequirement(expected, o)
    /\ issued' = issued \cup {o}
    /\ UNCHANGED <<observed, entries, status, events, attempt, pass>>

-----------------------------------------------------------------------------
(* record_program_receipt.                                                 *)

Query(a) == attempt[a].query
InFlight == {a \in Attempts : attempt[a].phase \in Busy}

(* The handler's local variables move from phase `from` to phase `to`.     *)
Advance(a, from, to) ==
    /\ attempt[a].phase = from
    /\ attempt' = [attempt EXCEPT ![a].phase = to]

(* The call arrives; an unauthorised one is blocked before any store read. *)
RecordProgramReceipt(a, q) ==
    /\ attempt[a].phase = "idle"
    /\ Cardinality(InFlight) < MaxInFlight
    /\ attempt' = [attempt EXCEPT ![a] = [@ EXCEPT
           !.query = q,
           !.phase = IF q.flaw = "authz" THEN "answered" ELSE "reading",
           !.answer = IF q.flaw = "authz" THEN "blocked" ELSE "none"]]
    /\ UNCHANGED <<expected, issued, observed, entries, status, events, pass>>

(* The wrapper delegates.  The project its executionReceipt names joins    *)
(* those the refs imply, unless the call lists project ids (named is {}).  *)
SubmitAgenticOsReceipt(a, q, named) ==
    LET scoped == [q EXCEPT !.projects = @ \cup named]
    IN  /\ scoped \in Calls
        /\ RecordProgramReceipt(a, scoped)

(* listReceiptLedger reads obligations and receipts in two transactions    *)
(* that start together and commit in either order.                         *)
ReadExpected(a) ==
    /\ attempt[a].phase = "reading" /\ "expected" \notin attempt[a].reads
    /\ attempt' = [attempt EXCEPT ![a] = [@ EXCEPT
           !.reads = attempt[a].reads \cup {"expected"},
           !.obligations = {o \in expected : ObligationMatches(o, Query(a))}]]
    /\ UNCHANGED <<expected, issued, observed, entries, status, events, pass>>

ReadObserved(a) ==
    /\ attempt[a].phase = "reading" /\ "observed" \notin attempt[a].reads
    /\ attempt' = [attempt EXCEPT ![a] = [@ EXCEPT
           !.reads = attempt[a].reads \cup {"observed"},
           !.seen = observed]]
    /\ UNCHANGED <<expected, issued, observed, entries, status, events, pass>>

(* The receipts the query of attempt a returned, out of those it could see.*)
SeenReceipts(a) == {b \in attempt[a].seen : ReceiptMatches(Query(b), Query(a))}

(* A mutant: a duplicate is appended to the ledger too, marked as one.     *)
ValidateAndKeepDuplicate(a) ==
    LET verdict == ReceiptVerdict(Query(a), attempt[a].obligations,
                                  {Query(b) : b \in SeenReceipts(a)})
    IN  /\ attempt[a].phase = "reading" /\ attempt[a].reads = Reads
        /\ attempt' = [attempt EXCEPT ![a] = [@ EXCEPT
               !.phase = IF verdict = "accepted" THEN "appending" ELSE "answered",
               !.answer = IF verdict = "accepted" THEN "none" ELSE verdict]]
        /\ observed' = IF verdict = "duplicate" THEN observed \cup {a} ELSE observed
        /\ UNCHANGED <<expected, issued, entries, status, events, pass>>

(* With both reads back, the handler decides on what it read.              *)
ValidateReceipt(a) ==
    LET verdict == ReceiptVerdict(Query(a), attempt[a].obligations,
                                  {Query(b) : b \in SeenReceipts(a)})
    IN  /\ attempt[a].phase = "reading" /\ attempt[a].reads = Reads
        /\ attempt' = [attempt EXCEPT ![a] = [@ EXCEPT
               !.phase = IF verdict = "accepted" THEN "appending" ELSE "answered",
               !.answer = IF verdict = "accepted" THEN "none" ELSE verdict]]
        /\ UNCHANGED <<expected, issued, observed, entries, status, events, pass>>

(* appendObservedReceipt: CREATE the receipt, then put the audit event.    *)
AppendObservedReceipt(a) ==
    /\ Advance(a, "appending", "publishing")
    /\ observed' = observed \cup {a}
    /\ UNCHANGED <<expected, issued, entries, status, events, pass>>

PutReceiptEvent(a) ==
    /\ Advance(a, "publishing", "entering")
    /\ PutEvent(Query(a).key, a)
    /\ UNCHANGED <<expected, issued, observed, entries, status, pass>>

(* A mutant: the entry is appended without waiting for the receipt.        *)
AppendEntryUnawaited(a) ==
    /\ Advance(a, "appending", "settling")
    /\ entries' = entries \cup {a}
    /\ UNCHANGED <<expected, issued, observed, status, events, pass>>

AppendActionLedgerEntry(a) ==
    /\ Advance(a, "entering", "settling")
    /\ entries' = entries \cup {a}
    /\ UNCHANGED <<expected, issued, observed, status, events, pass>>

(* The status the handler settles on counts the receipts of its earlier    *)
(* read and its own, and is "satisfied" whatever the store holds by now.   *)
AcceptedStatus(a) ==
    [requirement |-> Query(a).requirement, status |-> "satisfied",
     plan |-> Query(a).plan, counted |-> SeenReceipts(a) \cup {a}]

SettleReceipt(a) ==
    /\ Advance(a, "settling", "replying")
    /\ status' = UpsertByRequirement(status, AcceptedStatus(a))
    /\ UNCHANGED <<expected, issued, observed, entries, events, pass>>

(* A mutant: the answer does not wait for the entry and the status.        *)
AcceptUnsettled(a) ==
    /\ attempt[a].phase \in {"entering", "replying"}
    /\ attempt' = [attempt EXCEPT ![a] = [@ EXCEPT !.phase = "answered", !.answer = "accepted"]]
    /\ UNCHANGED <<expected, issued, observed, entries, status, events, pass>>

AcceptReceipt(a) ==
    /\ attempt[a].phase = "replying"
    /\ attempt' = [attempt EXCEPT ![a] = [@ EXCEPT !.phase = "answered", !.answer = "accepted"]]
    /\ UNCHANGED <<expected, issued, observed, entries, status, events, pass>>

(* A mutant: a handler that fails takes its receipt out of the ledger.     *)
StopAndRollBack(a) ==
    /\ attempt[a].phase \in Busy
    /\ attempt' = [attempt EXCEPT ![a].phase = "stopped"]
    /\ observed' = observed \ {a}
    /\ UNCHANGED <<expected, issued, entries, status, events, pass>>

(* The call ends before, between or after its store calls, and its client  *)
(* gets no answer from the tool.                                           *)
StopAttempt(a) ==
    /\ attempt[a].phase \in Busy
    /\ attempt' = [attempt EXCEPT ![a].phase = "stopped"]
    /\ UNCHANGED <<expected, issued, observed, entries, status, events, pass>>

-----------------------------------------------------------------------------
(* reconcile_program_state.                                                *)

ReconcileProgramState(p, c) ==
    /\ pass[p].phase \in {"idle", "stopped"}
    /\ pass' = [pass EXCEPT ![p] = [IdlePass EXCEPT !.phase = "reading", !.call = c]]
    /\ UNCHANGED <<expected, issued, observed, entries, status, events, attempt>>

(* The plan filter of a pass; no plan ids means every plan.                *)
PlanSelected(plan, c) == c.planIds = {} \/ PlanIdOf[plan] \in c.planIds

ReadExpectedForPass(p) ==
    LET c == pass[p].call
    IN  /\ pass[p].phase = "reading" /\ "expected" \notin pass[p].reads
        /\ pass' = [pass EXCEPT ![p] = [@ EXCEPT
               !.reads = pass[p].reads \cup {"expected"},
               !.obligations = {o \in expected :
                    /\ o.requirement \in c.targets
                    /\ PlanSelected(o.plan, c)
                    /\ MatchesLedgerScope(o.project, c.projects)}]]
        /\ UNCHANGED <<expected, issued, observed, entries, status, events, attempt>>

ReadObservedForPass(p) ==
    LET c == pass[p].call
    IN  /\ pass[p].phase = "reading" /\ "observed" \notin pass[p].reads
        /\ pass' = [pass EXCEPT ![p] = [@ EXCEPT
               !.reads = pass[p].reads \cup {"observed"},
               !.seen = {b \in observed :
                    /\ PlanSelected(Query(b).plan, c)
                    /\ MatchesLedgerScope(ReceiptProject(Query(b)), c.projects)}]]
        /\ UNCHANGED <<expected, issued, observed, entries, status, events, attempt>>

(* The status the pass reports for obligation o: only the requirement id   *)
(* joins a receipt to an obligation.                                       *)
ReconciledStatus(p, o, support) ==
    LET c == pass[p].call
        receipts == {b \in pass[p].seen : Query(b).requirement = o.requirement}
    IN  [requirement |-> o.requirement, plan |-> o.plan, counted |-> receipts,
         status |-> ReconcileVerdict(o, {Query(b) : b \in receipts}, support,
                                     c.asOf, c.lostAfter)]

(* What is left of pass p; with nothing left to write it is idle again.    *)
Remaining(todo, carrier) ==
    IF todo = {} /\ carrier = {}
    THEN IdlePass
    ELSE [IdlePass EXCEPT !.phase = "writing", !.todo = todo, !.carrier = carrier]

(* Adapters are read after the ledger; a failing adapter supports nothing, *)
(* so any set of refs may come back beside the caller's own targets.  One  *)
(* of the status writes carries the audit event of the pass.               *)
EvaluateLedger(p) ==
    /\ pass[p].phase = "reading" /\ pass[p].reads = Reads
    /\ \E support \in SUBSET StateRefs :
         LET todo == {ReconciledStatus(p, o, support) : o \in pass[p].obligations}
         IN  \/ /\ todo = {}
                /\ pass' = [pass EXCEPT ![p] = IdlePass]
             \/ \E first \in todo :
                  pass' = [pass EXCEPT ![p] = Remaining(todo, {first.requirement})]
    /\ UNCHANGED <<expected, issued, observed, entries, status, events, attempt>>

(* The status writes run in parallel and commit in any order.              *)
UpsertReceiptReconcileStatus(p, s) ==
    /\ pass[p].phase = "writing" /\ s \in pass[p].todo
    /\ status' = UpsertByRequirement(status, s)
    /\ pass' = [pass EXCEPT ![p] = Remaining(@.todo \ {s}, @.carrier)]
    /\ UNCHANGED <<expected, issued, observed, entries, events, attempt>>

(* The event follows the write that carries it; its id is the caller's     *)
(* correlation id, one per caller here.                                    *)
PutPassEvent(p) ==
    /\ pass[p].phase = "writing" /\ pass[p].carrier # {}
    /\ \A s \in pass[p].todo : s.requirement \notin pass[p].carrier
    /\ PutEvent(p, p)
    /\ pass' = [pass EXCEPT ![p] = Remaining(@.todo, {})]
    /\ UNCHANGED <<expected, issued, observed, entries, status, attempt>>

(* The pass ends early, leaving the writes it has not made.                *)
StopPass(p) ==
    /\ pass[p].phase \in {"reading", "writing"}
    /\ pass' = [pass EXCEPT ![p] = [IdlePass EXCEPT !.phase = "stopped"]]
    /\ UNCHANGED <<expected, issued, observed, entries, status, events, attempt>>

-----------------------------------------------------------------------------
AttemptStep(a) ==
    \/ ReadExpected(a) \/ ReadObserved(a) \/ ValidateReceipt(a)
    \/ AppendObservedReceipt(a) \/ PutReceiptEvent(a)
    \/ AppendActionLedgerEntry(a) \/ SettleReceipt(a) \/ AcceptReceipt(a)

PassStep(p) ==
    \/ ReadExpectedForPass(p) \/ ReadObservedForPass(p) \/ EvaluateLedger(p)
    \/ \E s \in pass[p].todo : UpsertReceiptReconcileStatus(p, s)
    \/ PutPassEvent(p)

StartPass(p) == \E c \in PassCalls : ReconcileProgramState(p, c)

Next ==
    \/ \E o \in Obligations : UpsertExpectedReceipt(o)
    \/ \E a \in Attempts :
         \/ \E q \in Calls : RecordProgramReceipt(a, q)
         \/ \E q \in Calls, named \in {{}} \cup {{x} : x \in Projects} :
              SubmitAgenticOsReceipt(a, q, named)
         \/ AttemptStep(a)
         \/ StopAttempt(a)
    \/ \E p \in Passes : StartPass(p) \/ PassStep(p) \/ StopPass(p)

Spec == Init /\ [][Next]_vars

-----------------------------------------------------------------------------
(* Properties.                                                             *)

ReceiptsFor(r) == {a \in observed : Query(a).requirement = r}

(* A reconcile status never overstates the ledger, whoever wrote it last   *)
(* and whatever it had read: each receipt it counts is in the store and    *)
(* answers its requirement, and "satisfied" counts at least one.  (The     *)
(* write order of record_program_receipt; the stale reads of both tools.)  *)
Backed(s) ==
    /\ s.counted \subseteq ReceiptsFor(s.requirement)
    /\ s.status = "satisfied" => s.counted # {}
StatusIsBacked == \A s \in status : Backed(s)

(* A receipt enters the ledger only for a plan that was persisted for its  *)
(* requirement, in a scope its obligation belongs to, however the planner  *)
(* replaces obligations meanwhile.  (Plan freshness and scope checks.)     *)
ReceiptWasOwed ==
    \A a \in observed : \E o \in issued :
        /\ o.requirement = Query(a).requirement
        /\ o.plan = Query(a).plan
        /\ MatchesLedgerScope(o.project, Query(a).projects)

(* Two receipts of one requirement, plan id and key exist only if neither  *)
(* submission could have seen the other: b's receipt was not there, in b's *)
(* scope, when a read the ledger.  (The duplicate check before the write.) *)
DuplicateOnlyUnseen ==
    \A a, b \in observed :
        a # b /\ DuplicateOf(Query(b), Query(a)) => b \notin attempt[a].seen

(* A submission that was not accepted left nothing behind: no receipt, no  *)
(* entry, no event, and no status counts it.  (The early returns.)         *)
BlockedLeavesNoTrace ==
    \A a \in Attempts :
        attempt[a].phase = "answered" /\ attempt[a].answer # "accepted" =>
            /\ a \notin observed \cup entries
            /\ \A e \in events : e.by # a
            /\ \A s \in status : a \notin s.counted

(* The answer "accepted" is given only once everything it reports is in    *)
(* the store: the receipt, the entry, an event under the key, and a status *)
(* for the requirement.  (The awaited writes before the answer.)           *)
AcknowledgedIsDurable ==
    \A a \in Attempts :
        attempt[a].answer = "accepted" =>
            /\ a \in observed \cap entries
            /\ \E e \in events : e.id = Query(a).key
            /\ \E s \in status : s.requirement = Query(a).requirement

(* What a submitter is promised: DurableSubmission, with the receipt as    *)
(* what is recorded, the entry as what is booked, and the answer.          *)
Outcome(a) ==
    CASE attempt[a].phase = "stopped"                                   -> "unknown"
      [] attempt[a].phase = "answered" /\ attempt[a].answer = "accepted" -> "accepted"
      [] attempt[a].phase = "answered" /\ attempt[a].answer # "accepted" -> "refused"
      [] OTHER                                                          -> "pending"
Durable == INSTANCE DurableSubmission
               WITH recorded <- observed, booked <- entries,
                    outcome <- [a \in Attempts |-> Outcome(a)]

(* Every submission is recorded before it is booked and booked before it   *)
(* is acknowledged, at most once, never after an answer and never when     *)
(* refused.  (The whole of record_program_receipt.)                        *)
ImplementsDurableSubmission == Durable!Spec

-----------------------------------------------------------------------------
(* The inductive invariant the proofs rest on.                             *)

(* How far the writes of a submission have come, by its phase.             *)
WritesFollowPhase ==
    \A a \in Attempts :
        /\ attempt[a].phase \in {"idle", "reading", "appending"} => a \notin observed
        /\ attempt[a].phase \in {"publishing", "entering", "settling", "replying"} =>
               a \in observed
        /\ attempt[a].phase \in {"entering", "settling", "replying"} =>
               \E e \in events : e.id = Query(a).key
        /\ attempt[a].phase \in {"settling", "replying"} => a \in entries
        /\ attempt[a].phase = "replying" =>
               \E s \in status : s.requirement = Query(a).requirement
        /\ a \in entries =>
               attempt[a].phase \in {"settling", "replying", "answered", "stopped"}
        /\ attempt[a].phase = "answered" /\ attempt[a].answer # "accepted" =>
               a \notin observed
        /\ attempt[a].answer # "none" => attempt[a].phase = "answered"

(* A call cut short leaves a prefix: no entry, no event without receipt.   *)
LedgerWritesInOrder ==
    /\ entries \subseteq observed
    /\ \A e \in events : e.by \in Attempts => e.by \in observed

(* Snapshots hold what was once in the store; receipts never leave it.     *)
SnapshotsArePast ==
    /\ expected \subseteq issued
    /\ \A a \in Attempts :
        /\ attempt[a].phase = "idle" => attempt[a].obligations = {}
        /\ attempt[a].seen \subseteq observed
        /\ attempt[a].obligations \subseteq {o \in issued : ObligationMatches(o, Query(a))}
    /\ \A p \in Passes : pass[p].seen \subseteq observed

(* A submission past validation keeps the facts validation established.    *)
ValidatedStaysOwed ==
    \A a \in Attempts :
        attempt[a].phase = "appending" \/ a \in observed =>
            /\ \E o \in issued : /\ o.requirement = Query(a).requirement
                                 /\ o.plan = Query(a).plan
                                 /\ MatchesLedgerScope(o.project, Query(a).projects)
            /\ \A b \in attempt[a].seen : ~DuplicateOf(Query(b), Query(a))

(* Every status on its way to the store is as well backed as those in it.  *)
PendingStatusIsBacked == \A p \in Passes : \A s \in pass[p].todo : Backed(s)

LedgerInv ==
    /\ TypeOK
    /\ WritesFollowPhase
    /\ LedgerWritesInOrder
    /\ SnapshotsArePast
    /\ ValidatedStaysOwed
    /\ PendingStatusIsBacked
    /\ StatusIsBacked
    /\ AcknowledgedIsDurable

-----------------------------------------------------------------------------
(* Liveness.                                                               *)

(* A started call that is not stopped makes its next store call: the event *)
(* loop runs every continuation and the store answers every call.          *)
FairSpec ==
    /\ Spec
    /\ \A a \in Attempts : WF_vars(AttemptStep(a))
    /\ \A p \in Passes : WF_vars(PassStep(p))

(* Clients keep asking for reconciliation and passes stop being cut short. *)
ReconciliationGoesOn ==
    /\ \E p \in Passes : []<><<StartPass(p)>>_vars
    /\ <>[][\A p \in Passes : ~StopPass(p)]_vars

StatusSettled(r) ==
    ReceiptsFor(r) # {} /\ (\E o \in expected : o.requirement = r) =>
        \E s \in status : s.requirement = r /\ s.status \notin OpenStatus

(* However stale reads and late writes raced, an obligation that has an    *)
(* accepted receipt ends up reported so, and stays so, as long as          *)
(* reconciliation goes on.  (A stale pass may overwrite "satisfied"; later *)
(* passes repair it.)                                                      *)
StatusesConverge ==
    ReconciliationGoesOn => \A r \in Requirements : <>[]StatusSettled(r)

-----------------------------------------------------------------------------
(* Statements of the repository's documents.                               *)

(* "Receipt recording accepts a valid observed receipt exactly once":      *)
(* no two receipts of one request.                                         *)
AcceptedExactlyOnce ==
    \A a, b \in observed : Query(a) = Query(b) => a = b

(* "Stale flight-plan receipts cannot satisfy obligations": an obligation  *)
(* reported satisfied has a receipt of its own flight plan.                *)
StaleNeverSatisfies ==
    \A s \in status : s.status = "satisfied" =>
        \E a \in ReceiptsFor(s.requirement) : Query(a).plan = s.plan
=============================================================================
