---------------------------- MODULE ReceiptRules ----------------------------
(***************************************************************************)
(* The pure rules of the receipt ledger: which ledger rows a scoped query  *)
(* returns, what record_program_receipt decides about a submission, and    *)
(* what reconcile_program_state decides about an obligation.               *)
(*                                                                         *)
(* A call, an obligation and a receipt are records of the fields the rules *)
(* tell apart.  Digests, refs and timestamps are atoms; a plan stands for  *)
(* the pair (flightPlanHash, flightPlanStateVersionHash), and PlanIdOf     *)
(* gives its flightPlanId: two plans of one id differ in their hash only,  *)
(* as two plans computed over one state at two times do.                   *)
(***************************************************************************)
EXTENDS Integers

CONSTANTS
    Requirements,   \* receiptRequirementIds
    Keys,           \* idempotency keys
    Plans,          \* flight plans, told apart by their hashes
    PlanIds,        \* flightPlanIds
    PlanIdOf,       \* the flightPlanId of each plan
    Projects,       \* project ids
    StateRefs,      \* refs a receipt, a target or an adapter may observe
    NoProject       \* an absent optional projectId

ASSUME PlanAssumption == PlanIdOf \in [Plans -> PlanIds]
ASSUME ProjectAssumption == NoProject \notin Projects

(* An absent optional timestamp.  Times are whole seconds.                 *)
NoTime == -1
Time == Nat \cup {NoTime}

(* What the checks of one submission find wrong, by the place of the check *)
(* in the handler: the actor or its executionAgentRef; the receipt type or *)
(* the verifier (before the duplicate check); the evidence, the observed   *)
(* state, the attestation, the digest or the signature (after it).         *)
FlawKinds == {"none", "authz", "policy", "evidence"}

Call == [requirement : Requirements, key : Keys, plan : Plans,
         projects : SUBSET Projects, refs : SUBSET StateRefs, flaw : FlawKinds]

Obligation == [requirement : Requirements, plan : Plans,
               project : Projects \cup {NoProject}, dueAt : Time, recordedAt : Time]

(* Scope filter of every ledger query: with project ids in the scope, a    *)
(* row without a project is filtered out.                                  *)
MatchesLedgerScope(project, projects) == projects = {} \/ project \in projects

(* The projectId stored on the receipt of call q: only a scope of exactly  *)
(* one project leaves one.                                                 *)
ReceiptProject(q) ==
    IF \E p \in Projects : q.projects = {p}
    THEN CHOOSE p \in Projects : q.projects = {p}
    ELSE NoProject

(* The ledger query of call q returns obligation o.                        *)
ObligationMatches(o, q) ==
    /\ o.requirement = q.requirement
    /\ PlanIdOf[o.plan] = PlanIdOf[q.plan]
    /\ MatchesLedgerScope(o.project, q.projects)

(* The ledger query of call q returns the receipt an earlier call r left.  *)
ReceiptMatches(r, q) ==
    /\ r.requirement = q.requirement
    /\ PlanIdOf[r.plan] = PlanIdOf[q.plan]
    /\ MatchesLedgerScope(ReceiptProject(r), q.projects)

(* The receipt call r left makes call q a duplicate.                       *)
DuplicateOf(r, q) == ReceiptMatches(r, q) /\ r.key = q.key

(* Mutants: the plan hash is not compared; only an identical request is    *)
(* a duplicate.                                                            *)
VerdictOnAnyPlan(q, obligations, receipts) ==
    CASE obligations = {}                            -> "rejected"
      [] q.flaw = "policy"                           -> "rejected"
      [] \E r \in receipts : DuplicateOf(r, q)       -> "duplicate"
      [] q.flaw = "evidence"                         -> "rejected"
      [] OTHER                                       -> "accepted"
VerdictOnRepeatedRequest(q, obligations, receipts) ==
    CASE obligations = {}                            -> "rejected"
      [] \E o \in obligations : o.plan # q.plan      -> "rejected"
      [] q.flaw = "policy"                           -> "rejected"
      [] q \in receipts                              -> "duplicate"
      [] q.flaw = "evidence"                         -> "rejected"
      [] OTHER                                       -> "accepted"

(* The verdict on call q, given the obligations and the receipts (as the   *)
(* calls that left them) its query returned, in the order of the handler's *)
(* early returns.                                                          *)
ReceiptVerdict(q, obligations, receipts) ==
    CASE obligations = {}                            -> "rejected"
      [] \E o \in obligations : o.plan # q.plan      -> "rejected"
      [] q.flaw = "policy"                           -> "rejected"
      [] \E r \in receipts : DuplicateOf(r, q)       -> "duplicate"
      [] q.flaw = "evidence"                         -> "rejected"
      [] OTHER                                       -> "accepted"

(* How overdue an obligation nobody has satisfied is.  Without a dueAt its *)
(* age counts from recordedAt; without that either, it never gets stuck.   *)
DueStatus(o, now, lostAfter) ==
    CASE o.dueAt # NoTime /\ now - o.dueAt >= lostAfter        -> "lost"
      [] o.dueAt # NoTime /\ o.dueAt <= now                    -> "late"
      [] /\ o.dueAt = NoTime
         /\ o.recordedAt # NoTime
         /\ now - o.recordedAt >= lostAfter                    -> "stuck"
      [] OTHER                                                 -> "in_flight"

OpenStatus == {"in_flight", "late", "stuck", "lost"}
ReconcileStatus == OpenStatus \cup {"satisfied", "conflicting"}

(* A receipt names observed state and neither the caller's targets nor any *)
(* adapter supports a single one of those refs.                            *)
Unsupported(r, support) == r.refs # {} /\ r.refs \cap support = {}

(* A mutant: satisfied when every accepted receipt is supported.           *)
SatisfiedWhenAllSupported(o, receipts, support, now, lostAfter) ==
    IF \E r \in receipts : Unsupported(r, support) THEN "conflicting" ELSE "satisfied"

(* The verdict on obligation o, given the accepted receipts the pass read. *)
ReconcileVerdict(o, receipts, support, now, lostAfter) ==
    CASE \E r \in receipts : Unsupported(r, support) -> "conflicting"
      [] receipts # {}                               -> "satisfied"
      [] OTHER                                       -> DueStatus(o, now, lostAfter)
=============================================================================
