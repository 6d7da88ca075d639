--------------------------- MODULE MCReceiptLedger ---------------------------
(* Instances of ReceiptLedger for TLC.                                     *)
EXTENDS ReceiptLedger, TLC

CONSTANTS a1, a2, a3, pa, pb, r1, k1, k2, plan1, plan2, id1, id2, ref1, p1, p2

Submission(key, plan, projects, refs, flaw) ==
    [requirement |-> r1, key |-> key, plan |-> plan, projects |-> projects,
     refs |-> refs, flaw |-> flaw]

Owed(plan, project, dueAt, recordedAt) ==
    [requirement |-> r1, plan |-> plan, project |-> project,
     dueAt |-> dueAt, recordedAt |-> recordedAt]

Reconcile(projects, planIds, asOf) ==
    [projects |-> projects, planIds |-> planIds, targets |-> {r1},
     asOf |-> asOf, lostAfter |-> 2]

(* A plan and the one that replaces it have one id.                        *)
MCSamePlanId == (plan1 :> id1) @@ (plan2 :> id1)

(* Submissions: every kind of flaw, two keys, two plans, and scopes of no, *)
(* one and two projects.                                                   *)
MCCalls ==
    {Submission(k, plan, {pa}, {}, "none") : k \in {k1, k2}, plan \in {plan1, plan2}}
    \cup {Submission(k1, plan1, {pa, pb}, {ref1}, "none"),
          Submission(k1, plan1, {}, {ref1}, "none")}
    \cup {Submission(k1, plan1, {pa}, {}, f) : f \in FlawKinds \ {"none"}}

(* Fewer submissions, beside a reconcile caller: one names observed state. *)
MCFewCalls ==
    {Submission(k1, plan1, {pa}, {ref1}, "none"),
     Submission(k1, plan2, {pa}, {}, "none")}

(* A request repeated, beside an unauthorised one: in a scope of one       *)
(* project, and naming observed state.                                     *)
MCOneProject == {Submission(k1, plan1, {pa}, {}, f) : f \in {"none", "authz"}}
MCNamedState == {Submission(k1, plan1, {pa}, {ref1}, f) : f \in {"none", "authz"}}

(* A plan without and its replacement with a due time.                     *)
MCObligations == {Owed(plan1, pa, NoTime, 0), Owed(plan2, pa, 1, 0)}

(* Passes over everything, over the project, and over a project and a plan *)
(* the receipts may not belong to; early and late.                         *)
MCPassCalls ==
    {Reconcile({}, {}, 1), Reconcile({pa}, {}, 3), Reconcile({pb}, {id1}, 3)}
MCFullPass == {Reconcile({}, {}, 3)}

Symmetry == Permutations(Attempts)
=============================================================================
