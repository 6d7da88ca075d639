---------------------------- MODULE FlightPlanner ----------------------------
(***************************************************************************)
(* plan_program_action and the agents that follow its plans.               *)
(*                                                                         *)
(* The planner reads an impact assessment and the dependencies of a scope, *)
(* at different times, and answers with a plan: the actions it proposes,   *)
(* each with the receipt it expects, those it suppresses, and what they    *)
(* affect.  It writes nothing.  An agent executes a proposed action and    *)
(* plans what that brings about, with the causation it was handed: so a    *)
(* change propagates.  An action, or edge, is an adapter, a target and a   *)
(* type; the path of a request is the edges that led to it.                *)
(*                                                                         *)
(* A digest is its input.  What a request says in words is digested with   *)
(* it: its summary stands for all of a proposed change but the targets, a  *)
(* rationale for the reason given for a requested action.  Manifests,      *)
(* cursors, rule versions, expiry, policies of targets and warnings are    *)
(* left out.                                                               *)
(***************************************************************************)
EXTENDS GraphRepository

CONSTANTS
    Agents,
    Edges,          \* edges, numbered as comparePlanActionCandidates sorts them
    TargetOf,       \* the target of each edge
    DefaultEdge,    \* the edge of each target, by its scheme
    FastPolicies,   \* policies whose missing evidence blocks
    ChangeRef,      \* the ref of the digest of a proposed change
    Words,          \* how agents may put a change, or a reason
    Requests,       \* what agents set out from
    Spread,         \* what an agent changes next, by the target of an action
    Carried,        \* what agents carry on: sets of "path" and "depth"
    Views,          \* states of the program graph
    Impacts,        \* assessments an in-memory repository is seeded with, or Unset
    MaxFollowed     \* bound: actions an agent takes; no fewer than one that ends does

ASSUME PlannerAssumption ==
    /\ Edges \subseteq Nat /\ TargetOf \in [Edges -> Refs]
    /\ DefaultEdge \in [Refs -> Edges] /\ MaxFollowed \in Nat
    /\ Spread \in [Refs -> SUBSET Refs]
    /\ Carried \subseteq (SUBSET {"path", "depth"}) \ {{}}
    /\ \A q \in Requests :
          /\ DOMAIN q = {"targets", "summary", "requested", "rationale", "depth", "max",
                         "path", "asOf"}
          /\ q.targets # {} /\ q.targets \subseteq Refs /\ q.requested \subseteq Edges
          /\ q.summary \in Words /\ DOMAIN q.rationale \subseteq q.requested
          /\ q.depth = 0 /\ q.path = <<>> /\ q.max \in Nat

VARIABLES
    graph,      \* the program graph as the store lists it
    seeded,     \* what the in-memory repository answers, Unset over a graph store
    agent       \* each agent's call, the plan it was answered, what it has followed

vars == <<graph, seeded, agent>>

-----------------------------------------------------------------------------
(* The plan of a request q.                                                *)

Candidates(q) ==
    IF q.requested # {} THEN q.requested ELSE {DefaultEdge[t] : t \in q.targets}

(* Mutant: the path is kept as it came.                                    *)
PathAsGiven(q) == q.path

(* Sorted, a path has at i the action that fewer than i of its actions are *)
(* below, and at least i are not above.                                    *)
Below(s, e) == {i \in DOMAIN s : s[i] < e}
UpTo(s, e) == {i \in DOMAIN s : s[i] <= e}
Sorted(s) ==
    [i \in 1 .. Len(s) |->
        CHOOSE e \in ToSet(s) : Cardinality(Below(s, e)) < i /\ i <= Cardinality(UpTo(s, e))]

PropagationPath(q) == Sorted(q.path)

(* Mutant: only the depth suppresses.                                      *)
SuppressedByDepth(q) == {e \in Candidates(q) : q.depth >= q.max}

(* Mutant: only the path suppresses.                                       *)
SuppressedByPath(q) == {e \in Candidates(q) : e \in ToSet(q.path)}

Suppressed(q) == {e \in Candidates(q) : q.depth >= q.max \/ e \in ToSet(q.path)}

(* An action with the reason its caller gives, or the planner's own.       *)
Action(q, e) ==
    [edge |-> e, rationale |-> IF e \in DOMAIN q.rationale THEN q.rationale[e] ELSE Unset]

(* What the idempotency key of an action, and the ids made from it, digest.*)
RequirementId(q, e) ==
    [asOf |-> q.asOf, targets |-> q.targets, summary |-> q.summary,
     action |-> Action(q, e), depth |-> q.depth, path |-> PropagationPath(q)]

(* The receipt expected of an action.                                      *)
ExpectedReceipt(q, e, impact) ==
    [id |-> RequirementId(q, e),
     policies |-> {o.policy : o \in {o \in impact.obligations : o.target = TargetOf[e]}}]

TouchesTargets(edge, q) ==
    ({edge.links.from, edge.links.to} \cup edge.body.evidence) \cap q.targets # {}

BlockingEvidence(o) ==
    o.status = "stale" \/ (o.status = "missing" /\ o.policy \in FastPolicies)

(* Every approval the impact names is unsatisfied.                         *)
FlightPlan(q, impact, relationships) ==
    [path |-> PropagationPath(q),
     affected |-> impact.affected \cup q.targets
                  \cup {r.ref : r \in {r \in relationships : TouchesTargets(r, q)}}
                  \cup UNION {r.body.evidence : r \in {r \in relationships : TouchesTargets(r, q)}},
     proposed |-> Candidates(q) \ Suppressed(q),
     receipts |-> {ExpectedReceipt(q, e, impact) : e \in Candidates(q) \ Suppressed(q)},
     blocked |-> impact.approvals # {} \/ \E o \in impact.obligations : BlockingEvidence(o)]

-----------------------------------------------------------------------------
NoPlan == [path |-> <<>>, affected |-> {}, proposed |-> {}, receipts |-> {}, blocked |-> FALSE]

Init ==
    /\ graph \in Views
    /\ seeded \in Impacts
    /\ agent = [a \in Agents |->
                  [phase |-> "idle", request |-> Unset, carries |-> {}, impact |-> Unset,
                   relationships |-> Unset, plan |-> NoPlan, followed |-> <<>>]]

(* Somebody changes dependencies or decisions.                             *)
ChangeGraph ==
    /\ graph' \in Views \ {graph}
    /\ UNCHANGED <<seeded, agent>>

SetOut(a, q, carries) ==
    /\ agent[a].phase = "idle"
    /\ agent' = [agent EXCEPT ![a].phase = "reading", ![a].request = q,
                              ![a].carries = carries]
    /\ UNCHANGED <<graph, seeded>>

(* A call whose grant has run out, or of another scope, is answered with   *)
(* no plan.                                                                *)
Refuse(a) ==
    /\ agent[a].phase = "reading"
    /\ agent[a].impact = Unset /\ agent[a].relationships = Unset
    /\ agent' = [agent EXCEPT ![a].phase = "resting", ![a].plan = NoPlan]
    /\ UNCHANGED <<graph, seeded>>

(* The reads are begun together and end in any order.                      *)
ReadImpact(a) ==
    LET q == agent[a].request IN
    /\ agent[a].phase = "reading" /\ agent[a].impact = Unset
    /\ agent' = [agent EXCEPT ![a].impact =
                    IF seeded # Unset THEN seeded
                    ELSE AssessImpact(graph, ChangeRef, q.targets, q.asOf)]
    /\ UNCHANGED <<graph, seeded>>

ReadRelationships(a) ==
    /\ agent[a].phase = "reading" /\ agent[a].relationships = Unset
    /\ agent' = [agent EXCEPT ![a].relationships = graph.relationships]
    /\ UNCHANGED <<graph, seeded>>

AnswerPlan(a) ==
    LET mine == agent[a] IN
    /\ mine.phase = "reading" /\ mine.impact # Unset /\ mine.relationships # Unset
    /\ agent' = [agent EXCEPT ![a].phase = "planned", ![a].impact = Unset,
                              ![a].relationships = Unset,
                              ![a].plan = FlightPlan(mine.request, mine.impact,
                                                     mine.relationships)]
    /\ UNCHANGED <<graph, seeded>>

(* The request for what an action brings about, with as much of the plan's *)
(* causation as the agent carries on.                                      *)
Onward(mine, e, summary) ==
    [mine.request EXCEPT
        !.targets = Spread[TargetOf[e]], !.summary = summary,
        !.requested = {}, !.rationale = <<>>,
        !.depth = IF "depth" \in mine.carries THEN @ + 1 ELSE @,
        !.path = IF "path" \in mine.carries THEN Append(mine.plan.path, e) ELSE @]

(* The agent executes a proposed action and plans what it brings about, in *)
(* words of its own.                                                       *)
Follow(a, e, summary) ==
    LET mine == agent[a] IN
    /\ mine.phase = "planned" /\ e \in mine.plan.proposed
    /\ Spread[TargetOf[e]] # {} /\ Len(mine.followed) < MaxFollowed
    /\ agent' = [agent EXCEPT ![a].phase = "reading", ![a].followed = Append(@, e),
                              ![a].request = Onward(mine, e, summary),
                              ![a].plan = NoPlan]
    /\ UNCHANGED <<graph, seeded>>

Rest(a) ==
    /\ agent[a].phase = "planned"
    /\ \A e \in agent[a].plan.proposed : Spread[TargetOf[e]] = {}
    /\ agent' = [agent EXCEPT ![a].phase = "resting", ![a].plan = NoPlan]
    /\ UNCHANGED <<graph, seeded>>

HandlerStep(a) == ReadImpact(a) \/ ReadRelationships(a) \/ AnswerPlan(a)
AgentStep(a) == Rest(a) \/ \E e \in Edges, summary \in Words : Follow(a, e, summary)

Next ==
    \/ ChangeGraph
    \/ \E a \in Agents :
          \/ \E q \in Requests, carries \in Carried : SetOut(a, q, carries)
          \/ Refuse(a) \/ HandlerStep(a) \/ AgentStep(a)

Spec == Init /\ [][Next]_vars

(* The handler's awaits end.  Agents are taken to go on for as long as     *)
(* anything is proposed: nothing but the planner stops them.               *)
Fairness == \A a \in Agents : WF_vars(HandlerStep(a)) /\ WF_vars(AgentStep(a))

FairSpec == Spec /\ Fairness

-----------------------------------------------------------------------------
TypeOK ==
    /\ graph \in Views /\ seeded \in Impacts
    /\ DOMAIN agent = Agents
    /\ \A a \in Agents :
          /\ DOMAIN agent[a] = {"phase", "request", "carries", "impact", "relationships",
                               "plan", "followed"}
          /\ agent[a].phase \in {"idle", "reading", "planned", "resting"}
          /\ agent[a].followed \in Seq(Edges) /\ agent[a].plan.path \in Seq(Edges)
          /\ agent[a].plan.proposed \subseteq Edges
          /\ agent[a].phase # "idle" => agent[a].carries \in Carried

SameActions(s, t) == \A e \in Edges :
    Cardinality({i \in DOMAIN s : s[i] = e}) = Cardinality({i \in DOMAIN t : t[i] = e})

(* What an agent asks for is what it carried on from what it has followed. *)
RequestFollows(mine) ==
    LET q == mine.request IN
    /\ DOMAIN q = {"targets", "summary", "requested", "rationale", "depth", "max", "path",
                   "asOf"}
    /\ q.targets \subseteq Refs /\ q.requested \subseteq Edges /\ q.max \in Nat
    /\ q.path \in Seq(Edges)
    /\ IF "path" \in mine.carries THEN SameActions(q.path, mine.followed) ELSE q.path = <<>>
    /\ q.depth = IF "depth" \in mine.carries THEN Len(mine.followed) ELSE 0
    /\ "depth" \in mine.carries => Len(mine.followed) <= q.max

(* A plan is one of its request, and proposes nothing it suppresses.       *)
PlanFollows(mine) ==
    LET q == mine.request IN
    /\ mine.plan.path = PropagationPath(q)
    /\ mine.plan.proposed = Candidates(q) \ Suppressed(q)
    /\ \A r \in mine.plan.receipts :
          \E e \in mine.plan.proposed : r.id = RequirementId(q, e)

CausationIsCarried ==
    \A a \in Agents :
        LET mine == agent[a] IN
        /\ mine.phase = "idle" => mine.followed = <<>> /\ mine.carries = {}
        /\ mine.phase # "idle" => RequestFollows(mine)
        /\ mine.phase = "planned" => PlanFollows(mine)

(* "Propagation must be loop-safe": an agent that carries on the path is   *)
(* never proposed, nor owes a receipt for, an action it has taken, however *)
(* the changes lead to one another; one that counts its depth takes no     *)
(* more actions than the maximum.  (propagationPathKeys,                   *)
(* maxPropagationDepth; the path comes back sorted in each plan.)          *)
PropagationIsLoopSafe ==
    \A a \in Agents :
        LET mine == agent[a] IN
        /\ "path" \in mine.carries /\ mine.phase = "planned" =>
              {r.id.action.edge : r \in mine.plan.receipts} \cap ToSet(mine.followed) = {}
        /\ "depth" \in mine.carries => Len(mine.followed) <= mine.request.max

(* Agents and plans are of their kinds, what agents carry on is what they  *)
(* have done, and no propagation loops.                                    *)
PlannerInv == TypeOK /\ CausationIsCarried /\ PropagationIsLoopSafe

(* "... and idempotent": agents that have come to one change by the same   *)
(* actions, in whatever order, and put it in the same words, owe one       *)
(* receipt for each next action they give the same reason for, not one     *)
(* each.  (The sorted path in the idempotency key.  The words are part of  *)
(* the key: an agent that puts the change otherwise owes another receipt.) *)
StepsAreIdempotent ==
    \A a, b \in Agents :
        LET mine == agent[a]
            yours == agent[b] IN
        /\ mine.phase = "planned" /\ yours.phase = "planned"
        /\ mine.carries = yours.carries
        /\ mine.request.targets = yours.request.targets
        /\ mine.request.summary = yours.request.summary
        /\ mine.request.asOf = yours.request.asOf
        /\ SameActions(mine.followed, yours.followed)
        => \A r \in mine.plan.receipts, o \in yours.plan.receipts :
              r.id.action = o.id.action => r.id = o.id

(* A propagation ends, though agents go on and changes lead back to one    *)
(* another, if its agent carries the path or the depth.                    *)
EveryPropagationEnds ==
    \A a \in Agents : agent[a].phase = "reading" ~> agent[a].phase = "resting"

(* "Unsatisfied HITL approval gates appear as hard blocks": a plan that    *)
(* names a dependency of its targets on an approval is blocked.            *)
ApprovalsGateThePlan ==
    \A a \in Agents :
        agent[a].phase = "planned" =>
            \A r \in UNION {v.relationships : v \in Views} :
                r.links.type = "APPROVAL" /\ r.body.status # "active"
                    /\ r.ref \in agent[a].plan.affected => agent[a].plan.blocked
=============================================================================
