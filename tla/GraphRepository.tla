-------------------------- MODULE GraphRepository --------------------------
(***************************************************************************)
(* What the graph repository works out from the lists of a store: impact   *)
(* (who depends, along the dependency graph, on what changes), context     *)
(* (what the graph knows about a set of refs), macro facts and events.     *)
(*                                                                         *)
(* A view is the store's lists in one scope.  A relationship is an edge of *)
(* links [from, to, type] and body [status, from, to, evidence], where     *)
(* body.from and body.to bound its validity; none names a contract.        *)
(* Reasons, summaries, orders and limits are left out.                     *)
(***************************************************************************)
EXTENDS StoreRecords, SequencesExt

Applying(view, refs) == {d \in view.decisions : d.links \cap refs # {}}

-----------------------------------------------------------------------------
(* Impact: a breadth-first walk along the edges valid at the time asked    *)
(* about.                                                                  *)

InWindow(edge, asOf) ==
    asOf = Unset \/
        (edge.body.from <= asOf /\ (edge.body.to = Unset \/ edge.body.to >= asOf))

DepartingAnyTime(view, ref, asOf) == {e \in view.relationships : e.links.from = ref}

Departing(view, ref, asOf) ==
    {e \in view.relationships : e.links.from = ref /\ InWindow(e, asOf)}

(* One turn of the loop: the ref at the head of the queue is taken, and    *)
(* the refs its edges lead to are queued unless they have been before.     *)
VisitNext(walk, view, asOf) ==
    IF walk.queue = <<>> THEN walk
    ELSE LET edges == Departing(view, Head(walk.queue), asOf)
             fresh == {e.links.to : e \in edges} \ walk.visited IN
         [queue |-> Tail(walk.queue) \o SetToSeq(fresh), visited |-> walk.visited \cup fresh,
          edges |-> walk.edges \cup edges]

(* The walk after so many turns, and the edges it ends with: a ref is      *)
(* queued once, so the loop turns at most once for every ref.              *)
Walk(view, change, asOf) ==
    LET walk[turn \in Nat] ==
            IF turn = 0 THEN [queue |-> <<change>>, visited |-> {change}, edges |-> {}]
            ELSE VisitNext(walk[turn - 1], view, asOf) IN
    walk

Walked(view, change, asOf) == Walk(view, change, asOf)[Cardinality(Refs)].edges

Severity(status) ==
    CASE status = "blocked" -> "critical" [] status = "stale" -> "high"
      [] status = "pending" -> "medium"   [] OTHER -> "low"

(* EVIDENCE and APPROVAL stand for the types of dependency whose names     *)
(* contain the word.                                                       *)
ObligationStatus(status) ==
    CASE status \in {"active", "satisfied"} -> "satisfied"
      [] status = "stale" -> "stale" [] OTHER -> "missing"

AssessImpact(view, change, targets, asOf) ==
    LET edges == Walked(view, change, asOf) IN
    [affected |-> {e.links.to : e \in {e \in edges : AnyOf(targets, {e.links.to})}},
     findings |->
        {[id |-> e.ref, severity |-> Severity(e.body.status)] :
            e \in {e \in edges : e.body.status # "active"}}
        \cup {[id |-> d.ref, severity |->
                 IF d.body.status = "superseded" THEN "medium" ELSE "low"] :
                d \in {d \in Applying(view, targets) : d.body.status # "applicable"}},
     approvals |-> {e.links.to : e \in {e \in edges : e.links.type = "APPROVAL"}},
     obligations |->
        {[policy |-> e.ref, target |-> e.links.to, status |-> ObligationStatus(e.body.status)] :
            e \in {e \in edges : e.links.type = "EVIDENCE"}}]

-----------------------------------------------------------------------------
(* Context: records that are targets, what a dependency connects them to,  *)
(* decisions that apply to them, and the evidence and artifacts of these.  *)

Match(ref, kind, reason) == [ref |-> ref, kind |-> kind, reason |-> reason]

TouchingAtOneEnd(view, targets) ==
    {e \in view.relationships : Cardinality({e.links.from, e.links.to} \cap targets) = 1}

Touching(view, targets) ==
    {e \in view.relationships : {e.links.from, e.links.to} \cap targets # {}}

Opposite(edge, targets) ==
    IF edge.links.from \in targets THEN edge.links.to ELSE edge.links.from

(* Superseded and future decisions are shown only when asked for.          *)
MatchedDecisions(view, targets, shown) ==
    {d \in view.decisions :
        /\ d.body.status \notin {"superseded", "future_not_applicable"} \ shown
        /\ d.ref \in targets \/ d.links \cap targets # {}}

GetProgramContext(view, targets, shown) ==
    LET direct(kind) == {Match(r.ref, kind, "direct") :
                            r \in {r \in view[kind] : r.ref \in targets}}
        decided == MatchedDecisions(view, targets, shown)
        cited == targets \cup UNION {r.body.evidence : r \in decided \cup Touching(view, targets)}
        evidence == {e \in view.evidence : e.ref \in cited}
        artifacts == {a \in view.artifacts :
                        a.ref \in targets \/ \E e \in evidence : e.links = a.ref}
        reason(r) == IF r.ref \in targets THEN "direct" ELSE "linked" IN
    (UNION {direct(kind) : kind \in {"programs", "projects", "integrations", "contracts"}})
    \cup {Match(Opposite(e, targets), "inferred", e.ref) : e \in Touching(view, targets)}
    \cup {Match(d.ref, "decision", reason(d)) : d \in decided}
    \cup {Match(e.ref, "evidence", reason(e)) : e \in evidence}
    \cup {Match(a.ref, "artifact", reason(a)) : a \in artifacts}

-----------------------------------------------------------------------------
(* Macro facts: of the facts in scope those of their time, about a target  *)
(* if any are named, and not superseded unless these are asked for.        *)
ListMacroFacts(facts, query) ==
    {r \in facts :
        /\ WithinContextAnchor(r.body, query)
        /\ query.superseded \/ ~r.body.superseded
        /\ AnyOf(query.targets, {r.ref, r.project} \cup r.links)}

(* Events: the first that has the key (the body of an event).              *)
GetEventByIdempotencyKey(events, key) == {e \in events : e.body = key}
=============================================================================
