--------------------------- MODULE MCFlightPlanner ---------------------------
(***************************************************************************)
(* Two agents and three targets, two of which lead to each other; one has  *)
(* two actions.  A change is put in either of two ways.  An approval and   *)
(* evidence depend on the first target, or an assessment was seeded.       *)
(***************************************************************************)
EXTENDS FlightPlanner, TLC

CONSTANTS t1, t2, t3, change, w1, w2

MCTargetOf == <<t1, t2, t3, t1>>
MCDefaultEdge == t1 :> 1 @@ t2 :> 2 @@ t3 :> 3
MCSpread == t1 :> {t1, t2, t3} @@ t2 :> {t1, t2, t3} @@ t3 :> {}

Request(targets, requested, rationale, max, asOf) ==
    [targets |-> targets, summary |-> w1, requested |-> requested, rationale |-> rationale,
     depth |-> 0, max |-> max, path |-> <<>>, asOf |-> asOf]
MCRequests ==
    {Request({t1, t2}, {}, <<>>, 1, Unset), Request({t1}, {1, 4}, 1 :> w2, 2, 1)}
MCCarried == {{"path"}, {"depth"}}

Dependency(ref, to, type, status) ==
    Rec("relationship", ref, Unset, Unset, [from |-> t1, to |-> to, type |-> type],
        [status |-> status, from |-> 1, to |-> Unset, evidence |-> {"E1"}])
MCViews ==
    {[relationships |-> {}, decisions |-> {}],
     [relationships |-> {Dependency("R1", t2, "APPROVAL", "pending"),
                         Dependency("R2", t2, "EVIDENCE", "stale")},
      decisions |-> {}]}

MCSeeded ==
    {[affected |-> {t2}, findings |-> {}, approvals |-> {"authority"},
      obligations |-> {[policy |-> "tier1", target |-> t2, status |-> "missing"]}]}
MCUnseeded == {Unset}
=============================================================================
