------------------------ MODULE MCIntegrationRecords ------------------------
(* Instances of IntegrationRecords for TLC.                                *)
EXTENDS IntegrationRecords, TLC

CONSTANTS a1, a2, a3, point, pa, pb, k1, k2, k3, c1, c2, c3, ref1, ref2, i1, i2, open, done

Request(kind, key, correlation) ==
    [point |-> point, kind |-> kind, key |-> key, correlation |-> correlation,
     authorized |-> TRUE, grants |-> {pa}, consumers |-> {}, refs |-> {},
     status |-> "unset", item |-> NoItem]

Blocker(id, status, blocked) ==
    [id |-> id, status |-> status, reporter |-> NoProject, blocked |-> blocked]

Create == [Request("create", k1, c1) EXCEPT !.consumers = {pa, pb}, !.refs = {ref1}]
Record1 == [Request("coordinate", k2, c2) EXCEPT
               !.item = Blocker(i1, open, pb), !.refs = {ref2}, !.status = "active"]
Retire == Request("retire", k3, c3)

(* A repeat of Record1 under another correlation and item id.              *)
Repeat == [Record1 EXCEPT !.correlation = c3, !.item = Blocker(i2, open, NoProject)]
Leave == [Request("remove_project", k3, c1) EXCEPT !.consumers = {pb}]

(* Every kind of request but add_project, and one from the wrong actor.    *)
MCCalls ==
    {Create, Record1, Repeat, Retire, Leave,
     [Request("decide_blocker", k3, c3) EXCEPT !.item = Blocker(i1, done, NoProject)],
     [Request("update", k3, c3) EXCEPT !.status = "active"],
     Request("read", k1, c1),
     [Create EXCEPT !.authorized = FALSE]}

Symmetry == Permutations(Attempts)
=============================================================================
