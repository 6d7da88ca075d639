----------------------------- MODULE RecordStore -----------------------------
(***************************************************************************)
(* What manage_integrations makes of the integration records, whatever its *)
(* handlers do on the way: a call changes a record at most once, in one    *)
(* step, by the rules, and from a record that was in the store.  If calls  *)
(* take turns it is the one in the store now, so every change builds on    *)
(* all before it and a state hash guards what it was computed from.  If    *)
(* they overlap it may be an earlier one, and the changes made since are   *)
(* lost.                                                                   *)
(***************************************************************************)
CONSTANTS Points, Attempts, Calls, NoRecord, Serial,
          Decide(_, _, _),  \* the verdict on a call, a record and a state hash
          Rebuild(_, _, _)  \* the record a call makes of a record
VARIABLES records, versions

vars == <<records, versions>>

Init ==
    /\ records = [p \in Points |-> NoRecord]
    /\ versions = [p \in Points |-> {}]

(* The records a change of point p may be computed from.                   *)
Bases(p) == IF Serial THEN {records[p]} ELSE versions[p] \cup {NoRecord}

Change(q, a) ==
    /\ \A p \in Points : \A v \in versions[p] : v.by # a
    /\ \E old \in Bases(q.point), expects \in versions[q.point] \cup {NoRecord} :
         /\ Decide(q, old, expects) = "write"
         /\ records' = [records EXCEPT ![q.point] = Rebuild(q, old, a)]
         /\ versions' = [versions EXCEPT ![q.point] =
                             versions[q.point] \cup {Rebuild(q, old, a)}]

Next == \E q \in Calls, a \in Attempts : Change(q, a)

Spec == Init /\ [][Next]_vars
=============================================================================
