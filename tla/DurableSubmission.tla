-------------------------- MODULE DurableSubmission --------------------------
(***************************************************************************)
(* What the receipt ledger promises the submitter of a receipt, whatever   *)
(* else goes on: the receipt is recorded at most once per submission, the  *)
(* submission is booked in the action ledger only once recorded, an        *)
(* acceptance is announced only once booked, a refusal only if nothing was *)
(* recorded, and nothing recorded or booked is withdrawn.  A submission    *)
(* cut short leaves its submitter without an answer, and whatever it had   *)
(* recorded and booked by then.                                            *)
(***************************************************************************)
CONSTANT Attempts
VARIABLES recorded, booked, outcome

vars == <<recorded, booked, outcome>>

TypeOK ==
    /\ recorded \subseteq Attempts
    /\ booked \subseteq Attempts
    /\ outcome \in [Attempts -> {"pending", "accepted", "refused", "unknown"}]

Init ==
    /\ recorded = {} /\ booked = {}
    /\ outcome = [a \in Attempts |-> "pending"]

Conclude(a, answer) ==
    /\ outcome[a] = "pending"
    /\ outcome' = [outcome EXCEPT ![a] = answer]
    /\ UNCHANGED <<recorded, booked>>

Record(a) ==
    /\ outcome[a] = "pending" /\ a \notin recorded
    /\ recorded' = recorded \cup {a}
    /\ UNCHANGED <<booked, outcome>>

Book(a) ==
    /\ outcome[a] = "pending" /\ a \in recorded \ booked
    /\ booked' = booked \cup {a}
    /\ UNCHANGED <<recorded, outcome>>

Acknowledge(a) == a \in booked /\ Conclude(a, "accepted")
Refuse(a) == a \notin recorded /\ Conclude(a, "refused")
LoseContact(a) == Conclude(a, "unknown")

Next ==
    \E a \in Attempts :
        Record(a) \/ Book(a) \/ Acknowledge(a) \/ Refuse(a) \/ LoseContact(a)

Spec == Init /\ [][Next]_vars
=============================================================================
