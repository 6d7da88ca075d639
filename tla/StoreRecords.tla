---------------------------- MODULE StoreRecords ----------------------------
(***************************************************************************)
(* The records of the program graph and the questions asked of it, as the  *)
(* three backends of the repository interface share them: the Neo4j store, *)
(* the in-memory graph store, and the in-memory repository.                *)
(*                                                                         *)
(* All kinds of record have one shape.  ref is the record's own id; links  *)
(* are a project's active programs, an integration point's related         *)
(* projects, or what a decision or fact applies to; the rest of a record   *)
(* is its body.  The five kinds of macro fact are one kind; there is one   *)
(* portfolio.  The orders in which lists are sorted are left out.          *)
(***************************************************************************)
EXTENDS Integers, Sequences, FiniteSets

CONSTANTS
    Refs,       \* the refs of nodes: program, project, artifact ids alike
    Unset       \* an absent optional value

(* Kinds kept as PmRef nodes, in a label of their own, or appended.        *)
NodeKinds == {"program", "project", "integration", "contract", "evidence",
              "artifact", "decision", "intelligence", "macro"}
RowKinds == {"expected", "status", "event", "cursor", "registry"}
LogKinds == {"observed", "entry"}
EdgeKinds == {"membership", "relationship"}
Kinds == NodeKinds \cup RowKinds \cup LogKinds \cup EdgeKinds

Rec(kind, ref, program, project, links, body) ==
    [kind |-> kind, ref |-> ref, program |-> program, project |-> project,
     links |-> links, body |-> body]

(* A scope [program, projects] names a program or Unset, and a list of     *)
(* projects, perhaps empty, or Unset.  A query adds, for decisions and     *)
(* facts, a branch and a time to see them from, the statuses to show and   *)
(* the refs (targets) they must be about.                                  *)
Holds(filter, value) == filter = Unset \/ filter = value
AnyOf(filter, values) == filter \in {Unset, {}} \/ filter \cap values # {}

(* The items of a sequence at the given places, in their order.            *)
Nth(here, n) == CHOOSE i \in here : Cardinality({j \in here : j <= i}) = n
Picked(s, here) == [n \in 1 .. Cardinality(here) |-> s[Nth(here, n)]]

(* inScope and matchesProjectScope, alike in both in-memory backends.      *)
InScope(r, scope) == Holds(scope.program, r.program)
MatchesProjectScope(project, scope) == AnyOf(scope.projects, {project})
MatchesLedgerScope(r, scope) == InScope(r, scope) /\ MatchesProjectScope(r.project, scope)

(* A dated body has [status, branch, from, to]: what has no branch is on   *)
(* every branch, and what has no end goes on.                              *)
WithinContextAnchor(body, query) ==
    /\ query.branch = Unset \/ body.branch \in {Unset, query.branch}
    /\ query.asOf = Unset \/
          (body.from <= query.asOf /\ (body.to = Unset \/ body.to >= query.asOf))
=============================================================================
