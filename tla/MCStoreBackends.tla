-------------------------- MODULE MCStoreBackends --------------------------
(***************************************************************************)
(* Two callers of a small graph: a program and one named only by a         *)
(* membership, two projects of which one moves home, dependencies with a   *)
(* cycle and one that changes ends, and one record or two of other kinds.  *)
(***************************************************************************)
EXTENDS StoreBackends, TLC

MCRefs == {"G1", "G2", "P1", "P2", "I1", "C1", "E1", "A1", "K1", "N1", "M1"}

End(from, to, type) == [from |-> from, to |-> to, type |-> type]
Edge(status, from, to) == [status |-> status, from |-> from, to |-> to, evidence |-> {"E1"}]
Dated(status, branch, from, to) ==
    [status |-> status, branch |-> branch, from |-> from, to |-> to, evidence |-> {"E1"}]

Homes == {Rec("program", "G1", Unset, Unset, Unset, "active"),
          Rec("project", "P1", "G1", Unset, {"G1", "G2"}, "active"),
          Rec("project", "P1", "G2", Unset, Unset, "retired"),
          Rec("membership", Unset, "G2", "P1", Unset, Unset),
          Rec("membership", Unset, "G2", "P1", Unset, {"E1"}),
          Rec("integration", "I1", Unset, "P1", {"P1", "P2"}, "active"),
          Rec("contract", "C1", Unset, "P1", Unset, {"E1"})}

Edges == {Rec("relationship", "R1", "G1", "P1", End("P1", "C1", "EVIDENCE"), Edge("active", 1, Unset)),
          Rec("relationship", "R1", "G1", "P2", End("P2", "P1", "EVIDENCE"), Edge("stale", 1, 1)),
          Rec("relationship", "R2", "G1", "P1", End("C1", "P1", "APPROVAL"), Edge("blocked", 1, Unset)),
          Rec("relationship", "R3", "G1", "P1", End("C1", "P2", "OTHER"), Edge("pending", 2, Unset))}

Pointers == {Rec("evidence", "E1", Unset, Unset, "A1", [kind |-> "log", redaction |-> "none"]),
             Rec("artifact", "A1", Unset, Unset, Unset, "none"),
             Rec("artifact", "E1", Unset, Unset, Unset, "blocked"),
             Rec("decision", "K1", "G1", Unset, {"P1"}, Dated("applicable", "main", 1, Unset)),
             Rec("decision", "K1", "G1", "P1", {"C1"}, Dated("superseded", Unset, 1, 1)),
             Rec("decision", "A1", "G1", "P1", {"C1", "P1"}, Dated("future_not_applicable", Unset, 2, Unset)),
             Rec("intelligence", "N1", "G1", "P1", {"C1"}, Dated(Unset, "main", 2, Unset)),
             Rec("macro", "M1", "G1", "P1", {"E1"},
                 [branch |-> "main", from |-> 1, to |-> 1, superseded |-> TRUE])}

Ledger == {Rec("expected", "X1", "G1", "P1", Unset, "open"),
           Rec("status", "X1", "G1", "P1", Unset, "in_flight"),
           Rec("observed", "X1", "G1", "P1", Unset, "done"),
           Rec("observed", "X1", "G1", Unset, Unset, "failed"),
           Rec("entry", "X1", "G1", "P1", Unset, "done"),
           Rec("cursor", "cursor", Unset, Unset, Unset, 1),
           Rec("registry", "X1", Unset, Unset, Unset, 1),
           Rec("registry", "X1", Unset, Unset, Unset, 2)}

Events == {Rec("event", "V1", Unset, Unset, Unset, Unset),
           Rec("event", "V1", Unset, Unset, Unset, "k1"),
           Rec("event", "V2", Unset, Unset, Unset, "k1"),
           Rec("event", "V2", Unset, Unset, Unset, "k2")}

MCInputs == Homes \cup Edges \cup Pointers \cup Ledger \cup Events

Ask(program, projects, asOf, targets) ==
    [scope |-> [program |-> program, projects |-> projects], branch |-> "main",
     asOf |-> asOf, statuses |-> Unset, targets |-> targets, superseded |-> asOf = Unset]

MCQueries == {Ask(Unset, Unset, Unset, Unset), Ask("G1", {}, 1, {"C1"}),
              Ask("G2", {"P1"}, Unset, {"P1"}), Ask("G1", {"P1"}, 2, {}),
              Ask(Unset, Unset, 1, {"C1"}), Ask(Unset, Unset, 1, {"C1", "P1"}),
              Ask("G1", {"P2"}, 2, {"E1"}),
              [Ask("G1", {"P1"}, 1, Unset) EXCEPT !.statuses = {"applicable"}],
              [Ask(Unset, Unset, Unset, Unset) EXCEPT !.statuses = {}]}
Symmetric == Permutations(Writers)
=============================================================================
