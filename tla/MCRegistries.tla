---------------------------- MODULE MCRegistries ----------------------------
(* Instances of Registries for TLC.                                        *)
EXTENDS Registries, TLC

CONSTANTS a1, a2, a3, p1, p2, j1, x1, e1, m1, m2, pt1, h1, t1, t2, w1, c1, c2

NoProgram == [id |-> None, status |-> None, pointer |-> None]
NoProject == [id |-> None, program |-> None, status |-> None, pointer |-> None]
TheProject(program) == [NoProject EXCEPT !.id = j1, !.program = program]

Manage(action, correlation) ==
    [tool |-> "manage_projects", action |-> action, role |-> "human_operator",
     correlation |-> correlation, program |-> None, project |-> None,
     programBody |-> NoProgram, projectBody |-> NoProject]

CreateBoth ==
    [Manage("create", c1) EXCEPT !.programBody = [NoProgram EXCEPT !.id = p1],
                                 !.projectBody = TheProject(p1)]
RetireProject == [Manage("retire", c2) EXCEPT !.project = j1]
SetRole == [Manage("set_project_role", c2) EXCEPT
               !.projectBody = [TheProject(None) EXCEPT !.pointer = pt1]]
RemoveProject ==
    [Manage("remove_project", c1) EXCEPT !.program = p1, !.projectBody = TheProject(None)]

MCProjectCalls ==
    {CreateBoth, RetireProject, SetRole, RemoveProject,
     [Manage("add_project", c2) EXCEPT !.projectBody = TheProject(p2)],
     [Manage("link_tracker", c1) EXCEPT
         !.programBody = [id |-> p1, status |-> None, pointer |-> pt1]],
     [Manage("retire", c1) EXCEPT !.program = p1],
     [Manage("update", c2) EXCEPT
         !.programBody = [id |-> p1, status |-> "active", pointer |-> None]],
     [Manage("help", c2) EXCEPT !.role = "execution_agent", !.projectBody = TheProject(p1)],
     [Manage("get", c1) EXCEPT !.role = "execution_agent", !.projectBody = TheProject(p1)],
     [CreateBoth EXCEPT !.role = "execution_agent"]}

ManageEvidence(action, correlation) ==
    [tool |-> "manage_evidence_items", action |-> action, role |-> "human_operator",
     correlation |-> correlation, evidence |-> e1, artifact |-> None, hash |-> None,
     attaches |-> {}, redaction |-> None]

Register == [ManageEvidence("register", c1) EXCEPT !.artifact = x1, !.hash = h1]

MCEvidenceCalls ==
    {Register,
     [ManageEvidence("attach_to_integration", c2) EXCEPT !.attaches = {t1}],
     [ManageEvidence("attach_to_decision", c2) EXCEPT !.attaches = {t2}, !.artifact = x1],
     [ManageEvidence("retire", c1) EXCEPT !.artifact = x1],
     [ManageEvidence("classify", c2) EXCEPT !.redaction = "redacted"],
     [ManageEvidence("rename", c1) EXCEPT !.artifact = x1, !.evidence = None],
     ManageEvidence("get", c1),
     [ManageEvidence("help", c1) EXCEPT !.evidence = None],
     [Register EXCEPT !.role = "execution_agent"]}

Edit(macro, text, enabled, correlation) ==
    [tool |-> "pmo_macro", action |-> "edit_registry", role |-> "program_manager_agent",
     correlation |-> correlation, macro |-> macro, text |-> text, enabled |-> enabled,
     locked |-> FALSE]

MCMacroCalls ==
    {Edit(m1, w1, None, c1), Edit(m1, None, FALSE, c1), Edit(m2, None, FALSE, c2),
     Edit(m2, Malformed, None, c2),
     [Edit(m1, w1, None, c2) EXCEPT !.locked = TRUE],
     [Edit(m1, w1, None, c2) EXCEPT !.role = "human_operator"],
     [Edit(m1, None, None, c2) EXCEPT !.action = "list"]}

MCWorkloads == {MCProjectCalls, MCEvidenceCalls, MCMacroCalls}

Symmetry == Permutations(Attempts)
=============================================================================
