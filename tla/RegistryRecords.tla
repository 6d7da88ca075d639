--------------------------- MODULE RegistryRecords ---------------------------
(***************************************************************************)
(* What the three registries of a portfolio keep, and the calls that       *)
(* change them: programs and projects (manage_projects), evidence and      *)
(* artifact pointers (manage_evidence_items), and the macro registry       *)
(* (pmo_macro edit_registry).  Names, goals and pointers are all "given,   *)
(* or as it was" and are one field, pointer; None is a value that is not   *)
(* given.  A record without a status is active.                            *)
(***************************************************************************)
EXTENDS Sequences, FiniteSets

CONSTANTS
    Programs, Projects, Artifacts, Evidence,    \* refs of records
    Macros,         \* the macro ids of the registry
    Registry,       \* the ref of the macro registry
    Pointers,       \* metadata a program or project points to
    Digests,        \* content hashes of artifacts
    Targets,        \* what evidence can be attached to
    Texts,          \* titles and descriptions of macros
    Malformed,      \* a value the result schema does not accept
    Correlations, None

Refs == Programs \cup Projects \cup Artifacts \cup Evidence \cup {Registry}

ASSUME RefsAreDistinct ==
    /\ Programs \cap Projects = {} /\ Artifacts \cap Evidence = {}
    /\ (Programs \cup Projects) \cap (Artifacts \cup Evidence) = {}
    /\ Registry \notin Programs \cup Projects \cup Artifacts \cup Evidence
    /\ None \notin Refs \cup Pointers \cup Digests \cup Texts

(* The value given in the call, or else the one there was.                 *)
Given(new, old) == IF new # None THEN new ELSE old

Opt(S) == S \cup {None}

Statuses == {"active", "retired"}
Redactions == {"not_required", "redacted", "blocked"}

ProgramRecord == [status : Statuses, pointer : Opt(Pointers)]

ProjectRecord ==
    [home : Programs, active : SUBSET Programs, status : Statuses, pointer : Opt(Pointers)]

ArtifactRecord == [hash : Digests \cup {"zero"}, redaction : Redactions]

EvidenceRecord ==
    [artifact : Opt(Artifacts), attaches : SUBSET Targets, redaction : Opt(Redactions)]

RegistryRecord == [Macros -> [text : Texts \cup {Malformed, "built_in"}, enabled : BOOLEAN]]

RecordsOf(r) ==
    IF r \in Programs THEN ProgramRecord
    ELSE IF r \in Projects THEN ProjectRecord
    ELSE IF r \in Artifacts THEN ArtifactRecord
    ELSE IF r \in Evidence THEN EvidenceRecord
    ELSE RegistryRecord

ASSUME NoneIsNoRecord == \A r \in Refs : None \notin RecordsOf(r)

-----------------------------------------------------------------------------
(* Calls.  A stranger is whoever assertReadAuthorized refuses.             *)

Roles == {"human_operator", "program_manager_agent", "execution_agent", "stranger"}
Managers == {"human_operator", "program_manager_agent"}

ProjectActions ==
    {"help", "list", "get", "create", "upsert", "update", "rename", "retire", "add_project",
     "remove_project", "set_project_role", "link_tracker", "link_repo", "link_adapter",
     "record_goal"}

(* A body whose id is None was not sent.                                   *)
ProgramBody == [id : Opt(Programs), status : Opt(Statuses), pointer : Opt(Pointers)]
ProjectBody ==
    [id : Opt(Projects), program : Opt(Programs), status : Opt(Statuses),
     pointer : Opt(Pointers)]

ProjectCall ==
    [tool : {"manage_projects"}, action : ProjectActions, role : Roles,
     correlation : Correlations, program : Opt(Programs), project : Opt(Projects),
     programBody : ProgramBody, projectBody : ProjectBody]

EvidenceActions ==
    {"help", "list", "get", "register", "update", "rename", "retire", "add_artifact",
     "link_evidence", "classify", "set_retention", "attach_to_integration",
     "attach_to_decision", "attach_to_learning"}

EvidenceCall ==
    [tool : {"manage_evidence_items"}, action : EvidenceActions, role : Roles,
     correlation : Correlations, evidence : Opt(Evidence), artifact : Opt(Artifacts),
     hash : Opt(Digests), attaches : SUBSET Targets, redaction : Opt(Redactions)]

(* The correlation of an edit is its actor and the moment: they make the   *)
(* id of its event.  A locked edit sets a field that may not be edited, or *)
(* a role with authority downstream.                                       *)
MacroCall ==
    [tool : {"pmo_macro"}, action : {"list", "edit_registry"}, role : Roles,
     correlation : Correlations, macro : Macros, text : Opt(Texts \cup {Malformed}),
     enabled : Opt(BOOLEAN), locked : BOOLEAN]

ProjectCallAccepted(q) ==
    LET given == {b \in {q.programBody, q.projectBody} : b.id # None}
    IN  /\ q.action \in {"create", "upsert"} => given # {}
        /\ q.action \in {"get", "retire"} =>
               given # {} \/ q.program # None \/ q.project # None
        /\ q.action \in {"add_project", "remove_project", "set_project_role"} =>
               q.projectBody.id # None
        /\ q.action = "set_project_role" => q.projectBody.pointer # None
        /\ q.action \in {"link_tracker", "link_repo", "link_adapter", "record_goal"} =>
               \E b \in given : b.pointer # None
        /\ q.action \in {"create", "upsert", "add_project", "remove_project"} =>
               \/ q.projectBody.id = None
               \/ {q.projectBody.program, q.programBody.id, q.program} # {None}

EvidenceCallAccepted(q) ==
    /\ q.action \in {"get", "update", "rename", "retire", "classify", "set_retention"} =>
           q.evidence # None \/ q.artifact # None
    /\ q.action \in {"register", "add_artifact"} /\ q.artifact # None => q.hash # None
    /\ q.action \in {"attach_to_integration", "attach_to_decision", "attach_to_learning"} =>
           q.attaches # {}

Accepted(q) ==
    \/ q \in ProjectCall /\ ProjectCallAccepted(q)
    \/ q \in EvidenceCall /\ EvidenceCallAccepted(q)
    \/ q \in MacroCall
=============================================================================
