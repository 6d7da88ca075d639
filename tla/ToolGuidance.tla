----------------------------- MODULE ToolGuidance -----------------------------
(***************************************************************************)
(* The tool schemas and the guidance the gateway answers a call with that  *)
(* its schema rejects: the correctForm an agent is to retry.               *)
(*                                                                         *)
(* A request is a tool, an action and what is given: a function from the   *)
(* paths present, after null fields are stripped, to what stands there.    *)
(* "valid" is a value the schema accepts; "slug" a string that is a ref    *)
(* once it has a scheme, or a list with one; "words" text with a blank,    *)
(* which no scheme makes a ref, or a list with one; "empty" the empty      *)
(* string; "unsorted" a list of refs out of order; "other" a value of      *)
(* another type.  A program, project, integration, item or evidence record *)
(* is given when a path below it is.                                       *)
(* The path "extra" stands for a key no schema knows, "program.detail" and *)
(* "project.detail" for the field the action is about, "item.projectId"    *)
(* for the four project fields of an item, "legacy" for the required input *)
(* of a legacy tool.  An action's hashes and flags are left out.           *)
(***************************************************************************)
EXTENDS Naturals, Sequences

CONSTANTS
    SoleGrant,         \* the actor is granted exactly one program
    KnownNamespaces    \* the namespace of a given integration ref is a known program

ASSUME GuidanceAssumption == SoleGrant \in BOOLEAN /\ KnownNamespaces \in BOOLEAN

Kinds == {"valid", "slug", "words", "empty", "unsorted", "other"}

ProjectActions ==
    {"help", "list", "get", "create", "upsert", "update", "rename", "retire",
     "add_project", "remove_project", "set_project_role", "link_tracker",
     "link_repo", "link_adapter", "record_goal"}

ItemActions ==
    {"record_goal", "acknowledge_goal", "submit_gap_report", "update_gap",
     "record_blocker", "update_blocker", "assign_blocker_owner",
     "mark_blocker_unblocked", "mark_blocker_resolved", "reopen_blocker",
     "identify_blockers", "request_decision", "record_decision",
     "submit_project_response", "record_conflict", "record_learning",
     "link_tracker_ref"}

IntegrationActions ==
    {"help", "list", "get", "create", "upsert", "update", "rename", "retire", "delete",
     "add_project", "remove_project", "add_artifact", "inbox", "catch_up", "supersede"}
    \cup ItemActions

EvidenceActions ==
    {"help", "list", "get", "register", "update", "rename", "retire", "add_artifact",
     "link_evidence", "classify", "set_retention", "attach_to_integration",
     "attach_to_decision", "attach_to_learning"}

MacroActions == {"help", "list", "describe", "validate", "invoke", "edit_registry"}

AllowedActions(tool) ==
    CASE tool = "manage_projects" -> ProjectActions
      [] tool = "manage_integrations" -> IntegrationActions
      [] tool = "manage_evidence_items" -> EvidenceActions
      [] tool = "pmo_macro" -> MacroActions
      [] OTHER -> {"call"}

(* Legacy tools whose schema asks for no more than the common context.     *)
BareTools == {"pmo_help", "list_program_capabilities", "generate_program_update",
              "get_program_audit_trail"}

-----------------------------------------------------------------------------
(* What the schemas accept.                                                *)

Given(g, p) == p \in DOMAIN g
Valid(g, p) == p \in DOMAIN g /\ g[p] = "valid"

Below(record) ==
    CASE record = "program" -> {"program.programId", "program.name", "program.detail"}
      [] record = "project" -> {"project.projectId", "project.programId", "project.name",
                                "project.detail"}
      [] record = "item" -> {"item.itemType", "item.itemId", "item.projectId",
                             "item.affectedProjectIds", "item.artifactRefs",
                             "item.blockedOnRefs", "item.trackerRefs",
                             "item.clearanceCriteria", "item.status", "item.summary"}
      [] record = "evidenceItem" -> {"evidenceRef", "artifactRef", "kind", "artifactType",
                                     "storageUri", "contentHash", "attachesToRefs"}

HasRecord(g, record) == Below(record) \cap DOMAIN g # {}

IntegrationPaths == {"integrationPointId", "producerProjectId", "consumerProjectIds",
                     "purpose", "integration.artifactRef"} \cup Below("item")
HasIntegration(g) == IntegrationPaths \cap DOMAIN g # {}

(* Keys no schema has, at the place where they are given.                  *)
UnknownKeys == {"extra", "artifactRefs", "projectId", "consumerProjectId"}

(* These lists need not be sorted; a macro's input may hold anything, and  *)
(* pmo_help takes any scope.                                               *)
AnyOrder == {"evidenceRefs", "consumerProjectIds"}
WellFormed(tool, g) ==
    \A p \in DOMAIN g : \/ g[p] = "valid"
                        \/ g[p] = "unsorted" /\ p \in AnyOrder
                        \/ g[p] # "other" /\ p = "input"
                        \/ g[p] \in {"slug", "words", "unsorted"} /\ tool = "pmo_help"

AcceptsProjects(a, g) ==
    /\ HasRecord(g, "program") => Given(g, "program.programId")
    /\ HasRecord(g, "project") => Given(g, "project.projectId")
    /\ a \in {"create", "upsert"} =>
          /\ HasRecord(g, "program") \/ HasRecord(g, "project")
          /\ HasRecord(g, "program") => Given(g, "program.name")
          /\ HasRecord(g, "project") => Given(g, "project.name")
    /\ a \in {"get", "retire"} =>
          \E p \in {"programId", "program.programId", "project.projectId", "projectIds"} :
              Given(g, p)
    /\ a \in {"add_project", "remove_project", "set_project_role"} =>
          Given(g, "project.projectId")
    /\ a \in {"create", "upsert", "add_project", "remove_project"} /\ HasRecord(g, "project") =>
          \E p \in {"project.programId", "program.programId", "programId"} : Given(g, p)
    /\ a = "set_project_role" => Given(g, "project.detail")
    /\ a \in {"link_tracker", "link_repo", "link_adapter", "record_goal"} =>
          \E p \in {"project.detail", "program.detail"} : Given(g, p)

AcceptsIntegrations(a, g) ==
    /\ HasIntegration(g) => Given(g, "integrationPointId")
    /\ HasRecord(g, "item") => Given(g, "item.itemType")
    /\ a \notin {"help", "list"} => HasIntegration(g)
    /\ a \in {"create", "upsert"} => Given(g, "producerProjectId")
    /\ a \in {"add_project", "remove_project"} => Given(g, "consumerProjectIds")

Attaching == {"attach_to_integration", "attach_to_decision", "attach_to_learning"}

AcceptsEvidence(a, g) ==
    /\ a \notin {"help", "list"} => HasRecord(g, "evidenceItem")
    /\ a \in {"get", "update", "rename", "retire", "classify", "set_retention"} =>
          Given(g, "evidenceRef") \/ Given(g, "artifactRef")
    /\ a \in {"register", "add_artifact"} /\ Given(g, "artifactRef") =>
          Given(g, "storageUri") /\ Given(g, "contentHash")
    /\ a \in {"register", "link_evidence"} /\ Given(g, "evidenceRef") => Given(g, "kind")
    /\ a \in Attaching => Given(g, "attachesToRefs")

AcceptsMacro(a, g) ==
    /\ a \in {"describe", "validate", "invoke"} => Given(g, "macroId") \/ Given(g, "macroName")
    /\ a = "edit_registry" => Given(g, "registryPatchRef")

Accepts(r) ==
    LET g == r.given IN
    /\ r.action \in AllowedActions(r.tool)
    /\ WellFormed(r.tool, g) /\ Given(g, "traceId") /\ DOMAIN g \cap UnknownKeys = {}
    /\ CASE r.tool = "manage_projects" -> AcceptsProjects(r.action, g)
         [] r.tool = "manage_integrations" -> AcceptsIntegrations(r.action, g)
         [] r.tool = "manage_evidence_items" -> AcceptsEvidence(r.action, g)
         [] r.tool = "pmo_macro" -> AcceptsMacro(r.action, g)
         [] OTHER -> r.tool \in BareTools \/ Given(g, "legacy")

-----------------------------------------------------------------------------
(* Aliases, applied to every call before its schema sees it.               *)

Alias == [projectId |-> "projectIds", consumerProjectId |-> "consumerProjectIds"]

Renames(g, p) == p \in DOMAIN Alias /\ g[p] # "other" /\ ~Given(g, Alias[p])

NormalizePmoToolInput(g) ==
    LET gone == {p \in DOMAIN g : Renames(g, p)}
        stays == DOMAIN g \ gone IN
    [p \in stays \cup {Alias[q] : q \in gone} |->
        IF p \in stays THEN g[p] ELSE g[CHOOSE q \in gone : Alias[q] = p]]

-----------------------------------------------------------------------------
(* The guidance.  Refs of some paths are repaired first: a slug becomes a  *)
(* known ref, or one with the scheme of its path; their lists are sorted.  *)
(* Text with a blank only gets a scheme too, and is no ref; but a program  *)
(* that is told otherwise takes the place of any text.                     *)

ProgramRefs == {"programId", "program.programId", "project.programId"}
RepairedRefs == ProgramRefs \cup {"project.projectId", "integrationPointId",
                                  "producerProjectId", "item.projectId"}
RepairedLists == {"projectIds", "consumerProjectIds", "item.affectedProjectIds",
                  "attachesToRefs"}

(* The service, which answers for pmo_macro, looks at the grants alone.    *)
ProgramTold(r) ==
    \/ SoleGrant
    \/ r.tool # "pmo_macro" /\ KnownNamespaces /\ Valid(r.given, "integrationPointId")

RefRepaired(r, p) ==
    \/ r.given[p] = "slug" /\ p \in RepairedRefs \cup RepairedLists
    \/ r.given[p] = "words" /\ p \in ProgramRefs /\ ProgramTold(r)

(* Mutant: lists are mapped, but not sorted.                               *)
GuidanceRefRepairsUnsorted(r) ==
    [p \in DOMAIN r.given |-> IF RefRepaired(r, p) THEN "valid" ELSE r.given[p]]

GuidanceRefRepairs(r) ==
    [p \in DOMAIN r.given |->
        IF RefRepaired(r, p) \/ (r.given[p] = "unsorted" /\ p \in RepairedLists)
        THEN "valid" ELSE r.given[p]]

(* A form keeps a string or a list of strings as it is, and drops or       *)
(* replaces anything else; an item's fields are kept only if not empty.    *)
DroppedWhenEmpty == {"item.projectId", "item.itemId"}
Kept(g, p) == /\ Given(g, p) /\ g[p] # "other"
              /\ p \in DroppedWhenEmpty => g[p] # "empty"

Keep(g, carried, filled) ==
    LET kept == {p \in carried : Kept(g, p)} IN
    [p \in kept \cup filled |-> IF p \in kept THEN g[p] ELSE "valid"]

Common == {"traceId"}

(* The scope copied into forms for integrations and macros.                *)
Scope(g) == {"traceId", "projectIds"}
            \cup IF Given(g, "programId") /\ g["programId"] # "empty"
                 THEN {"programId"} ELSE {}

(* One program ref, the first given, is used throughout the form.          *)
ProjectsCorrection(a, g) ==
    LET action == IF a \in ProjectActions THEN a ELSE "list"
        programPaths == <<"program.programId", "project.programId", "programId">>
        first == {i \in 1 .. 3 : /\ Kept(g, programPaths[i])
                                 /\ \A j \in 1 .. i - 1 : ~Kept(g, programPaths[j])}
        refs == {"programId", "program.programId", "project.projectId"}
        paths == IF action = "list" THEN Common
                 ELSE IF action \in {"get", "retire"} THEN Common \cup refs
                 ELSE Common \cup refs
                      \cup {"project.programId", "program.name", "project.name"}
        form == Keep(g, paths, paths)
    IN [action |-> action,
        given |-> [p \in paths |->
                     IF p \notin {programPaths[i] : i \in 1 .. 3} THEN form[p]
                     ELSE IF first = {} THEN "valid"
                     ELSE g[programPaths[CHOOSE i \in first : TRUE]]]]

(* Top-level artifactRefs, unknown to the schema, move into the item.      *)
MovedArtifacts(g) ==
    LET moved == {p \in {"artifactRefs", "item.artifactRefs"} : Kept(g, p)} IN
    IF \E p \in moved : g[p] \in {"slug", "words"} THEN "slug" ELSE "valid"

CoordinationForm(g) ==
    LET form == Keep(g, Scope(g) \cup
                        {"evidenceRefs", "integrationPointId", "item.status", "item.summary",
                         "item.affectedProjectIds", "item.projectId", "item.blockedOnRefs",
                         "item.clearanceCriteria", "item.itemId", "item.trackerRefs",
                         "item.artifactRefs"},
                        {"traceId", "evidenceRefs", "integrationPointId", "item.itemType",
                         "item.status", "item.summary"}
                        \cup IF Kept(g, "artifactRefs") THEN {"item.artifactRefs"} ELSE {})
    IN [p \in DOMAIN form |->
           IF p = "item.artifactRefs" THEN MovedArtifacts(g) ELSE form[p]]

AddArtifactForm(g) ==
    LET form == Keep(g, Scope(g) \cup {"evidenceRefs", "integrationPointId"},
                        {"traceId", "evidenceRefs", "integrationPointId", "item.itemType",
                         "item.summary", "item.artifactRefs", "integration.artifactRef"})
    IN [p \in DOMAIN form |->
           IF p = "item.artifactRefs" THEN g["artifactRefs"]
           ELSE IF p = "integration.artifactRef" /\ g["artifactRefs"] \in {"slug", "words"}
           THEN g["artifactRefs"]
           ELSE form[p]]

LifecyclePaths(a) ==
    CASE a \in {"create", "upsert"} ->
           {"integrationPointId", "producerProjectId", "consumerProjectIds", "purpose"}
      [] a \in {"update", "rename"} -> {"integrationPointId", "purpose"}
      [] a \in {"add_project", "remove_project"} -> {"integrationPointId", "consumerProjectIds",
                                                     "evidenceRefs"}
      [] OTHER -> {"integrationPointId"}

IntegrationsCorrection(a, g) ==
    IF a \in ItemActions THEN [action |-> a, given |-> CoordinationForm(g)]
    ELSE IF Kept(g, "artifactRefs")
    THEN [action |-> "add_artifact", given |-> AddArtifactForm(g)]
    ELSE IF a \in IntegrationActions
    THEN [action |-> a,
          given |-> Keep(g, Scope(g) \cup {"evidenceRefs"} \cup LifecyclePaths(a),
                         Common \cup LifecyclePaths(a))]
    ELSE [action |-> "list", given |-> Keep(g, Common, Common)]

ArtifactFields == {"artifactRef", "artifactType", "storageUri", "contentHash"}

EvidencePaths(a) ==
    CASE a = "list" -> {}
      [] a = "register" -> {"evidenceRef", "kind"} \cup ArtifactFields
      [] a = "add_artifact" -> ArtifactFields
      [] a = "link_evidence" -> {"evidenceRef", "kind"}
      [] a \in Attaching -> {"evidenceRef", "artifactRef", "attachesToRefs"}
      [] OTHER -> {"evidenceRef"}

(* Mutant: a read is answered with the example that registers.             *)
EvidenceCorrectionRegisters(a, g) ==
    LET paths == Common \cup EvidencePaths("register") IN
    [action |-> "register", given |-> Keep(g, paths, paths)]

EvidenceCorrection(a, g) ==
    LET action == IF a \in EvidenceActions THEN a ELSE "list"
        form == Keep(g, Common \cup EvidencePaths(action), Common \cup EvidencePaths(action))
    IN [action |-> action,
        given |-> [p \in DOMAIN form |->
                     IF p = "storageUri" /\ ~Kept(g, p) THEN form["artifactRef"] ELSE form[p]]]

(* The service itself answers for pmo_macro: whatever was asked for, the   *)
(* form invokes a macro.  Its refs are repaired like the gateway's.        *)
MacroRepair(g) ==
    Keep(g, Scope(g) \cup {"macroVersion"}, {"traceId", "macroId", "macroVersion", "input"})

(* The gateway answers when the result of the service fails its schema,    *)
(* as it does for an accepted request on malformed records, and for the    *)
(* service's own answer when there is no trace id to put in it.            *)
MacroCorrection(a, g) ==
    LET action == IF a \in MacroActions THEN a ELSE "help"
        macro == CASE action = "invoke" -> {"macroId", "macroVersion", "input"}
                   [] action \in {"validate", "describe"} -> {"macroId", "input"}
                   [] OTHER -> {} IN
    [action |-> action, given |-> Keep(g, Scope(g) \cup macro, Common \cup macro)]

MacroResultFails(r) ==
    Accepts(r) \/ (Given(r.given, "traceId") /\ r.given["traceId"] = "empty")

MacroAnswer(r, g) ==
    IF MacroResultFails(r) THEN MacroCorrection(r.action, g)
    ELSE [action |-> "invoke", given |-> MacroRepair(g)]

Corrected(r) ==
    LET g == GuidanceRefRepairs(r)
        to(c) == [tool |-> r.tool, action |-> c.action, given |-> c.given] IN
    CASE r.tool = "manage_projects" -> to(ProjectsCorrection(r.action, g))
      [] r.tool = "manage_integrations" -> to(IntegrationsCorrection(r.action, g))
      [] r.tool = "manage_evidence_items" -> to(EvidenceCorrection(r.action, g))
      [] r.tool = "pmo_macro" -> to(MacroAnswer(r, g))
      [] OTHER -> to([action |-> "call", given |-> Keep(g, Common, Common)])

(* A request, after the aliases of its fields; and the form it is answered *)
(* with, for the agent to retry.                                           *)
Understood(r) == [r EXCEPT !.given = NormalizePmoToolInput(@)]

FormFor(r) == Corrected(Understood(r))

(* Actions about a field no form has, and values that no form repairs.     *)
DetailActions == {"set_project_role", "link_tracker", "link_repo", "link_adapter", "record_goal"}

Unrepaired(r, p) ==
    LET kind == r.given[p] IN
    \/ kind = "empty"
    \/ kind \in {"slug", "words"} /\ ~RefRepaired(r, p)
    \/ kind = "unsorted" /\ p \notin RepairedLists \cup AnyOrder
=============================================================================
