--------------------------- MODULE MCServerRuntime ---------------------------
(* Instances of ServerRuntime for TLC.                                     *)
EXTENDS ServerRuntime, TLC

CONSTANTS s1, s2, q1, q2

Env(ref, migrates, failHard, valid, role) ==
    [systemRef |-> ref, migrates |-> migrates, failHard |-> failHard, valid |-> valid,
     roleAllowed |-> role]

(* The two servers agree; race with other refs, with and without           *)
(* migrations; one is misconfigured or has a role that is not allowed.     *)
MCConfigs ==
    {s1 :> Env("home", TRUE, FALSE, TRUE, TRUE) @@ s2 :> Env("home", TRUE, FALSE, TRUE, TRUE),
     s1 :> Env("home", TRUE, FALSE, TRUE, TRUE) @@ s2 :> Env("other", FALSE, TRUE, TRUE, TRUE),
     s1 :> Env("home", FALSE, FALSE, TRUE, TRUE) @@ s2 :> Env("other", FALSE, FALSE, TRUE, TRUE),
     s1 :> Env("home", TRUE, FALSE, FALSE, TRUE) @@ s2 :> Env("home", TRUE, FALSE, TRUE, FALSE)}

MCOneServer == {s1 :> Env("home", TRUE, FALSE, TRUE, TRUE)}

Request(tool, action, given) == [tool |-> tool, action |-> action, given |-> given]
All(paths) == [p \in paths \cup {"traceId"} |-> "valid"]

(* A request as an agent means it, with everything its action can use.     *)
Meant(tool, action) ==
    CASE tool = "manage_projects" ->
           All(IF action \in {"help", "list"} THEN {} ELSE
               {"programId", "projectIds", "program.programId", "program.name",
                "project.projectId", "project.programId", "project.name"})
      [] tool = "manage_integrations" ->
           All({"programId"} \cup
               IF action \in {"help", "list"} THEN {}
               ELSE IF action \in ItemActions
               THEN {"integrationPointId", "item.itemType", "item.itemId", "item.projectId",
                     "item.affectedProjectIds", "item.blockedOnRefs", "item.status", "evidenceRefs"}
               ELSE {"integrationPointId", "producerProjectId", "consumerProjectIds",
                     "purpose", "integration.artifactRef"})
      [] tool = "manage_evidence_items" ->
           All(IF action \in {"help", "list"} THEN {} ELSE Below("evidenceItem"))
      [] tool = "pmo_macro" -> All({"programId", "macroId", "macroVersion", "input"})
      [] OTHER -> All({})

Tools == {"manage_projects", "manage_integrations", "manage_evidence_items", "pmo_macro"}

Lists == {"projectIds", "consumerProjectIds", "evidenceRefs", "item.affectedProjectIds",
          "item.blockedOnRefs", "item.trackerRefs", "attachesToRefs"}
Texts == {"traceId", "program.name", "project.name", "purpose", "item.status", "item.itemType",
          "kind", "artifactType", "macroVersion"}
KindsOf(p) == CASE p \in Lists -> {"slug", "words", "unsorted", "other"}
                [] p \in Texts -> {"empty", "other"}
                [] p = "input" -> {"other"}
                [] p = "contentHash" -> {"slug", "other"}
                [] OTHER -> {"slug", "words", "empty", "other"}

(* One path is malformed, is missing or is one no schema has.              *)
Slips(tool, action) ==
    LET g == Meant(tool, action)
        with(p, kind) == [x \in DOMAIN g \cup {p} |-> IF x = p THEN kind ELSE g[x]] IN
    {Request(tool, action, h) :
        h \in UNION {{with(p, kind) : kind \in KindsOf(p)} : p \in DOMAIN g}
              \cup {[x \in DOMAIN g \ {p} |-> g[x]] : p \in DOMAIN g}
              \cup {with(p, "valid") : p \in UnknownKeys}
              \cup {with("artifactRefs", k) : k \in {"slug", "words", "unsorted"}}}

(* The schemas and the forms treat all actions on items alike: two stand   *)
(* for them.                                                               *)
Asked(tool) ==
    {"fix"} \cup IF tool = "manage_integrations"
                THEN {"record_goal", "link_tracker_ref"} \cup (IntegrationActions \ ItemActions)
                ELSE AllowedActions(tool)

Drafts ==
    UNION {UNION {Slips(tool, action) : action \in Asked(tool)} : tool \in Tools}
    \cup {Request(tool, "call", [p \in {"traceId", "extra"} |-> "valid"]) :
             tool \in BareTools \cup LedgerTools}

Message(method, request) == [method |-> method, request |-> request]
Calls(requests) == {Message("tools/call", r) : r \in requests}

MCAllDrafts == [q \in Lines |-> IF q = q1 THEN Calls(Drafts) ELSE {}]

(* One line of every method, calls that register, repair, fail and ask for *)
(* help; a second agent asks for help or registers.                        *)
Registering == Request("manage_projects", "upsert", Meant("manage_projects", "upsert"))
Help == Request("pmo_help", "call", All({}))

MCMessages ==
    [q \in Lines |->
        IF q = q2 THEN Calls({Help})
        ELSE {Message(method, NoRequest) : method \in Methods \ {"tools/call"}}
             \cup Calls({Registering, Request("unsupported", "call", All({})),
                        Request("record_program_receipt", "call", All({"legacy"})),
                        Request("manage_evidence_items", "help", All({"extra"}))})]
MCScenarios == {"startup", "guidance"}
MCConfigsOf == "startup" :> MCConfigs @@ "guidance" :> MCOneServer
MCMessagesOf == "startup" :> MCMessages @@ "guidance" :> MCAllDrafts
MCMaxOutages == "startup" :> 1 @@ "guidance" :> 0
=============================================================================
