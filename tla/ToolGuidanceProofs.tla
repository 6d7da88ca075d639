-------------------------- MODULE ToolGuidanceProofs --------------------------
(***************************************************************************)
(* Proofs about ToolGuidance: a form for a request whose values can be     *)
(* repaired is one that the schemas accept.                                *)
(***************************************************************************)
EXTENDS ToolGuidance, TLAPS

(* Aliases are renamed to the two lists they stand for.                    *)
LEMMA AliasNames ==
    /\ DOMAIN Alias = {"projectId", "consumerProjectId"}
    /\ Alias["projectId"] = "projectIds" /\ Alias["consumerProjectId"] = "consumerProjectIds"
BY DEF Alias

LEMMA NormalizedPaths ==
    ASSUME NEW g
    PROVE  DOMAIN NormalizePmoToolInput(g) \subseteq DOMAIN g \cup {"projectIds", "consumerProjectIds"}
BY AliasNames DEF NormalizePmoToolInput, Renames

LEMMA NormalizedKinds ==
    ASSUME NEW g, g \in [DOMAIN g -> Kinds]
    PROVE  NormalizePmoToolInput(g) \in [DOMAIN NormalizePmoToolInput(g) -> Kinds]
<1> DEFINE gone == {p \in DOMAIN g : Renames(g, p)}
           stays == DOMAIN g \ gone
           names == stays \cup {Alias[q] : q \in gone}
           h == [p \in names |->
                   IF p \in stays THEN g[p] ELSE g[CHOOSE q \in gone : Alias[q] = p]]
<1>1. NormalizePmoToolInput(g) = h /\ DOMAIN h = names
  BY Zenon DEF NormalizePmoToolInput
<1>2. ASSUME NEW p \in names
      PROVE  h[p] \in Kinds
  <2>1. CASE p \in stays
    BY <2>1
  <2>2. CASE p \notin stays
    <3>1. \E q \in gone : Alias[q] = p
      BY <2>2
    <3>2. (CHOOSE q \in gone : Alias[q] = p) \in gone
      BY <3>1
    <3>3. QED  BY <2>2, <3>2
  <2>3. QED  BY <2>1, <2>2
<1>3. h \in [names -> Kinds]
  BY <1>2
<1>4. QED  BY <1>1, <1>3

(* A form without an alias is understood as it stands.                     *)
LEMMA NormalizedForm ==
    ASSUME NEW f, f = [p \in DOMAIN f |-> f[p]],
           "projectId" \notin DOMAIN f, "consumerProjectId" \notin DOMAIN f
    PROVE  NormalizePmoToolInput(f) = f
<1>1. {p \in DOMAIN f : Renames(f, p)} = {}
  BY AliasNames DEF Renames
<1>2. NormalizePmoToolInput(f) = [p \in DOMAIN f |-> f[p]]
  BY <1>1, Zenon DEF NormalizePmoToolInput
<1>3. QED  BY <1>2

(* After the repairs, what is not a value the schemas accept is of another *)
(* type, or a list whose order does not matter.                            *)
Repaired(g) ==
    \A p \in DOMAIN g : g[p] \in {"valid", "other"} \/ (g[p] = "unsorted" /\ p = "evidenceRefs")

LEMMA RepairsAreValid ==
    ASSUME NEW r, r.given \in [DOMAIN r.given -> Kinds],
           \A p \in DOMAIN r.given : ~Unrepaired(r, p)
    PROVE  Repaired(GuidanceRefRepairs(r)) /\ DOMAIN GuidanceRefRepairs(r) = DOMAIN r.given
<1> DEFINE g == r.given
           h == GuidanceRefRepairs(r)
<1>1. DOMAIN h = DOMAIN g
  BY DEF GuidanceRefRepairs
<1>2. ASSUME NEW p \in DOMAIN g
      PROVE  h[p] \in {"valid", "other"} \/ (h[p] = "unsorted" /\ p = "evidenceRefs")
  <2>1. g[p] \in Kinds /\ ~Unrepaired(r, p)
    OBVIOUS
  <2>2. h[p] = IF RefRepaired(r, p) \/ (g[p] = "unsorted" /\ p \in RepairedLists)
               THEN "valid" ELSE g[p]
    BY DEF GuidanceRefRepairs
  <2> HIDE DEF h
  <2>3. CASE g[p] \in {"slug", "words"}
    BY <2>1, <2>2, <2>3 DEF Unrepaired
  <2>4. CASE g[p] = "unsorted"
    BY <2>1, <2>2, <2>4 DEF Unrepaired, AnyOrder, RepairedLists
  <2>5. CASE g[p] \in {"valid", "other"}
    BY <2>2, <2>5
  <2>6. CASE g[p] = "empty"
    BY <2>1, <2>6 DEF Unrepaired
  <2>7. QED  BY <2>1, <2>3, <2>4, <2>5, <2>6 DEF Kinds
<1>3. QED  BY <1>1, <1>2 DEF Repaired

(* What a form has of good: its paths are known, and so are its values.    *)
Sound(f) ==
    /\ f = [p \in DOMAIN f |-> f[p]]
    /\ DOMAIN f \cap UnknownKeys = {} /\ "traceId" \in DOMAIN f
    /\ \A p \in DOMAIN f : f[p] = "valid" \/ (f[p] = "unsorted" /\ p = "evidenceRefs")

LEMMA KeepIsSound ==
    ASSUME NEW g, Repaired(g), NEW carried, NEW filled,
           (carried \cup filled) \cap UnknownKeys = {}, "traceId" \in filled
    PROVE  /\ Sound(Keep(g, carried, filled))
           /\ filled \subseteq DOMAIN Keep(g, carried, filled)
           /\ DOMAIN Keep(g, carried, filled) \subseteq carried \cup filled
<1> DEFINE f == Keep(g, carried, filled)
           kept == {p \in carried : Kept(g, p)}
<1>1. f = [p \in kept \cup filled |-> IF p \in kept THEN g[p] ELSE "valid"]
  BY DEF Keep
<1>2. DOMAIN f = kept \cup filled /\ f = [p \in DOMAIN f |-> f[p]]
  BY <1>1
<1>3. ASSUME NEW p \in kept
      PROVE  g[p] = "valid" \/ (g[p] = "unsorted" /\ p = "evidenceRefs")
  BY DEF Kept, Given, Repaired
<1>4. \A p \in DOMAIN f : f[p] = "valid" \/ (f[p] = "unsorted" /\ p = "evidenceRefs")
  BY <1>1, <1>3
<1>5. kept \cup filled \subseteq carried \cup filled
  OBVIOUS
<1> HIDE DEF f, kept
<1>6. QED  BY <1>2, <1>4, <1>5 DEF Sound, f

(* A sound form is accepted if it has what its tool asks of the action.    *)
LEMMA SoundFormsAreAccepted ==
    ASSUME NEW f, Sound(f), NEW tool, NEW action \in AllowedActions(tool),
           CASE tool = "manage_projects" -> AcceptsProjects(action, f)
             [] tool = "manage_integrations" -> AcceptsIntegrations(action, f)
             [] tool = "manage_evidence_items" -> AcceptsEvidence(action, f)
             [] tool = "pmo_macro" -> AcceptsMacro(action, f)
             [] OTHER -> tool \in BareTools
    PROVE  Accepts(Understood([tool |-> tool, action |-> action, given |-> f]))
<1> DEFINE r == Understood([tool |-> tool, action |-> action, given |-> f])
<1>1. NormalizePmoToolInput(f) = f
  BY NormalizedForm DEF Sound, UnknownKeys
<1>2. r.tool = tool /\ r.action = action /\ r.given = f
  BY <1>1 DEF Understood
<1>3. WellFormed(tool, f) /\ Given(f, "traceId") /\ DOMAIN f \cap UnknownKeys = {}
  BY DEF Sound, WellFormed, Given, AnyOrder
<1> HIDE DEF r
<1>4. QED  BY <1>2, <1>3 DEF Accepts, r

-----------------------------------------------------------------------------
(* The forms, tool by tool.                                                *)

LEMMA ProjectsForm ==
    ASSUME NEW g, Repaired(g), NEW a
    PROVE  LET c == ProjectsCorrection(a, g) IN
           /\ Sound(c.given) /\ c.action \in ProjectActions
           /\ c.action \notin DetailActions => AcceptsProjects(c.action, c.given)
<1> DEFINE action == IF a \in ProjectActions THEN a ELSE "list"
           programPaths == <<"program.programId", "project.programId", "programId">>
           refs == {"programId", "program.programId", "project.projectId"}
           first == {i \in 1 .. 3 : /\ Kept(g, programPaths[i])
                                    /\ \A j \in 1 .. i - 1 : ~Kept(g, programPaths[j])}
           paths == IF action = "list" THEN Common
                    ELSE IF action \in {"get", "retire"} THEN Common \cup refs
                    ELSE Common \cup refs
                         \cup {"project.programId", "program.name", "project.name"}
           form == Keep(g, paths, paths)
           f == [p \in paths |->
                     IF p \notin {programPaths[i] : i \in 1 .. 3} THEN form[p]
                     ELSE IF first = {} THEN "valid"
                     ELSE g[programPaths[CHOOSE i \in first : TRUE]]]
           c == ProjectsCorrection(a, g)
<1>1. c.action = action /\ c.given = f
  BY DEF ProjectsCorrection
<1>2. action \in ProjectActions
  BY DEF ProjectActions
<1>3. "traceId" \in paths /\ paths \cap UnknownKeys = {} /\ "evidenceRefs" \notin paths
  BY DEF Common, UnknownKeys
<1>4. Sound(form) /\ DOMAIN form = paths
  BY <1>3, KeepIsSound
<1>5. ASSUME NEW i \in first
      PROVE  g[programPaths[i]] = "valid"
  <2>1. Kept(g, programPaths[i]) /\ i \in 1 .. 3
    OBVIOUS
  <2>2. programPaths[i] # "evidenceRefs"
    BY <2>1
  <2>3. QED  BY <2>1, <2>2 DEF Repaired, Kept, Given
<1>6. first # {} => (CHOOSE i \in first : TRUE) \in first
  OBVIOUS
<1>7. \A p \in paths : form[p] = "valid"
  BY <1>3, <1>4 DEF Sound
<1>8. DOMAIN f = paths /\ f = [p \in DOMAIN f |-> f[p]]
  OBVIOUS
<1> HIDE DEF first, form
<1>9. \A p \in paths : f[p] = "valid"
  BY <1>5, <1>6, <1>7
<1>10. Sound(f)
  BY <1>3, <1>8, <1>9, Zenon DEF Sound
<1>11. action \notin DetailActions => AcceptsProjects(action, f)
  <2> HIDE DEF f
  <2>1. CASE action = "list"
    BY <1>8, <2>1 DEF AcceptsProjects, HasRecord, Below, Given, Common
  <2>2. CASE action \in {"get", "retire"}
    BY <1>8, <2>2 DEF AcceptsProjects, HasRecord, Below, Given, Common
  <2>3. CASE action \notin {"list", "get", "retire"}
    <3>1. \A p \in {"programId", "program.programId", "project.projectId", "project.programId",
                    "program.name", "project.name"} : p \in DOMAIN f
      BY <1>8, <2>3
    <3>2. HasRecord(f, "program")
      BY <3>1 DEF HasRecord, Below
    <3>3. QED  BY <2>3, <3>1, <3>2 DEF AcceptsProjects, Given, DetailActions
  <2>4. QED  BY <2>1, <2>2, <2>3
<1> HIDE DEF action, f
<1>12. QED  BY <1>1, <1>2, <1>10, <1>11, Zenon

LEMMA EvidenceForm ==
    ASSUME NEW g, Repaired(g), NEW a
    PROVE  LET c == EvidenceCorrection(a, g) IN
           /\ Sound(c.given) /\ c.action \in EvidenceActions
           /\ AcceptsEvidence(c.action, c.given)
<1> DEFINE action == IF a \in EvidenceActions THEN a ELSE "list"
           paths == Common \cup EvidencePaths(action)
           form == Keep(g, paths, paths)
           f == [p \in DOMAIN form |->
                     IF p = "storageUri" /\ ~Kept(g, p) THEN form["artifactRef"] ELSE form[p]]
           c == EvidenceCorrection(a, g)
<1>1. c.action = action /\ c.given = f
  BY DEF EvidenceCorrection
<1>2. action \in EvidenceActions
  BY DEF EvidenceActions
<1>3. EvidencePaths(action) \subseteq {"evidenceRef", "kind", "attachesToRefs"} \cup ArtifactFields
  <2>1. CASE action \in {"list", "register", "add_artifact", "link_evidence"}
    BY <2>1 DEF EvidencePaths, ArtifactFields, Attaching
  <2>2. CASE action \in Attaching
    BY <2>2 DEF EvidencePaths, ArtifactFields, Attaching
  <2>3. CASE action \notin {"list", "register", "add_artifact", "link_evidence"} \cup Attaching
    BY <2>3 DEF EvidencePaths
  <2>4. QED  BY <2>1, <2>2, <2>3
<1>4. "traceId" \in paths /\ paths \cap UnknownKeys = {} /\ "evidenceRefs" \notin paths
  BY <1>3 DEF Common, UnknownKeys, ArtifactFields
<1>5. "storageUri" \in paths => "artifactRef" \in paths
  BY DEF EvidencePaths, ArtifactFields, Attaching, Common
<1> HIDE DEF paths
<1>6. Sound(form) /\ DOMAIN form = paths
  BY <1>4, KeepIsSound
<1>7. \A p \in paths : form[p] = "valid"
  BY <1>4, <1>6 DEF Sound
<1> HIDE DEF form
<1>8. DOMAIN f = paths /\ f = [p \in DOMAIN f |-> f[p]]
  BY <1>6
<1>9. \A p \in paths : f[p] = "valid"
  BY <1>5, <1>6, <1>7
<1>10. Sound(f)
  BY <1>4, <1>8, <1>9, Zenon DEF Sound
<1> HIDE DEF f
<1>11. AcceptsEvidence(action, f)
  <2>1. CASE action = "list"
    BY <1>8, <2>1 DEF AcceptsEvidence, Attaching
  <2>2. action # "list" => HasRecord(f, "evidenceItem")
    <3>1. action # "list" => "evidenceRef" \in DOMAIN f \/ "artifactRef" \in DOMAIN f
      BY <1>8 DEF paths, EvidencePaths, ArtifactFields, Attaching
    <3>2. QED  BY <3>1 DEF HasRecord, Below
  <2>3. CASE action \in {"register", "add_artifact", "link_evidence"}
    BY <1>8, <2>2, <2>3 DEF AcceptsEvidence, Given, Attaching, paths, EvidencePaths, ArtifactFields
  <2>4. CASE action \in Attaching
    BY <1>8, <2>2, <2>4 DEF AcceptsEvidence, Given, Attaching, paths, EvidencePaths, ArtifactFields
  <2>5. CASE action \notin {"list", "register", "add_artifact", "link_evidence"} \cup Attaching
    <3>1. "evidenceRef" \in DOMAIN f
      BY <1>8, <2>5 DEF paths, EvidencePaths
    <3>2. QED  BY <2>2, <2>5, <3>1 DEF AcceptsEvidence, Given
  <2>6. QED  BY <2>1, <2>3, <2>4, <2>5
<1> HIDE DEF action
<1>12. QED  BY <1>1, <1>2, <1>10, <1>11, Zenon

(* The scope of a form has no unknown field.                               *)
LEMMA ScopePaths ==
    ASSUME NEW g
    PROVE  "traceId" \in Scope(g) /\ Scope(g) \subseteq {"traceId", "projectIds", "programId"}
BY DEF Scope

LEMMA CoordinationFormIsSound ==
    ASSUME NEW g, Repaired(g)
    PROVE  /\ Sound(CoordinationForm(g))
           /\ {"integrationPointId", "item.itemType"} \subseteq DOMAIN CoordinationForm(g)
<1> DEFINE carried == Scope(g) \cup
                        {"evidenceRefs", "integrationPointId", "item.status", "item.summary",
                         "item.affectedProjectIds", "item.projectId", "item.blockedOnRefs",
                         "item.clearanceCriteria", "item.itemId", "item.trackerRefs",
                         "item.artifactRefs"}
           filled == {"traceId", "evidenceRefs", "integrationPointId", "item.itemType",
                      "item.status", "item.summary"}
                     \cup IF Kept(g, "artifactRefs") THEN {"item.artifactRefs"} ELSE {}
           form == Keep(g, carried, filled)
           f == CoordinationForm(g)
<1>1. f = [p \in DOMAIN form |-> IF p = "item.artifactRefs" THEN MovedArtifacts(g) ELSE form[p]]
  BY DEF CoordinationForm
<1>2. (carried \cup filled) \cap UnknownKeys = {} /\ "traceId" \in filled
  BY ScopePaths DEF UnknownKeys
<1>3. {"integrationPointId", "item.itemType"} \subseteq filled
  OBVIOUS
<1> HIDE DEF carried, filled
<1>4. Sound(form) /\ filled \subseteq DOMAIN form
  BY <1>2, KeepIsSound
<1>5. MovedArtifacts(g) = "valid"
  BY DEF MovedArtifacts, Kept, Given, Repaired
<1> HIDE DEF form, f
<1>6. DOMAIN f = DOMAIN form /\ f = [p \in DOMAIN f |-> f[p]]
  BY <1>1
<1>7. \A p \in DOMAIN f : f[p] = "valid" \/ (f[p] = "unsorted" /\ p = "evidenceRefs")
  BY <1>1, <1>4, <1>5 DEF Sound
<1>8. Sound(f)
  BY <1>4, <1>6, <1>7, Zenon DEF Sound
<1>9. QED  BY <1>3, <1>4, <1>6, <1>8 DEF f

LEMMA AddArtifactFormIsSound ==
    ASSUME NEW g, Repaired(g), Kept(g, "artifactRefs")
    PROVE  /\ Sound(AddArtifactForm(g))
           /\ {"integrationPointId", "item.itemType"} \subseteq DOMAIN AddArtifactForm(g)
<1> DEFINE carried == Scope(g) \cup {"evidenceRefs", "integrationPointId"}
           filled == {"traceId", "evidenceRefs", "integrationPointId", "item.itemType",
                      "item.summary", "item.artifactRefs", "integration.artifactRef"}
           form == Keep(g, carried, filled)
           f == AddArtifactForm(g)
<1>1. f = [p \in DOMAIN form |->
             IF p = "item.artifactRefs" THEN g["artifactRefs"]
             ELSE IF p = "integration.artifactRef" /\ g["artifactRefs"] \in {"slug", "words"}
             THEN g["artifactRefs"]
             ELSE form[p]]
  BY DEF AddArtifactForm
<1>2. (carried \cup filled) \cap UnknownKeys = {} /\ "traceId" \in filled
  BY ScopePaths DEF UnknownKeys
<1>3. {"integrationPointId", "item.itemType"} \subseteq filled
  OBVIOUS
<1> HIDE DEF carried, filled
<1>4. Sound(form) /\ filled \subseteq DOMAIN form
  BY <1>2, KeepIsSound
<1>5. g["artifactRefs"] = "valid"
  BY DEF Kept, Given, Repaired
<1> HIDE DEF form, f
<1>6. DOMAIN f = DOMAIN form /\ f = [p \in DOMAIN f |-> f[p]]
  BY <1>1
<1>7. \A p \in DOMAIN f : f[p] = "valid" \/ (f[p] = "unsorted" /\ p = "evidenceRefs")
  BY <1>1, <1>4, <1>5 DEF Sound
<1>8. Sound(f)
  BY <1>4, <1>6, <1>7, Zenon DEF Sound
<1>9. QED  BY <1>3, <1>4, <1>6, <1>8 DEF f

LEMMA IntegrationsForm ==
    ASSUME NEW g, Repaired(g), NEW a
    PROVE  LET c == IntegrationsCorrection(a, g) IN
           /\ Sound(c.given) /\ c.action \in IntegrationActions
           /\ AcceptsIntegrations(c.action, c.given)
<1> DEFINE c == IntegrationsCorrection(a, g)
<1>1. ASSUME NEW f, {"integrationPointId", "item.itemType"} \subseteq DOMAIN f,
             NEW action \in ItemActions \cup {"add_artifact"}
      PROVE  AcceptsIntegrations(action, f)
  <2>1. HasIntegration(f)
    BY <1>1 DEF HasIntegration, IntegrationPaths
  <2>2. QED  BY <1>1, <2>1 DEF AcceptsIntegrations, Given, ItemActions
<1>2. CASE a \in ItemActions
  <2>1. c.action = a /\ c.given = CoordinationForm(g)
    BY <1>2 DEF IntegrationsCorrection
  <2>2. QED  BY <1>1, <1>2, <2>1, CoordinationFormIsSound DEF IntegrationActions
<1>3. CASE a \notin ItemActions /\ Kept(g, "artifactRefs")
  <2>1. c.action = "add_artifact" /\ c.given = AddArtifactForm(g)
    BY <1>3 DEF IntegrationsCorrection
  <2>2. QED  BY <1>1, <1>3, <2>1, AddArtifactFormIsSound DEF IntegrationActions
<1>4. CASE a \notin ItemActions /\ ~Kept(g, "artifactRefs") /\ a \in IntegrationActions
  <2> DEFINE carried == Scope(g) \cup {"evidenceRefs"} \cup LifecyclePaths(a)
             filled == Common \cup LifecyclePaths(a)
             f == Keep(g, carried, filled)
  <2>1. c.action = a /\ c.given = f
    BY <1>4 DEF IntegrationsCorrection
  <2>2. /\ LifecyclePaths(a) \subseteq {"integrationPointId", "producerProjectId",
                                       "consumerProjectIds", "purpose", "evidenceRefs"}
        /\ "integrationPointId" \in LifecyclePaths(a)
        /\ a \in {"create", "upsert"} => "producerProjectId" \in LifecyclePaths(a)
        /\ a \in {"add_project", "remove_project"} => "consumerProjectIds" \in LifecyclePaths(a)
    BY DEF LifecyclePaths
  <2>3. (carried \cup filled) \cap UnknownKeys = {} /\ "traceId" \in filled
    BY <2>2, ScopePaths DEF UnknownKeys, Common
  <2>4. /\ LifecyclePaths(a) \subseteq filled
        /\ carried \cup filled \subseteq {"traceId", "projectIds", "programId", "evidenceRefs",
               "integrationPointId", "producerProjectId", "consumerProjectIds", "purpose"}
    BY <2>2, ScopePaths DEF Common
  <2> HIDE DEF carried, filled
  <2>5. Sound(f) /\ filled \subseteq DOMAIN f /\ DOMAIN f \subseteq carried \cup filled
    BY <2>3, KeepIsSound
  <2> HIDE DEF f
  <2>6. LifecyclePaths(a) \subseteq DOMAIN f /\ ~HasRecord(f, "item")
    BY <2>4, <2>5 DEF HasRecord, Below
  <2>7. AcceptsIntegrations(a, f)
    <3>1. HasIntegration(f)
      BY <2>2, <2>6 DEF HasIntegration, IntegrationPaths
    <3>2. QED  BY <2>2, <2>6, <3>1 DEF AcceptsIntegrations, Given
  <2>8. QED  BY <1>4, <2>1, <2>5, <2>7, Zenon
<1>5. CASE a \notin ItemActions /\ ~Kept(g, "artifactRefs") /\ a \notin IntegrationActions
  <2>1. c.action = "list" /\ c.given = Keep(g, Common, Common)
    BY <1>5 DEF IntegrationsCorrection
  <2>2. Sound(Keep(g, Common, Common)) /\ DOMAIN Keep(g, Common, Common) = {"traceId"}
    BY KeepIsSound DEF Common, UnknownKeys
  <2>3. AcceptsIntegrations("list", Keep(g, Common, Common))
    BY <2>2 DEF AcceptsIntegrations, HasIntegration, IntegrationPaths, HasRecord, Below
  <2>4. QED  BY <2>1, <2>2, <2>3 DEF IntegrationActions
<1>6. QED  BY <1>2, <1>3, <1>4, <1>5

LEMMA MacroForm ==
    ASSUME NEW g, Repaired(g)
    PROVE  Sound(MacroRepair(g)) /\ AcceptsMacro("invoke", MacroRepair(g))
<1>1. /\ Sound(MacroRepair(g))
      /\ {"traceId", "macroId", "macroVersion", "input"} \subseteq DOMAIN MacroRepair(g)
  BY KeepIsSound, ScopePaths DEF MacroRepair, UnknownKeys
<1>2. QED  BY <1>1 DEF AcceptsMacro, Given

LEMMA MacroCorrectionForm ==
    ASSUME NEW g, Repaired(g), NEW a
    PROVE  LET c == MacroCorrection(a, g) IN
           /\ Sound(c.given) /\ c.action \in MacroActions
           /\ c.action # "edit_registry" => AcceptsMacro(c.action, c.given)
<1> DEFINE action == IF a \in MacroActions THEN a ELSE "help"
           macro == CASE action = "invoke" -> {"macroId", "macroVersion", "input"}
                      [] action \in {"validate", "describe"} -> {"macroId", "input"}
                      [] OTHER -> {}
           f == Keep(g, Scope(g) \cup macro, Common \cup macro)
           c == MacroCorrection(a, g)
<1>1. c.action = action /\ c.given = f
  BY DEF MacroCorrection
<1>2. action \in MacroActions
  BY DEF MacroActions
<1>3. /\ macro \subseteq {"macroId", "macroVersion", "input"}
      /\ action \in {"describe", "validate", "invoke"} => "macroId" \in macro
  BY DEF MacroActions
<1> HIDE DEF action, macro
<1>4. Sound(f) /\ Common \cup macro \subseteq DOMAIN f
  BY <1>3, KeepIsSound, ScopePaths DEF Common, UnknownKeys
<1> HIDE DEF f
<1>5. action # "edit_registry" => AcceptsMacro(action, f)
  BY <1>3, <1>4 DEF AcceptsMacro, Given
<1>6. QED  BY <1>1, <1>2, <1>4, <1>5

LEMMA MacroAnswerForm ==
    ASSUME NEW r, NEW g, Repaired(g)
    PROVE  LET c == MacroAnswer(r, g) IN
           /\ Sound(c.given) /\ c.action \in MacroActions
           /\ c.action # "edit_registry" => AcceptsMacro(c.action, c.given)
<1>1. CASE MacroResultFails(r)
  BY <1>1, MacroCorrectionForm DEF MacroAnswer
<1>2. CASE ~MacroResultFails(r)
  <2>1. MacroAnswer(r, g) = [action |-> "invoke", given |-> MacroRepair(g)]
    BY <1>2 DEF MacroAnswer
  <2>2. QED  BY <2>1, MacroForm DEF MacroActions
<1>3. QED  BY <1>1, <1>2

(* The form for a request is accepted, whatever the request was, if it has *)
(* no value that no repair reaches (no text with a blank where a ref       *)
(* belongs, unless it names a program the gateway knows better), its       *)
(* action is not about a field no form has nor a registry edit, and its    *)
(* tool is not a legacy one with input of its own (correctForm,            *)
(* guidanceRefRepairs; the service's macro repair).                        *)
THEOREM FormsAreAccepted ==
    ASSUME NEW r, r.given \in [DOMAIN r.given -> Kinds],
           \A p \in DOMAIN r.given : ~Unrepaired(r, p)
    PROVE  LET form == Corrected(r) IN
           \/ form.tool = "manage_projects" /\ form.action \in DetailActions
           \/ form.tool \notin BareTools /\ form.action = "call"
           \/ form.tool = "pmo_macro" /\ form.action = "edit_registry"
           \/ Accepts(Understood(form))
<1> DEFINE g == GuidanceRefRepairs(r)
           form == Corrected(r)
           to(c) == [tool |-> r.tool, action |-> c.action, given |-> c.given]
<1>1. Repaired(g)
  BY RepairsAreValid
<1> HIDE DEF g
<1>2. CASE r.tool = "manage_projects"
  <2> DEFINE c == ProjectsCorrection(r.action, g)
  <2>1. form = to(c)
    BY <1>2 DEF Corrected, g
  <2>2. Sound(c.given) /\ c.action \in AllowedActions(r.tool)
        /\ (c.action \notin DetailActions => AcceptsProjects(c.action, c.given))
    BY <1>1, <1>2, ProjectsForm DEF AllowedActions
  <2> HIDE DEF c
  <2>3. c.action \notin DetailActions => Accepts(Understood(form))
    BY <1>2, <2>1, <2>2, SoundFormsAreAccepted
  <2>4. QED  BY <1>2, <2>1, <2>3
<1>3. CASE r.tool = "manage_integrations"
  <2> DEFINE c == IntegrationsCorrection(r.action, g)
  <2>1. form = to(c)
    BY <1>3 DEF Corrected, g
  <2>2. /\ Sound(c.given) /\ c.action \in AllowedActions(r.tool)
        /\ AcceptsIntegrations(c.action, c.given)
    BY <1>1, <1>3, IntegrationsForm DEF AllowedActions
  <2> HIDE DEF c
  <2>3. QED  BY <1>3, <2>1, <2>2, SoundFormsAreAccepted
<1>4. CASE r.tool = "manage_evidence_items"
  <2> DEFINE c == EvidenceCorrection(r.action, g)
  <2>1. form = to(c)
    BY <1>4 DEF Corrected, g
  <2>2. /\ Sound(c.given) /\ c.action \in AllowedActions(r.tool)
        /\ AcceptsEvidence(c.action, c.given)
    BY <1>1, <1>4, EvidenceForm DEF AllowedActions
  <2> HIDE DEF c
  <2>3. QED  BY <1>4, <2>1, <2>2, SoundFormsAreAccepted
<1>5. CASE r.tool = "pmo_macro"
  <2> DEFINE c == MacroAnswer(r, g)
  <2>1. form = to(c)
    BY <1>5 DEF Corrected, g
  <2>2. /\ Sound(c.given) /\ c.action \in AllowedActions(r.tool)
        /\ c.action # "edit_registry" => AcceptsMacro(c.action, c.given)
    BY <1>1, <1>5, MacroAnswerForm DEF AllowedActions
  <2> HIDE DEF c
  <2>3. c.action # "edit_registry" => Accepts(Understood(form))
    BY <1>5, <2>1, <2>2, SoundFormsAreAccepted
  <2>4. QED  BY <1>5, <2>1, <2>3
<1>6. CASE r.tool \notin {"manage_projects", "manage_integrations", "manage_evidence_items",
                         "pmo_macro"}
  <2> DEFINE f == Keep(g, Common, Common)
  <2>1. form = [tool |-> r.tool, action |-> "call", given |-> f]
    BY <1>6 DEF Corrected, g
  <2>2. "call" \in AllowedActions(r.tool)
    BY <1>6 DEF AllowedActions
  <2>3. Sound(f)
    BY <1>1, KeepIsSound DEF Common, UnknownKeys
  <2> HIDE DEF f
  <2>4. r.tool \in BareTools => Accepts(Understood(form))
    BY <1>6, <2>1, <2>2, <2>3, SoundFormsAreAccepted
  <2>5. QED  BY <2>1, <2>4
<1>7. QED  BY <1>2, <1>3, <1>4, <1>5, <1>6
==============================================================================
