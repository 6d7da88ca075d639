--------------------------- MODULE RegistriesProofs ---------------------------
(***************************************************************************)
(* Proofs about Registries: the inductive invariant and the safety         *)
(* properties, for any refs, any calls the schemas accept and any number   *)
(* of them in flight.                                                      *)
(***************************************************************************)
EXTENDS Registries, SequenceTheorems, TLAPS

-----------------------------------------------------------------------------
(* The rules: what a call writes are records of their kinds.               *)

LEMMA KindsOfRefs ==
    /\ \A r \in Programs : r \in Refs /\ r # None /\ RecordsOf(r) = ProgramRecord
    /\ \A r \in Projects : r \in Refs /\ r # None /\ r \notin Programs
                           /\ RecordsOf(r) = ProjectRecord
    /\ \A r \in Artifacts : r \in Refs /\ r # None /\ r \notin Programs \cup Projects
                            /\ RecordsOf(r) = ArtifactRecord
    /\ \A r \in Evidence : /\ r \in Refs /\ r # None
                           /\ r \notin Programs \cup Projects \cup Artifacts
                           /\ RecordsOf(r) = EvidenceRecord
    /\ /\ Registry \in Refs /\ RecordsOf(Registry) = RegistryRecord
       /\ Registry \notin Programs \cup Projects \cup Artifacts \cup Evidence
BY RefsAreDistinct DEF Refs, RecordsOf

(* What was read under a ref is a record of its kind, or nothing.          *)
LEMMA WhatIsHeld ==
    ASSUME NEW seen, IsPortfolio(seen)
    PROVE  /\ \A r \in Programs : seen[r] \in ProgramRecord \cup {None}
           /\ \A r \in Projects : seen[r] \in ProjectRecord \cup {None}
           /\ \A r \in Artifacts : seen[r] \in ArtifactRecord \cup {None}
           /\ \A r \in Evidence : seen[r] \in EvidenceRecord \cup {None}
           /\ seen[Registry] \in RegistryRecord \cup {None}
BY KindsOfRefs DEF IsPortfolio

(* One write, or none.                                                     *)
IsPart(s) ==
    \/ s = <<>>
    \/ \E r \in Refs : \E v \in RecordsOf(r) : s = << <<r, v>> >>

LEMMA ProgramPartType ==
    ASSUME NEW q \in ProjectCall, NEW seen, IsPortfolio(seen)
    PROVE  /\ IsPart(ProgramPart(q, seen))
           /\ ProgramPart(q, seen) # <<>> =>
                /\ ProgramPart(q, seen)[1][1] \in Programs
                /\ ProgramPart(q, seen)[1][2] \in ProgramRecord
<1>1. /\ RequestedProgram(q) \in Opt(Programs)
      /\ q.programBody \in ProgramBody /\ q.programBody.id \in Opt(Programs)
      /\ q.programBody.status \in Opt(Statuses) /\ q.programBody.pointer \in Opt(Pointers)
  BY DEF RequestedProgram, Given, Opt, ProjectCall, ProgramBody, ProjectBody
<1>2. ExistingProgram(q, seen) \in ProgramRecord \cup {None}
  BY <1>1, WhatIsHeld DEF ExistingProgram, Opt
<1>3. NextProgram(q, seen) \in ProgramRecord
  BY <1>1, <1>2 DEF NextProgram, NextStatusOf, NextPointer, Given, Opt, Statuses, ProgramRecord
<1>4. ExistingProgram(q, seen) # None =>
         /\ RequestedProgram(q) \in Programs
         /\ Retired(ExistingProgram(q, seen)) \in ProgramRecord
  BY <1>1, <1>2 DEF ExistingProgram, Retired, ProgramRecord, Statuses, Opt
<1>5. QED
  BY <1>1, <1>3, <1>4, KindsOfRefs DEF ProgramPart, IsPart, Opt

LEMMA ProjectPartType ==
    ASSUME NEW q \in ProjectCall, NEW seen, IsPortfolio(seen), ~ProjectBlocked(q, seen)
    PROVE  /\ IsPart(ProjectPart(q, seen))
           /\ ProjectPart(q, seen) # <<>> =>
                /\ ProjectPart(q, seen)[1][1] \in Projects
                /\ ProjectPart(q, seen)[1][2] \in ProjectRecord
<1>1. /\ RequestedProject(q) \in Opt(Projects) /\ q.program \in Opt(Programs)
      /\ q.projectBody \in ProjectBody /\ q.projectBody.id \in Opt(Projects)
      /\ q.projectBody.program \in Opt(Programs) /\ q.programBody.id \in Opt(Programs)
      /\ q.projectBody.status \in Opt(Statuses) /\ q.projectBody.pointer \in Opt(Pointers)
  BY DEF RequestedProject, Given, Opt, ProjectCall, ProgramBody, ProjectBody
<1>2. ExistingProject(q, seen) \in ProjectRecord \cup {None}
  BY <1>1, WhatIsHeld DEF ExistingProject, Opt
<1>3. ProjectProgram(q, seen) \in Opt(Programs)
  BY <1>1, <1>2 DEF ProjectProgram, Given, Opt, ProjectRecord
<1>4. ASSUME q.projectBody.id # None, ~Looks(q)
      PROVE  NextProject(q, seen) \in ProjectRecord
  <2>1. ProjectProgram(q, seen) \in Programs
    BY <1>3, <1>4 DEF ProjectBlocked, Opt
  <2>2. QED
    BY <1>1, <1>2, <2>1
       DEF NextProject, NextStatusOf, NextPointer, Given, Opt, Statuses, ProjectRecord
<1>5. ExistingProject(q, seen) # None =>
         /\ RequestedProject(q) \in Projects
         /\ Retired(ExistingProject(q, seen)) \in ProjectRecord
  BY <1>1, <1>2 DEF ExistingProject, Retired, ProjectRecord, Statuses, Opt
<1>6. QED
  BY <1>1, <1>4, <1>5, KindsOfRefs DEF ProjectPart, IsPart, Opt

LEMMA EvidencePartsType ==
    ASSUME NEW q \in EvidenceCall, NEW seen, IsPortfolio(seen)
    PROVE  /\ IsPart(ArtifactPart(q, seen)) /\ IsPart(EvidencePart(q, seen))
           /\ ArtifactPart(q, seen) # <<>> => ArtifactPart(q, seen)[1][1] \in Artifacts
           /\ EvidencePart(q, seen) # <<>> => EvidencePart(q, seen)[1][1] \in Evidence
<1>1. /\ q.artifact \in Opt(Artifacts) /\ q.evidence \in Opt(Evidence)
      /\ q.hash \in Opt(Digests) /\ StatedRedaction(q) \in Opt(Redactions)
      /\ q.attaches \subseteq Targets
  BY DEF EvidenceCall, StatedRedaction, Redactions, Opt
<1>2. ASSUME q.artifact # None
      PROVE  q.artifact \in Artifacts /\ BuildArtifactRecord(q, seen[q.artifact]) \in ArtifactRecord
  BY <1>1, <1>2, WhatIsHeld
     DEF BuildArtifactRecord, ArtifactRecord, Given, Opt, Redactions
<1>3. ASSUME q.evidence # None
      PROVE  q.evidence \in Evidence /\ BuildEvidenceRecord(q, seen[q.evidence]) \in EvidenceRecord
  BY <1>1, <1>3, WhatIsHeld DEF BuildEvidenceRecord, EvidenceRecord, Given, Opt
<1>4. QED
  BY <1>2, <1>3, KindsOfRefs DEF ArtifactPart, EvidencePart, IsPart

LEMMA MacroPartsType ==
    ASSUME NEW q \in MacroCall, NEW seen, IsPortfolio(seen)
    PROVE  /\ IsPart(MacroParts(q, seen))
           /\ MacroParts(q, seen) # <<>> =>
                MacroParts(q, seen) = << <<Registry, EditedRegistry(q, seen)>> >>
<1>1. Current(seen) \in RegistryRecord
  BY WhatIsHeld DEF Current, BuiltInRegistry, RegistryRecord
<1>2. q.macro \in Macros /\ q.text \in Opt(Texts \cup {Malformed}) /\ q.enabled \in Opt(BOOLEAN)
  BY DEF MacroCall
<1>3. EditedRegistry(q, seen) \in RegistryRecord
  BY <1>1, <1>2 DEF EditedRegistry, RegistryRecord, Given, Opt
<1>4. QED
  BY <1>3, KindsOfRefs DEF MacroParts, IsPart

(* Joining what the two writers of a call write.                           *)
LEMMA JoinedParts ==
    ASSUME NEW s, NEW t, IsPart(s), IsPart(t)
    PROVE  /\ Len(s \o t) \in 0 .. 2 /\ DOMAIN (s \o t) = 1 .. Len(s \o t)
           /\ \A i \in 1 .. Len(s \o t) :
                 \/ s # <<>> /\ i = 1 /\ (s \o t)[i] = s[1]
                 \/ t # <<>> /\ (s \o t)[i] = t[1] /\ i = IF s = <<>> THEN 1 ELSE 2
           /\ (s \o t = <<>>) <=> (Len(s \o t) = 0)
<1> DEFINE E == {s[1], t[1]}
<1>1. s \in Seq(E) /\ (s = <<>> \/ s = << s[1] >>)
  <2>1. CASE s = <<>>
    BY <2>1, EmptySeq
  <2>2. ASSUME NEW r, NEW v, s = << <<r, v>> >>  PROVE  s = << s[1] >>
    BY <2>2
  <2>3. ASSUME s = << s[1] >>  PROVE  s \in Seq(E)
    <3> DEFINE x == s[1]
    <3>1. x \in E /\ s = <<x>>  BY <2>3
    <3> HIDE DEF x, E
    <3>2. QED  BY <3>1
  <2>4. QED  BY <2>1, <2>2, <2>3 DEF IsPart
<1>2. t \in Seq(E) /\ (t = <<>> \/ t = << t[1] >>)
  <2>1. CASE t = <<>>
    BY <2>1, EmptySeq
  <2>2. ASSUME NEW r, NEW v, t = << <<r, v>> >>  PROVE  t = << t[1] >>
    BY <2>2
  <2>3. ASSUME t = << t[1] >>  PROVE  t \in Seq(E)
    <3> DEFINE x == t[1]
    <3>1. x \in E /\ t = <<x>>  BY <2>3
    <3> HIDE DEF x, E
    <3>2. QED  BY <3>1
  <2>4. QED  BY <2>1, <2>2, <2>3 DEF IsPart
<1>3. s = <<>> \/ (Len(s) = 1 /\ s # <<>>)
  BY <1>1
<1>4. t = <<>> \/ (Len(t) = 1 /\ t # <<>>)
  BY <1>2
<1>5. /\ s \o t \in Seq(E) /\ Len(s \o t) = Len(s) + Len(t)
      /\ \A i \in 1 .. Len(s) + Len(t) :
            (s \o t)[i] = IF i <= Len(s) THEN s[i] ELSE t[i - Len(s)]
  BY <1>1, <1>2, ConcatProperties
<1> HIDE DEF E
<1>6. Len(s) \in 0 .. 1 /\ Len(t) \in 0 .. 1 /\ (s = <<>> <=> Len(s) = 0) /\ (t = <<>> <=> Len(t) = 0)
  BY <1>3, <1>4, EmptySeq
<1>7. Len(s \o t) \in 0 .. 2 /\ DOMAIN (s \o t) = 1 .. Len(s \o t)
  <2>1. DOMAIN (s \o t) = 1 .. Len(s \o t)
    BY <1>5, LenProperties
  <2>2. Len(s \o t) \in 0 .. 2
    <3>1. \A m, n \in 0 .. 1 : m + n \in 0 .. 2  OBVIOUS
    <3>2. Len(s) + Len(t) \in 0 .. 2  BY <1>6, <3>1, Zenon
    <3>3. QED  BY <1>5, <3>2, Zenon
  <2>3. QED  BY <2>1, <2>2, Zenon
<1>8. (s \o t = <<>>) <=> (Len(s \o t) = 0)
  BY <1>5, EmptySeq
<1>9. ASSUME NEW i \in 1 .. Len(s \o t)
      PROVE  \/ s # <<>> /\ i = 1 /\ (s \o t)[i] = s[1]
             \/ t # <<>> /\ (s \o t)[i] = t[1] /\ i = IF s = <<>> THEN 1 ELSE 2
  BY <1>5, <1>6
<1>10. QED  BY <1>7, <1>8, <1>9

(* Every call the schemas accept is of one tool, and reads once or twice.   *)
LEMMA ToolsOfCalls ==
    ASSUME NEW q, Accepted(q)
    PROVE  /\ \/ q \in ProjectCall /\ q.tool = "manage_projects"
              \/ q \in EvidenceCall /\ q.tool = "manage_evidence_items"
              \/ q \in MacroCall /\ q.tool = "pmo_macro"
           /\ Len(Reads(q)) \in 1 .. 2
<1>1. \/ q \in ProjectCall /\ q.tool = "manage_projects"
      \/ q \in EvidenceCall /\ q.tool = "manage_evidence_items"
      \/ q \in MacroCall /\ q.tool = "pmo_macro"
  BY DEF Accepted, ProjectCall, EvidenceCall, MacroCall
<1>2. Len(Reads(q)) \in 1 .. 2
  BY <1>1 DEF Reads
<1>3. QED  BY <1>1, <1>2

LEMMA RequestsAreAccepted == \A q \in Requests : Accepted(q)
BY WorkloadAssumption DEF Requests

(* What a call writes: at most two records, each of its ref's kind.         *)
LEMMA PartsType ==
    ASSUME NEW q, Accepted(q), NEW seen, IsPortfolio(seen), ~Blocked(q, seen)
    PROVE  /\ Len(Parts(q, seen)) \in 0 .. 2
           /\ DOMAIN Parts(q, seen) = 1 .. Len(Parts(q, seen))
           /\ Parts(q, seen) = <<>> <=> Len(Parts(q, seen)) = 0
           /\ \A i \in 1 .. Len(Parts(q, seen)) :
                 /\ Parts(q, seen)[i][1] \in Refs
                 /\ Parts(q, seen)[i][2] \in RecordsOf(Parts(q, seen)[i][1])
<1>1. ASSUME NEW s, IsPart(s), s # <<>>
      PROVE  s[1][1] \in Refs /\ s[1][2] \in RecordsOf(s[1][1])
  BY <1>1 DEF IsPart
<1>2. ASSUME NEW s, NEW t, IsPart(s), IsPart(t), Parts(q, seen) = s \o t
      PROVE  /\ Len(Parts(q, seen)) \in 0 .. 2
             /\ DOMAIN Parts(q, seen) = 1 .. Len(Parts(q, seen))
             /\ Parts(q, seen) = <<>> <=> Len(Parts(q, seen)) = 0
             /\ \A i \in 1 .. Len(Parts(q, seen)) :
                   /\ Parts(q, seen)[i][1] \in Refs
                   /\ Parts(q, seen)[i][2] \in RecordsOf(Parts(q, seen)[i][1])
  <2> DEFINE p == s \o t
  <2>1. /\ Len(p) \in 0 .. 2 /\ DOMAIN p = 1 .. Len(p) /\ (p = <<>> <=> Len(p) = 0)
        /\ \A i \in 1 .. Len(p) : (s # <<>> /\ p[i] = s[1]) \/ (t # <<>> /\ p[i] = t[1])
    <3>1. /\ Len(s \o t) \in 0 .. 2 /\ DOMAIN (s \o t) = 1 .. Len(s \o t)
          /\ \A j \in 1 .. Len(s \o t) :
                \/ s # <<>> /\ j = 1 /\ (s \o t)[j] = s[1]
                \/ t # <<>> /\ (s \o t)[j] = t[1] /\ j = IF s = <<>> THEN 1 ELSE 2
          /\ (s \o t = <<>>) <=> (Len(s \o t) = 0)
      BY <1>2, JoinedParts
    <3>2. QED  BY <3>1, Zenon
  <2> HIDE DEF p
  <2>2. Parts(q, seen) = p
    BY <1>2 DEF p
  <2>3. \A i \in 1 .. Len(p) : p[i][1] \in Refs /\ p[i][2] \in RecordsOf(p[i][1])
    BY <1>1, <1>2, <2>1, Zenon
  <2>4. QED  BY <2>1, <2>2, <2>3, Zenon
<1>3. CASE q \in ProjectCall /\ q.tool = "manage_projects"
  <2>1. /\ ~ProjectBlocked(q, seen)
        /\ Parts(q, seen) = ProgramPart(q, seen) \o ProjectPart(q, seen)
    BY <1>3 DEF Blocked, Parts, ProjectParts
  <2>2. IsPart(ProgramPart(q, seen)) /\ IsPart(ProjectPart(q, seen))
    BY <1>3, <2>1, ProgramPartType, ProjectPartType
  <2>3. QED  BY <1>2, <2>1, <2>2
<1>4. CASE q \in EvidenceCall /\ q.tool = "manage_evidence_items"
  <2>1. Parts(q, seen) = ArtifactPart(q, seen) \o EvidencePart(q, seen)
    BY <1>4 DEF Parts, EvidenceParts
  <2>2. QED  BY <1>2, <1>4, <2>1, EvidencePartsType
<1>5. CASE q \in MacroCall /\ q.tool = "pmo_macro"
  <2>1. IsPart(MacroParts(q, seen)) /\ IsPart(<<>>) /\ Parts(q, seen) = MacroParts(q, seen)
    BY <1>5, MacroPartsType DEF IsPart, Parts
  <2>2. Parts(q, seen) = MacroParts(q, seen) \o <<>>
    BY <2>1 DEF IsPart
  <2>3. QED  BY <1>2, <2>1, <2>2
<1>6. QED  BY <1>3, <1>4, <1>5, ToolsOfCalls

(* Evidence is written after the artifact it is given, by its own call.     *)
LEMMA EvidenceIsLast ==
    ASSUME NEW q, Accepted(q), NEW seen, IsPortfolio(seen), ~Blocked(q, seen),
           NEW i \in 1 .. Len(Parts(q, seen)), Parts(q, seen)[i][1] \in Evidence
    PROVE  /\ q \in EvidenceCall /\ q.evidence \in Evidence
           /\ Parts(q, seen)[i] = <<q.evidence, BuildEvidenceRecord(q, seen[q.evidence])>>
           /\ q.artifact # None => i = 2 /\ Parts(q, seen)[1][1] = q.artifact
<1>1. CASE q \in ProjectCall /\ q.tool = "manage_projects"
  <2> DEFINE s == ProgramPart(q, seen)
             t == ProjectPart(q, seen)
  <2>1. ~ProjectBlocked(q, seen) /\ Parts(q, seen) = s \o t
    BY <1>1 DEF Blocked, Parts, ProjectParts
  <2>2. /\ IsPart(s) /\ IsPart(t) /\ (s # <<>> => s[1][1] \in Programs)
        /\ (t # <<>> => t[1][1] \in Projects)
    BY <1>1, <2>1, ProgramPartType, ProjectPartType
  <2> HIDE DEF s, t
  <2>3. (s # <<>> /\ (s \o t)[i] = s[1]) \/ (t # <<>> /\ (s \o t)[i] = t[1])
    <3>1. \A j \in 1 .. Len(s \o t) :
              \/ s # <<>> /\ j = 1 /\ (s \o t)[j] = s[1]
              \/ t # <<>> /\ (s \o t)[j] = t[1] /\ j = IF s = <<>> THEN 1 ELSE 2
      BY <2>2, JoinedParts
    <3>2. QED  BY <2>1, <3>1, Zenon
  <2>4. Parts(q, seen)[i][1] \in Programs \cup Projects
    BY <2>1, <2>2, <2>3, Zenon
  <2>5. QED  BY <2>4, RefsAreDistinct
<1>2. CASE q \in EvidenceCall /\ q.tool = "manage_evidence_items"
  <2> DEFINE s == ArtifactPart(q, seen)
             t == EvidencePart(q, seen)
  <2>1. Parts(q, seen) = s \o t
    BY <1>2 DEF Parts, EvidenceParts
  <2>2. /\ IsPart(s) /\ IsPart(t) /\ (s # <<>> => s[1][1] \in Artifacts)
        /\ (t # <<>> => t[1][1] \in Evidence)
    BY <1>2, EvidencePartsType
  <2>3. t # <<>> => q.evidence # None /\ t[1] = <<q.evidence, BuildEvidenceRecord(q, seen[q.evidence])>>
    BY DEF EvidencePart
  <2>4. /\ t # <<>> /\ q.artifact # None => s # <<>>
        /\ s # <<>> => s[1][1] = q.artifact /\ q.artifact # None
    BY DEF ArtifactPart, EvidencePart
  <2> HIDE DEF s, t
  <2>5. /\ \A j \in 1 .. Len(s \o t) :
              \/ s # <<>> /\ j = 1 /\ (s \o t)[j] = s[1]
              \/ t # <<>> /\ (s \o t)[j] = t[1] /\ j = IF s = <<>> THEN 1 ELSE 2
    BY <2>2, JoinedParts
  <2>6. t # <<>> /\ (s \o t)[i] = t[1] /\ i = IF s = <<>> THEN 1 ELSE 2
    <3>1. s # <<>> => s[1][1] \notin Evidence
      BY <2>2, RefsAreDistinct
    <3>2. QED  BY <2>1, <2>5, <3>1, Zenon
  <2>7. q.evidence \in Evidence
    BY <2>2, <2>3, <2>6
  <2>8. ASSUME q.artifact # None
        PROVE  i = 2 /\ Parts(q, seen)[1][1] = q.artifact
    <3>1. s # <<>> /\ i = 2
      BY <2>4, <2>6, <2>8
    <3>2. 1 \in 1 .. Len(s \o t)
      BY <2>1, <3>1, <2>2, JoinedParts
    <3>3. (s \o t)[1] = s[1]
      BY <2>5, <3>1, <3>2
    <3>4. QED  BY <2>1, <2>4, <3>1, <3>3
  <2>9. QED  BY <1>2, <2>1, <2>3, <2>6, <2>7, <2>8
<1>3. CASE q \in MacroCall /\ q.tool = "pmo_macro"
  <2>1. Parts(q, seen) = <<>> \/ Parts(q, seen) = << <<Registry, EditedRegistry(q, seen)>> >>
    BY <1>3 DEF Parts, MacroParts
  <2>2. i = 1 /\ Parts(q, seen)[i][1] = Registry
    BY <2>1
  <2>3. QED  BY <2>2, RefsAreDistinct
<1>4. QED  BY <1>1, <1>2, <1>3, ToolsOfCalls

(* Two events of one id are of one correlation; of one call, they are the   *)
(* same event.                                                              *)
LEMMA EventsOfOneId ==
    ASSUME NEW q, Accepted(q), NEW p, NEW i, NEW q2, Accepted(q2), NEW p2, NEW j,
           EventOf(q, p, i).id = EventOf(q2, p2, j).id
    PROVE  q.correlation = q2.correlation
<1>1. /\ q.tool \in {"manage_projects", "manage_evidence_items", "pmo_macro"}
      /\ q2.tool \in {"manage_projects", "manage_evidence_items", "pmo_macro"}
  BY ToolsOfCalls
<1>2. EventOf(q, p, i).id[2] = q.correlation /\ EventOf(q2, p2, j).id[2] = q2.correlation
  BY <1>1 DEF EventOf
<1>3. QED  BY <1>2

LEMMA EventsOfOneCall ==
    ASSUME NEW q, Accepted(q), NEW seen, IsPortfolio(seen), ~Blocked(q, seen),
           NEW i \in 1 .. Len(Parts(q, seen)), NEW j \in 1 .. Len(Parts(q, seen)),
           EventOf(q, Parts(q, seen), i).id = EventOf(q, Parts(q, seen), j).id
    PROVE  EventOf(q, Parts(q, seen), i).targets = EventOf(q, Parts(q, seen), j).targets
<1>1. CASE q.tool = "manage_projects"
  BY <1>1 DEF EventOf
<1>2. CASE q \in EvidenceCall /\ q.tool = "manage_evidence_items"
  <2> DEFINE s == ArtifactPart(q, seen)
             t == EvidencePart(q, seen)
             p == s \o t
  <2>1. Parts(q, seen) = p
    BY <1>2 DEF Parts, EvidenceParts
  <2>2. /\ IsPart(s) /\ IsPart(t) /\ (s # <<>> => s[1][1] \in Artifacts)
        /\ (t # <<>> => t[1][1] \in Evidence)
    BY <1>2, EvidencePartsType
  <2> HIDE DEF s, t
  <2>3. \A k \in 1 .. Len(p) : \/ s # <<>> /\ p[k] = s[1]
                               \/ t # <<>> /\ p[k] = t[1]
    BY <2>2, JoinedParts
  <2> HIDE DEF p
  <2>4. \A k \in 1 .. Len(p) : \/ p[k] = s[1] /\ p[k][1] \in Artifacts
                               \/ p[k] = t[1] /\ p[k][1] \notin Artifacts
    BY <2>2, <2>3, RefsAreDistinct, Zenon
  <2>5. p[i][1] \in Artifacts <=> p[j][1] \in Artifacts
    <3>1. EventOf(q, p, i).id[3] = (p[i][1] \in Artifacts)
      BY <1>2 DEF EventOf
    <3>2. EventOf(q, p, j).id[3] = (p[j][1] \in Artifacts)
      BY <1>2 DEF EventOf
    <3>3. QED  BY <2>1, <3>1, <3>2
  <2>6. p[i] = p[j]
    BY <2>1, <2>4, <2>5, Zenon
  <2>7. QED  BY <1>2, <2>1, <2>6 DEF EventOf
<1>3. CASE q.tool = "pmo_macro"
  BY <1>3 DEF EventOf
<1>4. QED  BY <1>1, <1>2, <1>3, ToolsOfCalls

-----------------------------------------------------------------------------
(* The actions, field by field.                                             *)

Moved(a, phase, call, seen, step, answer) ==
    /\ attempt' = [b \in Attempts |-> attempt'[b]]
    /\ \A b \in Attempts \ {a} : attempt'[b] = attempt[b]
    /\ DOMAIN attempt'[a] = {"phase", "call", "seen", "step", "answer"}
    /\ attempt'[a].phase = phase /\ attempt'[a].call = call /\ attempt'[a].seen = seen
    /\ attempt'[a].step = step /\ attempt'[a].answer = answer

LEMMA Refusals == \A q, seen : RefusalOf(q, seen) \in {"blocked", "blocked_unshown"}
BY DEF RefusalOf

LEMMA Moves ==
    ASSUME NEW a \in Attempts, TypeOK
    PROVE  /\ \A q \in workload : StartCall(a, q) =>
                Moved(a, IF ActorAllowed(q) THEN "reading" ELSE "answered", q,
                      attempt[a].seen, attempt[a].step,
                      IF ActorAllowed(q) THEN "none" ELSE "blocked")
           /\ ReadRecords(a) =>
                Moved(a, IF attempt[a].step + 1 = Len(Reads(Call(a))) THEN "deciding" ELSE "reading",
                      Call(a),
                      [r \in Refs |-> IF r \in Reads(Call(a))[attempt[a].step + 1]
                                        THEN records[r] ELSE attempt[a].seen[r]],
                      IF attempt[a].step + 1 = Len(Reads(Call(a))) THEN 0 ELSE attempt[a].step + 1,
                      attempt[a].answer)
           /\ Decide(a) =>
                Moved(a, IF Blocked(Call(a), attempt[a].seen) THEN "answered"
                         ELSE IF PartsOf(a) # <<>> THEN "storing" ELSE "replying",
                      Call(a), attempt[a].seen, attempt[a].step,
                      IF Blocked(Call(a), attempt[a].seen)
                        THEN RefusalOf(Call(a), attempt[a].seen) ELSE "none")
           /\ StoreRecord(a) =>
                Moved(a, "logging", Call(a), attempt[a].seen, attempt[a].step + 1,
                      attempt[a].answer)
           /\ PutEvent(a) =>
                Moved(a, IF attempt[a].step < Len(PartsOf(a)) THEN "storing" ELSE "replying",
                      Call(a), attempt[a].seen, attempt[a].step, attempt[a].answer)
           /\ Reply(a) =>
                Moved(a, "answered", Call(a), attempt[a].seen, attempt[a].step,
                      IF Call(a).tool = "pmo_macro" /\ ~Presentable(ShownRegistry(a))
                        THEN "guidance" ELSE "ok")
           /\ StopCall(a) =>
                Moved(a, "stopped", Call(a), attempt[a].seen, attempt[a].step,
                      attempt[a].answer)
<1>1. /\ attempt = [b \in Attempts |-> attempt[b]]
      /\ DOMAIN attempt[a] = {"phase", "call", "seen", "step", "answer"}
  BY DEF TypeOK, IsAttempt
<1>2. ASSUME NEW q \in workload, StartCall(a, q)
      PROVE  Moved(a, IF ActorAllowed(q) THEN "reading" ELSE "answered", q,
                   attempt[a].seen, attempt[a].step,
                   IF ActorAllowed(q) THEN "none" ELSE "blocked")
  BY <1>1, <1>2 DEF StartCall, Moved
<1>3. ASSUME ReadRecords(a)
      PROVE  Moved(a, IF attempt[a].step + 1 = Len(Reads(Call(a))) THEN "deciding" ELSE "reading",
                   Call(a),
                   [r \in Refs |-> IF r \in Reads(Call(a))[attempt[a].step + 1]
                                     THEN records[r] ELSE attempt[a].seen[r]],
                   IF attempt[a].step + 1 = Len(Reads(Call(a))) THEN 0 ELSE attempt[a].step + 1,
                   attempt[a].answer)
  BY <1>1, <1>3 DEF ReadRecords, Moved, Call
<1>4. ASSUME Decide(a)
      PROVE  Moved(a, IF Blocked(Call(a), attempt[a].seen) THEN "answered"
                      ELSE IF PartsOf(a) # <<>> THEN "storing" ELSE "replying",
                   Call(a), attempt[a].seen, attempt[a].step,
                   IF Blocked(Call(a), attempt[a].seen)
                     THEN RefusalOf(Call(a), attempt[a].seen) ELSE "none")
  BY <1>1, <1>4 DEF Decide, Moved, Call
<1>5. ASSUME StoreRecord(a)
      PROVE  Moved(a, "logging", Call(a), attempt[a].seen, attempt[a].step + 1,
                   attempt[a].answer)
  BY <1>1, <1>5 DEF StoreRecord, Moved, Call
<1>6. ASSUME PutEvent(a)
      PROVE  Moved(a, IF attempt[a].step < Len(PartsOf(a)) THEN "storing" ELSE "replying",
                   Call(a), attempt[a].seen, attempt[a].step, attempt[a].answer)
  BY <1>1, <1>6 DEF PutEvent, Moved, Call
<1>7. ASSUME Reply(a)
      PROVE  Moved(a, "answered", Call(a), attempt[a].seen, attempt[a].step,
                   IF Call(a).tool = "pmo_macro" /\ ~Presentable(ShownRegistry(a))
                     THEN "guidance" ELSE "ok")
  BY <1>1, <1>7 DEF Reply, Moved, Call
<1>8. ASSUME StopCall(a)
      PROVE  Moved(a, "stopped", Call(a), attempt[a].seen, attempt[a].step,
                   attempt[a].answer)
  BY <1>1, <1>8 DEF StopCall, Moved, Call
<1>9. QED  BY <1>2, <1>3, <1>4, <1>5, <1>6, <1>7, <1>8, Zenon

(* The parts of a call that has been accepted.                              *)
LEMMA PartsOfType ==
    ASSUME TypeOK, WritesFollowPhase, NEW a \in Attempts, Accepting(a)
    PROVE  /\ Call(a) \in Requests /\ Accepted(Call(a)) /\ IsPortfolio(attempt[a].seen)
           /\ ~Blocked(Call(a), attempt[a].seen)
           /\ Len(PartsOf(a)) \in 0 .. 2 /\ DOMAIN PartsOf(a) = 1 .. Len(PartsOf(a))
           /\ \A i \in 1 .. Len(PartsOf(a)) :
                 PartsOf(a)[i][1] \in Refs /\ PartsOf(a)[i][2] \in RecordsOf(PartsOf(a)[i][1])
           /\ attempt[a].step \in 0 .. Len(PartsOf(a))
<1>1. /\ Call(a) \in Requests /\ IsPortfolio(attempt[a].seen) /\ attempt[a].step \in 0 .. 2
      /\ attempt[a].phase \in Busy \cup {"idle", "answered", "stopped"}
  BY DEF TypeOK, IsAttempt, Accepting, Call
<1>2. Accepted(Call(a))
  BY <1>1, RequestsAreAccepted
<1>3. ~Blocked(Call(a), attempt[a].seen)
  BY DEF WritesFollowPhase, FollowsPhase
<1>4. /\ Len(PartsOf(a)) \in 0 .. 2 /\ DOMAIN PartsOf(a) = 1 .. Len(PartsOf(a))
      /\ \A i \in 1 .. Len(PartsOf(a)) :
            PartsOf(a)[i][1] \in Refs /\ PartsOf(a)[i][2] \in RecordsOf(PartsOf(a)[i][1])
  BY <1>1, <1>2, <1>3, PartsType DEF PartsOf
<1>5. attempt[a].step \in 0 .. Len(PartsOf(a))
  <2>1. \/ attempt[a].phase = "storing" /\ attempt[a].step < Len(PartsOf(a))
        \/ attempt[a].phase = "logging" /\ attempt[a].step \in 1 .. Len(PartsOf(a))
        \/ attempt[a].step = Len(PartsOf(a))
    BY DEF WritesFollowPhase, FollowsPhase, Accepting
  <2>2. QED  BY <1>1, <1>4, <2>1
<1>6. QED  BY <1>1, <1>2, <1>3, <1>4, <1>5

(* The write and the event of a step.                                       *)
LEMMA WriteOfStep ==
    ASSUME TypeOK, WritesFollowPhase, NEW a \in Attempts, StoreRecord(a)
    PROVE  \E i \in 1 .. Len(PartsOf(a)) :
              /\ i = attempt[a].step + 1 /\ Accepting(a)
              /\ PartsOf(a)[i][1] \in Refs /\ PartsOf(a)[i][2] \in RecordsOf(PartsOf(a)[i][1])
              /\ PartsOf(a)[i][2] # None
              /\ records' = [r \in Refs |-> IF r = PartsOf(a)[i][1] THEN PartsOf(a)[i][2]
                                                                   ELSE records[r]]
<1>1. attempt[a].phase = "storing" /\ Accepting(a)
  BY DEF StoreRecord, Accepting
<1>2. attempt[a].step < Len(PartsOf(a)) /\ attempt[a].step \in 0 .. 2 /\ Len(PartsOf(a)) \in 0 .. 2
  BY <1>1, PartsOfType DEF WritesFollowPhase, FollowsPhase, TypeOK, IsAttempt
<1> DEFINE i == attempt[a].step + 1
<1>3. i \in 1 .. Len(PartsOf(a))
  BY <1>2
<1>4. PartsOf(a)[i][1] \in Refs /\ PartsOf(a)[i][2] \in RecordsOf(PartsOf(a)[i][1])
  BY <1>1, <1>3, PartsOfType
<1>5. PartsOf(a)[i][2] # None
  BY <1>4, NoneIsNoRecord
<1>6. records' = [r \in Refs |-> IF r = PartsOf(a)[i][1] THEN PartsOf(a)[i][2] ELSE records[r]]
  <2>1. records' = [records EXCEPT ![PartsOf(a)[i][1]] = PartsOf(a)[i][2]]
    BY DEF StoreRecord
  <2>2. records = [r \in Refs |-> records[r]]
    BY DEF TypeOK, IsPortfolio
  <2> HIDE DEF i
  <2>3. QED  BY <2>1, <2>2
<1>7. QED  BY <1>1, <1>3, <1>4, <1>5, <1>6

-----------------------------------------------------------------------------
(* What a step keeps.                                                       *)

(* A behaviour's requests are among those the schemas accept.               *)
LEMMA TypeStep ==
    ASSUME TypeOK, WritesFollowPhase, [Next]_vars
    PROVE  TypeOK'
<1>1. ASSUME NEW a \in Attempts, NEW q \in workload, StartCall(a, q)
      PROVE  TypeOK'
  <2>1. q \in Requests
    BY DEF Requests, TypeOK
  <2>2. Moved(a, IF ActorAllowed(q) THEN "reading" ELSE "answered", q,
              attempt[a].seen, attempt[a].step, IF ActorAllowed(q) THEN "none" ELSE "blocked")
    BY <1>1, Moves
  <2>3. UNCHANGED <<workload, records, events>>
    BY <1>1 DEF StartCall
  <2>4. QED  BY <2>1, <2>2, <2>3 DEF Moved, TypeOK, IsAttempt, IsPortfolio, Busy
<1>2. ASSUME NEW a \in Attempts, ReadRecords(a)
      PROVE  TypeOK'
  <2> DEFINE n == attempt[a].step + 1
             last == n = Len(Reads(Call(a)))
             f == [r \in Refs |-> IF r \in Reads(Call(a))[n] THEN records[r]
                                                            ELSE attempt[a].seen[r]]
  <2>1. attempt[a].phase = "reading" /\ UNCHANGED <<workload, records, events>>
    BY <1>2 DEF ReadRecords
  <2>2. Moved(a, IF last THEN "deciding" ELSE "reading", Call(a), f, IF last THEN 0 ELSE n,
              attempt[a].answer)
    BY <1>2, Moves
  <2>3. Call(a) \in Requests /\ Len(Reads(Call(a))) \in 1 .. 2
        /\ attempt[a].step < Len(Reads(Call(a))) /\ attempt[a].step \in 0 .. 2
    BY <2>1, RequestsAreAccepted, ToolsOfCalls DEF Call, WritesFollowPhase, FollowsPhase, TypeOK, IsAttempt
  <2>4. (IF last THEN 0 ELSE n) \in 0 .. 2
    <3> DEFINE k == attempt[a].step
               m == Len(Reads(Call(a)))
    <3>1. m \in 1 .. 2 /\ k < m /\ k \in 0 .. 2
      BY <2>3
    <3> HIDE DEF k, m
    <3>2. (IF k + 1 = m THEN 0 ELSE k + 1) \in 0 .. 2
      BY <3>1
    <3>3. QED  BY <3>2, Zenon DEF k, m
  <2>5. IsPortfolio(f)
    BY DEF TypeOK, IsAttempt, IsPortfolio
  <2> HIDE DEF f, n, last
  <2>6. IsAttempt(attempt'[a])
    BY <2>1, <2>2, <2>3, <2>4, <2>5 DEF Moved, Call, TypeOK, IsAttempt, Busy
  <2>7. QED  BY <2>1, <2>2, <2>6 DEF Moved, TypeOK
<1>3. ASSUME NEW a \in Attempts, Decide(a)
      PROVE  TypeOK'
  <2>1. attempt[a].phase = "deciding" /\ UNCHANGED <<workload, records, events>>
    BY <1>3 DEF Decide
  <2>2. Moved(a, IF Blocked(Call(a), attempt[a].seen) THEN "answered"
                 ELSE IF PartsOf(a) # <<>> THEN "storing" ELSE "replying",
              Call(a), attempt[a].seen, attempt[a].step,
              IF Blocked(Call(a), attempt[a].seen)
                THEN RefusalOf(Call(a), attempt[a].seen) ELSE "none")
    BY <1>3, Moves
  <2>3. QED  BY <2>1, <2>2, Refusals DEF Moved, Call, TypeOK, IsAttempt, IsPortfolio, Busy
<1>4. ASSUME NEW a \in Attempts, StoreRecord(a)
      PROVE  TypeOK'
  <2>1. PICK i \in 1 .. Len(PartsOf(a)) :
            /\ i = attempt[a].step + 1 /\ Accepting(a)
            /\ PartsOf(a)[i][1] \in Refs /\ PartsOf(a)[i][2] \in RecordsOf(PartsOf(a)[i][1])
            /\ PartsOf(a)[i][2] # None
            /\ records' = [r \in Refs |-> IF r = PartsOf(a)[i][1] THEN PartsOf(a)[i][2]
                                                                 ELSE records[r]]
    BY <1>4, WriteOfStep
  <2>2. attempt[a].phase = "storing" /\ UNCHANGED <<workload, events>>
    BY <1>4 DEF StoreRecord
  <2>3. Moved(a, "logging", Call(a), attempt[a].seen, attempt[a].step + 1, attempt[a].answer)
    BY <1>4, Moves
  <2>4. attempt[a].step + 1 \in 0 .. 2
    <3>1. Len(PartsOf(a)) \in 0 .. 2
      BY <2>1, PartsOfType
    <3>2. \A k, m : m \in 0 .. 2 /\ k \in 1 .. m => k \in 0 .. 2
      OBVIOUS
    <3>3. QED  BY <2>1, <3>1, <3>2
  <2>5. IsPortfolio(records')
    BY <2>1 DEF TypeOK, IsPortfolio
  <2>6. QED  BY <2>2, <2>3, <2>4, <2>5 DEF Moved, Call, TypeOK, IsAttempt, Busy
<1>5. ASSUME NEW a \in Attempts, PutEvent(a)
      PROVE  TypeOK'
  <2> DEFINE event == EventOf(Call(a), PartsOf(a), attempt[a].step)
             new == [id |-> event.id, targets |-> event.targets, by |-> a]
  <2>1. /\ attempt[a].phase = "logging" /\ UNCHANGED <<workload, records>>
        /\ events' = {e \in events : e.id # event.id} \cup {new}
    BY <1>5 DEF PutEvent
  <2>2. Moved(a, IF attempt[a].step < Len(PartsOf(a)) THEN "storing" ELSE "replying",
              Call(a), attempt[a].seen, attempt[a].step, attempt[a].answer)
    BY <1>5, Moves
  <2>3. new \in Event
    <3>1. Accepting(a) /\ attempt[a].step \in 1 .. Len(PartsOf(a))
      BY <2>1 DEF Accepting, WritesFollowPhase, FollowsPhase
    <3>2. /\ Accepted(Call(a)) /\ DOMAIN PartsOf(a) = 1 .. Len(PartsOf(a))
          /\ \A i \in 1 .. Len(PartsOf(a)) : PartsOf(a)[i][1] \in Refs
      BY <3>1, PartsOfType
    <3>3. RefsIn(PartsOf(a)) \subseteq Refs /\ {PartsOf(a)[attempt[a].step][1]} \subseteq Refs
      BY <3>1, <3>2 DEF RefsIn
    <3>4. Call(a).correlation \in Correlations
      BY <3>2, ToolsOfCalls DEF ProjectCall, EvidenceCall, MacroCall
    <3>5. event.id \in EventIds /\ event.targets \subseteq Refs
      <4>1. CASE Call(a).tool = "manage_projects"
        BY <3>3, <3>4, <4>1 DEF EventOf, EventIds
      <4>2. CASE Call(a).tool = "manage_evidence_items"
        <5> DEFINE r == PartsOf(a)[attempt[a].step][1]
        <5>1. event.id = <<"manage_evidence_items", Call(a).correlation, r \in Artifacts>>
              /\ event.targets = {r}
          BY <4>2 DEF EventOf
        <5>2. r \in Refs
          BY <3>3
        <5> HIDE DEF r, event
        <5>3. \A b \in BOOLEAN : <<"manage_evidence_items", Call(a).correlation, b>> \in EventIds
          BY <3>4 DEF EventIds
        <5>4. (r \in Artifacts) \in BOOLEAN
          <6>1. CASE r \in Artifacts
            <7>1. (r \in Artifacts) = TRUE  BY <6>1
            <7>2. QED  BY <7>1
          <6>2. CASE r \notin Artifacts
            <7>1. (r \in Artifacts) = FALSE  BY <6>2
            <7>2. QED  BY <7>1
          <6>3. QED  BY <6>1, <6>2
        <5>5. event.id \in EventIds
          BY <5>1, <5>3, <5>4, Zenon
        <5>6. QED  BY <5>1, <5>2, <5>5
      <4>3. CASE Call(a).tool = "pmo_macro"
        BY <3>4, <4>3 DEF EventOf, EventIds
      <4>4. QED  BY <3>2, <4>1, <4>2, <4>3, ToolsOfCalls
    <3>6. QED  BY <3>5 DEF Event
  <2> HIDE DEF event, new
  <2>4. QED  BY <2>1, <2>2, <2>3 DEF Moved, Call, TypeOK, IsAttempt, IsPortfolio, Busy
<1>6. ASSUME NEW a \in Attempts, Reply(a)
      PROVE  TypeOK'
  <2>1. attempt[a].phase = "replying" /\ UNCHANGED <<workload, records, events>>
    BY <1>6 DEF Reply
  <2>2. Moved(a, "answered", Call(a), attempt[a].seen, attempt[a].step,
              IF Call(a).tool = "pmo_macro" /\ ~Presentable(ShownRegistry(a))
                THEN "guidance" ELSE "ok")
    BY <1>6, Moves
  <2>3. QED  BY <2>1, <2>2 DEF Moved, Call, TypeOK, IsAttempt, IsPortfolio, Busy
<1>7. ASSUME NEW a \in Attempts, StopCall(a)
      PROVE  TypeOK'
  <2>1. attempt[a].phase # "idle" /\ UNCHANGED <<workload, records, events>>
    BY <1>7 DEF StopCall, Busy
  <2>2. Moved(a, "stopped", Call(a), attempt[a].seen, attempt[a].step, attempt[a].answer)
    BY <1>7, Moves
  <2>3. QED  BY <2>1, <2>2 DEF Moved, Call, TypeOK, IsAttempt, IsPortfolio, Busy
<1>8. CASE UNCHANGED vars
  BY <1>8 DEF vars, TypeOK, IsAttempt, IsPortfolio, Busy
<1>9. QED
  BY <1>1, <1>2, <1>3, <1>4, <1>5, <1>6, <1>7, <1>8 DEF Next, Handle

(* No record is ever taken away.                                            *)
LEMMA RecordsStay ==
    ASSUME TypeOK, WritesFollowPhase, [Next]_vars
    PROVE  \A r \in Refs : records[r] # None => records'[r] # None
<1>1. ASSUME NEW a \in Attempts, StoreRecord(a)
      PROVE  \A r \in Refs : records[r] # None => records'[r] # None
  BY <1>1, WriteOfStep
<1>2. ASSUME UNCHANGED records
      PROVE  \A r \in Refs : records[r] # None => records'[r] # None
  BY <1>2
<1>3. (\E a \in Attempts : StoreRecord(a)) \/ UNCHANGED records
  BY DEF Next, Handle, vars, StartCall, ReadRecords, Decide, PutEvent, Reply, StopCall
<1>4. QED  BY <1>1, <1>2, <1>3

(* Once a call has decided, what it read and asked for no longer changes,   *)
(* and it goes on or is stopped.                                            *)
LEMMA DecisionsStay ==
    ASSUME TypeOK, WritesFollowPhase, [Next]_vars, NEW b \in Attempts,
           Accepting(b) \/ attempt[b].phase = "stopped"
    PROVE  /\ Call(b)' = Call(b) /\ attempt'[b].seen = attempt[b].seen
           /\ PartsOf(b)' = PartsOf(b)
           /\ attempt'[b].step \in {attempt[b].step, attempt[b].step + 1}
           /\ Accepting(b)' \/ attempt'[b].phase = "stopped"
<1>1. attempt[b].phase \notin {"idle", "reading", "deciding"}
  BY DEF Accepting
<1>2. ASSUME attempt'[b] = attempt[b]
      PROVE  /\ Call(b)' = Call(b) /\ attempt'[b].seen = attempt[b].seen
             /\ PartsOf(b)' = PartsOf(b)
             /\ attempt'[b].step \in {attempt[b].step, attempt[b].step + 1}
             /\ Accepting(b)' \/ attempt'[b].phase = "stopped"
  BY <1>2 DEF Call, PartsOf, Accepting
<1>3. ASSUME NEW phase, NEW step, NEW answer,
             Moved(b, phase, Call(b), attempt[b].seen, step, answer),
             step \in {attempt[b].step, attempt[b].step + 1},
             \/ phase \in {"storing", "logging", "replying", "stopped"}
             \/ phase = "answered" /\ answer \in {"ok", "guidance"}
      PROVE  /\ Call(b)' = Call(b) /\ attempt'[b].seen = attempt[b].seen
             /\ PartsOf(b)' = PartsOf(b)
             /\ attempt'[b].step \in {attempt[b].step, attempt[b].step + 1}
             /\ Accepting(b)' \/ attempt'[b].phase = "stopped"
  BY <1>3 DEF Moved, Call, PartsOf, Accepting
<1>4. ASSUME NEW a \in Attempts, NEW q \in workload, StartCall(a, q)
      PROVE  attempt'[b] = attempt[b]
  BY <1>1, <1>4, Moves DEF StartCall, Moved
<1>5. ASSUME NEW a \in Attempts, ReadRecords(a)
      PROVE  attempt'[b] = attempt[b]
  BY <1>1, <1>5, Moves DEF ReadRecords, Moved
<1>6. ASSUME NEW a \in Attempts, Decide(a)
      PROVE  attempt'[b] = attempt[b]
  BY <1>1, <1>6, Moves DEF Decide, Moved
<1>7. ASSUME NEW a \in Attempts, a # b,
             StoreRecord(a) \/ PutEvent(a) \/ Reply(a) \/ StopCall(a)
      PROVE  attempt'[b] = attempt[b]
  BY <1>7, Moves DEF Moved
<1>8. CASE StoreRecord(b)
  BY <1>3, <1>8, Moves
<1>9. CASE PutEvent(b)
  BY <1>3, <1>9, Moves
<1>10. CASE Reply(b)
  BY <1>3, <1>10, Moves
<1>11. CASE StopCall(b)
  BY <1>3, <1>11, Moves
<1>12. CASE UNCHANGED vars
  BY <1>2, <1>12 DEF vars
<1>13. QED
  BY <1>2, <1>4, <1>5, <1>6, <1>7, <1>8, <1>9, <1>10, <1>11, <1>12 DEF Next, Handle

(* A call that does not move.                                               *)
LEMMA OthersFollowPhase ==
    ASSUME TypeOK, WritesFollowPhase, [Next]_vars, NEW b \in Attempts, attempt'[b] = attempt[b]
    PROVE  FollowsPhase(b)'
<1>1. Call(b)' = Call(b) /\ PartsOf(b)' = PartsOf(b) /\ Accepting(b)' = Accepting(b)
  BY DEF Call, PartsOf, Accepting
<1>2. ASSUME Accepting(b), NEW i \in 1 .. attempt[b].step
      PROVE  records'[PartsOf(b)[i][1]] # None
  <2>1. records[PartsOf(b)[i][1]] # None
    BY <1>2 DEF WritesFollowPhase, FollowsPhase
  <2>2. PartsOf(b)[i][1] \in Refs
    BY <1>2, PartsOfType
  <2>3. QED  BY <2>1, <2>2, RecordsStay
<1>3. QED  BY <1>1, <1>2 DEF WritesFollowPhase, FollowsPhase

(* The reads and writes of a call come in the order of its phases.          *)
LEMMA PhaseStep ==
    ASSUME TypeOK, WritesFollowPhase, [Next]_vars
    PROVE  WritesFollowPhase'
<1>1. ASSUME NEW a \in Attempts, FollowsPhase(a)', \A b \in Attempts \ {a} : attempt'[b] = attempt[b]
      PROVE  WritesFollowPhase'
  BY <1>1, OthersFollowPhase DEF WritesFollowPhase
<1>2. ASSUME NEW a \in Attempts
      PROVE  /\ FollowsPhase(a) /\ attempt[a].step \in 0 .. 2
             /\ attempt[a].answer \in {"none", "ok", "blocked", "guidance", "blocked_unshown"}
             /\ attempt[a].phase # "idle" => Len(Reads(Call(a))) \in 1 .. 2
  BY RequestsAreAccepted, ToolsOfCalls DEF WritesFollowPhase, TypeOK, IsAttempt, Call
<1>3. ASSUME NEW a \in Attempts, NEW q \in workload, StartCall(a, q)
      PROVE  WritesFollowPhase'
  <2>1. Moved(a, IF ActorAllowed(q) THEN "reading" ELSE "answered", q,
              attempt[a].seen, attempt[a].step, IF ActorAllowed(q) THEN "none" ELSE "blocked")
    BY <1>3, Moves
  <2>2. attempt[a].step = 0 /\ Len(Reads(q)) \in 1 .. 2
    <3>1. Accepted(q)
      BY WorkloadAssumption DEF TypeOK
    <3>2. QED  BY <1>2, <1>3, <3>1, ToolsOfCalls DEF StartCall, FollowsPhase
  <2>3. FollowsPhase(a)'
    <3>1. Call(a)' = q /\ attempt'[a].step = 0
      BY <2>1, <2>2 DEF Moved, Call
    <3>2. \/ attempt'[a].phase = "reading" /\ attempt'[a].answer = "none"
          \/ attempt'[a].phase = "answered" /\ attempt'[a].answer = "blocked"
      BY <2>1 DEF Moved
    <3>3. QED  BY <2>2, <3>1, <3>2 DEF FollowsPhase, Accepting
  <2>4. QED  BY <1>1, <2>1, <2>3 DEF Moved
<1>4. ASSUME NEW a \in Attempts, ReadRecords(a)
      PROVE  WritesFollowPhase'
  <2> DEFINE f == [r \in Refs |-> IF r \in Reads(Call(a))[attempt[a].step + 1]
                                    THEN records[r] ELSE attempt[a].seen[r]]
             k == attempt[a].step
             m == Len(Reads(Call(a)))
  <2>1. Moved(a, IF k + 1 = m THEN "deciding" ELSE "reading", Call(a), f,
              IF k + 1 = m THEN 0 ELSE k + 1, attempt[a].answer)
    BY <1>4, Moves
  <2>2. /\ k \in 0 .. 2 /\ m \in 1 .. 2 /\ k < m /\ attempt[a].answer = "none"
    BY <1>2, <1>4 DEF ReadRecords, FollowsPhase
  <2>3. Call(a)' = Call(a)
    BY <2>1 DEF Moved, Call
  <2>4. FollowsPhase(a)'
    <3>1. /\ attempt'[a].phase = IF k + 1 = m THEN "deciding" ELSE "reading"
          /\ attempt'[a].step = IF k + 1 = m THEN 0 ELSE k + 1
          /\ attempt'[a].answer = "none" /\ Len(Reads(Call(a)')) = m
      BY <2>1, <2>2, <2>3 DEF Moved
    <3> HIDE DEF f, k, m
    <3>2. k + 1 # m => k + 1 < m
      BY <2>2
    <3>3. QED  BY <3>1, <3>2 DEF FollowsPhase, Accepting
  <2>5. QED  BY <1>1, <2>1, <2>4 DEF Moved
<1>5. ASSUME NEW a \in Attempts, Decide(a)
      PROVE  WritesFollowPhase'
  <2> DEFINE blocked == Blocked(Call(a), attempt[a].seen)
  <2>1. Moved(a, IF blocked THEN "answered" ELSE IF PartsOf(a) # <<>> THEN "storing" ELSE "replying",
              Call(a), attempt[a].seen, attempt[a].step,
              IF blocked THEN RefusalOf(Call(a), attempt[a].seen) ELSE "none")
    BY <1>5, Moves
  <2>2. attempt[a].step = 0
    BY <1>2, <1>5 DEF Decide, FollowsPhase
  <2>3. ~blocked => /\ Len(PartsOf(a)) \in 0 .. 2
                    /\ PartsOf(a) = <<>> <=> Len(PartsOf(a)) = 0
    <3>1. Accepted(Call(a)) /\ IsPortfolio(attempt[a].seen)
      BY <1>5, RequestsAreAccepted DEF Decide, TypeOK, IsAttempt, Call
    <3>2. QED  BY <3>1, PartsType DEF PartsOf
  <2>4. Call(a)' = Call(a) /\ PartsOf(a)' = PartsOf(a) /\ attempt'[a].seen = attempt[a].seen
    BY <2>1 DEF Moved, Call, PartsOf
  <2>5. ASSUME blocked  PROVE FollowsPhase(a)'
    BY <2>1, <2>2, <2>4, <2>5, Refusals DEF Moved, FollowsPhase, Accepting
  <2>6. ASSUME ~blocked  PROVE FollowsPhase(a)'
    <3>1. CASE PartsOf(a) # <<>>
      <4>1. attempt'[a].phase = "storing" /\ attempt'[a].step = 0 /\ attempt'[a].answer = "none"
        BY <2>1, <2>2, <2>6, <3>1 DEF Moved
      <4>2. 0 < Len(PartsOf(a))
        BY <2>3, <2>6, <3>1
      <4>3. QED  BY <2>4, <2>6, <4>1, <4>2 DEF FollowsPhase, Accepting
    <3>2. CASE PartsOf(a) = <<>>
      <4>1. attempt'[a].phase = "replying" /\ attempt'[a].step = 0 /\ attempt'[a].answer = "none"
        BY <2>1, <2>2, <2>6, <3>2 DEF Moved
      <4>2. Len(PartsOf(a)) = 0
        BY <2>3, <2>6, <3>2
      <4>3. QED  BY <2>4, <2>6, <4>1, <4>2 DEF FollowsPhase, Accepting
    <3>3. QED  BY <3>1, <3>2
  <2>7. QED  BY <1>1, <2>1, <2>5, <2>6 DEF Moved
<1>6. ASSUME NEW a \in Attempts, StoreRecord(a)
      PROVE  WritesFollowPhase'
  <2>1. Moved(a, "logging", Call(a), attempt[a].seen, attempt[a].step + 1, attempt[a].answer)
    BY <1>6, Moves
  <2>2. PICK i \in 1 .. Len(PartsOf(a)) :
            /\ i = attempt[a].step + 1 /\ Accepting(a)
            /\ PartsOf(a)[i][1] \in Refs /\ PartsOf(a)[i][2] \in RecordsOf(PartsOf(a)[i][1])
            /\ PartsOf(a)[i][2] # None
            /\ records' = [r \in Refs |-> IF r = PartsOf(a)[i][1] THEN PartsOf(a)[i][2]
                                                                 ELSE records[r]]
    BY <1>6, WriteOfStep
  <2>3. Call(a)' = Call(a) /\ PartsOf(a)' = PartsOf(a) /\ attempt'[a].seen = attempt[a].seen
    BY <2>2, DecisionsStay
  <2>4. /\ attempt'[a].phase = "logging" /\ attempt'[a].step = i
        /\ attempt'[a].answer = attempt[a].answer
    BY <2>1, <2>2 DEF Moved
  <2>5. attempt[a].answer = "none"
    BY <1>2, <1>6 DEF StoreRecord, FollowsPhase
  <2>6. ~Blocked(Call(a), attempt[a].seen)
    BY <2>2, PartsOfType
  <2>7. \A j \in 1 .. i : records'[PartsOf(a)[j][1]] # None
    <3>1. records'[PartsOf(a)[i][1]] # None
      BY <2>2
    <3>2. ASSUME NEW j \in 1 .. i, j # i
          PROVE  records'[PartsOf(a)[j][1]] # None
      <4>1. j \in 1 .. attempt[a].step /\ j \in 1 .. Len(PartsOf(a))
        BY <1>2, <2>2, <3>2, PartsOfType
      <4>2. records[PartsOf(a)[j][1]] # None
        BY <1>2, <2>2, <4>1 DEF FollowsPhase
      <4>3. PartsOf(a)[j][1] \in Refs
        BY <2>2, <4>1, PartsOfType
      <4>4. QED  BY <4>2, <4>3, RecordsStay
    <3>3. QED  BY <3>1, <3>2
  <2>8. FollowsPhase(a)'
    BY <2>2, <2>3, <2>4, <2>5, <2>6, <2>7 DEF FollowsPhase, Accepting
  <2>9. QED  BY <1>1, <2>1, <2>8 DEF Moved
<1>7. ASSUME NEW a \in Attempts, PutEvent(a)
      PROVE  WritesFollowPhase'
  <2> DEFINE k == attempt[a].step
             m == Len(PartsOf(a))
  <2>1. Moved(a, IF k < m THEN "storing" ELSE "replying", Call(a), attempt[a].seen, k,
              attempt[a].answer)
    BY <1>7, Moves
  <2>2. Accepting(a) /\ k \in 1 .. m /\ attempt[a].answer = "none"
    BY <1>2, <1>7 DEF PutEvent, FollowsPhase, Accepting
  <2>3. /\ m \in 0 .. 2 /\ ~Blocked(Call(a), attempt[a].seen)
        /\ \A i \in 1 .. m : PartsOf(a)[i][1] \in Refs
    BY <2>2, PartsOfType
  <2>4. Call(a)' = Call(a) /\ PartsOf(a)' = PartsOf(a) /\ attempt'[a].seen = attempt[a].seen
    BY <2>2, DecisionsStay
  <2>5. records' = records
    BY <1>7 DEF PutEvent
  <2>6. \A i \in 1 .. k : records[PartsOf(a)[i][1]] # None
    BY <1>2, <2>2 DEF FollowsPhase
  <2> HIDE DEF k
  <2>7. FollowsPhase(a)'
    <3>1. attempt'[a].step = k /\ attempt'[a].answer = "none" /\ Len(PartsOf(a)') = m
          /\ attempt'[a].phase = IF k < m THEN "storing" ELSE "replying"
      BY <2>1, <2>2, <2>4 DEF Moved
    <3> HIDE DEF m
    <3>2. k < m \/ k = m
      BY <2>2, <2>3
    <3>3. QED  BY <2>3, <2>4, <2>5, <2>6, <3>1, <3>2 DEF FollowsPhase, Accepting
  <2>8. QED  BY <1>1, <2>1, <2>7 DEF Moved
<1>8. ASSUME NEW a \in Attempts, Reply(a)
      PROVE  WritesFollowPhase'
  <2> DEFINE answer == IF Call(a).tool = "pmo_macro" /\ ~Presentable(ShownRegistry(a))
                         THEN "guidance" ELSE "ok"
  <2>1. Moved(a, "answered", Call(a), attempt[a].seen, attempt[a].step, answer)
    BY <1>8, Moves
  <2>2. attempt[a].phase = "replying" /\ Accepting(a) /\ records' = records
    BY <1>8 DEF Reply, Accepting
  <2>3. Call(a)' = Call(a) /\ PartsOf(a)' = PartsOf(a) /\ attempt'[a].seen = attempt[a].seen
    BY <2>2, DecisionsStay
  <2> HIDE DEF answer
  <2>4. /\ attempt[a].step = Len(PartsOf(a)) /\ ~Blocked(Call(a), attempt[a].seen)
        /\ \A i \in 1 .. attempt[a].step : records[PartsOf(a)[i][1]] # None
    BY <1>2, <2>2 DEF FollowsPhase
  <2>5. FollowsPhase(a)'
    BY <2>1, <2>2, <2>3, <2>4 DEF Moved, FollowsPhase, Accepting
  <2>6. QED  BY <1>1, <2>1, <2>5 DEF Moved
<1>9. ASSUME NEW a \in Attempts, StopCall(a)
      PROVE  WritesFollowPhase'
  <2>1. Moved(a, "stopped", Call(a), attempt[a].seen, attempt[a].step, attempt[a].answer)
    BY <1>9, Moves
  <2>2. attempt[a].answer = "none"
    BY <1>2, <1>9 DEF StopCall, FollowsPhase, Busy
  <2>3. FollowsPhase(a)'
    BY <2>1, <2>2 DEF Moved, FollowsPhase, Accepting
  <2>4. QED  BY <1>1, <2>1, <2>3 DEF Moved
<1>10. CASE UNCHANGED vars
  BY <1>10, OthersFollowPhase DEF vars, WritesFollowPhase
<1>11. QED
  BY <1>3, <1>4, <1>5, <1>6, <1>7, <1>8, <1>9, <1>10 DEF Next, Handle

(* The event of a step, and what becomes of the others.                     *)
LEMMA EventOfStep ==
    ASSUME TypeOK, WritesFollowPhase, NEW a \in Attempts, PutEvent(a)
    PROVE  /\ Accepting(a) /\ attempt[a].step \in 1 .. Len(PartsOf(a))
           /\ events' = {e \in events : e.id # EventOf(Call(a), PartsOf(a), attempt[a].step).id}
                 \cup {[id |-> EventOf(Call(a), PartsOf(a), attempt[a].step).id,
                        targets |-> EventOf(Call(a), PartsOf(a), attempt[a].step).targets,
                        by |-> a]}
           /\ EventOf(Call(a), PartsOf(a), attempt[a].step).targets \subseteq RefsIn(PartsOf(a))
<1>1. Accepting(a) /\ attempt[a].step \in 1 .. Len(PartsOf(a))
  BY DEF PutEvent, Accepting, WritesFollowPhase, FollowsPhase
<1>2. Accepted(Call(a)) /\ DOMAIN PartsOf(a) = 1 .. Len(PartsOf(a))
  BY <1>1, PartsOfType
<1>3. PartsOf(a)[attempt[a].step][1] \in RefsIn(PartsOf(a))
  BY <1>1, <1>2 DEF RefsIn
<1>4. EventOf(Call(a), PartsOf(a), attempt[a].step).targets \subseteq RefsIn(PartsOf(a))
  <2>1. CASE Call(a).tool = "manage_projects"
    BY <2>1 DEF EventOf
  <2>2. CASE Call(a).tool = "manage_evidence_items"
    BY <1>3, <2>2 DEF EventOf
  <2>3. CASE Call(a).tool = "pmo_macro"
    BY <2>3 DEF EventOf
  <2>4. QED  BY <1>2, <2>1, <2>2, <2>3, ToolsOfCalls
<1>5. QED  BY <1>1, <1>4 DEF PutEvent

(* An event goes on naming what its call wrote.                             *)
LEMMA NamesStay ==
    ASSUME TypeOK, WritesFollowPhase, EventsFollowWrites, [Next]_vars, NEW e \in events
    PROVE  NamesItsWrites(e)'
<1>1. e.by \in Attempts /\ (Accepting(e.by) \/ attempt[e.by].phase = "stopped")
  BY DEF EventsFollowWrites, TypeOK, Event
<1>2. /\ Call(e.by)' = Call(e.by) /\ PartsOf(e.by)' = PartsOf(e.by)
      /\ attempt'[e.by].step \in {attempt[e.by].step, attempt[e.by].step + 1}
  BY <1>1, DecisionsStay
<1>3. attempt[e.by].step \in 0 .. 2
  BY <1>1 DEF TypeOK, IsAttempt
<1>4. PICK j \in 1 .. attempt[e.by].step :
          /\ e.id = EventOf(Call(e.by), PartsOf(e.by), j).id
          /\ e.targets = EventOf(Call(e.by), PartsOf(e.by), j).targets
  BY DEF EventsFollowWrites, NamesItsWrites
<1>5. j \in 1 .. attempt'[e.by].step
  BY <1>2, <1>3, <1>4
<1>6. QED  BY <1>2, <1>4, <1>5 DEF NamesItsWrites

(* The event a call puts names what it has written.                         *)
LEMMA OwnEventNames ==
    ASSUME TypeOK, WritesFollowPhase, [Next]_vars, NEW a \in Attempts, PutEvent(a),
           NEW e, e.by = a,
           e.id = EventOf(Call(a), PartsOf(a), attempt[a].step).id,
           e.targets = EventOf(Call(a), PartsOf(a), attempt[a].step).targets
    PROVE  NamesItsWrites(e)'
<1>1. Accepting(a) /\ attempt[a].step \in 1 .. Len(PartsOf(a))
  BY EventOfStep
<1>2. /\ Call(a)' = Call(a) /\ PartsOf(a)' = PartsOf(a)
  BY <1>1, DecisionsStay
<1>3. attempt'[a].step = attempt[a].step /\ attempt[a].step \in 1 .. attempt[a].step
  <2>1. attempt'[a].step = attempt[a].step
    BY Moves DEF Moved
  <2>2. attempt[a].step \in 0 .. 2
    BY DEF TypeOK, IsAttempt
  <2>3. QED  BY <1>1, <2>1, <2>2
<1>4. /\ e.id = EventOf(Call(a)', PartsOf(a)', attempt[a].step).id
      /\ e.targets = EventOf(Call(a)', PartsOf(a)', attempt[a].step).targets
  BY <1>2
<1>5. attempt[a].step \in 1 .. attempt'[e.by].step
  BY <1>3
<1>6. QED  BY <1>4, <1>5 DEF NamesItsWrites

LEMMA EventsStep ==
    ASSUME TypeOK, WritesFollowPhase, EventsFollowWrites, [Next]_vars
    PROVE  EventsFollowWrites'
<1>1. \A e \in events : /\ e.by \in Attempts
                        /\ Accepting(e.by)' \/ attempt'[e.by].phase = "stopped"
                        /\ e.targets \subseteq RefsIn(PartsOf(e.by)')
                        /\ NamesItsWrites(e)'
  <2> TAKE e \in events
  <2>1. /\ e.by \in Attempts
        /\ Accepting(e.by) \/ attempt[e.by].phase = "stopped"
        /\ e.targets \subseteq RefsIn(PartsOf(e.by))
    BY DEF EventsFollowWrites, TypeOK, Event
  <2>2. QED  BY <2>1, DecisionsStay, NamesStay
<1>2. ASSUME NEW a \in Attempts, PutEvent(a)
      PROVE  EventsFollowWrites'
  <2> DEFINE event == EventOf(Call(a), PartsOf(a), attempt[a].step)
             new == [id |-> event.id, targets |-> event.targets, by |-> a]
  <2>1. /\ Accepting(a) /\ events' = {e \in events : e.id # event.id} \cup {new}
        /\ event.targets \subseteq RefsIn(PartsOf(a))
    BY <1>2, EventOfStep
  <2>2. PartsOf(a)' = PartsOf(a) /\ (Accepting(a)' \/ attempt'[a].phase = "stopped")
    BY <2>1, DecisionsStay
  <2>3. new.by = a /\ new.targets = event.targets
    OBVIOUS
  <2>4. ASSUME NEW e \in events', e \notin events
        PROVE  /\ e.by \in Attempts
               /\ Accepting(e.by)' \/ attempt'[e.by].phase = "stopped"
               /\ e.targets \subseteq RefsIn(PartsOf(e.by)')
               /\ NamesItsWrites(e)'
    <3>1. e.by = a /\ e.id = event.id /\ e.targets = event.targets
      BY <2>1, <2>4
    <3>2. NamesItsWrites(e)'
      BY <1>2, <3>1, OwnEventNames
    <3> HIDE DEF event
    <3>3. QED  BY <2>1, <2>2, <3>1, <3>2
  <2> HIDE DEF new, event
  <2>5. QED  BY <1>1, <2>4 DEF EventsFollowWrites
<1>3. ASSUME events' = events
      PROVE  EventsFollowWrites'
  BY <1>1, <1>3 DEF EventsFollowWrites
<1>4. (\E a \in Attempts : PutEvent(a)) \/ events' = events
  BY DEF Next, Handle, vars, StartCall, ReadRecords, Decide, StoreRecord, Reply, StopCall
<1>5. QED  BY <1>2, <1>3, <1>4

(* An event of a call's write is only ever replaced by one of another call  *)
(* with its correlation, or by its own.                                     *)
LEMMA LoggedStays ==
    ASSUME TypeOK, WritesFollowPhase, EventsFollowWrites, [Next]_vars,
           NEW b \in Attempts, Accepting(b), Accepting(b)',
           NEW i \in 1 .. Len(PartsOf(b)), Logged(b, i)
    PROVE  Logged(b, i)'
<1> DEFINE event == EventOf(Call(b), PartsOf(b), i)
<1>1. Call(b)' = Call(b) /\ PartsOf(b)' = PartsOf(b)
  BY DecisionsStay
<1>2. PICK e \in events :
          /\ e.id = event.id
          /\ IF e.by = b THEN e.targets = event.targets
                         ELSE Call(e.by).correlation = Call(b).correlation
  BY DEF Logged
<1>3. Call(e.by)' = Call(e.by) /\ e.by \in Attempts
  <2>1. e.by \in Attempts /\ (Accepting(e.by) \/ attempt[e.by].phase = "stopped")
    BY DEF EventsFollowWrites, TypeOK, Event
  <2>2. QED  BY <2>1, DecisionsStay
<1>4. CASE e \in events'
  BY <1>1, <1>2, <1>3, <1>4, NamesStay DEF Logged
<1>5. ASSUME NEW a \in Attempts, PutEvent(a), e \notin events'
      PROVE  Logged(b, i)'
  <2> DEFINE other == EventOf(Call(a), PartsOf(a), attempt[a].step)
             new == [id |-> other.id, targets |-> other.targets, by |-> a]
  <2>1. /\ Accepting(a) /\ attempt[a].step \in 1 .. Len(PartsOf(a))
        /\ events' = {x \in events : x.id # other.id} \cup {new}
    BY <1>5, EventOfStep
  <2>2. other.id = event.id
    BY <1>2, <1>5, <2>1
  <2>3. Accepted(Call(a)) /\ Accepted(Call(b))
    BY <2>1, PartsOfType
  <2>4. PICK x \in events' : x.by = a /\ x.id = other.id /\ x.targets = other.targets
    <3>1. new \in events'
      BY <2>1
    <3>2. new.by = a /\ new.id = other.id /\ new.targets = other.targets
      OBVIOUS
    <3> HIDE DEF new
    <3>3. QED  BY <3>1, <3>2
  <2>5. NamesItsWrites(x)'
    BY <1>5, <2>4, OwnEventNames
  <2>6. event = EventOf(Call(b)', PartsOf(b)', i)
    BY <1>1
  <2>7. CASE a = b
    <3>1. other.targets = event.targets
      BY <2>1, <2>2, <2>7, EventsOfOneCall, PartsOfType DEF PartsOf
    <3> HIDE DEF event, other
    <3>2. QED  BY <2>2, <2>4, <2>5, <2>6, <2>7, <3>1 DEF Logged
  <2>8. CASE a # b
    <3>1. Call(a).correlation = Call(b).correlation
      BY <2>2, <2>3, EventsOfOneId
    <3>2. Call(a)' = Call(a)
      BY <2>1, DecisionsStay
    <3> HIDE DEF event, other
    <3>3. QED  BY <1>1, <2>2, <2>4, <2>5, <2>6, <2>8, <3>1, <3>2 DEF Logged
  <2>9. QED  BY <2>7, <2>8
<1>6. (\E a \in Attempts : PutEvent(a)) \/ events' = events
  BY DEF Next, Handle, vars, StartCall, ReadRecords, Decide, StoreRecord, Reply, StopCall
<1>7. QED  BY <1>4, <1>5, <1>6

LEMMA LoggedStep ==
    ASSUME TypeOK, WritesFollowPhase, EventsFollowWrites, WritesAreLogged, [Next]_vars
    PROVE  WritesAreLogged'
<1> SUFFICES ASSUME NEW b \in Attempts, Accepting(b)', NEW i \in 1 .. attempt'[b].step
             PROVE  Logged(b, i)' \/ (i = attempt'[b].step /\ attempt'[b].phase = "logging")
  BY DEF WritesAreLogged
<1>1. ASSUME Accepting(b), i \in 1 .. attempt[b].step,
             ~(i = attempt[b].step /\ attempt[b].phase = "logging")
      PROVE  Logged(b, i)'
  <2>1. Logged(b, i)
    BY <1>1 DEF WritesAreLogged
  <2>2. i \in 1 .. Len(PartsOf(b))
    BY <1>1, PartsOfType
  <2>3. QED  BY <1>1, <2>1, <2>2, LoggedStays
<1>2. CASE attempt'[b] = attempt[b]
  BY <1>1, <1>2 DEF Accepting
<1>3. CASE StoreRecord(b)
  <2>1. /\ attempt'[b].phase = "logging" /\ attempt'[b].step = attempt[b].step + 1
        /\ attempt[b].phase = "storing" /\ Accepting(b) /\ attempt[b].step \in 0 .. 2
    BY <1>3, Moves DEF Moved, StoreRecord, Accepting, TypeOK, IsAttempt
  <2>2. i = attempt[b].step + 1 \/ i \in 1 .. attempt[b].step
    BY <2>1
  <2>3. QED  BY <1>1, <2>1, <2>2
<1>4. CASE PutEvent(b)
  <2> DEFINE event == EventOf(Call(b), PartsOf(b), attempt[b].step)
  <2>1. attempt'[b].step = attempt[b].step
    BY <1>4, Moves DEF Moved
  <2>2. Accepting(b)
    BY <1>4, EventOfStep
  <2>3. PICK x \in events' : x.by = b /\ x.id = event.id /\ x.targets = event.targets
    <3> DEFINE new == [id |-> event.id, targets |-> event.targets, by |-> b]
    <3>1. new \in events'
      BY <1>4, EventOfStep
    <3>2. new.by = b /\ new.id = event.id /\ new.targets = event.targets
      OBVIOUS
    <3> HIDE DEF new
    <3>3. QED  BY <3>1, <3>2
  <2>4. NamesItsWrites(x)'
    BY <1>4, <2>3, OwnEventNames
  <2>5. event = EventOf(Call(b)', PartsOf(b)', attempt[b].step)
    BY <2>2, DecisionsStay
  <2> HIDE DEF event
  <2>6. Logged(b, attempt[b].step)'
    BY <2>1, <2>3, <2>4, <2>5 DEF Logged
  <2>7. CASE i = attempt[b].step
    BY <2>1, <2>6, <2>7
  <2>8. CASE i # attempt[b].step
    BY <1>1, <2>1, <2>2, <2>8
  <2>9. QED  BY <2>7, <2>8
<1>5. CASE Reply(b)
  <2>1. attempt'[b].step = attempt[b].step /\ attempt[b].phase = "replying" /\ Accepting(b)
    BY <1>5, Moves DEF Moved, Reply, Accepting
  <2>2. QED  BY <1>1, <2>1
<1>6. CASE Decide(b)
  <2>1. attempt'[b].step = attempt[b].step
    BY <1>6, Moves DEF Moved
  <2>2. attempt[b].step = 0
    BY <1>6 DEF Decide, WritesFollowPhase, FollowsPhase
  <2>3. QED  BY <2>1, <2>2
<1>7. ASSUME NEW q \in workload, StartCall(b, q)
      PROVE  FALSE
  BY <1>7, Moves DEF Moved, Accepting
<1>8. CASE ReadRecords(b)
  BY <1>8, Moves DEF Moved, Accepting
<1>9. CASE StopCall(b)
  BY <1>9, Moves DEF Moved, Accepting
<1>10. ASSUME NEW a \in Attempts, a # b,
              (\E q \in workload : StartCall(a, q)) \/ Handle(a) \/ StopCall(a)
       PROVE  attempt'[b] = attempt[b]
  BY <1>10, Moves DEF Moved, Handle
<1>11. CASE UNCHANGED vars
  BY <1>2, <1>11 DEF vars
<1>12. QED
  BY <1>2, <1>3, <1>4, <1>5, <1>6, <1>7, <1>8, <1>9, <1>10, <1>11 DEF Next, Handle

(* The artifact of evidence is written before it, or was there when the     *)
(* evidence was read.                                                       *)
LEMMA EvidenceStep ==
    ASSUME TypeOK, WritesFollowPhase, EvidenceBacked, [Next]_vars
    PROVE  EvidenceBacked'
<1>1. ASSUME NEW f, IsPortfolio(f), BackedIn(f)
      PROVE  \A e \in Evidence : f[e] # None /\ f[e].artifact # None =>
                 records'[f[e].artifact] # None
  <2> TAKE e \in Evidence
  <2> HAVE f[e] # None /\ f[e].artifact # None
  <2>1. records[f[e].artifact] # None
    BY <1>1 DEF BackedIn
  <2>2. f[e] \in EvidenceRecord
    BY <1>1, WhatIsHeld
  <2>3. f[e].artifact \in Refs
    BY <2>2, KindsOfRefs DEF EvidenceRecord, Opt
  <2>4. QED  BY <2>1, <2>3, RecordsStay
<1>2. IsPortfolio(records) /\ \A a \in Attempts : IsPortfolio(attempt[a].seen)
  BY DEF TypeOK, IsAttempt
<1>3. BackedIn(records)'
  <2>1. ASSUME NEW a \in Attempts, StoreRecord(a)
        PROVE  BackedIn(records)'
    <3>1. PICK i \in 1 .. Len(PartsOf(a)) :
              /\ i = attempt[a].step + 1 /\ Accepting(a)
              /\ PartsOf(a)[i][1] \in Refs /\ PartsOf(a)[i][2] \in RecordsOf(PartsOf(a)[i][1])
              /\ PartsOf(a)[i][2] # None
              /\ records' = [r \in Refs |-> IF r = PartsOf(a)[i][1] THEN PartsOf(a)[i][2]
                                                                   ELSE records[r]]
      BY <2>1, WriteOfStep
    <3> SUFFICES ASSUME NEW e \in Evidence, records'[e] # None, records'[e].artifact # None
                 PROVE  records'[records'[e].artifact] # None
      BY DEF BackedIn
    <3>2. CASE e # PartsOf(a)[i][1]
      <4>1. records'[e] = records[e]
        BY <3>1, <3>2, KindsOfRefs
      <4>2. QED  BY <1>1, <1>2, <4>1 DEF EvidenceBacked
    <3>3. CASE e = PartsOf(a)[i][1]
      <4> DEFINE q == Call(a)
                 seen == attempt[a].seen
                 old == seen[e]
      <4>1. Accepted(q) /\ IsPortfolio(seen) /\ ~Blocked(q, seen)
        BY <3>1, PartsOfType
      <4>2. /\ q.evidence = e /\ PartsOf(a)[i] = <<e, BuildEvidenceRecord(q, old)>>
            /\ q.artifact # None => i = 2 /\ PartsOf(a)[1][1] = q.artifact
        <5>1. Parts(q, seen) = PartsOf(a)
          BY DEF PartsOf
        <5> HIDE DEF q, seen
        <5>2. i \in 1 .. Len(Parts(q, seen)) /\ Parts(q, seen)[i][1] \in Evidence
          BY <3>1, <3>3, <5>1
        <5>3. /\ Parts(q, seen)[i] = <<q.evidence, BuildEvidenceRecord(q, seen[q.evidence])>>
              /\ q.artifact # None => i = 2 /\ Parts(q, seen)[1][1] = q.artifact
          BY <4>1, <5>2, EvidenceIsLast
        <5>4. q.evidence = e
          BY <3>3, <5>1, <5>3
        <5>5. QED  BY <5>1, <5>3, <5>4
      <4>3. records'[e].artifact = Given(q.artifact, IF old = None THEN None ELSE old.artifact)
        <5>1. records'[e] = PartsOf(a)[i][2]
          BY <3>1, <3>3
        <5> HIDE DEF q, old
        <5>2. PartsOf(a)[i][2] = BuildEvidenceRecord(q, old)
          BY <4>2
        <5>3. QED  BY <5>1, <5>2 DEF BuildEvidenceRecord
      <4>4. CASE q.artifact # None
        <5>1. attempt[a].step = 1 /\ PartsOf(a)[1][1] = q.artifact /\ 1 \in 1 .. Len(PartsOf(a))
          BY <1>2, <3>1, <4>2, <4>4, PartsOfType
        <5>2. records[PartsOf(a)[1][1]] # None
          BY <3>1, <5>1 DEF WritesFollowPhase, FollowsPhase
        <5>3. PartsOf(a)[1][1] \in Refs
          BY <3>1, <5>1, PartsOfType
        <5>4. QED  BY <4>3, <4>4, <5>1, <5>2, <5>3, RecordsStay DEF Given
      <4>5. CASE q.artifact = None
        <5>1. old # None /\ old.artifact # None /\ records'[e].artifact = old.artifact
          BY <4>3, <4>5 DEF Given
        <5>2. BackedIn(seen)
          BY DEF EvidenceBacked
        <5>3. QED  BY <1>1, <4>1, <5>1, <5>2
      <4>6. QED  BY <4>4, <4>5
    <3>4. QED  BY <3>2, <3>3
  <2>2. ASSUME records' = records
        PROVE  BackedIn(records)'
    BY <2>2 DEF EvidenceBacked, BackedIn
  <2>3. (\E a \in Attempts : StoreRecord(a)) \/ records' = records
    BY DEF Next, Handle, vars, StartCall, ReadRecords, Decide, PutEvent, Reply, StopCall
  <2>4. QED  BY <2>1, <2>2, <2>3
<1>4. ASSUME NEW b \in Attempts
      PROVE  BackedIn(attempt[b].seen)'
  <2>1. ASSUME attempt'[b].seen = attempt[b].seen
        PROVE  BackedIn(attempt[b].seen)'
    BY <1>1, <1>2, <2>1 DEF EvidenceBacked, BackedIn
  <2>2. CASE ReadRecords(b)
    <3> DEFINE S == Reads(Call(b))[attempt[b].step + 1]
    <3>1. attempt'[b].seen = [r \in Refs |-> IF r \in S THEN records[r] ELSE attempt[b].seen[r]]
      BY <2>2, Moves DEF Moved
    <3>2. records' = records
      BY <2>2 DEF ReadRecords
    <3> HIDE DEF S
    <3>3. \A e \in Evidence : \/ attempt'[b].seen[e] = records[e]
                              \/ attempt'[b].seen[e] = attempt[b].seen[e]
      BY <3>1, KindsOfRefs
    <3>4. QED  BY <3>2, <3>3 DEF EvidenceBacked, BackedIn
  <2>3. ASSUME NEW a \in Attempts, a # b,
               (\E q \in workload : StartCall(a, q)) \/ Handle(a) \/ StopCall(a)
        PROVE  attempt'[b].seen = attempt[b].seen
    BY <2>3, Moves DEF Moved, Handle
  <2>4. ASSUME \/ \E q \in workload : StartCall(b, q)
               \/ Decide(b) \/ StoreRecord(b) \/ PutEvent(b) \/ Reply(b) \/ StopCall(b)
        PROVE  attempt'[b].seen = attempt[b].seen
    BY <2>4, Moves DEF Moved
  <2>5. CASE UNCHANGED vars
    BY <2>1, <2>5 DEF vars
  <2>6. QED
    BY <2>1, <2>2, <2>3, <2>4, <2>5 DEF Next, Handle
<1>5. QED  BY <1>3, <1>4 DEF EvidenceBacked

-----------------------------------------------------------------------------
(* The invariant.                                                           *)

LEMMA RegistriesStart == Init => RegistriesInv
<1> SUFFICES ASSUME Init  PROVE RegistriesInv
  OBVIOUS
<1>1. IsPortfolio(Nothing)
  BY DEF IsPortfolio, Nothing
<1>2. /\ attempt = [a \in Attempts |-> attempt[a]]
      /\ \A a \in Attempts : attempt[a] = IdleAttempt
  BY DEF Init
<1>3. /\ DOMAIN IdleAttempt = {"phase", "call", "seen", "step", "answer"}
      /\ IdleAttempt.phase = "idle" /\ IdleAttempt.call = None /\ IdleAttempt.seen = Nothing
      /\ IdleAttempt.step = 0 /\ IdleAttempt.answer = "none"
  BY DEF IdleAttempt
<1>4. TypeOK
  BY <1>1, <1>2, <1>3 DEF Init, TypeOK, IsAttempt
<1>5. \A a \in Attempts : FollowsPhase(a) /\ ~Accepting(a)
  BY <1>2, <1>3 DEF FollowsPhase, Accepting
<1>6. EvidenceBacked
  BY <1>2, <1>3, KindsOfRefs DEF EvidenceBacked, BackedIn, Init, Nothing
<1>7. QED
  BY <1>4, <1>5, <1>6 DEF RegistriesInv, WritesFollowPhase, EventsFollowWrites, WritesAreLogged, Init

LEMMA RegistriesStep == RegistriesInv /\ [Next]_vars => RegistriesInv'
BY TypeStep, PhaseStep, EventsStep, LoggedStep, EvidenceStep DEF RegistriesInv

(* The registries hold records of their kinds and evidence its artifact,    *)
(* and writes and their events come in order, wherever calls of any number  *)
(* interleave or stop (the handlers of manage_projects,                     *)
(* manage_evidence_items and pmo_macro edit_registry).                      *)
THEOREM RegistriesInvariant == Spec => []RegistriesInv
BY RegistriesStart, RegistriesStep, PTL DEF Spec

(* An event names only records the registry holds, unless its call is yet   *)
(* to write them or has stopped (manage_projects puts the event of both its *)
(* writes after the first).                                                 *)
THEOREM EventsNameRecordsAlways == Spec => []EventsNameRecords
<1>1. RegistriesInv => EventsNameRecords
  <2> SUFFICES ASSUME RegistriesInv, NEW e \in events, NEW r \in e.targets,
                      attempt[e.by].phase \notin Busy \cup {"stopped"}
               PROVE  records[r] # None
    BY DEF EventsNameRecords
  <2>1. e.by \in Attempts /\ Accepting(e.by) /\ r \in RefsIn(PartsOf(e.by))
    BY DEF RegistriesInv, EventsFollowWrites, TypeOK, Event
  <2>2. /\ attempt[e.by].step = Len(PartsOf(e.by))
        /\ \A i \in 1 .. attempt[e.by].step : records[PartsOf(e.by)[i][1]] # None
    BY <2>1 DEF RegistriesInv, WritesFollowPhase, FollowsPhase, Busy
  <2>3. DOMAIN PartsOf(e.by) = 1 .. Len(PartsOf(e.by))
    BY <2>1, PartsOfType DEF RegistriesInv
  <2>4. QED  BY <2>1, <2>2, <2>3 DEF RefsIn
<1>2. QED  BY <1>1, RegistriesInvariant, PTL

(* A call is answered only once each of its writes has its event, which     *)
(* names what was written until another call of the same correlation id     *)
(* replaces it by one that names what that call wrote.                      *)
THEOREM AnsweredIsLoggedAlways == Spec => []AnsweredIsLogged
<1>1. RegistriesInv => AnsweredIsLogged
  <2> SUFFICES ASSUME RegistriesInv, NEW a \in Attempts, attempt[a].answer \in {"ok", "guidance"},
                      NEW i \in DOMAIN PartsOf(a)
               PROVE  Logged(a, i)
    BY DEF AnsweredIsLogged
  <2>1. attempt[a].phase = "answered" /\ Accepting(a)
    BY DEF RegistriesInv, WritesFollowPhase, FollowsPhase, Accepting
  <2>2. i \in 1 .. attempt[a].step
    <3>1. attempt[a].step = Len(PartsOf(a))
      BY <2>1 DEF RegistriesInv, WritesFollowPhase, FollowsPhase
    <3>2. DOMAIN PartsOf(a) = 1 .. Len(PartsOf(a))
      BY <2>1, PartsOfType DEF RegistriesInv
    <3>3. QED  BY <3>1, <3>2
  <2>3. QED  BY <2>1, <2>2 DEF RegistriesInv, WritesAreLogged
<1>2. QED  BY <1>1, RegistriesInvariant, PTL

-----------------------------------------------------------------------------
(* What a write may change.                                                 *)

(* The record a call writes under ref r, from what it has read.             *)
IsWritten(q, seen, r, v) ==
    \/ /\ q \in ProjectCall /\ q.tool = "manage_projects" /\ r \in Programs
       /\ RequestedProgram(q) = r
       /\ v = NextProgram(q, seen) \/ v = Retired(seen[r])
    \/ /\ q \in ProjectCall /\ q.tool = "manage_projects" /\ r \in Projects
       /\ RequestedProject(q) = r
       /\ \/ v = NextProject(q, seen) /\ ProjectProgram(q, seen) \in Programs
          \/ v = Retired(seen[r])
    \/ /\ q \in EvidenceCall /\ q.tool = "manage_evidence_items" /\ r \in Artifacts
       /\ v = BuildArtifactRecord(q, seen[r])
    \/ /\ q \in EvidenceCall /\ q.tool = "manage_evidence_items" /\ r \in Evidence
       /\ v = BuildEvidenceRecord(q, seen[r])
    \/ q \in MacroCall /\ r = Registry /\ v = EditedRegistry(q, seen)

LEMMA WhatIsWritten ==
    ASSUME NEW q, Accepted(q), NEW seen, IsPortfolio(seen), ~Blocked(q, seen),
           NEW i \in 1 .. Len(Parts(q, seen))
    PROVE  IsWritten(q, seen, Parts(q, seen)[i][1], Parts(q, seen)[i][2])
<1>1. ASSUME NEW s, NEW t, IsPart(s), IsPart(t), Parts(q, seen) = s \o t
      PROVE  (s # <<>> /\ Parts(q, seen)[i] = s[1]) \/ (t # <<>> /\ Parts(q, seen)[i] = t[1])
  <2>1. \A j \in 1 .. Len(s \o t) :
            \/ s # <<>> /\ j = 1 /\ (s \o t)[j] = s[1]
            \/ t # <<>> /\ (s \o t)[j] = t[1] /\ j = IF s = <<>> THEN 1 ELSE 2
    BY <1>1, JoinedParts
  <2>2. QED  BY <1>1, <2>1, Zenon
<1>2. CASE q \in ProjectCall /\ q.tool = "manage_projects"
  <2> DEFINE s == ProgramPart(q, seen)
             t == ProjectPart(q, seen)
  <2>1. ~ProjectBlocked(q, seen) /\ Parts(q, seen) = s \o t
    BY <1>2 DEF Blocked, Parts, ProjectParts
  <2>2. /\ IsPart(s) /\ IsPart(t) /\ (s # <<>> => s[1][1] \in Programs)
        /\ (t # <<>> => t[1][1] \in Projects)
    BY <1>2, <2>1, ProgramPartType, ProjectPartType
  <2>3. s # <<>> => /\ s[1][1] = RequestedProgram(q)
                    /\ s[1][2] = NextProgram(q, seen) \/ s[1][2] = Retired(seen[s[1][1]])
    BY DEF ProgramPart, RequestedProgram, Given, ExistingProgram
  <2>4. t # <<>> => /\ t[1][1] = RequestedProject(q)
                    /\ \/ t[1][2] = NextProject(q, seen) /\ ProjectProgram(q, seen) # None
                       \/ t[1][2] = Retired(seen[t[1][1]])
    BY <2>1 DEF ProjectPart, RequestedProject, Given, ExistingProject, ProjectBlocked
  <2>5. ProjectProgram(q, seen) \in Opt(Programs)
    <3>1. /\ RequestedProject(q) \in Opt(Projects) /\ q.program \in Opt(Programs)
          /\ q.projectBody.program \in Opt(Programs) /\ q.programBody.id \in Opt(Programs)
      BY <1>2 DEF RequestedProject, Given, Opt, ProjectCall, ProgramBody, ProjectBody
    <3>2. ExistingProject(q, seen) \in ProjectRecord \cup {None}
      BY <3>1, WhatIsHeld DEF ExistingProject, Opt
    <3>3. QED  BY <3>1, <3>2 DEF ProjectProgram, Given, Opt, ProjectRecord
  <2>6. (s # <<>> /\ Parts(q, seen)[i] = s[1]) \/ (t # <<>> /\ Parts(q, seen)[i] = t[1])
    BY <1>1, <2>1, <2>2
  <2> HIDE DEF s, t
  <2>7. QED  BY <1>2, <2>2, <2>3, <2>4, <2>5, <2>6 DEF IsWritten, Opt
<1>3. CASE q \in EvidenceCall /\ q.tool = "manage_evidence_items"
  <2> DEFINE s == ArtifactPart(q, seen)
             t == EvidencePart(q, seen)
  <2>1. Parts(q, seen) = s \o t
    BY <1>3 DEF Parts, EvidenceParts
  <2>2. /\ IsPart(s) /\ IsPart(t) /\ (s # <<>> => s[1][1] \in Artifacts)
        /\ (t # <<>> => t[1][1] \in Evidence)
    BY <1>3, EvidencePartsType
  <2>3. /\ s # <<>> => s[1][2] = BuildArtifactRecord(q, seen[s[1][1]])
        /\ t # <<>> => t[1][2] = BuildEvidenceRecord(q, seen[t[1][1]])
    BY DEF ArtifactPart, EvidencePart
  <2>4. (s # <<>> /\ Parts(q, seen)[i] = s[1]) \/ (t # <<>> /\ Parts(q, seen)[i] = t[1])
    BY <1>1, <2>1, <2>2
  <2> HIDE DEF s, t
  <2>5. QED  BY <1>3, <2>2, <2>3, <2>4 DEF IsWritten
<1>4. CASE q \in MacroCall /\ q.tool = "pmo_macro"
  <2>1. Parts(q, seen) = <<>> \/ Parts(q, seen) = << <<Registry, EditedRegistry(q, seen)>> >>
    BY <1>4 DEF Parts, MacroParts
  <2>2. Parts(q, seen)[i] = <<Registry, EditedRegistry(q, seen)>>
    BY <2>1
  <2>3. QED  BY <1>4, <2>2 DEF IsWritten
<1>5. QED  BY <1>2, <1>3, <1>4, ToolsOfCalls

(* A step in which call a stores is its write.                              *)
LEMMA StoringWrites ==
    ASSUME RegistriesInv, Next, NEW a \in Attempts, Storing(a), NEW r \in Refs,
           records'[r] # records[r]
    PROVE  /\ IsWritten(Call(a), attempt[a].seen, r, records'[r])
           /\ IsPortfolio(attempt[a].seen) /\ IsPortfolio(records)
<1>1. StoreRecord(a)
  <2>1. attempt'[a] # attempt[a] /\ attempt[a].phase = "storing" /\ attempt'[a].phase = "logging"
    BY DEF Storing
  <2>2. TypeOK
    BY DEF RegistriesInv
  <2>3. ASSUME NEW b \in Attempts, b # a,
               (\E q \in workload : StartCall(b, q)) \/ Handle(b) \/ StopCall(b)
        PROVE  FALSE
    BY <2>1, <2>2, <2>3, Moves DEF Moved, Handle
  <2>4. ASSUME \/ \E q \in workload : StartCall(a, q)
               \/ ReadRecords(a) \/ Decide(a) \/ PutEvent(a) \/ Reply(a) \/ StopCall(a)
        PROVE  FALSE
    BY <2>1, <2>4 DEF StartCall, ReadRecords, Decide, PutEvent, Reply, StopCall, Busy, TypeOK
  <2>5. QED  BY <2>3, <2>4 DEF Next, Handle
<1>2. PICK i \in 1 .. Len(PartsOf(a)) :
          /\ i = attempt[a].step + 1 /\ Accepting(a)
          /\ PartsOf(a)[i][1] \in Refs /\ PartsOf(a)[i][2] \in RecordsOf(PartsOf(a)[i][1])
          /\ PartsOf(a)[i][2] # None
          /\ records' = [x \in Refs |-> IF x = PartsOf(a)[i][1] THEN PartsOf(a)[i][2]
                                                               ELSE records[x]]
  BY <1>1, WriteOfStep DEF RegistriesInv
<1>3. r = PartsOf(a)[i][1] /\ records'[r] = PartsOf(a)[i][2]
  BY <1>2
<1>4. Accepted(Call(a)) /\ IsPortfolio(attempt[a].seen) /\ ~Blocked(Call(a), attempt[a].seen)
  BY <1>2, PartsOfType DEF RegistriesInv
<1>5. IsWritten(Call(a), attempt[a].seen, PartsOf(a)[i][1], PartsOf(a)[i][2])
  BY <1>4, WhatIsWritten DEF PartsOf
<1>6. QED  BY <1>3, <1>4, <1>5 DEF RegistriesInv, TypeOK

(* What a call that states no status writes over a retired record is        *)
(* retired.                                                                 *)
LEMMA RetiredStaysRetired ==
    ASSUME NEW q, Accepted(q), NEW seen, IsPortfolio(seen), NEW r \in Refs \ {Registry}, NEW w,
           IsWritten(q, seen, r, w), IsRetired(seen[r]), ~StatesStatus(q), w # None
    PROVE  IsRetired(w)
<1>1. CASE q \in ProjectCall /\ q.tool = "manage_projects" /\ r \in Programs
  <2>1. q.programBody.status = None
    BY <1>1 DEF StatesStatus
  <2>2. seen[r] # None /\ seen[r] \in ProgramRecord /\ seen[r].status = "retired"
    BY <1>1, WhatIsHeld DEF IsRetired, ProgramRecord
  <2>3. RequestedProgram(q) = r => ExistingProgram(q, seen) = seen[r]
    BY <1>1, KindsOfRefs DEF ExistingProgram
  <2>4. /\ RequestedProgram(q) = r
        /\ w = NextProgram(q, seen) \/ w = Retired(seen[r])
    BY <1>1, KindsOfRefs, RefsAreDistinct DEF IsWritten
  <2>5. CASE w = NextProgram(q, seen)
    BY <2>1, <2>2, <2>3, <2>4, <2>5 DEF NextProgram, NextStatusOf, Given, IsRetired
  <2>6. CASE w = Retired(seen[r])
    BY <2>2, <2>6 DEF Retired, IsRetired, ProgramRecord
  <2>7. QED  BY <2>4, <2>5, <2>6
<1>2. CASE q \in ProjectCall /\ q.tool = "manage_projects" /\ r \in Projects
  <2>1. q.projectBody.status = None
    BY <1>2 DEF StatesStatus
  <2>2. seen[r] # None /\ seen[r] \in ProjectRecord /\ seen[r].status = "retired"
    BY <1>2, WhatIsHeld DEF IsRetired, ProjectRecord
  <2>3. RequestedProject(q) = r => ExistingProject(q, seen) = seen[r]
    BY <1>2, KindsOfRefs DEF ExistingProject
  <2>4. /\ RequestedProject(q) = r
        /\ w = NextProject(q, seen) \/ w = Retired(seen[r])
    BY <1>2, KindsOfRefs, RefsAreDistinct DEF IsWritten
  <2>5. CASE w = NextProject(q, seen)
    BY <2>1, <2>2, <2>3, <2>4, <2>5 DEF NextProject, NextStatusOf, Given, IsRetired
  <2>6. CASE w = Retired(seen[r])
    BY <2>2, <2>6 DEF Retired, IsRetired, ProjectRecord
  <2>7. QED  BY <2>4, <2>5, <2>6
<1>3. CASE q \in EvidenceCall /\ q.tool = "manage_evidence_items" /\ r \in Artifacts
  <2>1. q.redaction = None
    BY <1>3 DEF StatesStatus
  <2>2. seen[r] # None /\ seen[r].redaction = "blocked"
    BY <1>3, WhatIsHeld DEF IsRetired, ArtifactRecord
  <2>3. w = BuildArtifactRecord(q, seen[r])
    BY <1>3, KindsOfRefs, RefsAreDistinct DEF IsWritten
  <2>4. QED  BY <2>1, <2>2, <2>3 DEF BuildArtifactRecord, StatedRedaction, Given, IsRetired
<1>4. CASE q \in EvidenceCall /\ q.tool = "manage_evidence_items" /\ r \in Evidence
  <2>1. q.redaction = None
    BY <1>4 DEF StatesStatus
  <2>2. seen[r] # None /\ seen[r].redaction = "blocked"
    BY <1>4, WhatIsHeld DEF IsRetired, EvidenceRecord
  <2>3. w = BuildEvidenceRecord(q, seen[r])
    BY <1>4, KindsOfRefs, RefsAreDistinct DEF IsWritten
  <2>4. QED  BY <2>1, <2>2, <2>3 DEF BuildEvidenceRecord, StatedRedaction, Given, IsRetired
<1>5. QED  BY <1>1, <1>2, <1>3, <1>4 DEF IsWritten

(* A retired program or project, or evidence retired to "blocked", comes    *)
(* back only by a call that states a status, or by one that read the record *)
(* before it was retired (the rebuilding of a record from the one read).    *)
THEOREM RetirementLastsAlways == Spec => RetirementLasts
<1>1. ASSUME RegistriesInv, Next, NEW a \in Attempts, NEW r \in Refs \ {Registry},
             Storing(a), IsRetired(records[r]), ~IsRetired(records'[r])
      PROVE  StatesStatus(Call(a)) \/ ~UpToDate(a, r)
  <2>1. records'[r] # records[r]
    BY <1>1
  <2>2. IsWritten(Call(a), attempt[a].seen, r, records'[r]) /\ IsPortfolio(attempt[a].seen)
    BY <1>1, <2>1, StoringWrites
  <2>3. Accepted(Call(a))
    BY <1>1, RequestsAreAccepted DEF RegistriesInv, TypeOK, IsAttempt, Storing, Call
  <2>4. records'[r] # None
    BY <1>1, RecordsStay DEF RegistriesInv, IsRetired
  <2>5. QED  BY <1>1, <2>2, <2>3, <2>4, RetiredStaysRetired DEF UpToDate
<1>2. RegistriesInv /\ [Next]_vars =>
        [\A a \in Attempts : \A r \in Refs \ {Registry} :
            Storing(a) /\ IsRetired(records[r]) /\ ~IsRetired(records'[r]) =>
                StatesStatus(Call(a)) \/ ~UpToDate(a, r)]_vars
  BY <1>1
<1>3. QED  BY <1>2, RegistriesInvariant, PTL DEF Spec, RetirementLasts

(* What a call writes over the record it read keeps the rest of it.         *)
LEMMA RestIsKept ==
    ASSUME NEW q, Accepted(q), NEW seen, IsPortfolio(seen), NEW r \in Refs, NEW w,
           IsWritten(q, seen, r, w), seen[r] # None
    PROVE  KeepsTheRest(q, r, seen[r], w)
<1> DEFINE v == seen[r]
<1>1. CASE q \in ProjectCall /\ r \in Programs /\ RequestedProgram(q) = r
           /\ (w = NextProgram(q, seen) \/ w = Retired(v))
  <2>1. v \in ProgramRecord /\ ExistingProgram(q, seen) = v
    BY <1>1, WhatIsHeld, KindsOfRefs DEF ExistingProgram
  <2>2. w.pointer \in {v.pointer, q.programBody.pointer}
    <3>1. CASE w = NextProgram(q, seen)
      BY <2>1, <3>1 DEF NextProgram, NextPointer, Given
    <3>2. CASE w = Retired(v)
      BY <2>1, <3>2 DEF Retired, ProgramRecord
    <3>3. QED  BY <1>1, <3>1, <3>2
  <2>3. r \notin Projects /\ r \notin Artifacts /\ r \notin Evidence /\ r # Registry
    BY <1>1, RefsAreDistinct
  <2>4. QED  BY <2>2, <2>3 DEF KeepsTheRest
<1>2. CASE q \in ProjectCall /\ r \in Projects /\ RequestedProject(q) = r
           /\ (w = NextProject(q, seen) \/ w = Retired(v))
  <2>1. v \in ProjectRecord /\ ExistingProject(q, seen) = v
    BY <1>2, WhatIsHeld, KindsOfRefs DEF ExistingProject
  <2>2. /\ v.active \ w.active \subseteq IF q.action = "remove_project" THEN {w.home} ELSE {}
        /\ w.active \ v.active \subseteq
               {q.program, q.programBody.id, q.projectBody.program, v.home}
        /\ w.pointer \in {v.pointer, q.projectBody.pointer}
    <3>1. CASE w = NextProject(q, seen)
      <4> DEFINE p == ProjectProgram(q, seen)
      <4>1. p \in {q.program, q.programBody.id, q.projectBody.program, v.home}
        BY <2>1 DEF ProjectProgram, Given
      <4> HIDE DEF p
      <4>2. /\ w.home = p /\ w.pointer = NextPointer(q.projectBody, v)
            /\ w.active = IF q.action = "remove_project" THEN v.active \ {p} ELSE v.active \cup {p}
        BY <2>1, <3>1 DEF NextProject, p
      <4>3. QED  BY <4>1, <4>2 DEF NextPointer, Given
    <3>2. CASE w = Retired(v)
      BY <2>1, <3>2 DEF Retired, ProjectRecord
    <3>3. QED  BY <1>2, <3>1, <3>2
  <2>3. r \notin Programs /\ r \notin Artifacts /\ r \notin Evidence /\ r # Registry
    BY <1>2, RefsAreDistinct
  <2>4. QED  BY <2>2, <2>3 DEF KeepsTheRest
<1>3. CASE r \in Artifacts /\ w = BuildArtifactRecord(q, v)
  <2>1. w.hash \in {v.hash, q.hash}
    BY <1>3 DEF BuildArtifactRecord, Given
  <2>2. r \notin Programs /\ r \notin Projects /\ r \notin Evidence /\ r # Registry
    BY <1>3, RefsAreDistinct
  <2>3. QED  BY <2>1, <2>2 DEF KeepsTheRest
<1>4. CASE r \in Evidence /\ w = BuildEvidenceRecord(q, v)
  <2>1. v.attaches \subseteq w.attaches /\ w.artifact \in {v.artifact, q.artifact}
    BY <1>4 DEF BuildEvidenceRecord, Given
  <2>2. r \notin Programs /\ r \notin Projects /\ r \notin Artifacts /\ r # Registry
    BY <1>4, RefsAreDistinct
  <2>3. QED  BY <2>1, <2>2 DEF KeepsTheRest
<1>5. CASE r = Registry /\ w = EditedRegistry(q, seen)
  <2>1. v \in RegistryRecord /\ Current(seen) = v
    BY <1>5, WhatIsHeld DEF Current
  <2>2. \A m \in Macros \ {q.macro} : w[m] = v[m]
    BY <1>5, <2>1 DEF EditedRegistry, RegistryRecord
  <2>3. r \notin Programs \cup Projects \cup Artifacts \cup Evidence
    BY <1>5, RefsAreDistinct
  <2>4. QED  BY <2>2, <2>3 DEF KeepsTheRest
<1>6. QED  BY <1>1, <1>2, <1>3, <1>4, <1>5 DEF IsWritten

(* Whole records are replaced, and yet a call whose reading is still        *)
(* current changes only what it names (every "given ?? existing" of the     *)
(* rebuilt record).                                                         *)
THEOREM OnlyNamedPartsChangeAlways == Spec => OnlyNamedPartsChange
<1>1. ASSUME RegistriesInv, Next, NEW a \in Attempts, NEW r \in Refs,
             Storing(a), records[r] # None, records'[r] # records[r], UpToDate(a, r)
      PROVE  KeepsTheRest(Call(a), r, records[r], records'[r])
  <2>1. IsWritten(Call(a), attempt[a].seen, r, records'[r]) /\ IsPortfolio(attempt[a].seen)
    BY <1>1, StoringWrites
  <2>2. Accepted(Call(a))
    BY <1>1, RequestsAreAccepted DEF RegistriesInv, TypeOK, IsAttempt, Storing, Call
  <2>3. QED  BY <1>1, <2>1, <2>2, RestIsKept DEF UpToDate
<1>2. RegistriesInv /\ [Next]_vars =>
        [\A a \in Attempts : \A r \in Refs :
            Storing(a) /\ records[r] # None /\ records'[r] # records[r] /\ UpToDate(a, r) =>
                KeepsTheRest(Call(a), r, records[r], records'[r])]_vars
  BY <1>1
<1>3. QED  BY <1>2, RegistriesInvariant, PTL DEF Spec, OnlyNamedPartsChange
=============================================================================
