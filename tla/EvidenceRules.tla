---------------------------- MODULE EvidenceRules ----------------------------
(* What manage_evidence_items decides from the records it read, and writes. *)
EXTENDS RegistryRecords

ExistingRecord(r, seen) == IF r = None THEN None ELSE seen[r]

EvidenceBlocked(q, seen) ==
    /\ q.action \in {"get", "update", "rename", "retire", "classify", "set_retention"}
    /\ \/ q.evidence # None /\ ExistingRecord(q.evidence, seen) = None
       \/ q.artifact # None /\ ExistingRecord(q.artifact, seen) = None

StatedRedaction(q) == IF q.action = "retire" THEN "blocked" ELSE q.redaction

BuildArtifactRecord(q, old) ==
    [hash |-> Given(q.hash, IF old = None THEN "zero" ELSE old.hash),
     redaction |-> Given(StatedRedaction(q),
                         IF old = None THEN "not_required" ELSE old.redaction)]

(* A mutant: the redaction is the one the call states.                     *)
BuildEvidenceAsStated(q, old) ==
    [artifact |-> Given(q.artifact, IF old = None THEN None ELSE old.artifact),
     attaches |-> q.attaches \cup (IF old = None THEN {} ELSE old.attaches),
     redaction |-> StatedRedaction(q)]

BuildEvidenceRecord(q, old) ==
    [artifact |-> Given(q.artifact, IF old = None THEN None ELSE old.artifact),
     attaches |-> q.attaches \cup (IF old = None THEN {} ELSE old.attaches),
     redaction |-> Given(StatedRedaction(q), IF old = None THEN None ELSE old.redaction)]

ShouldWrite(q) == q.action \notin {"help", "list", "get"}

ArtifactPart(q, seen) ==
    IF q.artifact = None \/ ~ShouldWrite(q) THEN <<>>
    ELSE << <<q.artifact, BuildArtifactRecord(q, seen[q.artifact])>> >>

EvidencePart(q, seen) ==
    IF q.evidence = None \/ ~ShouldWrite(q) THEN <<>>
    ELSE << <<q.evidence, BuildEvidenceRecord(q, seen[q.evidence])>> >>

(* A mutant: the evidence is written before the artifact it points to.     *)
EvidencePartsReversed(q, seen) == EvidencePart(q, seen) \o ArtifactPart(q, seen)

EvidenceParts(q, seen) == ArtifactPart(q, seen) \o EvidencePart(q, seen)
=============================================================================
