----------------------------- MODULE MacroRules -----------------------------
(* What an edit of the macro registry decides and writes.                  *)
EXTENDS RegistryRecords

BuiltInRegistry == [m \in Macros |-> [text |-> "built_in", enabled |-> TRUE]]

Current(seen) == IF seen[Registry] = None THEN BuiltInRegistry ELSE seen[Registry]

(* Only the program manager agent is given the registry admin role.        *)
EditBlocked(q) ==
    q.action = "edit_registry" /\ (q.role # "program_manager_agent" \/ q.locked)

(* The whole registry is written, with one entry changed.                  *)
EditedRegistry(q, seen) ==
    [Current(seen) EXCEPT ![q.macro] =
        [text |-> Given(q.text, @.text), enabled |-> Given(q.enabled, @.enabled)]]

MacroParts(q, seen) ==
    IF q.action = "edit_registry" THEN << <<Registry, EditedRegistry(q, seen)>> >> ELSE <<>>

(* The result schema accepts the registry; otherwise the answer is the     *)
(* guidance for a malformed call, also when the registry was written.      *)
Presentable(registry) == \A m \in Macros : registry[m].text # Malformed
=============================================================================
