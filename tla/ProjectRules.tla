---------------------------- MODULE ProjectRules ----------------------------
(* What manage_projects decides from the records it read, and writes.      *)
EXTENDS RegistryRecords

RequestedProgram(q) == Given(q.programBody.id, Given(q.program, q.projectBody.program))
RequestedProject(q) == Given(q.projectBody.id, q.project)

(* seen is the portfolio as the call read it.                              *)
ExistingProgram(q, seen) ==
    IF RequestedProgram(q) = None THEN None ELSE seen[RequestedProgram(q)]
ExistingProject(q, seen) ==
    IF RequestedProject(q) = None THEN None ELSE seen[RequestedProject(q)]

(* The program a project body speaks of: at last, where the project is.    *)
ProjectProgram(q, seen) ==
    LET old == ExistingProject(q, seen)
    IN  Given(q.projectBody.program, Given(q.programBody.id,
            Given(q.program, IF old = None THEN None ELSE old.home)))

(* help counts as a read here, although it writes the bodies it carries.   *)
ProjectActorAllowed(q) ==
    \/ q.role \in Managers
    \/ q.role # "stranger" /\ q.action \in {"help", "list", "get"}

Looks(q) == q.action \in {"list", "get"}

ProjectBlocked(q, seen) ==
    LET program == ExistingProgram(q, seen)
        project == ExistingProject(q, seen)
    IN  \/ /\ q.action \in {"update", "rename", "remove_project", "set_project_role"}
           /\ RequestedProject(q) # None /\ project = None
        \/ /\ q.action \in {"update", "rename"}
           /\ q.programBody.id # None /\ program = None
        \/ /\ q.action = "retire"
           /\ RequestedProgram(q) # None /\ program = None /\ project = None
        \/ /\ q.projectBody.id # None /\ ~Looks(q)
           /\ ProjectProgram(q, seen) = None

NextStatusOf(q, body, old) ==
    IF q.action = "retire" THEN "retired"
    ELSE Given(body.status, IF old = None THEN "active" ELSE old.status)

NextPointer(body, old) ==
    Given(body.pointer, IF old = None THEN None ELSE old.pointer)

(* A mutant: a program body is a whole new record.                         *)
NextProgramAfresh(q, seen) ==
    [status |-> NextStatusOf(q, q.programBody, None),
     pointer |-> NextPointer(q.programBody, None)]

NextProgram(q, seen) ==
    LET old == ExistingProgram(q, seen)
    IN  [status |-> NextStatusOf(q, q.programBody, old),
         pointer |-> NextPointer(q.programBody, old)]

(* A mutant: the programs the project is in are those the call names.      *)
NextProjectMoved(q, seen) ==
    LET old == ExistingProject(q, seen)
    IN  [home |-> ProjectProgram(q, seen), active |-> {ProjectProgram(q, seen)},
         status |-> NextStatusOf(q, q.projectBody, old),
         pointer |-> NextPointer(q.projectBody, old)]

(* Removal makes the program it removes the project's home.                *)
NextProject(q, seen) ==
    LET old == ExistingProject(q, seen)
        program == ProjectProgram(q, seen)
        active == IF old = None THEN {program} ELSE old.active
    IN  [home |-> program,
         active |-> IF q.action = "remove_project" THEN active \ {program}
                                                   ELSE active \cup {program},
         status |-> NextStatusOf(q, q.projectBody, old),
         pointer |-> NextPointer(q.projectBody, old)]

(* Retiring by id alone: what was read, retired.                           *)
Retired(old) == [old EXCEPT !.status = "retired"]

(* What the call writes, as <<ref, record>> in its order.                  *)
ProgramPart(q, seen) ==
    IF q.programBody.id # None /\ ~Looks(q)
      THEN << <<q.programBody.id, NextProgram(q, seen)>> >>
    ELSE IF /\ q.action = "retire" /\ ExistingProgram(q, seen) # None
            /\ q.projectBody.id = None
      THEN << <<RequestedProgram(q), Retired(ExistingProgram(q, seen))>> >>
    ELSE <<>>

ProjectPart(q, seen) ==
    IF q.projectBody.id # None /\ ~Looks(q)
      THEN << <<q.projectBody.id, NextProject(q, seen)>> >>
    ELSE IF q.action = "retire" /\ ExistingProject(q, seen) # None
      THEN << <<RequestedProject(q), Retired(ExistingProject(q, seen))>> >>
    ELSE <<>>

ProjectParts(q, seen) == ProgramPart(q, seen) \o ProjectPart(q, seen)
=============================================================================
