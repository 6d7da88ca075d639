---------------------------- MODULE ServerRuntime ----------------------------
(***************************************************************************)
(* The server processes over one shared database: their startup, the lines *)
(* agents send them, the tool calls they answer and their shutdown.        *)
(*                                                                         *)
(* A server checks the database, applies the migrations, claims the system *)
(* identity and counts programs; an error makes it exit or serve degraded, *)
(* for good.  Without the migrations' uniqueness constraint claiming an    *)
(* identity is a match and then a creation.  Calls run concurrently.  A    *)
(* call that its schema refuses is answered with a form to retry, and so   *)
(* is one whose result fails the schema of results ("unfit", which an      *)
(* agent cannot tell from the former); the agent may follow the form.  Of  *)
(* what a tool reads and writes only this is kept: that it may write, and  *)
(* whether programs exist.                                                 *)
(***************************************************************************)
EXTENDS ToolGuidance, FiniteSets

CONSTANTS
    Servers,      \* server processes; none is started twice
    Lines,        \* lines sent to a server; an agent waits for one's answer
    Scenarios,    \* what a behaviour draws its environments and messages from
    ConfigsOf,    \* in each: environments of the servers that are started
    MessagesOf,   \* in each, what may be sent in a line: a method and a request
    MaxOutages    \* bound, in each: how often the database goes down

VARIABLES
    scenario,   \* the scenario of this behaviour
    config,     \* the environment of every server
    db,         \* the shared database
    server,     \* the state of every server
    line,       \* the state of every line
    outages     \* bound: outages so far

vars == <<scenario, config, db, server, line, outages>>

Starting == {"verify", "migrate", "identify", "create", "list"}
Serving == {"serving", "degraded", "closing"}
Methods == {"tools/call", "ping", "unsupported", "notification", "unparsable"}
Answers == {"none", "ok", "parse_error", "method_error", "internal_error", "guidance",
            "unfit", "unavailable", "help_ok", "help_warning", "help_blocked"}

ASSUME RuntimeAssumption ==
    /\ MaxOutages \in [Scenarios -> Nat]
    /\ \A x \in Scenarios : \A c \in ConfigsOf[x] :
           /\ DOMAIN c \subseteq Servers
           /\ \A s \in DOMAIN c : c[s] \in [systemRef : STRING, migrates : BOOLEAN,
                                          failHard : BOOLEAN, valid : BOOLEAN,
                                          roleAllowed : BOOLEAN]
    /\ \A x \in Scenarios : \A q \in Lines : \A m \in MessagesOf[x][q] :
           /\ m.method \in Methods
           /\ DOMAIN m.request = {"tool", "action", "given"}
           /\ m.request.given \in [DOMAIN m.request.given -> Kinds]

NoRequest == [tool |-> "none", action |-> "none", given |-> [p \in {} |-> "valid"]]

(* A call of manage_projects writes when it has a body, even one for help; *)
(* a macro that is invoked only reads, and so does a plan.  What an action *)
(* is about is taken to exist, a receipt to be owed and not a duplicate,   *)
(* and a reconciliation to have a status to write.                         *)
BodyWrites(r) ==
    /\ r.action \notin {"list", "get"}
    /\ HasRecord(r.given, "program") \/ HasRecord(r.given, "project")

LedgerTools == {"record_program_receipt", "submit_agentic_os_receipt",
                "reconcile_program_state"}

Writes(r) ==
    CASE r.tool = "manage_projects" -> BodyWrites(r) \/ r.action = "retire"
      [] r.tool = "manage_integrations" ->
            r.action \notin {"help", "list", "get", "inbox", "catch_up"}
      [] r.tool = "manage_evidence_items" -> r.action \notin {"help", "list", "get"}
      [] r.tool = "pmo_macro" -> r.action = "edit_registry"
      [] OTHER -> r.tool \in LedgerTools

AsksToRead(r) ==
    /\ r.action \in {"help", "list", "get", "describe", "validate", "invoke", "inbox", "catch_up"}
    /\ r.tool \notin LedgerTools

-----------------------------------------------------------------------------
IsLine(l) ==
    /\ DOMAIN l = {"phase", "method", "to", "draft", "request", "tries", "answer"}
    /\ l.phase \in {"idle", "sent", "reading", "writing", "listing", "answered", "ignored",
                    "lost"}
    /\ l.method \in Methods /\ l.answer \in Answers
    /\ IF l.phase = "idle" THEN l.tries = 0 ELSE l.tries \in 1 .. 2 /\ l.to \in Servers
    /\ DOMAIN l.draft = {"tool", "action", "given"}
    /\ l.draft.given \in [DOMAIN l.draft.given -> Kinds]

TypeOK ==
    /\ scenario \in Scenarios
    /\ config \in ConfigsOf[scenario]
    /\ db \in [up : BOOLEAN, constrained : BOOLEAN, programs : BOOLEAN,
              written : SUBSET (Lines \X (1 .. 2)),
              identities : Seq({config[s].systemRef : s \in DOMAIN config})]
    /\ server \in [Servers -> [phase : Starting \cup Serving \cup {"exited"},
                               knowledge : {"none", "ok", "warning", "blocked"}]]
    /\ outages \in 0 .. MaxOutages[scenario]
    /\ line = [q \in Lines |-> line[q]]
    /\ \A q \in Lines : IsLine(line[q])

Init ==
    /\ scenario \in Scenarios
    /\ config \in ConfigsOf[scenario]
    /\ db = [up |-> TRUE, constrained |-> FALSE, identities |-> <<>>, programs |-> FALSE,
             written |-> {}]
    /\ server = [s \in Servers |->
                   [phase |-> IF s \in DOMAIN config THEN "verify" ELSE "exited",
                    knowledge |-> "none"]]
    /\ line = [q \in Lines |->
                 [phase |-> "idle", method |-> "ping", to |-> CHOOSE s \in Servers : TRUE,
                  draft |-> NoRequest, request |-> NoRequest, tries |-> 0, answer |-> "none"]]
    /\ outages = 0

Outage ==
    /\ db.up /\ outages < MaxOutages[scenario]
    /\ db' = [db EXCEPT !.up = FALSE]
    /\ outages' = outages + 1
    /\ UNCHANGED <<scenario, config, server, line>>

Recovery ==
    /\ ~db.up
    /\ db' = [db EXCEPT !.up = TRUE]
    /\ UNCHANGED <<scenario, config, server, line, outages>>

-----------------------------------------------------------------------------
(* Startup.                                                                *)

GoesTo(s, phase) == server' = [server EXCEPT ![s].phase = phase]

(* Mutant: a failed build leaves the server as it was.                     *)
BuildHangs(s) == UNCHANGED <<server, line, db>>

(* The driver is closed, and the process exits or serves degraded.         *)
BuildFails(s) ==
    /\ server' = [server EXCEPT ![s] =
                    IF config[s].failHard THEN [@ EXCEPT !.phase = "exited"]
                    ELSE [phase |-> "degraded", knowledge |-> "blocked"]]
    /\ line' = [q \in Lines |->
                  IF config[s].failHard /\ line[q].to = s /\ line[q].phase = "sent"
                  THEN [line[q] EXCEPT !.phase = "lost"] ELSE line[q]]
    /\ UNCHANGED db

VerifyConnectivity(s) ==
    /\ server[s].phase = "verify"
    /\ IF config[s].valid /\ db.up
       THEN /\ GoesTo(s, IF config[s].migrates THEN "migrate" ELSE "identify")
            /\ UNCHANGED <<line, db>>
       ELSE BuildFails(s)
    /\ UNCHANGED <<scenario, config, outages>>

(* The last migration makes the identity unique; it fails on two.          *)
ApplyMigrations(s) ==
    /\ server[s].phase = "migrate"
    /\ IF db.up /\ Len(db.identities) <= 1
       THEN /\ GoesTo(s, "identify")
            /\ db' = [db EXCEPT !.constrained = TRUE]
            /\ UNCHANGED line
       ELSE BuildFails(s)
    /\ UNCHANGED <<scenario, config, outages>>

(* Mutant: the identity of the database is not compared.                   *)
ClaimAnyIdentity(s, observed) ==
    /\ GoesTo(s, "list")
    /\ UNCHANGED <<line, db>>

ClaimIdentity(s, observed) ==
    IF observed = config[s].systemRef
    THEN /\ GoesTo(s, "list")
         /\ UNCHANGED <<line, db>>
    ELSE BuildFails(s)

(* MERGE: an identity is matched, or created in the same transaction if it *)
(* is constrained to be unique.  One of several that match comes first.    *)
EnsureIdentity(s) ==
    /\ server[s].phase = "identify"
    /\ IF ~db.up THEN BuildFails(s)
       ELSE IF db.identities # <<>>
       THEN \E i \in DOMAIN db.identities : ClaimIdentity(s, db.identities[i])
       ELSE IF db.constrained
       THEN /\ db' = [db EXCEPT !.identities = <<config[s].systemRef>>]
            /\ GoesTo(s, "list")
            /\ UNCHANGED line
       ELSE GoesTo(s, "create") /\ UNCHANGED <<line, db>>
    /\ UNCHANGED <<scenario, config, outages>>

CreateIdentity(s) ==
    /\ server[s].phase = "create"
    /\ IF db.up /\ (db.constrained => db.identities = <<>>)
       THEN /\ db' = [db EXCEPT !.identities = Append(@, config[s].systemRef)]
            /\ GoesTo(s, "list")
            /\ UNCHANGED line
       ELSE BuildFails(s)
    /\ UNCHANGED <<scenario, config, outages>>

RuntimeKnowledge == IF db.programs THEN "ok" ELSE "warning"

ListPrograms(s) ==
    /\ server[s].phase = "list"
    /\ IF db.up
       THEN /\ server' = [server EXCEPT ![s] = [phase |-> "serving",
                                                knowledge |-> RuntimeKnowledge]]
            /\ UNCHANGED <<line, db>>
       ELSE BuildFails(s)
    /\ UNCHANGED <<scenario, config, outages>>

(* A signal closes the driver, and then the process exits.                 *)
Shutdown(s) ==
    /\ server[s].phase \in {"serving", "degraded"}
    /\ GoesTo(s, "closing")
    /\ UNCHANGED <<scenario, config, db, line, outages>>

Exit(s) ==
    /\ server[s].phase = "closing"
    /\ GoesTo(s, "exited")
    /\ line' = [q \in Lines |->
                  IF line[q].to = s /\ line[q].phase \in {"sent", "reading", "writing", "listing"}
                  THEN [line[q] EXCEPT !.phase = "lost"] ELSE line[q]]
    /\ UNCHANGED <<scenario, config, db, outages>>

-----------------------------------------------------------------------------
(* Lines and calls.                                                        *)

Send(q, s) ==
    /\ line[q].phase = "idle" /\ server[s].phase # "exited"
    /\ \E m \in MessagesOf[scenario][q] :
          line' = [line EXCEPT ![q] =
                     [phase |-> "sent", method |-> m.method, to |-> s, draft |-> m.request,
                      request |-> m.request, tries |-> 1, answer |-> "none"]]
    /\ UNCHANGED <<scenario, config, db, server, outages>>

(* The agent follows the form it was answered with, once.                  *)
Follow(q) ==
    /\ line[q].phase = "answered" /\ line[q].answer \in {"guidance", "unfit"}
    /\ line[q].tries = 1
    /\ server[line[q].to].phase # "exited"
    /\ line' = [line EXCEPT ![q].phase = "sent", ![q].tries = 2, ![q].answer = "none",
                            ![q].request = FormFor(@)]
    /\ UNCHANGED <<scenario, config, db, server, outages>>

Answered(q, answer) == line' = [line EXCEPT ![q].phase = "answered", ![q].answer = answer]

(* Mutant: the exception of a handler is logged, and nothing is sent.      *)
FailUnsent(q) == UNCHANGED line

(* Whatever a handler throws is answered.                                  *)
Fail(q) == Answered(q, "internal_error")

Degraded(s) == server[s].knowledge = "blocked"

Unavailable(s, tool) == Degraded(s) /\ tool # "pmo_help"

CallTool(q, s) ==
    LET r == Understood(line[q].request) IN
    IF ~config[s].roleAllowed THEN Fail(q)
    ELSE IF Unavailable(s, r.tool) THEN Answered(q, "unavailable")
    ELSE IF r.tool = "unsupported" THEN Fail(q)
    ELSE IF ~Accepts(r) THEN Answered(q, "guidance")
    ELSE line' = [line EXCEPT ![q].phase = "reading"]

HandleLine(q) ==
    LET s == line[q].to IN
    /\ line[q].phase = "sent" /\ server[s].phase \in Serving
    /\ CASE line[q].method = "unparsable" -> Answered(q, "parse_error")
         [] line[q].method = "notification" -> line' = [line EXCEPT ![q].phase = "ignored"]
         [] line[q].method = "ping" -> Answered(q, "ok")
         [] line[q].method = "unsupported" -> Answered(q, "method_error")
         [] line[q].method = "tools/call" -> CallTool(q, s)
    /\ UNCHANGED <<scenario, config, db, server, outages>>

(* A degraded server reads an empty store in memory.                       *)
Reaches(s) == Degraded(s) \/ (db.up /\ server[s].phase # "closing")

HelpAnswer(s) == CASE server[s].knowledge = "ok" -> "help_ok"
                   [] server[s].knowledge = "warning" -> "help_warning"
                   [] OTHER -> "help_blocked"

(* An answer on what is stored may fail its schema.                        *)
ReadStore(q) ==
    LET s == line[q].to IN
    /\ line[q].phase = "reading" /\ server[s].phase # "exited"
    /\ IF ~Reaches(s) THEN Fail(q)
       ELSE IF line[q].request.tool = "pmo_help" THEN Answered(q, HelpAnswer(s))
       ELSE \/ Answered(q, "unfit")
            \/ IF Writes(line[q].request) THEN line' = [line EXCEPT ![q].phase = "writing"]
               ELSE Answered(q, "ok")
    /\ UNCHANGED <<scenario, config, db, server, outages>>

RegistersProgram(r) == r.tool = "manage_projects" /\ BodyWrites(r) /\ HasRecord(r.given, "program")

(* Mutant: the answer does not wait for the write.                         *)
WriteUnawaited(q) ==
    /\ line' = [line EXCEPT ![q].phase = "listing"]
    /\ UNCHANGED db

Store(q) ==
    /\ line' = [line EXCEPT ![q].phase = "listing"]
    /\ db' = [db EXCEPT !.written = @ \cup {<<q, line[q].tries>>},
                        !.programs = @ \/ RegistersProgram(line[q].request)]

WriteStore(q) ==
    /\ line[q].phase = "writing" /\ server[line[q].to].phase # "exited"
    /\ IF Reaches(line[q].to) THEN Store(q)
       ELSE Fail(q) /\ UNCHANGED db
    /\ UNCHANGED <<scenario, config, server, outages>>

(* The answer lists what is stored now; an error here follows a write, and *)
(* so does a result that fails its schema.                                 *)
ListStore(q) ==
    /\ line[q].phase = "listing" /\ server[line[q].to].phase # "exited"
    /\ IF Reaches(line[q].to) THEN \E answer \in {"ok", "unfit"} : Answered(q, answer)
       ELSE Fail(q)
    /\ UNCHANGED <<scenario, config, db, server, outages>>

ServerStep(s) ==
    \/ VerifyConnectivity(s) \/ ApplyMigrations(s) \/ EnsureIdentity(s)
    \/ CreateIdentity(s) \/ ListPrograms(s) \/ Exit(s)

LineStep(q) == HandleLine(q) \/ ReadStore(q) \/ WriteStore(q) \/ ListStore(q)

AgentStep(q) == Follow(q) \/ \E s \in Servers : Send(q, s)

Next ==
    \/ Outage \/ Recovery
    \/ \E s \in Servers : ServerStep(s) \/ Shutdown(s)
    \/ \E q \in Lines : LineStep(q) \/ AgentStep(q)

Spec == Init /\ [][Next]_vars

(* Every await of a server ends: a startup step with an error when the     *)
(* database is down, and so does every step of a call; a driver closes.    *)
(* Nothing is assumed of agents, signals or the database.                  *)
Fairness == /\ \A s \in Servers : WF_vars(ServerStep(s))
            /\ \A q \in Lines : WF_vars(LineStep(q))

FairSpec == Spec /\ Fairness

-----------------------------------------------------------------------------
(* Servers that serve agree on the system ref of their database, however   *)
(* they raced at startup, unless both skip the migrations (bin/server.js,  *)
(* ensureNeo4jSystemIdentity).                                             *)
ServersAgree ==
    \A s, t \in Servers :
        /\ server[s].phase = "serving" /\ server[t].phase = "serving"
        /\ config[s].migrates \/ config[t].migrates
        => config[s].systemRef = config[t].systemRef

(* A migrated database keeps one identity.                                 *)
OneIdentity == db.constrained => Len(db.identities) <= 1

(* What a server has made sure of, by its phase.                           *)
MadeSure(s) ==
    LET phase == server[s].phase IN
    /\ phase # "exited" => s \in DOMAIN config
    /\ phase \in {"identify", "create", "list", "serving"} /\ config[s].migrates
           => db.constrained
    /\ phase \in {"list", "serving"} =>
           \E i \in 1 .. Len(db.identities) : db.identities[i] = config[s].systemRef
    /\ server[s].knowledge = "ok" => db.programs

StartupFollowsPhase == \A s \in Servers : MadeSure(s)

(* The present try of a line has made its write.                           *)
Wrote(q) == <<q, line[q].tries>> \in db.written

(* How far a call has come, by the phase of its line.                      *)
CallSoFar(q) ==
    LET l == line[q] IN
    /\ l.answer # "none" => l.phase = "answered"
    /\ l.phase \in {"reading", "writing", "listing"} => l.method = "tools/call"
    /\ l.phase = "writing" => Writes(l.request)
    /\ l.phase = "listing" => Wrote(q)
    /\ Wrote(q) =>
           /\ l.phase \in {"listing", "answered", "lost"}
           /\ l.answer \in {"none", "ok", "internal_error", "unfit"}
           /\ Writes(l.request)
    /\ \A n \in 1 .. 2 : <<q, n>> \in db.written => n <= l.tries
    /\ l.tries < 2 => l.request = l.draft
    /\ l.tries = 2 => l.request = FormFor(l.draft)
    /\ l.answer = "guidance" => ~Accepts(Understood(l.request))

CallsFollowPhase == \A q \in Lines : CallSoFar(q)

(* Servers, lines and the database are in states of their kinds and come   *)
(* on in order, and the servers agree.                                     *)
ServersInv ==
    /\ TypeOK /\ OneIdentity /\ StartupFollowsPhase /\ CallsFollowPhase
    /\ ServersAgree

(* Answers tell of writes what is true, whatever outage or shutdown came   *)
(* between: a call whose input was refused, or that a degraded server      *)
(* answered, wrote nothing; a write answered ok is in the shared store;    *)
(* and a server that says the shared knowledge is there has programs in    *)
(* its database, though it asked once, at startup.  Of an error and of a   *)
(* result that fails its schema nothing is said: both may follow a write   *)
(* (callTool, sharedKnowledgeUnavailableEnvelope, manageProjects,          *)
(* recordProgramReceipt, neo4jRuntimeKnowledge).                           *)
AnswersAreTrue ==
    \A q \in Lines :
        /\ line[q].answer \in {"guidance", "unavailable", "help_blocked"} => ~Wrote(q)
        /\ line[q].answer = "ok" /\ line[q].method = "tools/call" /\ Writes(line[q].request)
               => Wrote(q)
        /\ line[q].answer = "help_ok" => db.programs

RefusedAgain(q) == line[q].answer = "guidance" /\ line[q].tries = 2

(* A form that the gateway offers is accepted, unless the action is about  *)
(* a field no form has, the tool is a legacy one with input of its own,    *)
(* the form is for a registry edit, or a string that no repair makes what  *)
(* it should be is in the first request: one that is empty, text with a    *)
(* blank where a ref belongs, a slug where no slug is looked for.          *)
FollowedGuidanceAccepted ==
    \A q \in Lines : RefusedAgain(q) =>
        LET r == line[q].request
            first == Understood(line[q].draft) IN
        \/ r.tool = "manage_projects" /\ r.action \in DetailActions
        \/ ~(r.tool \in BareTools) /\ r.action = "call"
        \/ r.tool = "pmo_macro" /\ r.action = "edit_registry"
        \/ \E p \in DOMAIN first.given : Unrepaired(first, p)

(* An agent that asked to read and follows the form for it does not write, *)
(* unless it asked manage_projects for help, or had put artifactRefs at    *)
(* the top of an integration call.                                         *)
GuidedReadsStayReads ==
    \A q \in Lines :
        /\ line[q].tries = 2 /\ Wrote(q) /\ AsksToRead(line[q].draft)
        => \/ line[q].request.tool = "manage_projects" /\ line[q].request.action = "help"
           \/ Given(line[q].draft.given, "artifactRefs")

(* A server ends up serving, degraded or gone, however often the database  *)
(* goes down while it starts (buildGateway).                               *)
EveryServerSettles == \A s \in Servers : <>(server[s].phase \notin Starting)

(* Every line that wants an answer gets one, or its server exits without   *)
(* giving it (handleRequest answers every exception).                      *)
EveryLineAnswered ==
    \A q \in Lines :
        line[q].phase = "sent" ~> line[q].phase \in {"answered", "ignored", "lost"}
=============================================================================
