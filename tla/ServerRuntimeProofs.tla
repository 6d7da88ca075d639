------------------------- MODULE ServerRuntimeProofs -------------------------
(***************************************************************************)
(* Proofs about ServerRuntime: the inductive invariant and the safety      *)
(* properties, for any servers, environments, lines and messages.          *)
(***************************************************************************)
EXTENDS ServerRuntime, ToolGuidanceProofs, SequenceTheorems, TLAPS

-----------------------------------------------------------------------------
(* The actions, field by field.                                            *)

ServerRecord == [phase : Starting \cup Serving \cup {"exited"},
                 knowledge : {"none", "ok", "warning", "blocked"}]

SystemRefs == {config[s].systemRef : s \in DOMAIN config}

(* Server s alone moves, to a phase and what it knows.                     *)
ServerMoves(s, phase, knowledge) ==
    /\ server' \in [Servers -> ServerRecord]
    /\ \A t \in Servers \ {s} : server'[t] = server[t]
    /\ server'[s].phase = phase /\ server'[s].knowledge = knowledge

(* Every line stays as it was, or is lost.                                 *)
LinesStayOrAreLost ==
    /\ line' = [q \in Lines |-> line'[q]]
    /\ \A q \in Lines :
         \/ line'[q] = line[q]
         \/ /\ line[q].phase \in {"sent", "reading", "writing", "listing"}
            /\ line'[q] = [line[q] EXCEPT !.phase = "lost"]

LEMMA FailedBuild ==
    ASSUME TypeOK, NEW s \in Servers, BuildFails(s)
    PROVE  /\ \/ ServerMoves(s, "exited", server[s].knowledge)
              \/ ServerMoves(s, "degraded", "blocked")
           /\ LinesStayOrAreLost /\ UNCHANGED db
<1>1. server \in [Servers -> ServerRecord]
  BY DEF TypeOK, ServerRecord
<1>2. CASE config[s].failHard
  <2>1. server' = [server EXCEPT ![s] = [@ EXCEPT !.phase = "exited"]]
    BY <1>2 DEF BuildFails
  <2>2. ServerMoves(s, "exited", server[s].knowledge)
    BY <1>1, <2>1 DEF ServerMoves, ServerRecord
  <2>3. QED  BY <1>2, <2>2 DEF BuildFails, LinesStayOrAreLost
<1>3. CASE ~config[s].failHard
  <2>1. server' = [server EXCEPT ![s] = [phase |-> "degraded", knowledge |-> "blocked"]]
    BY <1>3 DEF BuildFails
  <2>2. ServerMoves(s, "degraded", "blocked")
    BY <1>1, <2>1 DEF ServerMoves, ServerRecord, Serving
  <2>3. QED  BY <1>3, <2>2 DEF BuildFails, LinesStayOrAreLost
<1>4. QED  BY <1>2, <1>3

LEMMA GoingOn ==
    ASSUME TypeOK, NEW s \in Servers, NEW phase \in Starting \cup Serving \cup {"exited"},
           GoesTo(s, phase)
    PROVE  ServerMoves(s, phase, server[s].knowledge)
BY DEF GoesTo, TypeOK, ServerMoves, ServerRecord

(* The database of a startup step: as it was, migrated, or with an identity *)
(* that nothing keeps from being there.                                    *)
DatabaseStep(s) ==
    \/ db' = db
    \/ Len(db.identities) <= 1 /\ db' = [db EXCEPT !.constrained = TRUE]
    \/ /\ db.constrained => db.identities = <<>>
       /\ db' = [db EXCEPT !.identities = Append(@, config[s].systemRef)]

(* Where a startup step leads, and what it has made sure of by then.       *)
StartupStep(s) ==
    \/ \E phase \in {"migrate", "identify", "create"} :
          /\ ServerMoves(s, phase, server[s].knowledge)
          /\ phase \in {"identify", "create"} /\ config[s].migrates => db'.constrained
    \/ /\ ServerMoves(s, "list", server[s].knowledge)
       /\ config[s].migrates => db'.constrained
       /\ \E i \in 1 .. Len(db'.identities) : db'.identities[i] = config[s].systemRef
    \/ /\ server[s].phase = "list"
       /\ \/ ServerMoves(s, "serving", "ok") /\ db.programs
          \/ ServerMoves(s, "serving", "warning")
    \/ ServerMoves(s, "exited", server[s].knowledge) \/ ServerMoves(s, "degraded", "blocked")

LEMMA ServerSteps ==
    ASSUME TypeOK, OneIdentity, StartupFollowsPhase, NEW s \in Servers,
           ServerStep(s) \/ Shutdown(s)
    PROVE  /\ UNCHANGED <<scenario, config, outages>> /\ LinesStayOrAreLost
           /\ server[s].phase # "exited" /\ DatabaseStep(s)
           /\ StartupStep(s) \/ ServerMoves(s, "closing", server[s].knowledge)
<1>1. UNCHANGED <<scenario, config, outages>> /\ server[s].phase # "exited"
  BY DEF ServerStep, VerifyConnectivity, ApplyMigrations, EnsureIdentity, CreateIdentity,
         ListPrograms, Exit, Shutdown
<1>2. line' = line => LinesStayOrAreLost
  BY DEF TypeOK, LinesStayOrAreLost
<1>3. CASE BuildFails(s)
  BY <1>1, <1>3, FailedBuild DEF DatabaseStep, StartupStep
<1>4. CASE VerifyConnectivity(s) /\ ~BuildFails(s)
  <2>1. /\ GoesTo(s, IF config[s].migrates THEN "migrate" ELSE "identify")
        /\ UNCHANGED <<line, db>>
    BY <1>4 DEF VerifyConnectivity
  <2>2. ServerMoves(s, IF config[s].migrates THEN "migrate" ELSE "identify", server[s].knowledge)
    BY <2>1, GoingOn DEF Starting
  <2>3. StartupStep(s)
    BY <2>2 DEF StartupStep
  <2>4. QED  BY <1>1, <1>2, <2>1, <2>3 DEF DatabaseStep
<1>5. CASE ApplyMigrations(s) /\ ~BuildFails(s)
  <2>1. /\ Len(db.identities) <= 1 /\ GoesTo(s, "identify")
        /\ db' = [db EXCEPT !.constrained = TRUE] /\ UNCHANGED line
    BY <1>5 DEF ApplyMigrations
  <2>2. ServerMoves(s, "identify", server[s].knowledge)
    BY <2>1, GoingOn DEF Starting
  <2>3. db'.constrained
    BY <2>1 DEF TypeOK
  <2>4. StartupStep(s)
    BY <2>2, <2>3 DEF StartupStep
  <2>5. QED  BY <1>1, <1>2, <2>1, <2>4 DEF DatabaseStep
<1>6. CASE EnsureIdentity(s) /\ ~BuildFails(s)
  <2>1. server[s].phase = "identify" /\ (config[s].migrates => db.constrained)
    BY <1>6 DEF EnsureIdentity, StartupFollowsPhase, MadeSure
  <2>2. \/ /\ db.identities # <<>>
           /\ \E i \in DOMAIN db.identities : ClaimIdentity(s, db.identities[i])
        \/ /\ db.constrained /\ db.identities = <<>> /\ GoesTo(s, "list")
           /\ db' = [db EXCEPT !.identities = <<config[s].systemRef>>] /\ UNCHANGED line
        \/ GoesTo(s, "create") /\ UNCHANGED <<line, db>>
    BY <1>6 DEF EnsureIdentity
  <2>3. ASSUME NEW i \in DOMAIN db.identities, ClaimIdentity(s, db.identities[i])
        PROVE  /\ GoesTo(s, "list") /\ UNCHANGED <<line, db>>
               /\ db.identities[i] = config[s].systemRef /\ i \in 1 .. Len(db.identities)
    BY <1>6, <2>3 DEF ClaimIdentity, TypeOK
  <2>4. ASSUME NEW i \in DOMAIN db.identities, ClaimIdentity(s, db.identities[i])
        PROVE  StartupStep(s) /\ line' = line /\ db' = db
    <3>1. ServerMoves(s, "list", server[s].knowledge) /\ db' = db /\ line' = line
      BY <2>3, <2>4, GoingOn DEF Starting
    <3>2. QED  BY <2>1, <2>3, <2>4, <3>1 DEF StartupStep
  <2>5. CASE /\ db.constrained /\ db.identities = <<>> /\ GoesTo(s, "list")
             /\ db' = [db EXCEPT !.identities = <<config[s].systemRef>>] /\ UNCHANGED line
    <3>1. db' = [db EXCEPT !.identities = Append(@, config[s].systemRef)]
      BY <2>5
    <3>2. db'.identities = <<config[s].systemRef>> /\ db'.constrained
      BY <2>5 DEF TypeOK
    <3>3. ServerMoves(s, "list", server[s].knowledge)
      BY <2>5, GoingOn DEF Starting
    <3>4. StartupStep(s)
      BY <3>2, <3>3 DEF StartupStep
    <3>5. QED  BY <1>1, <1>2, <2>5, <3>1, <3>4 DEF DatabaseStep
  <2>6. CASE GoesTo(s, "create") /\ UNCHANGED <<line, db>>
    <3>1. ServerMoves(s, "create", server[s].knowledge)
      BY <2>6, GoingOn DEF Starting
    <3>2. StartupStep(s)
      BY <2>1, <2>6, <3>1 DEF StartupStep
    <3>3. QED  BY <1>1, <1>2, <2>6, <3>2 DEF DatabaseStep
  <2>7. QED  BY <1>1, <1>2, <2>2, <2>4, <2>5, <2>6 DEF DatabaseStep
<1>7. CASE CreateIdentity(s) /\ ~BuildFails(s)
  <2>1. /\ server[s].phase = "create" /\ (config[s].migrates => db.constrained)
        /\ db.constrained => db.identities = <<>>
        /\ db' = [db EXCEPT !.identities = Append(@, config[s].systemRef)]
        /\ GoesTo(s, "list") /\ UNCHANGED line
    BY <1>7 DEF CreateIdentity, StartupFollowsPhase, MadeSure
  <2>2. ServerMoves(s, "list", server[s].knowledge)
    BY <2>1, GoingOn DEF Starting
  <2> DEFINE old == db.identities
             ref == config[s].systemRef
  <2>3. db'.constrained = db.constrained /\ db'.identities = Append(old, ref)
    BY <2>1 DEF TypeOK
  <2>4. old \in Seq(SystemRefs) /\ ref \in SystemRefs
    BY <2>1 DEF TypeOK, SystemRefs, StartupFollowsPhase, MadeSure
  <2> HIDE DEF old, ref
  <2>5. Len(old) + 1 \in 1 .. Len(Append(old, ref)) /\ Append(old, ref)[Len(old) + 1] = ref
    BY <2>4, AppendProperties, LenProperties
  <2>6. StartupStep(s)
    BY <2>1, <2>2, <2>3, <2>5 DEF StartupStep, ref
  <2>7. QED  BY <1>1, <1>2, <2>1, <2>6 DEF DatabaseStep
<1>8. CASE ListPrograms(s) /\ ~BuildFails(s)
  <2>1. /\ server[s].phase = "list" /\ UNCHANGED <<line, db>>
        /\ server' = [server EXCEPT ![s] = [phase |-> "serving", knowledge |-> RuntimeKnowledge]]
    BY <1>8 DEF ListPrograms
  <2>2. \/ ServerMoves(s, "serving", "ok") /\ db.programs
        \/ ServerMoves(s, "serving", "warning")
    BY <2>1 DEF RuntimeKnowledge, TypeOK, ServerMoves, ServerRecord, Serving
  <2>3. StartupStep(s)
    BY <2>1, <2>2 DEF StartupStep
  <2>4. QED  BY <1>1, <1>2, <2>1, <2>3 DEF DatabaseStep
<1>9. CASE Exit(s)
  <2>1. ServerMoves(s, "exited", server[s].knowledge) /\ db' = db
    BY <1>9, GoingOn DEF Exit
  <2>2. LinesStayOrAreLost
    BY <1>9 DEF Exit, LinesStayOrAreLost
  <2>3. QED  BY <1>1, <2>1, <2>2 DEF DatabaseStep, StartupStep
<1>10. CASE Shutdown(s)
  <2>1. ServerMoves(s, "closing", server[s].knowledge) /\ UNCHANGED <<line, db>>
    BY <1>10, GoingOn DEF Shutdown, Serving
  <2>2. QED  BY <1>1, <1>2, <2>1 DEF DatabaseStep
<1>11. QED
  BY <1>3, <1>4, <1>5, <1>6, <1>7, <1>8, <1>9, <1>10 DEF ServerStep

(* Line q alone moves, in what the server does with it.                    *)
LineMoves(q, phase, answer) ==
    /\ line' = [p \in Lines |-> line'[p]]
    /\ \A p \in Lines \ {q} : line'[p] = line[p]
    /\ DOMAIN line'[q] = {"phase", "method", "to", "draft", "request", "tries", "answer"}
    /\ line'[q].phase = phase /\ line'[q].answer = answer
    /\ line'[q].method = line[q].method /\ line'[q].to = line[q].to
    /\ line'[q].draft = line[q].draft /\ line'[q].request = line[q].request
    /\ line'[q].tries = line[q].tries

LEMMA Answering ==
    ASSUME TypeOK, NEW q \in Lines, NEW answer, Answered(q, answer)
    PROVE  LineMoves(q, "answered", answer)
BY DEF TypeOK, IsLine, Answered, LineMoves

LEMMA Moving ==
    ASSUME TypeOK, NEW q \in Lines, NEW phase, line' = [line EXCEPT ![q].phase = phase]
    PROVE  LineMoves(q, phase, line[q].answer)
BY DEF TypeOK, IsLine, LineMoves

(* What a line's step leads to, and when.                                  *)
FromSent(q) ==
    /\ line[q].phase = "sent" /\ db' = db
    /\ \/ /\ line[q].method # "tools/call"
          /\ \/ LineMoves(q, "ignored", line[q].answer)
             \/ \E answer \in {"ok", "parse_error", "method_error"} :
                   LineMoves(q, "answered", answer)
       \/ /\ line[q].method = "tools/call"
          /\ \/ LineMoves(q, "reading", line[q].answer)
             \/ \E answer \in {"internal_error", "unavailable"} : LineMoves(q, "answered", answer)
             \/ ~Accepts(Understood(line[q].request)) /\ LineMoves(q, "answered", "guidance")

FromReading(q) ==
    /\ line[q].phase = "reading" /\ db' = db
    /\ \/ \E answer \in {"internal_error", "unfit", "help_warning", "help_blocked"} :
             LineMoves(q, "answered", answer)
       \/ server[line[q].to].knowledge = "ok" /\ LineMoves(q, "answered", "help_ok")
       \/ Writes(line[q].request) /\ LineMoves(q, "writing", line[q].answer)
       \/ ~Writes(line[q].request) /\ LineMoves(q, "answered", "ok")

FromWriting(q) ==
    /\ line[q].phase = "writing"
    /\ \/ LineMoves(q, "answered", "internal_error") /\ db' = db
       \/ LineMoves(q, "listing", line[q].answer) /\ Store(q)

FromListing(q) ==
    /\ line[q].phase = "listing" /\ db' = db
    /\ \E answer \in {"ok", "unfit", "internal_error"} : LineMoves(q, "answered", answer)

LineStepTo(q) == FromSent(q) \/ FromReading(q) \/ FromWriting(q) \/ FromListing(q)

LEMMA LineSteps ==
    ASSUME TypeOK, NEW q \in Lines, LineStep(q)
    PROVE  LineStepTo(q) /\ UNCHANGED <<scenario, config, server, outages>>
<1>1. UNCHANGED <<scenario, config, server, outages>>
  BY DEF LineStep, HandleLine, ReadStore, WriteStore, ListStore
<1> SUFFICES LineStepTo(q)
  BY <1>1
<1>2. CASE HandleLine(q)
  <2>1. /\ line[q].phase = "sent" /\ db' = db
        /\ line[q].method \in Methods
    BY <1>2 DEF HandleLine, TypeOK, IsLine
  <2>2. CASE line[q].method = "unparsable"
    BY <1>2, <2>1, <2>2, Answering DEF HandleLine, LineStepTo, FromSent
  <2>3. CASE line[q].method = "notification"
    BY <1>2, <2>1, <2>3, Moving DEF HandleLine, LineStepTo, FromSent
  <2>4. CASE line[q].method = "ping"
    BY <1>2, <2>1, <2>4, Answering DEF HandleLine, LineStepTo, FromSent
  <2>5. CASE line[q].method = "unsupported"
    BY <1>2, <2>1, <2>5, Answering DEF HandleLine, LineStepTo, FromSent
  <2>6. CASE line[q].method = "tools/call"
    <3>1. CallTool(q, line[q].to)
      BY <1>2, <2>6 DEF HandleLine
    <3>2. \/ line' = [line EXCEPT ![q].phase = "reading"]
          \/ \E answer \in {"internal_error", "unavailable"} : Answered(q, answer)
          \/ ~Accepts(Understood(line[q].request)) /\ Answered(q, "guidance")
      BY <3>1 DEF CallTool, Fail
    <3>3. \/ LineMoves(q, "reading", line[q].answer)
          \/ \E answer \in {"internal_error", "unavailable"} : LineMoves(q, "answered", answer)
          \/ ~Accepts(Understood(line[q].request)) /\ LineMoves(q, "answered", "guidance")
      BY <3>2, Answering, Moving
    <3>4. QED  BY <2>1, <2>6, <3>3, Zenon DEF LineStepTo, FromSent
  <2>7. QED  BY <2>1, <2>2, <2>3, <2>4, <2>5, <2>6 DEF Methods
<1>3. CASE ReadStore(q)
  <2>1. line[q].phase = "reading" /\ db' = db
    BY <1>3 DEF ReadStore
  <2>2. \/ \E answer \in {"internal_error", "unfit"} : Answered(q, answer)
        \/ Answered(q, HelpAnswer(line[q].to))
        \/ Writes(line[q].request) /\ line' = [line EXCEPT ![q].phase = "writing"]
        \/ ~Writes(line[q].request) /\ Answered(q, "ok")
    BY <1>3 DEF ReadStore, Fail
  <2>3. CASE Answered(q, HelpAnswer(line[q].to))
    <3>1. \/ HelpAnswer(line[q].to) = "help_ok" /\ server[line[q].to].knowledge = "ok"
          \/ HelpAnswer(line[q].to) = "help_warning"
          \/ HelpAnswer(line[q].to) = "help_blocked"
      BY DEF HelpAnswer
    <3>2. LineMoves(q, "answered", HelpAnswer(line[q].to))
      BY <2>3, Answering
    <3>3. QED  BY <2>1, <3>1, <3>2, Zenon DEF LineStepTo, FromReading
  <2>4. ASSUME NEW answer \in {"internal_error", "unfit"}, Answered(q, answer)
        PROVE  LineStepTo(q)
    <3>1. LineMoves(q, "answered", answer)
      BY <2>4, Answering
    <3>2. QED  BY <2>1, <2>4, <3>1, Zenon DEF LineStepTo, FromReading
  <2>5. CASE Writes(line[q].request) /\ line' = [line EXCEPT ![q].phase = "writing"]
    <3>1. LineMoves(q, "writing", line[q].answer)
      BY <2>5, Moving
    <3>2. QED  BY <2>1, <2>5, <3>1, Zenon DEF LineStepTo, FromReading
  <2>6. CASE ~Writes(line[q].request) /\ Answered(q, "ok")
    <3>1. LineMoves(q, "answered", "ok")
      BY <2>6, Answering
    <3>2. QED  BY <2>1, <2>6, <3>1, Zenon DEF LineStepTo, FromReading
  <2>7. QED  BY <2>2, <2>3, <2>4, <2>5, <2>6
<1>4. CASE WriteStore(q)
  <2>1. line[q].phase = "writing"
    BY <1>4 DEF WriteStore
  <2>2. Store(q) \/ (Answered(q, "internal_error") /\ db' = db)
    BY <1>4 DEF WriteStore, Fail
  <2>3. CASE Store(q)
    <3>1. LineMoves(q, "listing", line[q].answer)
      BY <2>3, Moving DEF Store
    <3>2. QED  BY <2>1, <2>3, <3>1, Zenon DEF LineStepTo, FromWriting
  <2>4. CASE Answered(q, "internal_error") /\ db' = db
    <3>1. LineMoves(q, "answered", "internal_error")
      BY <2>4, Answering
    <3>2. QED  BY <2>1, <2>4, <3>1, Zenon DEF LineStepTo, FromWriting
  <2>5. QED  BY <2>2, <2>3, <2>4
<1>5. CASE ListStore(q)
  <2>1. \E answer \in {"ok", "unfit", "internal_error"} : Answered(q, answer)
    BY <1>5 DEF ListStore, Fail
  <2>2. QED  BY <1>5, <2>1, Answering DEF ListStore, LineStepTo, FromListing
<1>6. QED  BY <1>2, <1>3, <1>4, <1>5 DEF LineStep

(* A line an agent sends, again or for the first time.                     *)
SendsTo(q) ==
    /\ line' = [p \in Lines |-> line'[p]]
    /\ \A p \in Lines \ {q} : line'[p] = line[p]
    /\ DOMAIN line'[q] = {"phase", "method", "to", "draft", "request", "tries", "answer"}
    /\ line'[q].phase = "sent" /\ line'[q].answer = "none"
    /\ line'[q].method \in Methods /\ line'[q].to \in Servers
    /\ DOMAIN line'[q].draft = {"tool", "action", "given"}
    /\ line'[q].draft.given \in [DOMAIN line'[q].draft.given -> Kinds]
    /\ \/ line[q].phase = "idle" /\ line'[q].tries = 1 /\ line'[q].request = line'[q].draft
       \/ /\ line[q].phase = "answered" /\ line[q].tries = 1
          /\ line'[q].tries = 2 /\ line'[q].draft = line[q].draft
          /\ line'[q].request = FormFor(line[q].request)

LEMMA AgentSteps ==
    ASSUME TypeOK, NEW q \in Lines, AgentStep(q)
    PROVE  SendsTo(q) /\ UNCHANGED <<scenario, config, db, server, outages>>
<1>1. ASSUME NEW s \in Servers, Send(q, s)
      PROVE  SendsTo(q) /\ UNCHANGED <<scenario, config, db, server, outages>>
  <2>1. PICK m \in MessagesOf[scenario][q] :
            line' = [line EXCEPT ![q] =
                       [phase |-> "sent", method |-> m.method, to |-> s, draft |-> m.request,
                        request |-> m.request, tries |-> 1, answer |-> "none"]]
    BY <1>1 DEF Send
  <2>2. /\ m.method \in Methods /\ DOMAIN m.request = {"tool", "action", "given"}
        /\ m.request.given \in [DOMAIN m.request.given -> Kinds]
    BY RuntimeAssumption DEF TypeOK
  <2>3. line[q].phase = "idle" /\ UNCHANGED <<scenario, config, db, server, outages>>
    BY <1>1 DEF Send
  <2>4. QED  BY <2>1, <2>2, <2>3 DEF SendsTo, TypeOK
<1>2. CASE Follow(q)
  <2>1. /\ line[q].phase = "answered" /\ line[q].tries = 1
        /\ UNCHANGED <<scenario, config, db, server, outages>>
        /\ line' = [line EXCEPT ![q].phase = "sent", ![q].tries = 2, ![q].answer = "none",
                                ![q].request = FormFor(line[q].request)]
    BY <1>2 DEF Follow
  <2>2. line[q].to \in Servers
    BY <2>1 DEF TypeOK, IsLine
  <2>3. QED  BY <2>1, <2>2 DEF SendsTo, TypeOK, IsLine
<1>3. QED  BY <1>1, <1>2 DEF AgentStep

-----------------------------------------------------------------------------
(* What a step keeps.                                                      *)

(* The steps of a server, of a line's call, of an agent and of the database.*)
LEMMA Steps ==
    ASSUME TypeOK, OneIdentity, StartupFollowsPhase, [Next]_vars
    PROVE  \/ \E s \in Servers :
                 /\ LinesStayOrAreLost /\ server[s].phase # "exited" /\ DatabaseStep(s)
                 /\ StartupStep(s) \/ ServerMoves(s, "closing", server[s].knowledge)
                 /\ UNCHANGED <<scenario, config, outages>>
           \/ \E q \in Lines : LineStepTo(q) /\ UNCHANGED <<scenario, config, server, outages>>
           \/ \E q \in Lines : SendsTo(q) /\ UNCHANGED <<scenario, config, db, server, outages>>
           \/ /\ \E b \in BOOLEAN : db' = [db EXCEPT !.up = b]
              /\ outages' \in 0 .. MaxOutages[scenario]
              /\ UNCHANGED <<scenario, config, server, line>>
<1>1. ASSUME NEW s \in Servers, ServerStep(s) \/ Shutdown(s)
      PROVE  /\ LinesStayOrAreLost /\ server[s].phase # "exited" /\ DatabaseStep(s)
             /\ StartupStep(s) \/ ServerMoves(s, "closing", server[s].knowledge)
             /\ UNCHANGED <<scenario, config, outages>>
  BY <1>1, ServerSteps
<1>2. ASSUME NEW q \in Lines, LineStep(q)
      PROVE  LineStepTo(q) /\ UNCHANGED <<scenario, config, server, outages>>
  BY <1>2, LineSteps
<1>3. ASSUME NEW q \in Lines, AgentStep(q)
      PROVE  SendsTo(q) /\ UNCHANGED <<scenario, config, db, server, outages>>
  BY <1>3, AgentSteps
<1>4. ASSUME Outage \/ Recovery \/ UNCHANGED vars
      PROVE  /\ \E b \in BOOLEAN : db' = [db EXCEPT !.up = b]
             /\ outages' \in 0 .. MaxOutages[scenario]
             /\ UNCHANGED <<scenario, config, server, line>>
  <2>1. outages \in 0 .. MaxOutages[scenario] /\ MaxOutages[scenario] \in Nat
    BY RuntimeAssumption DEF TypeOK
  <2>2. db = [db EXCEPT !.up = db.up] /\ db.up \in BOOLEAN
    BY DEF TypeOK
  <2>3. CASE Outage
    <3>1. db' = [db EXCEPT !.up = FALSE] /\ UNCHANGED <<scenario, config, server, line>>
      BY <2>3 DEF Outage
    <3>2. outages' \in 0 .. MaxOutages[scenario]
      BY <2>1, <2>3 DEF Outage
    <3>3. QED  BY <3>1, <3>2
  <2>4. CASE Recovery
    <3>1. /\ db' = [db EXCEPT !.up = TRUE] /\ outages' = outages
          /\ UNCHANGED <<scenario, config, server, line>>
      BY <2>4 DEF Recovery
    <3>2. QED  BY <2>1, <3>1
  <2>5. CASE UNCHANGED vars
    <3>1. UNCHANGED <<scenario, config, db, server, line, outages>>
      BY <2>5 DEF vars
    <3>2. db' = [db EXCEPT !.up = db.up]
      BY <2>2, <3>1
    <3>3. QED  BY <2>1, <2>2, <3>1, <3>2
  <2>6. QED  BY <1>4, <2>3, <2>4, <2>5
<1>5. QED  BY <1>1, <1>2, <1>3, <1>4, Zenon DEF Next

LEMMA TypeStep ==
    ASSUME TypeOK, OneIdentity, StartupFollowsPhase, [Next]_vars
    PROVE  TypeOK'
<1>1. ASSUME NEW s \in Servers, LinesStayOrAreLost, server[s].phase # "exited", DatabaseStep(s),
             StartupStep(s) \/ ServerMoves(s, "closing", server[s].knowledge),
             UNCHANGED <<scenario, config, outages>>
      PROVE  TypeOK'
  <2>1. server' \in [Servers -> ServerRecord]
    BY <1>1 DEF StartupStep, ServerMoves
  <2>2. line' = [q \in Lines |-> line'[q]] /\ \A q \in Lines : IsLine(line'[q])
    <3>1. ASSUME NEW q \in Lines
          PROVE  IsLine(line'[q])
      <4>1. IsLine(line[q])
        BY DEF TypeOK
      <4>2. CASE line'[q] = line[q]
        BY <4>1, <4>2
      <4>3. CASE /\ line[q].phase \in {"sent", "reading", "writing", "listing"}
                 /\ line'[q] = [line[q] EXCEPT !.phase = "lost"]
        BY <4>1, <4>3 DEF IsLine
      <4>4. QED  BY <1>1, <4>2, <4>3 DEF LinesStayOrAreLost
    <3>2. QED  BY <1>1, <3>1 DEF LinesStayOrAreLost
  <2>3. db' \in [up : BOOLEAN, constrained : BOOLEAN, programs : BOOLEAN,
                 written : SUBSET (Lines \X (1 .. 2)), identities : Seq(SystemRefs)]
    <3>1. config[s].systemRef \in SystemRefs
      BY <1>1 DEF StartupFollowsPhase, MadeSure, SystemRefs
    <3>2. Append(db.identities, config[s].systemRef) \in Seq(SystemRefs)
      BY <3>1 DEF TypeOK, SystemRefs
    <3>3. QED  BY <1>1, <3>2 DEF DatabaseStep, TypeOK, SystemRefs
  <2>4. SystemRefs' = SystemRefs
    BY <1>1 DEF SystemRefs
  <2>5. QED
    BY <1>1, <2>1, <2>2, <2>3, <2>4 DEF TypeOK, ServerRecord, SystemRefs
<1>2. ASSUME NEW q \in Lines, LineStepTo(q), UNCHANGED <<scenario, config, server, outages>>
      PROVE  TypeOK'
  <2>1. \E phase \in {"reading", "writing", "listing", "answered", "ignored"},
           answer \in Answers : LineMoves(q, phase, answer)
    <3>1. line[q].answer \in Answers
      BY DEF TypeOK, IsLine
    <3>2. QED  BY <1>2, <3>1, Zenon
               DEF LineStepTo, FromSent, FromReading, FromWriting, FromListing, Answers
  <2>2. line[q].phase # "idle"
    BY <1>2 DEF LineStepTo, FromSent, FromReading, FromWriting, FromListing
  <2>3. line' = [p \in Lines |-> line'[p]] /\ \A p \in Lines : IsLine(line'[p])
    BY <2>1, <2>2 DEF LineMoves, TypeOK, IsLine
  <2>4. db' \in [up : BOOLEAN, constrained : BOOLEAN, programs : BOOLEAN,
                 written : SUBSET (Lines \X (1 .. 2)), identities : Seq(SystemRefs)]
    <3>1. CASE db' = db
      BY <3>1 DEF TypeOK, SystemRefs
    <3>2. CASE Store(q)
      <4> DEFINE tried == <<q, line[q].tries>>
      <4>1. (db.programs \/ RegistersProgram(line[q].request)) \in BOOLEAN
        OBVIOUS
      <4>2. tried \in Lines \X (1 .. 2)
        BY <2>2 DEF TypeOK, IsLine
      <4>3. \A b \in BOOLEAN :
                [db EXCEPT !.written = @ \cup {tried}, !.programs = b]
                    \in [up : BOOLEAN, constrained : BOOLEAN, programs : BOOLEAN,
                         written : SUBSET (Lines \X (1 .. 2)), identities : Seq(SystemRefs)]
        BY <4>2 DEF TypeOK, SystemRefs
      <4>4. QED  BY <3>2, <4>1, <4>3, Zenon DEF Store
    <3>3. QED  BY <1>2, <3>1, <3>2 DEF LineStepTo, FromSent, FromReading, FromWriting, FromListing
  <2>5. QED
    BY <1>2, <2>3, <2>4 DEF TypeOK, SystemRefs
<1>3. ASSUME NEW q \in Lines, SendsTo(q), UNCHANGED <<scenario, config, db, server, outages>>
      PROVE  TypeOK'
  <2>1. line' = [p \in Lines |-> line'[p]] /\ \A p \in Lines : IsLine(line'[p])
    BY <1>3 DEF SendsTo, TypeOK, IsLine, Answers
  <2>2. QED  BY <1>3, <2>1 DEF TypeOK
<1>4. ASSUME NEW b \in BOOLEAN, db' = [db EXCEPT !.up = b],
             outages' \in 0 .. MaxOutages[scenario], UNCHANGED <<scenario, config, server, line>>
      PROVE  TypeOK'
  BY <1>4 DEF TypeOK
<1>5. QED  BY <1>1, <1>2, <1>3, <1>4, Steps

(* A database that has been migrated keeps its one identity; identities are *)
(* never taken away; and programs stay.                                     *)
LEMMA DatabaseSteps ==
    ASSUME TypeOK, OneIdentity, StartupFollowsPhase, [Next]_vars
    PROVE  /\ OneIdentity'
           /\ db.constrained => db'.constrained
           /\ db.programs => db'.programs
           /\ \A i \in 1 .. Len(db.identities) :
                 i \in 1 .. Len(db'.identities) /\ db'.identities[i] = db.identities[i]
<1>1. db.identities \in Seq(SystemRefs) /\ Len(db.identities) \in Nat
  BY DEF TypeOK, SystemRefs
<1>2. ASSUME NEW s \in Servers, DatabaseStep(s), server[s].phase # "exited"
      PROVE  /\ OneIdentity'
             /\ db.constrained => db'.constrained
             /\ db.programs => db'.programs
             /\ \A i \in 1 .. Len(db.identities) :
                   i \in 1 .. Len(db'.identities) /\ db'.identities[i] = db.identities[i]
  <2>1. CASE db' = db
    BY <2>1 DEF OneIdentity
  <2>2. CASE Len(db.identities) <= 1 /\ db' = [db EXCEPT !.constrained = TRUE]
    BY <2>2 DEF OneIdentity, TypeOK
  <2>3. CASE /\ db.constrained => db.identities = <<>>
             /\ db' = [db EXCEPT !.identities = Append(@, config[s].systemRef)]
    <3> DEFINE old == db.identities
               ref == config[s].systemRef
    <3>1. /\ db'.identities = Append(old, ref) /\ db'.constrained = db.constrained
          /\ db'.programs = db.programs
      BY <2>3 DEF TypeOK
    <3>2. ref \in SystemRefs
      BY <1>2 DEF StartupFollowsPhase, MadeSure, SystemRefs
    <3>3. old \in Seq(SystemRefs) /\ Len(old) \in Nat /\ (db.constrained => Len(old) = 0)
      BY <1>1, <2>3
    <3> HIDE DEF old, ref
    <3>4. Len(Append(old, ref)) = Len(old) + 1
          /\ \A i \in 1 .. Len(old) : Append(old, ref)[i] = old[i]
      BY <3>2, <3>3, AppendProperties
    <3>5. OneIdentity'
      BY <3>1, <3>3, <3>4 DEF OneIdentity
    <3>6. \A i \in 1 .. Len(old) : i \in 1 .. Len(db'.identities) /\ db'.identities[i] = old[i]
      BY <3>1, <3>3, <3>4
    <3>7. QED  BY <3>1, <3>5, <3>6 DEF old
  <2>4. QED  BY <1>2, <2>1, <2>2, <2>3 DEF DatabaseStep
<1>3. ASSUME db'.identities = db.identities, db'.constrained = db.constrained,
             db.programs => db'.programs
      PROVE  /\ OneIdentity'
             /\ db.constrained => db'.constrained
             /\ db.programs => db'.programs
             /\ \A i \in 1 .. Len(db.identities) :
                   i \in 1 .. Len(db'.identities) /\ db'.identities[i] = db.identities[i]
  BY <1>3 DEF OneIdentity
<1>4. ASSUME NEW q \in Lines, LineStepTo(q)
      PROVE  /\ db'.identities = db.identities /\ db'.constrained = db.constrained
             /\ db.programs => db'.programs
  BY <1>4 DEF LineStepTo, FromSent, FromReading, FromWriting, FromListing, Store, TypeOK
<1>5. ASSUME NEW b \in BOOLEAN, db' = [db EXCEPT !.up = b]
      PROVE  /\ db'.identities = db.identities /\ db'.constrained = db.constrained
             /\ db.programs => db'.programs
  BY <1>5 DEF TypeOK
<1>6. QED  BY <1>2, <1>3, <1>4, <1>5, Steps

(* Every server has made sure of what its phase says, after a step of any. *)
LEMMA StartupStepKeeps ==
    ASSUME TypeOK, OneIdentity, StartupFollowsPhase, [Next]_vars
    PROVE  StartupFollowsPhase'
<1>1. config' = config
  BY Steps
<1>2. ASSUME NEW t \in Servers, server'[t] = server[t]
      PROVE  MadeSure(t)'
  <2>1. MadeSure(t)
    BY DEF StartupFollowsPhase
  <2>2. QED  BY <1>1, <1>2, <2>1, DatabaseSteps DEF MadeSure
<1>3. ASSUME NEW s \in Servers, server[s].phase # "exited",
             StartupStep(s) \/ ServerMoves(s, "closing", server[s].knowledge)
      PROVE  StartupFollowsPhase'
  <2>1. s \in DOMAIN config /\ (server[s].knowledge = "ok" => db'.programs)
    BY <1>3, DatabaseSteps DEF StartupFollowsPhase, MadeSure
  <2>2. \A t \in Servers \ {s} : server'[t] = server[t]
    BY <1>3 DEF StartupStep, ServerMoves
  <2>3. MadeSure(s)'
    <3>1. ASSUME NEW phase \in {"migrate", "identify", "create"},
                 ServerMoves(s, phase, server[s].knowledge),
                 phase \in {"identify", "create"} /\ config[s].migrates => db'.constrained
          PROVE  MadeSure(s)'
      BY <1>1, <2>1, <3>1 DEF MadeSure, ServerMoves
    <3>2. CASE /\ ServerMoves(s, "list", server[s].knowledge)
               /\ config[s].migrates => db'.constrained
               /\ \E i \in 1 .. Len(db'.identities) : db'.identities[i] = config[s].systemRef
      BY <1>1, <2>1, <3>2 DEF MadeSure, ServerMoves
    <3>3. CASE /\ server[s].phase = "list"
               /\ \/ ServerMoves(s, "serving", "ok") /\ db.programs
                  \/ ServerMoves(s, "serving", "warning")
      <4>1. /\ server'[s].phase = "serving"
            /\ server'[s].knowledge = "ok" => db'.programs
        BY <3>3, DatabaseSteps DEF ServerMoves
      <4>2. /\ config[s].migrates => db'.constrained
            /\ \E i \in 1 .. Len(db'.identities) : db'.identities[i] = config[s].systemRef
        <5>1. /\ config[s].migrates => db.constrained
              /\ \E i \in 1 .. Len(db.identities) : db.identities[i] = config[s].systemRef
          BY <3>3 DEF StartupFollowsPhase, MadeSure
        <5>2. QED  BY <5>1, DatabaseSteps
      <4>3. QED  BY <1>1, <2>1, <4>1, <4>2 DEF MadeSure
    <3>4. CASE \/ ServerMoves(s, "exited", server[s].knowledge)
               \/ ServerMoves(s, "degraded", "blocked")
               \/ ServerMoves(s, "closing", server[s].knowledge)
      BY <1>1, <2>1, <3>4 DEF MadeSure, ServerMoves
    <3>5. QED  BY <1>3, <3>1, <3>2, <3>3, <3>4, Zenon DEF StartupStep
  <2>4. QED  BY <1>2, <2>2, <2>3 DEF StartupFollowsPhase
<1>4. CASE server' = server
  BY <1>2, <1>4 DEF StartupFollowsPhase
<1>5. QED  BY <1>3, <1>4, Steps

(* Servers that serve have found their ref in the database; when one of    *)
(* them migrates, it holds a single one.                                   *)
LEMMA ServingAgree ==
    ASSUME TypeOK, OneIdentity, StartupFollowsPhase
    PROVE  ServersAgree
<1> SUFFICES ASSUME NEW s \in Servers, NEW t \in Servers,
                    server[s].phase = "serving", server[t].phase = "serving",
                    config[s].migrates \/ config[t].migrates
             PROVE  config[s].systemRef = config[t].systemRef
  BY DEF ServersAgree
<1>1. Len(db.identities) <= 1 /\ Len(db.identities) \in Nat
  BY DEF OneIdentity, StartupFollowsPhase, MadeSure, TypeOK
<1>2. PICK i \in 1 .. Len(db.identities) : db.identities[i] = config[s].systemRef
  BY DEF StartupFollowsPhase, MadeSure
<1>3. PICK j \in 1 .. Len(db.identities) : db.identities[j] = config[t].systemRef
  BY DEF StartupFollowsPhase, MadeSure
<1>4. i = j
  BY <1>1
<1>5. QED  BY <1>2, <1>3, <1>4

(* What is written by a step: line q, when its call writes.                *)
LEMMA WritesOfSteps ==
    ASSUME TypeOK
    PROVE  /\ \A s \in Servers : DatabaseStep(s) => db'.written = db.written
           /\ \A q \in Lines : Store(q) =>
                 db'.written = db.written \cup {<<q, line[q].tries>>}
<1>1. ASSUME NEW s \in Servers, DatabaseStep(s)
      PROVE  db'.written = db.written
  BY <1>1 DEF DatabaseStep, TypeOK
<1>2. ASSUME NEW q \in Lines, Store(q)
      PROVE  db'.written = db.written \cup {<<q, line[q].tries>>}
  <2> DEFINE tried == <<q, line[q].tries>>
  <2>1. db' = [db EXCEPT !.written = @ \cup {tried},
                         !.programs = @ \/ RegistersProgram(line[q].request)]
    BY <1>2, Zenon DEF Store
  <2> HIDE DEF tried
  <2>2. db'.written = db.written \cup {tried}
    BY <2>1 DEF TypeOK
  <2>3. QED  BY <2>2 DEF tried
<1>3. QED  BY <1>1, <1>2

(* Answers tell what is true of the database, line by line.                *)
AnswerIsTrue(q) ==
    /\ line[q].answer \in {"guidance", "unavailable", "help_blocked"} => ~Wrote(q)
    /\ line[q].answer = "ok" /\ line[q].method = "tools/call" /\ Writes(line[q].request)
           => Wrote(q)
    /\ line[q].answer = "help_ok" => db.programs

(* The tries of a line have written the same after the step as before.     *)
SameWrites(q) == \A n \in 0 .. 2 : <<q, n>> \in db'.written <=> <<q, n>> \in db.written

(* A line that stays, with its write and the programs kept, stays in order. *)
LEMMA UntouchedLine ==
    ASSUME NEW q \in Lines, IsLine(line[q]), CallSoFar(q), AnswerIsTrue(q), line'[q] = line[q],
           SameWrites(q), db.programs => db'.programs
    PROVE  CallSoFar(q)' /\ AnswerIsTrue(q)'
<1>1. line[q].tries \in 0 .. 2
  BY DEF IsLine
<1>2. Wrote(q)' <=> Wrote(q)
  BY <1>1 DEF Wrote, SameWrites
<1>3. \A n \in 1 .. 2 : <<q, n>> \in db'.written <=> <<q, n>> \in db.written
  BY DEF SameWrites
<1>4. QED  BY <1>2, <1>3 DEF CallSoFar, AnswerIsTrue

(* And so does one that moves on in its call, if what it then is answered  *)
(* or is about to do goes with what its present try has written.           *)
LEMMA MovedLine ==
    ASSUME NEW q \in Lines, IsLine(line[q]), CallSoFar(q), line[q].answer = "none",
           line[q].phase # "idle", NEW phase, NEW answer, LineMoves(q, phase, answer),
           \A n \in 1 .. 2 : <<q, n>> \in db'.written => n <= line[q].tries,
           answer # "none" => phase = "answered", phase # "idle",
           phase \in {"reading", "writing", "listing"} => line[q].method = "tools/call",
           phase = "writing" => Writes(line[q].request),
           phase = "listing" => <<q, line[q].tries>> \in db'.written,
           <<q, line[q].tries>> \in db'.written =>
               /\ phase \in {"listing", "answered", "lost"}
               /\ answer \in {"none", "ok", "internal_error", "unfit"}
               /\ Writes(line[q].request),
           answer = "guidance" => ~Accepts(Understood(line[q].request)),
           answer = "ok" /\ line[q].method = "tools/call" /\ Writes(line[q].request)
               => <<q, line[q].tries>> \in db'.written,
           answer = "help_ok" => db'.programs
    PROVE  CallSoFar(q)' /\ AnswerIsTrue(q)'
<1>1. Wrote(q)' <=> <<q, line[q].tries>> \in db'.written
  BY DEF Wrote, LineMoves
<1>2. /\ line'[q].phase = phase /\ line'[q].answer = answer
      /\ line'[q].method = line[q].method /\ line'[q].request = line[q].request
      /\ line'[q].draft = line[q].draft /\ line'[q].tries = line[q].tries
  BY DEF LineMoves
<1>3. CallSoFar(q)'
  BY <1>1, <1>2 DEF CallSoFar
<1>4. AnswerIsTrue(q)'
  BY <1>1, <1>2 DEF AnswerIsTrue
<1>5. QED  BY <1>3, <1>4

LEMMA CallStep ==
    ASSUME TypeOK, OneIdentity, StartupFollowsPhase, CallsFollowPhase,
           \A q \in Lines : AnswerIsTrue(q), [Next]_vars
    PROVE  \A q \in Lines : CallSoFar(q)' /\ AnswerIsTrue(q)'
<1>1. db.programs => db'.programs
  BY DatabaseSteps
<1>2. \A q \in Lines : CallSoFar(q) /\ AnswerIsTrue(q) /\ IsLine(line[q])
  BY DEF CallsFollowPhase, TypeOK
<1>3. ASSUME NEW s \in Servers, LinesStayOrAreLost, DatabaseStep(s), NEW q \in Lines
      PROVE  CallSoFar(q)' /\ AnswerIsTrue(q)'
  <2>1. db'.written = db.written
    BY <1>3, WritesOfSteps
  <2>2. CASE line'[q] = line[q]
    BY <1>1, <1>2, <2>1, <2>2, UntouchedLine DEF SameWrites
  <2>3. CASE /\ line[q].phase \in {"sent", "reading", "writing", "listing"}
             /\ line'[q] = [line[q] EXCEPT !.phase = "lost"]
    <3>1. /\ line'[q].phase = "lost" /\ line'[q].answer = line[q].answer
          /\ line'[q].method = line[q].method /\ line'[q].request = line[q].request
          /\ line'[q].draft = line[q].draft /\ line'[q].tries = line[q].tries
      BY <1>2, <2>3 DEF IsLine
    <3>2. line[q].answer = "none"
      BY <1>2, <2>3 DEF CallSoFar
    <3>3. Wrote(q)' <=> Wrote(q)
      BY <2>1, <3>1 DEF Wrote
    <3>4. CallSoFar(q)'
      BY <1>2, <2>1, <2>3, <3>1, <3>2, <3>3 DEF CallSoFar
    <3>5. QED  BY <1>2, <3>1, <3>2, <3>4 DEF AnswerIsTrue
  <2>4. QED  BY <1>3, <2>2, <2>3 DEF LinesStayOrAreLost
<1>4. ASSUME NEW p \in Lines, LineStepTo(p), UNCHANGED <<scenario, config, server, outages>>,
             NEW q \in Lines
      PROVE  CallSoFar(q)' /\ AnswerIsTrue(q)'
  <2>1. CASE q # p
    <3>1. line'[q] = line[q]
      BY <1>4, <2>1 DEF LineStepTo, FromSent, FromReading, FromWriting, FromListing, LineMoves
    <3>2. CASE db' = db
      BY <1>1, <1>2, <3>1, <3>2, UntouchedLine DEF SameWrites
    <3>3. CASE Store(p)
      <4>1. db'.written = db.written \cup {<<p, line[p].tries>>}
        BY <3>3, WritesOfSteps
      <4>2. SameWrites(q)
        BY <2>1, <4>1 DEF SameWrites
      <4>3. QED  BY <1>1, <1>2, <3>1, <4>2, UntouchedLine
    <3>4. QED
      BY <1>4, <3>2, <3>3 DEF LineStepTo, FromSent, FromReading, FromWriting, FromListing
  <2>2. CASE db' = db /\ ~Wrote(p) /\ q = p /\ line[p].phase \in {"sent", "reading", "writing"}
             /\ (FromSent(p) \/ FromReading(p) \/ FromWriting(p))
    <3>1. /\ <<q, line[q].tries>> \notin db'.written /\ line[q].answer = "none"
          /\ \A n \in 1 .. 2 : <<q, n>> \in db'.written => n <= line[q].tries
      BY <1>2, <2>2 DEF Wrote, CallSoFar
    <3>2. CASE FromSent(p)
      <4>1. CASE LineMoves(q, "ignored", "none")
        BY <1>2, <2>2, <3>1, <4>1, MovedLine
      <4>2. CASE LineMoves(q, "reading", "none") /\ line[q].method = "tools/call"
        BY <1>2, <2>2, <3>1, <4>2, MovedLine
      <4>3. ASSUME line[q].method # "tools/call", NEW answer \in {"ok", "parse_error", "method_error"},
                   LineMoves(q, "answered", answer)
            PROVE  CallSoFar(q)' /\ AnswerIsTrue(q)'
        BY <1>2, <2>2, <3>1, <4>3, MovedLine
      <4>4. ASSUME NEW answer \in {"internal_error", "unavailable"}, LineMoves(q, "answered", answer)
            PROVE  CallSoFar(q)' /\ AnswerIsTrue(q)'
        BY <1>2, <2>2, <3>1, <4>4, MovedLine
      <4>5. CASE ~Accepts(Understood(line[q].request)) /\ LineMoves(q, "answered", "guidance")
        BY <1>2, <2>2, <3>1, <4>5, MovedLine
      <4>6. QED  BY <2>2, <3>1, <3>2, <4>1, <4>2, <4>3, <4>4, <4>5 DEF FromSent
    <3>3. CASE FromReading(p)
      <4>1. line[q].method = "tools/call"
        BY <1>2, <2>2, <3>3 DEF FromReading, CallSoFar
      <4>2. CASE LineMoves(q, "answered", "help_ok") /\ server[line[q].to].knowledge = "ok"
        <5>1. db'.programs
          BY <1>2, <2>2, <4>2 DEF StartupFollowsPhase, MadeSure, IsLine
        <5>2. QED  BY <1>2, <2>2, <3>1, <4>2, <5>1, MovedLine
      <4>3. ASSUME NEW answer \in {"internal_error", "unfit", "help_warning", "help_blocked"},
                   LineMoves(q, "answered", answer)
            PROVE  CallSoFar(q)' /\ AnswerIsTrue(q)'
        BY <1>2, <2>2, <3>1, <4>3, MovedLine
      <4>4. CASE Writes(line[q].request) /\ LineMoves(q, "writing", "none")
        BY <1>2, <2>2, <3>1, <4>1, <4>4, MovedLine
      <4>5. CASE ~Writes(line[q].request) /\ LineMoves(q, "answered", "ok")
        BY <1>2, <2>2, <3>1, <4>5, MovedLine
      <4>6. QED  BY <2>2, <3>1, <3>3, <4>2, <4>3, <4>4, <4>5 DEF FromReading
    <3>4. CASE FromWriting(p)
      <4>1. CASE LineMoves(q, "answered", "internal_error")
        BY <1>2, <2>2, <3>1, <4>1, MovedLine
      <4>2. CASE Store(p)
        BY <1>2, <2>2, <4>2, WritesOfSteps DEF Wrote
      <4>3. QED  BY <2>2, <3>4, <4>1, <4>2 DEF FromWriting
    <3>5. QED  BY <2>2, <3>2, <3>3, <3>4
  <2>3. CASE FromWriting(p) /\ q = p /\ db' # db
    <3>1. /\ line[q].phase = "writing" /\ line[q].answer = "none"
          /\ line[q].method = "tools/call" /\ Writes(line[q].request)
          /\ LineMoves(q, "listing", "none") /\ Store(q)
      BY <1>2, <2>3 DEF FromWriting, CallSoFar
    <3>2. db'.written = db.written \cup {<<q, line[q].tries>>}
      BY <3>1, WritesOfSteps
    <3>3. /\ <<q, line[q].tries>> \in db'.written /\ line[q].tries \in 1 .. 2
          /\ \A n \in 1 .. 2 : <<q, n>> \in db'.written => n <= line[q].tries
      BY <1>2, <3>1, <3>2 DEF CallSoFar, IsLine
    <3>4. QED  BY <1>2, <3>1, <3>3, MovedLine
  <2>4. CASE FromListing(p) /\ q = p
    <3>1. /\ line[q].phase = "listing" /\ line[q].answer = "none" /\ db' = db
          /\ <<q, line[q].tries>> \in db'.written /\ Writes(line[q].request)
          /\ \A n \in 1 .. 2 : <<q, n>> \in db'.written => n <= line[q].tries
      BY <1>2, <2>4 DEF FromListing, CallSoFar, Wrote
    <3>2. PICK answer \in {"ok", "unfit", "internal_error"} : LineMoves(q, "answered", answer)
      BY <2>4 DEF FromListing
    <3>3. QED  BY <1>2, <3>1, <3>2, MovedLine
  <2>5. /\ line[p].phase \in {"sent", "reading", "writing"} => ~Wrote(p)
        /\ FromSent(p) => line[p].phase = "sent" /\ db' = db
        /\ FromReading(p) => line[p].phase = "reading" /\ db' = db
        /\ FromWriting(p) => line[p].phase = "writing"
    BY <1>2 DEF CallSoFar, FromSent, FromReading, FromWriting
  <2>6. QED  BY <1>4, <2>1, <2>2, <2>3, <2>4, <2>5, Zenon DEF LineStepTo
<1>5. ASSUME NEW p \in Lines, SendsTo(p), db' = db, NEW q \in Lines
      PROVE  CallSoFar(q)' /\ AnswerIsTrue(q)'
  <2>1. CASE q # p
    <3>1. line'[q] = line[q]
      BY <1>5, <2>1 DEF SendsTo
    <3>2. QED  BY <1>1, <1>2, <1>5, <3>1, UntouchedLine DEF SameWrites
  <2>2. CASE q = p
    <3>1. \/ line[q].tries = 0 /\ line'[q].tries = 1 /\ line'[q].request = line'[q].draft
          \/ line[q].tries = 1 /\ line'[q].tries = 2 /\ line'[q].request = FormFor(line'[q].draft)
      <4>1. CASE line[q].phase = "idle" /\ line'[q].tries = 1 /\ line'[q].request = line'[q].draft
        <5>1. line[q].tries = 0
          BY <1>2, <4>1 DEF IsLine
        <5>2. QED  BY <4>1, <5>1
      <4>2. CASE /\ line[q].tries = 1 /\ line'[q].tries = 2 /\ line'[q].draft = line[q].draft
                 /\ line'[q].request = FormFor(line[q].request)
        <5>1. line[q].request = line[q].draft
          <6>1. line[q].tries < 2
            BY <4>2
          <6>2. QED  BY <1>2, <6>1 DEF CallSoFar
        <5>2. QED  BY <4>2, <5>1
      <4>3. QED  BY <1>5, <2>2, <4>1, <4>2 DEF SendsTo
    <3>2. \A n \in 1 .. 2 : <<q, n>> \in db'.written => n <= line[q].tries
      BY <1>2, <1>5 DEF CallSoFar
    <3>3. ~Wrote(q)' /\ \A n \in 1 .. 2 : <<q, n>> \in db'.written => n <= line'[q].tries
      BY <3>1, <3>2 DEF Wrote
    <3>4. line'[q].phase = "sent" /\ line'[q].answer = "none"
      BY <1>5, <2>2 DEF SendsTo
    <3>5. QED  BY <3>1, <3>3, <3>4 DEF CallSoFar, AnswerIsTrue
  <2>3. QED  BY <2>1, <2>2
<1>6. ASSUME NEW b \in BOOLEAN, db' = [db EXCEPT !.up = b], line' = line, NEW q \in Lines
      PROVE  CallSoFar(q)' /\ AnswerIsTrue(q)'
  <2>1. db'.written = db.written
    BY <1>6 DEF TypeOK
  <2>2. QED  BY <1>1, <1>2, <1>6, <2>1, UntouchedLine DEF SameWrites
<1>7. QED  BY <1>3, <1>4, <1>5, <1>6, Steps

-----------------------------------------------------------------------------
(* The invariant.                                                          *)

LEMMA InitialStates ==
    ASSUME Init
    PROVE  ServersInv /\ AnswersAreTrue
<1>1. TypeOK
  <2>1. \A s \in Servers : server[s] = [phase |-> IF s \in DOMAIN config THEN "verify" ELSE "exited",
                                        knowledge |-> "none"]
    BY DEF Init
  <2>2. server \in [Servers -> ServerRecord]
    BY DEF Init, ServerRecord, Starting
  <2>3. \A q \in Lines : IsLine(line[q])
    <3>1. NoRequest.given \in [DOMAIN NoRequest.given -> Kinds]
      BY DEF NoRequest, Kinds
    <3>2. ASSUME NEW q \in Lines
          PROVE  IsLine(line[q])
      <4>1. /\ DOMAIN line[q] = {"phase", "method", "to", "draft", "request", "tries", "answer"}
            /\ line[q].phase = "idle" /\ line[q].method = "ping" /\ line[q].tries = 0
            /\ line[q].answer = "none" /\ line[q].draft = NoRequest
        BY DEF Init
      <4>2. DOMAIN NoRequest = {"tool", "action", "given"}
        BY DEF NoRequest
      <4>3. QED  BY <3>1, <4>1, <4>2 DEF IsLine, Methods, Answers
    <3>3. QED  BY <3>2
  <2>4. outages \in 0 .. MaxOutages[scenario]
    BY RuntimeAssumption DEF Init
  <2>5. db \in [up : BOOLEAN, constrained : BOOLEAN, programs : BOOLEAN,
                written : SUBSET (Lines \X (1 .. 2)), identities : Seq(SystemRefs)]
    BY DEF Init
  <2>6. line = [q \in Lines |-> line[q]]
    BY DEF Init
  <2>7. QED  BY <2>2, <2>3, <2>4, <2>5, <2>6 DEF Init, TypeOK, SystemRefs, ServerRecord
<1>2. OneIdentity /\ StartupFollowsPhase
  BY DEF Init, OneIdentity, StartupFollowsPhase, MadeSure
<1>3. CallsFollowPhase /\ AnswersAreTrue
  BY DEF Init, CallsFollowPhase, CallSoFar, AnswersAreTrue, Wrote
<1>4. QED  BY <1>1, <1>2, <1>3, ServingAgree DEF ServersInv

LEMMA InductiveStep ==
    ASSUME ServersInv, AnswersAreTrue, [Next]_vars
    PROVE  ServersInv' /\ AnswersAreTrue'
<1>1. TypeOK /\ OneIdentity /\ StartupFollowsPhase /\ CallsFollowPhase
  BY DEF ServersInv
<1>2. TypeOK' /\ OneIdentity' /\ StartupFollowsPhase'
  BY <1>1, TypeStep, DatabaseSteps, StartupStepKeeps
<1>3. \A q \in Lines : AnswerIsTrue(q)
  BY DEF AnswersAreTrue, AnswerIsTrue
<1>4. \A q \in Lines : CallSoFar(q)' /\ AnswerIsTrue(q)'
  BY <1>1, <1>3, CallStep
<1>5. CallsFollowPhase' /\ AnswersAreTrue'
  BY <1>4 DEF CallsFollowPhase, AnswersAreTrue, AnswerIsTrue
<1>6. ServersAgree'
  BY <1>2, ServingAgree, PTL
<1>7. QED  BY <1>2, <1>5, <1>6 DEF ServersInv

LEMMA InvariantAndAnswers == Spec => [](ServersInv /\ AnswersAreTrue)
<1>1. Init => ServersInv /\ AnswersAreTrue
  BY InitialStates
<1>2. ServersInv /\ AnswersAreTrue /\ [Next]_vars => (ServersInv /\ AnswersAreTrue)'
  BY InductiveStep
<1>3. QED  BY <1>1, <1>2, PTL DEF Spec

(* However servers race, fail, shut down and come to a database that goes  *)
(* down, every state is one the phases of servers and calls account for,   *)
(* and servers that serve agree on their system ref (ServersAgree, which   *)
(* bin/server.js and ensureNeo4jSystemIdentity are to make sure of).       *)
THEOREM ServersInvariant == Spec => []ServersInv
BY InvariantAndAnswers, PTL

(* A refused call wrote nothing, a write answered ok is in the store, and  *)
(* a server that says shared knowledge is there has programs in its        *)
(* database (#validationGuidance, manageProjects, neo4jRuntimeKnowledge).  *)
THEOREM AnswersAreTrueAlways == Spec => []AnswersAreTrue
BY InvariantAndAnswers, PTL

-----------------------------------------------------------------------------
(* The forms.                                                              *)

(* A form for a request to read does not write, unless it asks             *)
(* manage_projects for help or moves artifactRefs into an item.            *)
LEMMA FormsOfReads ==
    ASSUME NEW r, DOMAIN r = {"tool", "action", "given"}, AsksToRead(r),
           ~Given(r.given, "artifactRefs"), Writes(FormFor(r))
    PROVE  FormFor(r).tool = "manage_projects" /\ FormFor(r).action = "help"
<1> DEFINE u == Understood(r)
           g == GuidanceRefRepairs(u)
<1>1. u.tool = r.tool /\ u.action = r.action /\ u.given = NormalizePmoToolInput(r.given)
  BY DEF Understood
<1>2. "artifactRefs" \notin DOMAIN g
  BY <1>1, NormalizedPaths DEF Given, GuidanceRefRepairs
<1>3. FormFor(r) = Corrected(u)
  BY DEF FormFor
<1>4. r.action \in {"help", "list", "get", "describe", "validate", "invoke", "inbox", "catch_up"}
  BY DEF AsksToRead
<1> HIDE DEF u
<1>5. CASE r.tool = "manage_projects"
  <2>1. /\ FormFor(r).tool = "manage_projects"
        /\ FormFor(r).action = ProjectsCorrection(r.action, g).action
    BY <1>1, <1>3, <1>5 DEF Corrected
  <2>2. ProjectsCorrection(r.action, g).action \in {"help", "list", "get"}
    BY <1>4 DEF ProjectsCorrection, ProjectActions
  <2>3. QED  BY <2>1, <2>2 DEF Writes, BodyWrites
<1>6. CASE r.tool = "manage_integrations"
  <2>1. /\ FormFor(r).tool = "manage_integrations"
        /\ FormFor(r).action = IntegrationsCorrection(r.action, g).action
    BY <1>1, <1>3, <1>6 DEF Corrected
  <2>2. IntegrationsCorrection(r.action, g).action \in {"help", "list", "get", "inbox", "catch_up"}
    BY <1>2, <1>4 DEF IntegrationsCorrection, Kept, Given, ItemActions, IntegrationActions
  <2>3. QED  BY <2>1, <2>2 DEF Writes
<1>7. CASE r.tool = "manage_evidence_items"
  <2>1. /\ FormFor(r).tool = "manage_evidence_items"
        /\ FormFor(r).action = EvidenceCorrection(r.action, g).action
    BY <1>1, <1>3, <1>7 DEF Corrected
  <2>2. EvidenceCorrection(r.action, g).action \in {"help", "list", "get"}
    BY <1>4 DEF EvidenceCorrection, EvidenceActions
  <2>3. QED  BY <2>1, <2>2 DEF Writes
<1>8. CASE r.tool = "pmo_macro"
  <2>1. FormFor(r).tool = "pmo_macro" /\ FormFor(r).action = MacroAnswer(u, g).action
    BY <1>1, <1>3, <1>8 DEF Corrected
  <2>2. MacroAnswer(u, g).action # "edit_registry"
    BY <1>1, <1>4 DEF MacroAnswer, MacroCorrection
  <2>3. QED  BY <2>1, <2>2 DEF Writes
<1>9. CASE r.tool \notin {"manage_projects", "manage_integrations", "manage_evidence_items",
                         "pmo_macro"}
  <2>1. FormFor(r).tool = r.tool
    BY <1>1, <1>3, <1>9 DEF Corrected
  <2>2. QED  BY <1>9, <2>1 DEF Writes, AsksToRead
<1>10. QED  BY <1>5, <1>6, <1>7, <1>8, <1>9

(* An agent that asked to read and follows the form for it does not write, *)
(* but for the two cases the property names (correctForm of the gateway).  *)
THEOREM GuidedReadsStayReadsAlways == Spec => []GuidedReadsStayReads
<1>1. ServersInv => GuidedReadsStayReads
  <2> SUFFICES ASSUME ServersInv, NEW q \in Lines, line[q].tries = 2, Wrote(q),
                      AsksToRead(line[q].draft), ~Given(line[q].draft.given, "artifactRefs")
               PROVE  line[q].request.tool = "manage_projects" /\ line[q].request.action = "help"
    BY DEF GuidedReadsStayReads
  <2>1. CallSoFar(q) /\ IsLine(line[q])
    BY DEF ServersInv, CallsFollowPhase, TypeOK
  <2>2. line[q].request = FormFor(line[q].draft) /\ Writes(line[q].request)
    BY <2>1 DEF CallSoFar
  <2>3. DOMAIN line[q].draft = {"tool", "action", "given"}
    BY <2>1 DEF IsLine
  <2>4. QED  BY <2>2, <2>3, FormsOfReads
<1>2. QED  BY <1>1, ServersInvariant, PTL

(* A form that an agent follows is accepted, but for the four cases the    *)
(* property names: by then the request is the form for what was sent, and  *)
(* a request that was answered with a form was refused.                    *)
THEOREM FollowedGuidanceAcceptedAlways == Spec => []FollowedGuidanceAccepted
<1>1. ServersInv => FollowedGuidanceAccepted
  <2> SUFFICES ASSUME ServersInv, NEW q \in Lines, line[q].answer = "guidance",
                      line[q].tries = 2,
                      ~\E p \in DOMAIN Understood(line[q].draft).given :
                          Unrepaired(Understood(line[q].draft), p)
               PROVE  \/ line[q].request.tool = "manage_projects"
                         /\ line[q].request.action \in DetailActions
                      \/ ~(line[q].request.tool \in BareTools) /\ line[q].request.action = "call"
                      \/ /\ line[q].request.tool = "pmo_macro"
                         /\ line[q].request.action = "edit_registry"
    BY DEF FollowedGuidanceAccepted, RefusedAgain
  <2> DEFINE u == Understood(line[q].draft)
  <2>1. CallSoFar(q) /\ IsLine(line[q])
    BY DEF ServersInv, CallsFollowPhase, TypeOK
  <2>2. line[q].request = Corrected(u) /\ ~Accepts(Understood(line[q].request))
    BY <2>1 DEF CallSoFar, FormFor
  <2>3. u.given = NormalizePmoToolInput(line[q].draft.given)
    BY <2>1 DEF IsLine, Understood
  <2>4. u.given \in [DOMAIN u.given -> Kinds]
    BY <2>1, <2>3, NormalizedKinds DEF IsLine
  <2> HIDE DEF u
  <2>5. \A p \in DOMAIN u.given : ~Unrepaired(u, p)
    BY DEF u
  <2>6. QED  BY <2>2, <2>4, <2>5, FormsAreAccepted
<1>2. QED  BY <1>1, ServersInvariant, PTL
=============================================================================
