------------------------ MODULE ControlPlaneProofs ------------------------
(***************************************************************************)
(* Theorems about ControlPlane, for any operators, hosts, versions and     *)
(* bounds.                                                                 *)
(***************************************************************************)
EXTENDS ControlPlane, FiniteSetTheorems, TLAPS

Calls ==
  [op : {"project"}, status : {"active", "disabled"}] \cup [op : {"register"}, hostname : Hostname]
    \cup [op : {"create"}] \cup [op : {"config"}, expected : 1..(MaxVersion - 1)]

\* The rows and the open transactions.  A pipeline, a candidate of the stale
\* job and a call that creates a pipeline each need the agent's row, a call
\* that edits one the pipeline's; neither row is ever removed.
RowsTyped ==
  /\ project \in {"active", "disabled"} /\ candidate \in BOOLEAN
  /\ agent \in AgentRow \cup {NoAgent} /\ pipeline \in PipelineRow \cup {NoPipeline}
  /\ call \in [Operator -> Calls \cup {NoCall}]
  /\ pipeline # NoPipeline \/ candidate => agent # NoAgent
  /\ \A o \in Operator : call[o] # NoCall =>
       /\ call[o].op = "create" => agent # NoAgent
       /\ call[o].op = "config" => pipeline # NoPipeline

\* Who has been told to be the agent.
HostsKnown ==
  /\ agent = NoAgent => registered = {}
  /\ agent # NoAgent => registered \subseteq {agent.hostname}

\* The edits that succeeded are those of the versions before the current one.
EditsCounted ==
  replaced = [v \in 1..MaxVersion |-> IF pipeline # NoPipeline /\ v < pipeline.version THEN 1 ELSE 0]

ServerInv == RowsTyped /\ HostsKnown /\ EditsCounted

Holding == {"check2", "wait2", "send"}

ProcessTyped ==
  /\ process \in {"down", "starting", "up"}
  /\ desired \in Control \cup {NoControl} /\ localVersion \in 1..MaxVersion
  /\ active \in BOOLEAN /\ failed \in BOOLEAN /\ permitted \in BOOLEAN
  /\ heartbeat \in Report \cup Answer \cup {Idle} /\ late \subseteq Reported
  /\ at \in Waiting \cup {"check1", "read", "check2", "send", "ended"}
  /\ process = "down" => at = "ended" /\ heartbeat = Idle

\* Until its second check passes a record is permitted just when the desired
\* state allows it, and one about to be sent was when it passed.
HeldUntilAllowed ==
  /\ permitted => at \in Holding
  /\ at \in {"check2", "wait2"} => (permitted <=> Allowed(desired))
  /\ at = "send" => permitted

ProcessInv == ProcessTyped /\ HeldUntilAllowed

\* Only an agent with a pipeline starts, and sends heartbeats.
Linked == process # "down" \/ late # {} => pipeline # NoPipeline

\* The inductive invariant.
ControlInv == ServerInv /\ ProcessInv /\ Linked

-----------------------------------------------------------------------------
(* The server's transactions.                                              *)

\* A call that begins has seen the rows it depends on.
LEMMA BeginKeeps ==
  ASSUME ServerInv, NEW o \in Operator, NEW request \in Calls,
         request.op = "create" => agent # NoAgent, request.op = "config" => pipeline # NoPipeline,
         call' = [call EXCEPT ![o] = request], UNCHANGED <<server, candidate, history>>
  PROVE  ServerInv' /\ pipeline' = pipeline
<1>1. project' = project /\ agent' = agent /\ pipeline' = pipeline /\ candidate' = candidate
      /\ registered' = registered /\ replaced' = replaced
  BY DEF server, history
<1>2. RowsTyped'
  BY <1>1 DEF ServerInv, RowsTyped
<1>. QED BY <1>1, <1>2 DEF ServerInv, HostsKnown, EditsCounted

\* A transaction that ends leaves its rows in their types; End(o) only drops a
\* call.
LEMMA EndTyped ==
  ASSUME RowsTyped, NEW o \in Operator, End(o), candidate' = candidate,
         project' \in {"active", "disabled"},
         agent' \in AgentRow \cup {NoAgent}, pipeline' \in PipelineRow \cup {NoPipeline},
         agent # NoAgent => agent' # NoAgent, pipeline # NoPipeline => pipeline' # NoPipeline,
         pipeline' # NoPipeline => agent' # NoAgent
  PROVE  RowsTyped'
<1>1. call' \in [Operator -> Calls \cup {NoCall}]
  BY DEF RowsTyped, End
<1>2. \A p \in Operator : call'[p] = call[p] \/ call'[p] = NoCall
  BY DEF RowsTyped, End
<1>. QED BY <1>1, <1>2 DEF RowsTyped

\* Registration, of a new host or a known one.
LEMMA RegisterKeeps ==
  ASSUME ServerInv, NEW o \in Operator, RegisterAgent(o)
  PROVE  ServerInv' /\ pipeline' = pipeline
<1>. DEFINE h == call[o].hostname
<1>0. RowsTyped /\ call[o] # NoCall /\ call[o].op = "register"
  BY DEF ServerInv, RegisterAgent
<1>1. call[o] \in [op : {"register"}, hostname : Hostname]
  BY <1>0 DEF RowsTyped, Calls
<1>2. h \in Hostname /\ [hostname |-> h, status |-> "active"] \in AgentRow
  BY <1>1 DEF AgentRow
<1>3. [hostname |-> h, status |-> "active"] # NoAgent
  BY <1>2, ControlAssumption
<1>4. /\ agent' = IF agent = NoAgent THEN [hostname |-> h, status |-> "active"] ELSE agent
      /\ registered' = IF agent = NoAgent \/ agent.hostname = h THEN registered \cup {h} ELSE registered
  BY DEF RegisterAgent, Register
<1>5. project' = project /\ pipeline' = pipeline /\ replaced' = replaced /\ candidate' = candidate /\ End(o)
  BY DEF RegisterAgent, rest
<1>6. RowsTyped'
  BY <1>0, <1>2, <1>3, <1>4, <1>5, EndTyped DEF RowsTyped
<1>7. HostsKnown'
  <2>1. CASE agent = NoAgent
    BY <1>3, <1>4, <2>1 DEF ServerInv, HostsKnown
  <2>2. CASE agent # NoAgent
    BY <1>4, <2>2 DEF ServerInv, HostsKnown
  <2>. QED BY <2>1, <2>2
<1>. QED BY <1>5, <1>6, <1>7 DEF ServerInv, EditsCounted

\* An edit, which succeeds only on the version it was made from.
LEMMA ConfigKeeps ==
  ASSUME ServerInv, NEW o \in Operator, UpdatePipelineConfig(o)
  PROVE  ServerInv' /\ pipeline' # NoPipeline
<1>. DEFINE e == call[o].expected
<1>0. /\ RowsTyped /\ call[o] # NoCall /\ call[o].op = "config"
      /\ pipeline # NoPipeline /\ pipeline \in PipelineRow
  BY DEF ServerInv, UpdatePipelineConfig, RowsTyped
<1>1. call[o] \in [op : {"config"}, expected : 1..(MaxVersion - 1)]
  BY <1>0 DEF RowsTyped, Calls
<1>2. e \in 1..(MaxVersion - 1) /\ pipeline.version = e
  BY <1>1 DEF UpdatePipelineConfig, UpdateConfig
<1>3. e \in 1..MaxVersion /\ e + 1 \in 1..MaxVersion
  BY <1>2, ControlAssumption
<1>4. pipeline' = [pipeline EXCEPT !.version = e + 1] /\ replaced' = [replaced EXCEPT ![e] = @ + 1]
  BY <1>2 DEF UpdatePipelineConfig
<1>5. pipeline' \in PipelineRow /\ pipeline'.version = e + 1
  BY <1>0, <1>3, <1>4 DEF PipelineRow
<1>6. pipeline' # NoPipeline
  BY <1>5, ControlAssumption
<1>7. project' = project /\ agent' = agent /\ registered' = registered /\ candidate' = candidate /\ End(o)
  BY DEF UpdatePipelineConfig, rest
<1>8. RowsTyped'
  <2>1. project \in {"active", "disabled"} /\ agent \in AgentRow \cup {NoAgent} /\ agent # NoAgent
    BY <1>0 DEF RowsTyped
  <2>. QED BY <1>0, <1>5, <1>6, <1>7, <2>1, EndTyped
<1>9. EditsCounted'
  <2>1. replaced = [v \in 1..MaxVersion |-> IF v < e THEN 1 ELSE 0]
    BY <1>0, <1>2 DEF ServerInv, EditsCounted
  <2>2. replaced' = [v \in 1..MaxVersion |-> IF v < e + 1 THEN 1 ELSE 0]
    <3>. HIDE DEF e
    <3>0. replaced[e] = 0 /\ replaced' = [replaced EXCEPT ![e] = 1]
      <4>1. e \in Int /\ ~(e < e)
        BY <1>3, ControlAssumption
      <4>2. replaced[e] = 0
        BY <1>3, <2>1, <4>1
      <4>. QED BY <1>4, <4>2
    <3>1. replaced' = [v \in 1..MaxVersion |-> IF v = e THEN 1 ELSE replaced[v]]
      BY <3>0, <2>1
    <3>2. \A v \in 1..MaxVersion : (IF v = e THEN 1 ELSE replaced[v]) = (IF v < e + 1 THEN 1 ELSE 0)
      BY <1>3, <2>1, ControlAssumption
    <3>. QED BY <3>1, <3>2
  <2>. QED BY <1>5, <1>6, <2>2 DEF EditsCounted
<1>. QED BY <1>6, <1>7, <1>8, <1>9 DEF ServerInv, HostsKnown

\* A status written to the pipeline keeps the rest of its row.
LEMMA StatusKeeps ==
  ASSUME ServerInv, pipeline # NoPipeline, NEW s \in PipelineStatus, pipeline' = [pipeline EXCEPT !.status = s]
  PROVE  pipeline' \in PipelineRow /\ pipeline' # NoPipeline /\ pipeline'.version = pipeline.version
<1>1. pipeline \in PipelineRow
  BY DEF ServerInv, RowsTyped
<1>2. pipeline' \in PipelineRow /\ pipeline'.version = pipeline.version
  BY <1>1 DEF PipelineRow
<1>. QED BY <1>2, ControlAssumption

\* A project's status, and its effect on the pipeline.
LEMMA ProjectKeeps ==
  ASSUME ServerInv, NEW o \in Operator, SetProjectStatus(o)
  PROVE  ServerInv' /\ (pipeline # NoPipeline => pipeline' # NoPipeline)
<1>0. RowsTyped /\ call[o] # NoCall /\ call[o].op = "project"
  BY DEF ServerInv, SetProjectStatus
<1>1. call[o] \in [op : {"project"}, status : {"active", "disabled"}]
  BY <1>0 DEF RowsTyped, Calls
<1>2. project' \in {"active", "disabled"}
  BY <1>1 DEF SetProjectStatus
<1>3. pipeline' = pipeline \/ (pipeline # NoPipeline /\ pipeline' = [pipeline EXCEPT !.status = "paused"])
  BY DEF SetProjectStatus, PauseByProject
<1>4. /\ pipeline' \in PipelineRow \cup {NoPipeline}
      /\ pipeline # NoPipeline => pipeline' # NoPipeline /\ pipeline'.version = pipeline.version
      /\ pipeline = NoPipeline => pipeline' = NoPipeline
  <2>1. CASE pipeline' = pipeline
    BY <1>0, <2>1 DEF RowsTyped
  <2>2. CASE pipeline # NoPipeline /\ pipeline' = [pipeline EXCEPT !.status = "paused"]
    BY <2>2, StatusKeeps DEF PipelineStatus
  <2>. QED BY <1>3, <2>1, <2>2
<1>5. agent' = agent /\ registered' = registered /\ replaced' = replaced /\ candidate' = candidate /\ End(o)
  BY DEF SetProjectStatus, rest, history
<1>6. RowsTyped'
  <2>1. agent \in AgentRow \cup {NoAgent} /\ (pipeline # NoPipeline => agent # NoAgent)
    BY <1>0 DEF RowsTyped
  <2>. QED BY <1>0, <1>2, <1>4, <1>5, <2>1, EndTyped
<1>7. EditsCounted'
  BY <1>4, <1>5 DEF ServerInv, EditsCounted
<1>. QED BY <1>4, <1>5, <1>6, <1>7 DEF ServerInv, HostsKnown

\* The creation of a pipeline.
LEMMA CreateKeeps ==
  ASSUME ServerInv, NEW o \in Operator, CreatePipeline(o)
  PROVE  ServerInv' /\ pipeline' # NoPipeline
<1>0. RowsTyped /\ call[o] # NoCall /\ call[o].op = "create" /\ agent # NoAgent /\ pipeline = NoPipeline
  BY DEF ServerInv, CreatePipeline, RowsTyped
<1>1. pipeline' = [status |-> "enabled", version |-> 1, reported |-> "stopped"]
  BY DEF CreatePipeline
<1>2. 1 \in 1..MaxVersion
  BY ControlAssumption
<1>3. pipeline' \in PipelineRow /\ pipeline'.version = 1
  BY <1>1, <1>2 DEF PipelineRow, PipelineStatus, Reported
<1>4. pipeline' # NoPipeline
  BY <1>3, ControlAssumption
<1>5. project' = project /\ agent' = agent /\ registered' = registered /\ replaced' = replaced
      /\ candidate' = candidate /\ End(o)
  BY DEF CreatePipeline, rest, history
<1>6. RowsTyped'
  <2>1. agent \in AgentRow \cup {NoAgent} /\ project \in {"active", "disabled"}
    BY <1>0 DEF RowsTyped
  <2>. QED BY <1>0, <1>3, <1>4, <1>5, <2>1, EndTyped
<1>7. EditsCounted'
  <2>1. replaced = [v \in 1..MaxVersion |-> 0]
    BY <1>0 DEF ServerInv, EditsCounted
  <2>2. \A v \in 1..MaxVersion : ~(v < 1)
    BY ControlAssumption
  <2>. QED BY <1>3, <1>4, <1>5, <2>1, <2>2 DEF EditsCounted
<1>. QED BY <1>4, <1>5, <1>6, <1>7 DEF ServerInv, HostsKnown

\* A transaction that is rolled back.
LEMMA AbortKeeps ==
  ASSUME ServerInv, NEW o \in Operator, Abort(o)
  PROVE  ServerInv' /\ pipeline' = pipeline
<1>1. project' = project /\ agent' = agent /\ pipeline' = pipeline /\ registered' = registered
      /\ replaced' = replaced /\ candidate' = candidate /\ End(o)
  BY DEF Abort, server, history, rest
<1>2. RowsTyped'
  BY <1>1, EndTyped DEF ServerInv, RowsTyped
<1>. QED BY <1>1, <1>2 DEF ServerInv, HostsKnown, EditsCounted

\* Steps that touch the agent's row and the pipeline's, and no call: a status
\* set, a stale mark, a heartbeat.
LEMMA RowsKeep ==
  ASSUME ServerInv, UNCHANGED <<project, call, history>>, candidate' \in BOOLEAN,
         candidate' => agent # NoAgent,
         agent = NoAgent => agent' = NoAgent,
         agent # NoAgent => agent' \in AgentRow /\ agent'.hostname = agent.hostname,
         pipeline = NoPipeline => pipeline' = NoPipeline,
         pipeline # NoPipeline => pipeline' \in PipelineRow /\ pipeline'.version = pipeline.version
  PROVE  ServerInv' /\ (pipeline # NoPipeline => pipeline' # NoPipeline)
<1>1. (agent # NoAgent => agent' # NoAgent) /\ (pipeline # NoPipeline => pipeline' # NoPipeline)
  BY ControlAssumption
<1>2. project' = project /\ call' = call /\ registered' = registered /\ replaced' = replaced
  BY DEF history
<1>3. RowsTyped'
  BY <1>1, <1>2 DEF ServerInv, RowsTyped
<1>4. HostsKnown'
  BY <1>1, <1>2 DEF ServerInv, HostsKnown
<1>5. EditsCounted'
  BY <1>1, <1>2 DEF ServerInv, EditsCounted
<1>. QED BY <1>1, <1>3, <1>4, <1>5 DEF ServerInv

-----------------------------------------------------------------------------
(* The agent's process.                                                    *)

\* The runtime reports one of three states.
LEMMA ReportTyped == ASSUME ProcessInv PROVE reportLocked \in Reported
<1>1. \/ reportLocked = "error" \/ reportLocked = "stopped" \/ reportLocked = "running"
  BY DEF reportLocked, ProcessInv, ProcessTyped
<1>. QED BY <1>1 DEF Reported

\* What lets a pipeline run is what Allowed says of it.
LEMMA RunnableIsAllowed == ASSUME ProcessInv, runnableLocked PROVE Allowed(desired)
<1>1. CASE desired = NoControl
  BY <1>1 DEF Allowed, runnableLocked
<1>2. CASE desired # NoControl
  <2>1. desired \in Control /\ desired.status = "enabled" /\ desired.version = localVersion /\ ~failed
    BY <1>2 DEF runnableLocked, controlKnown, ProcessInv, ProcessTyped
  <2>2. desired = [status |-> "enabled", version |-> localVersion]
    BY <2>1 DEF Control
  <2>. QED BY <2>1, <2>2 DEF Allowed
<1>. QED BY <1>1, <1>2

\* The source goroutine.
LEMMA SourceKeeps ==
  ASSUME ProcessInv, sourceStep
  PROVE  ProcessInv' /\ UNCHANGED <<static, process, late>>
<1>1. UNCHANGED <<static, process, localVersion, desired, active, failed, heartbeat, late>>
  BY DEF sourceStep, WaitUntilRunnable, NextRecord, startSource, secondWait, Send, quiet, state, wire
<1>2. process = "down" => at = "ended"
  BY DEF ProcessInv, ProcessTyped
<1>3. CASE WaitUntilRunnable("check1", "wait1", "read")
  BY <1>1, <1>3 DEF WaitUntilRunnable, ProcessInv, ProcessTyped, HeldUntilAllowed, Holding, Waiting, Allowed
<1>4. CASE NextRecord
  BY <1>1, <1>4 DEF NextRecord, ProcessInv, ProcessTyped, HeldUntilAllowed, Holding, Waiting, Allowed
<1>5. CASE secondWait
  <2>1. permitted' = permitted /\ at \in {"check2", "wait2"} /\ at' \in Holding
    BY <1>5 DEF secondWait, WaitUntilRunnable, Holding
  <2>2. at' = "send" => Allowed(desired)
    BY <1>5, RunnableIsAllowed DEF secondWait, WaitUntilRunnable
  <2>3. HeldUntilAllowed'
    BY <1>1, <2>1, <2>2 DEF ProcessInv, HeldUntilAllowed, Holding, Allowed
  <2>4. ProcessTyped'
    BY <1>1, <2>1 DEF ProcessInv, ProcessTyped, Holding, Waiting
  <2>. QED BY <1>1, <2>3, <2>4 DEF ProcessInv
<1>6. CASE Send
  BY <1>1, <1>6 DEF Send, ProcessInv, ProcessTyped, HeldUntilAllowed, Holding, Waiting, Allowed
<1>7. CASE startSource
  BY <1>1, <1>7 DEF startSource, ProcessInv, ProcessTyped, HeldUntilAllowed, Holding, Waiting, Allowed
<1>. QED BY <1>1, <1>3, <1>4, <1>5, <1>6, <1>7 DEF sourceStep

\* Start, exit and failure put the source where it holds no record.
LEMMA LifeKeeps ==
  ASSUME ProcessInv,
         \/ \E v \in 1..MaxVersion : NewPipelineState(v)
         \/ Start \/ Exit \/ Fail
  PROVE  /\ ProcessInv' /\ UNCHANGED static
         /\ process' # "down" => pipeline # NoPipeline \/ process # "down"
         /\ late' # {} => late # {} \/ process # "down"
<1>1. 1 \in 1..MaxVersion
  BY ControlAssumption
<1>2. ASSUME NEW v \in 1..MaxVersion, NewPipelineState(v)
      PROVE  ProcessInv' /\ UNCHANGED static /\ pipeline # NoPipeline /\ late' = late
  BY <1>2 DEF NewPipelineState, source, wire, ProcessInv, ProcessTyped, HeldUntilAllowed, Holding
<1>3. CASE Start
  BY <1>3 DEF Start, wire, ProcessInv, ProcessTyped, HeldUntilAllowed, Holding, Waiting
<1>4. CASE Exit
  <2>1. late' \subseteq Reported /\ (late' # {} => late # {} \/ process # "down")
    <3>1. heartbeat.kind = "sent" => heartbeat.status \in Reported
      BY DEF ProcessInv, ProcessTyped, Report, Answer, Idle
    <3>. QED BY <1>4, <3>1 DEF Exit, ProcessInv, ProcessTyped
  <2>2. process' = "down" /\ UNCHANGED static
    BY <1>4 DEF Exit
  <2>. QED BY <1>1, <1>4, <2>1, <2>2 DEF Exit, ProcessInv, ProcessTyped, HeldUntilAllowed, Holding
<1>5. CASE Fail
  BY <1>5 DEF Fail, wire, ProcessInv, ProcessTyped, HeldUntilAllowed, Holding
<1>. QED BY <1>2, <1>3, <1>4, <1>5

\* The heartbeat loop.
LEMMA LoopKeeps ==
  ASSUME ProcessInv, runHeartbeat
  PROVE  /\ ProcessInv' /\ UNCHANGED <<static, process>>
         /\ late' # {} => late # {} \/ process # "down"
<1>1. CASE Reports
  <2>1. heartbeat' \in Report
    BY <1>1, ReportTyped DEF Reports, Report
  <2>. QED BY <1>1, <2>1 DEF Reports, agentSide, ProcessInv, ProcessTyped, HeldUntilAllowed, Allowed
<1>2. CASE HeartbeatFails
  BY <1>2 DEF HeartbeatFails, agentSide, ProcessInv, ProcessTyped, HeldUntilAllowed, Allowed
<1>3. CASE HeartbeatTimeout
  <2>1. heartbeat.kind = "sent" /\ heartbeat.status \in Reported /\ process # "down"
    BY <1>3 DEF HeartbeatTimeout, ProcessInv, ProcessTyped, Report, Answer, Idle
  <2>. QED BY <1>3, <2>1 DEF HeartbeatTimeout, agentSide, ProcessInv, ProcessTyped, HeldUntilAllowed, Allowed
<1>4. CASE Apply
  <2>1. heartbeat.control \in Control
    BY <1>4 DEF Apply, ProcessInv, ProcessTyped, Report, Answer, Idle
  <2>2. UNCHANGED <<static, process, localVersion, active, failed, at, late>>
    BY <1>4 DEF Apply
  <2>3. ProcessTyped'
    <3>1. permitted' \in BOOLEAN
      <4>1. CASE at \in {"check2", "wait2"}
        <5>1. permitted' = Allowed(heartbeat.control)
          BY <1>4, <4>1, Zenon DEF Apply
        <5>. QED BY <5>1, Zenon DEF Allowed
      <4>2. CASE at \notin {"check2", "wait2"}
        BY <1>4, <4>2 DEF Apply, ProcessInv, ProcessTyped
      <4>. QED BY <4>1, <4>2
    <3>2. desired' \in Control /\ heartbeat' = Idle
      BY <1>4, <2>1 DEF Apply
    <3>. QED BY <2>2, <3>1, <3>2 DEF ProcessInv, ProcessTyped
  <2>4. HeldUntilAllowed'
    <3>1. CASE at \in {"check2", "wait2"}
      <4>1. permitted' <=> Allowed(heartbeat.control)
        BY <1>4, <3>1, Zenon DEF Apply
      <4>2. Allowed(desired)' <=> Allowed(heartbeat.control)
        BY <1>4, <2>2 DEF Apply, Allowed
      <4>. QED BY <2>2, <3>1, <4>1, <4>2 DEF HeldUntilAllowed, Holding
    <3>2. CASE at \notin {"check2", "wait2"}
      <4>1. permitted' = permitted
        BY <1>4, <3>2 DEF Apply
      <4>. QED BY <2>2, <3>2, <4>1 DEF ProcessInv, HeldUntilAllowed
    <3>. QED BY <3>1, <3>2
  <2>. QED BY <2>2, <2>3, <2>4 DEF ProcessInv
<1>. QED BY <1>1, <1>2, <1>3, <1>4 DEF runHeartbeat

-----------------------------------------------------------------------------
(* Every step keeps the invariant.                                         *)

\* A step that leaves a part alone keeps what is said of it.
LEMMA Same ==
  /\ ServerInv /\ UNCHANGED static => ServerInv' /\ pipeline' = pipeline
  /\ ProcessInv /\ UNCHANGED <<process, state, at, permitted, heartbeat, late>> => ProcessInv'
<1>1. ASSUME ServerInv, UNCHANGED static PROVE ServerInv' /\ pipeline' = pipeline
  BY <1>1 DEF static, server, history, ServerInv, RowsTyped, HostsKnown, EditsCounted
<1>2. ASSUME ProcessInv, UNCHANGED <<process, state, at, permitted, heartbeat, late>> PROVE ProcessInv'
  BY <1>2 DEF state, ProcessInv, ProcessTyped, HeldUntilAllowed, Allowed
<1>. QED BY <1>1, <1>2

\* Every transaction of an operator.
LEMMA TransactionKeeps ==
  ASSUME ServerInv, NEW o \in Operator, Transaction(o)
  PROVE  ServerInv' /\ (pipeline # NoPipeline => pipeline' # NoPipeline)
  BY RegisterKeeps, ConfigKeeps, ProjectKeeps, CreateKeeps, AbortKeeps DEF Transaction

\* Every call an operator begins.
LEMMA BeginsKeep ==
  ASSUME ServerInv, NEW o \in Operator,
         \/ \E s \in {"active", "disabled"} : BeginSetProjectStatus(o, s)
         \/ \E h \in Hostname : BeginRegisterAgent(o, h)
         \/ BeginCreatePipeline(o) \/ BeginUpdatePipelineConfig(o)
  PROVE  ServerInv' /\ pipeline' = pipeline
<1>1. PICK request : Begin(o, request) /\ request \in Calls
        /\ (request.op = "create" => agent # NoAgent) /\ (request.op = "config" => pipeline # NoPipeline)
  <2>1. ASSUME NEW s \in {"active", "disabled"}, BeginSetProjectStatus(o, s)
        PROVE  Begin(o, [op |-> "project", status |-> s]) /\ [op |-> "project", status |-> s] \in Calls
    BY <2>1 DEF BeginSetProjectStatus, Calls
  <2>2. ASSUME NEW h \in Hostname, BeginRegisterAgent(o, h)
        PROVE  Begin(o, [op |-> "register", hostname |-> h]) /\ [op |-> "register", hostname |-> h] \in Calls
    BY <2>2 DEF BeginRegisterAgent, Calls
  <2>3. ASSUME BeginCreatePipeline(o)
        PROVE  Begin(o, [op |-> "create"]) /\ [op |-> "create"] \in Calls /\ agent # NoAgent
    BY <2>3 DEF BeginCreatePipeline, Calls
  <2>4. ASSUME BeginUpdatePipelineConfig(o)
        PROVE  /\ Begin(o, [op |-> "config", expected |-> pipeline.version])
               /\ [op |-> "config", expected |-> pipeline.version] \in Calls /\ pipeline # NoPipeline
    <3>1. pipeline # NoPipeline /\ pipeline.version < MaxVersion /\ pipeline \in PipelineRow
      BY <2>4 DEF BeginUpdatePipelineConfig, ServerInv, RowsTyped
    <3>2. pipeline.version \in 1..MaxVersion
      BY <3>1 DEF PipelineRow
    <3>3. pipeline.version \in 1..(MaxVersion - 1)
      BY <3>1, <3>2, ControlAssumption
    <3>. QED BY <2>4, <3>1, <3>3 DEF BeginUpdatePipelineConfig, Calls
  <2>5. [op |-> "create"].op # "config"
    OBVIOUS
  <2>6. CASE \E s \in {"active", "disabled"} : BeginSetProjectStatus(o, s)
    <3>1. PICK s \in {"active", "disabled"} : BeginSetProjectStatus(o, s)
      BY <2>6
    <3>. WITNESS [op |-> "project", status |-> s]
    <3>. QED BY <2>1, <3>1
  <2>7. CASE \E h \in Hostname : BeginRegisterAgent(o, h)
    <3>1. PICK h \in Hostname : BeginRegisterAgent(o, h)
      BY <2>7
    <3>. WITNESS [op |-> "register", hostname |-> h]
    <3>. QED BY <2>2, <3>1
  <2>8. CASE BeginCreatePipeline(o)
    <3>. WITNESS [op |-> "create"]
    <3>. QED BY <2>3, <2>5, <2>8
  <2>9. CASE BeginUpdatePipelineConfig(o)
    <3>. WITNESS [op |-> "config", expected |-> pipeline.version]
    <3>. QED BY <2>4, <2>9
  <2>. QED BY <2>6, <2>7, <2>8, <2>9
<1>. QED BY <1>1, BeginKeeps DEF Begin

\* A heartbeat's transaction.
LEMMA HeartbeatKeeps ==
  ASSUME ServerInv, pipeline # NoPipeline, NEW r \in Reported, Heartbeat(r), UNCHANGED <<project, call, candidate, history>>
  PROVE  ServerInv' /\ pipeline' # NoPipeline
<1>1. agent # NoAgent /\ agent \in AgentRow /\ pipeline \in PipelineRow
  BY DEF ServerInv, RowsTyped
<1>2. agent' \in AgentRow /\ agent'.hostname = agent.hostname
  BY <1>1 DEF Heartbeat, SeenAgent, AgentRow
<1>3. pipeline' \in PipelineRow /\ pipeline'.version = pipeline.version
  BY <1>1 DEF Heartbeat, ReportStatus, PipelineRow
<1>. QED BY <1>1, <1>2, <1>3, RowsKeep DEF ServerInv, RowsTyped

\* At first there are no rows or one agent's, and its process is down.
LEMMA ControlInvInit == Init => ControlInv
<1>. SUFFICES ASSUME Init PROVE ControlInv
  OBVIOUS
<1>1. 1 \in 1..MaxVersion /\ \A v \in 1..MaxVersion : ~(v < 1)
  BY ControlAssumption
<1>2. FirstHost \in Hostname
  BY ControlAssumption DEF FirstHost
<1>3. [hostname |-> FirstHost, status |-> "active"] \in AgentRow
  BY <1>2 DEF AgentRow
<1>4. /\ [status |-> "enabled", version |-> 1, reported |-> "stopped"] \in PipelineRow
      /\ [status |-> "enabled", version |-> 1, reported |-> "stopped"].version = 1
  BY <1>1 DEF PipelineRow, PipelineStatus, Reported
<1>5. RowsTyped
  BY <1>3, <1>4, ControlAssumption DEF Init, RowsTyped
<1>6. HostsKnown
  BY <1>3, ControlAssumption DEF Init, HostsKnown
<1>7. EditsCounted
  BY <1>1, <1>4, ControlAssumption DEF Init, EditsCounted
<1>8. ProcessInv /\ Linked
  BY <1>1 DEF Init, ProcessInv, ProcessTyped, HeldUntilAllowed, Holding, Linked
<1>. QED BY <1>5, <1>6, <1>7, <1>8 DEF ControlInv, ServerInv

\* Every step keeps the invariant.
LEMMA ControlInvNext == ControlInv /\ [Next]_vars => ControlInv'
<1>. SUFFICES ASSUME ControlInv, [Next]_vars PROVE ControlInv'
  OBVIOUS
<1>0. ServerInv /\ ProcessInv /\ Linked
  BY DEF ControlInv
<1>1. ASSUME NEW o \in Operator,
             \/ \E s \in {"active", "disabled"} : BeginSetProjectStatus(o, s)
             \/ \E h \in Hostname : BeginRegisterAgent(o, h)
             \/ BeginCreatePipeline(o) \/ BeginUpdatePipelineConfig(o)
      PROVE  ControlInv'
  <2>1. UNCHANGED <<process, state, at, permitted, heartbeat, late>>
    BY <1>1 DEF BeginSetProjectStatus, BeginRegisterAgent, BeginCreatePipeline, BeginUpdatePipelineConfig,
                Begin, source, wire
  <2>. QED BY <1>0, <1>1, <2>1, BeginsKeep, Same DEF ControlInv, Linked
<1>2. ASSUME NEW o \in Operator, Transaction(o) PROVE ControlInv'
  <2>1. UNCHANGED <<process, state, at, permitted, heartbeat, late>>
    BY <1>2 DEF Transaction, SetProjectStatus, RegisterAgent, CreatePipeline, UpdatePipelineConfig, Abort,
                rest, source, wire
  <2>. QED BY <1>0, <1>2, <2>1, TransactionKeeps, Same DEF ControlInv, Linked
<1>3. ASSUME NEW s \in Asked, SetPipelineStatus(s) PROVE ControlInv'
  <2>1. UNCHANGED <<process, state, at, permitted, heartbeat, late>> /\ UNCHANGED <<project, agent, call, candidate, history>>
    BY <1>3 DEF SetPipelineStatus, source, wire
  <2>2. s \in PipelineStatus /\ pipeline # NoPipeline /\ pipeline' = [pipeline EXCEPT !.status = s]
    BY <1>3, ControlAssumption DEF SetPipelineStatus, SetDesiredStatus
  <2>3. ServerInv' /\ pipeline' # NoPipeline
    BY <1>0, <2>1, <2>2, StatusKeeps, RowsKeep DEF ServerInv, RowsTyped
  <2>. QED BY <1>0, <2>1, <2>3, Same DEF ControlInv, Linked
<1>4. CASE MarkStaleSelect \/ MarkStaleUpdate
  <2>1. /\ UNCHANGED <<process, state, at, permitted, heartbeat, late>> /\ UNCHANGED <<project, pipeline, call, history>>
    BY <1>4 DEF MarkStaleSelect, MarkStaleUpdate, others, source, wire
  <2>2. agent \in AgentRow /\ agent # NoAgent
    BY <1>0, <1>4 DEF MarkStaleSelect, MarkStaleUpdate, ServerInv, RowsTyped
  <2>3. candidate' \in BOOLEAN /\ agent' \in AgentRow /\ agent'.hostname = agent.hostname
    BY <1>4, <2>2 DEF MarkStaleSelect, MarkStaleUpdate, AgentRow
  <2>4. ServerInv'
    BY <1>0, <2>1, <2>2, <2>3, RowsKeep DEF ServerInv, RowsTyped
  <2>. QED BY <1>0, <2>1, <2>4, Same DEF ControlInv, Linked
<1>5. CASE \/ \E v \in 1..MaxVersion : NewPipelineState(v)
           \/ Start \/ Exit \/ Fail
  BY <1>0, <1>5, LifeKeeps, Same DEF ControlInv, Linked
<1>6. CASE sourceStep
  BY <1>0, <1>6, SourceKeeps, Same DEF ControlInv, Linked
<1>7. CASE runHeartbeat
  BY <1>0, <1>7, LoopKeeps, Same DEF ControlInv, Linked
<1>8. CASE HeartbeatAnswered
  <2>1. heartbeat.kind = "sent" /\ heartbeat.status \in Reported /\ process # "down"
    BY <1>0, <1>8 DEF HeartbeatAnswered, ProcessInv, ProcessTyped, Report, Answer, Idle
  <2>2. ServerInv' /\ pipeline' # NoPipeline
    BY <1>0, <1>8, <2>1, HeartbeatKeeps DEF HeartbeatAnswered, Linked
  <2>3. heartbeat' \in Answer
    <3>1. pipeline \in PipelineRow
      BY <1>0, <2>1 DEF ServerInv, RowsTyped, Linked
    <3>2. ListByAgent \in Control
      BY <3>1 DEF ListByAgent, PipelineRow, Control
    <3>. QED BY <1>8, <3>2 DEF HeartbeatAnswered, Answer
  <2>4. ProcessInv'
    BY <1>0, <1>8, <2>1, <2>3 DEF HeartbeatAnswered, agentSide, ProcessInv, ProcessTyped, HeldUntilAllowed, Allowed
  <2>. QED BY <2>2, <2>4 DEF ControlInv, Linked
<1>9. ASSUME NEW r \in Reported, HeartbeatLate(r) PROVE ControlInv'
  <2>1. pipeline # NoPipeline
    BY <1>0, <1>9 DEF HeartbeatLate, Linked
  <2>2. ServerInv' /\ pipeline' # NoPipeline
    BY <1>0, <1>9, <2>1, HeartbeatKeeps DEF HeartbeatLate
  <2>3. ProcessInv'
    BY <1>0, <1>9 DEF HeartbeatLate, agentSide, ProcessInv, ProcessTyped, HeldUntilAllowed, Allowed
  <2>. QED BY <2>2, <2>3 DEF ControlInv, Linked
<1>10. ASSUME NEW r \in Reported, HeartbeatLost(r) PROVE ControlInv'
  <2>1. UNCHANGED static /\ process' = process /\ late' \subseteq late
    BY <1>10 DEF HeartbeatLost, agentSide
  <2>2. ProcessInv'
    BY <1>0, <1>10 DEF HeartbeatLost, agentSide, ProcessInv, ProcessTyped, HeldUntilAllowed, Allowed
  <2>. QED BY <1>0, <2>1, <2>2, Same DEF ControlInv, Linked
<1>11. CASE UNCHANGED vars
  <2>1. UNCHANGED static /\ UNCHANGED <<process, state, at, permitted, heartbeat, late>>
    BY <1>11 DEF vars, static, source, wire
  <2>. QED BY <1>0, <2>1, Same DEF ControlInv, Linked
<1>. QED BY <1>1, <1>2, <1>3, <1>4, <1>5, <1>6, <1>7, <1>8, <1>9, <1>10, <1>11 DEF Next

-----------------------------------------------------------------------------
(* The theorems.                                                           *)

\* So it always holds.
LEMMA ControlInvAlways == Spec => []ControlInv
  BY ControlInvInit, ControlInvNext, PTL DEF Spec

\* The rows, the calls and the agent's process stay in their types.
THEOREM ControlTyped == Spec => []TypeOK
<1>1. ControlInv => TypeOK
  BY DEF ControlInv, ServerInv, ProcessInv, RowsTyped, ProcessTyped, HeldUntilAllowed, Holding, Linked, TypeOK
<1>. QED BY <1>1, ControlInvAlways, PTL

\* However many hosts register the name, at once, again or late, those told
\* that they are the agent are one host.
THEOREM OneHostAlways == Spec => []OneHost
<1>1. ControlInv => OneHost
  <2>. SUFFICES ASSUME ControlInv PROVE OneHost
    OBVIOUS
  <2>1. CASE registered = {}
    BY <2>1, FS_EmptySet DEF OneHost
  <2>2. CASE registered # {}
    <3>1. agent # NoAgent /\ registered = {agent.hostname}
      BY <2>2 DEF ControlInv, ServerInv, HostsKnown
    <3>2. Cardinality({agent.hostname}) = 1
      BY FS_Singleton, Zenon
    <3>. QED BY <3>1, <3>2 DEF OneHost
  <2>. QED BY <2>1, <2>2
<1>. QED BY <1>1, ControlInvAlways, PTL

\* Of any number of operators who edit one version, one succeeds.
THEOREM ConfigReplacedOnceAlways == Spec => []ConfigReplacedOnce
<1>1. ControlInv => ConfigReplacedOnce
  BY DEF ControlInv, ServerInv, EditsCounted, ConfigReplacedOnce
<1>. QED BY <1>1, ControlInvAlways, PTL

\* A record is handed on only if the state applied last before its second
\* check passed allows the pipeline, in however many states it was held.
THEOREM StoppedRecordAlwaysHeld == Spec => StoppedRecordHeld
<1>1. ControlInv /\ [Next]_vars => [Send => permitted]_vars
  BY DEF ControlInv, ProcessInv, HeldUntilAllowed, Send
<1>. QED BY <1>1, ControlInvAlways, PTL DEF Spec, StoppedRecordHeld

\* A source that waits while its pipeline may run has been woken.
NoWakeupLost == at \in Waiting /\ runnableLocked => woken

\* In every interleaving of applied states and the source's two checks, a
\* source that waits while its pipeline may run has been woken.
THEOREM WakeupNeverLost == Spec => []NoWakeupLost
<1>1. Init => NoWakeupLost
  BY DEF Init, NoWakeupLost, Waiting
<1>2. ProcessInv /\ NoWakeupLost /\ [Next]_vars => NoWakeupLost'
  <2>. SUFFICES ASSUME ProcessInv, NoWakeupLost, Next \/ UNCHANGED vars
                PROVE  NoWakeupLost'
    OBVIOUS
  <2>1. CASE UNCHANGED <<state, source>>
    BY <2>1 DEF state, source, NoWakeupLost, runnableLocked, controlKnown
  <2>2. CASE WaitUntilRunnable("check1", "wait1", "read") \/ secondWait
    BY <2>2 DEF secondWait, WaitUntilRunnable, quiet, state, NoWakeupLost, Waiting, runnableLocked, controlKnown
  <2>3. CASE NextRecord \/ startSource \/ Send
    BY <2>3 DEF NextRecord, startSource, Send, NoWakeupLost, Waiting
  <2>4. CASE Start \/ Exit \/ Fail
    BY <2>4 DEF Start, Exit, Fail, NoWakeupLost, Waiting
  <2>5. CASE Apply
    BY <2>5 DEF Apply, signalLocked, NoWakeupLost
  <2>6. ASSUME NEW v \in 1..MaxVersion, NewPipelineState(v)
        PROVE  NoWakeupLost'
    BY <2>6 DEF NewPipelineState, source, NoWakeupLost, Waiting, ProcessInv, ProcessTyped
  <2>7. \/ UNCHANGED <<state, source>> \/ sourceStep \/ Start \/ Exit \/ Fail \/ Apply
        \/ \E v \in 1..MaxVersion : NewPipelineState(v)
    BY DEF Next, Begin, BeginSetProjectStatus, BeginRegisterAgent, BeginCreatePipeline,
           BeginUpdatePipelineConfig, Transaction, SetProjectStatus, RegisterAgent, CreatePipeline,
           UpdatePipelineConfig, Abort, rest, SetPipelineStatus, MarkStaleSelect, MarkStaleUpdate, others,
           runHeartbeat, Reports, HeartbeatFails, HeartbeatTimeout, HeartbeatAnswered, HeartbeatLate,
           HeartbeatLost, agentSide, state, source, vars
  <2>. QED BY <2>1, <2>2, <2>3, <2>4, <2>5, <2>6, <2>7 DEF sourceStep
<1>3. ControlInv => ProcessInv
  BY DEF ControlInv
<1>. QED BY <1>1, <1>2, <1>3, ControlInvAlways, PTL DEF Spec
===========================================================================
