----------------------------- MODULE ControlPlane -----------------------------
(***************************************************************************)
(* How an operator steers a pipeline that runs somewhere else: the control *)
(* transactions of the server (server/control, storage/postgres), the      *)
(* stale-agent job, the heartbeat, and the agent's PipelineState that opens *)
(* and closes the source (agent/reliable).  One project, one agent, one    *)
(* pipeline.                                                               *)
(*                                                                         *)
(* A transaction is READ COMMITTED: what it reads first (Begin) may be old *)
(* when its UPDATE, which takes the row lock and evaluates its WHERE again, *)
(* and its audit row are committed (Commit).  It may also fail (Abort) and *)
(* leave nothing.  A heartbeat the agent gave up on may still reach the    *)
(* server (late); its answer reaches nobody.                               *)
(***************************************************************************)
EXTENDS Integers, FiniteSets

CONSTANTS
  Operator,      \* concurrent API calls
  Hostname,      \* hosts that register under the agent's name
  Asked,         \* pipeline statuses operators ask for
  NoAgent, NoPipeline, NoControl, NoCall,
  MaxVersion,    \* bound: config versions
  MaxCalls,      \* bound: control transactions begun
  MaxStarts,     \* bound: starts of the agent process
  MaxFailures,   \* bound: isolated pipeline failures
  MaxLate        \* bound: heartbeats the agent times out on

PipelineStatus == {"enabled", "paused", "error", "disabled"}
Reported == {"running", "stopped", "error"}
AgentRow == [hostname : Hostname, status : {"active", "stale"}]
PipelineRow == [status : PipelineStatus, version : 1..MaxVersion, reported : Reported]

ASSUME ControlAssumption ==
  /\ MaxVersion \in Nat \ {0} /\ Hostname # {}
  /\ Asked \subseteq PipelineStatus
  /\ {MaxCalls, MaxStarts, MaxFailures, MaxLate} \subseteq Nat
  /\ NoAgent \notin AgentRow /\ NoPipeline \notin PipelineRow

VARIABLES
  project,       \* status of the project row
  agent,         \* agent row: hostname and status
  pipeline,      \* pipeline row: desired status, config version, reported status
  call,          \* what every operator's open transaction has read
  candidate,     \* the stale-agent statement has selected the agent
  registered,    \* hostnames told they are the agent
  replaced,      \* successful config updates by the version they expected
  process,       \* the agent process: "down", "starting", "up"
  localVersion,  \* config version in the agent's own configuration
  desired,       \* PipelineState.desired[id]; NoControl while not controlKnown
  active,        \* PipelineState.active[id]
  failed,        \* PipelineState.failures[id] is set
  at,            \* where the source goroutine is
  woken,         \* the channel it waits on has been closed
  permitted,     \* the state applied last before the second check passed allows the record
  heartbeat,     \* the agent's request: none, sent, or answered
  late,          \* reports of requests it gave up on
  calls, starts, failures, lates

server == <<project, agent, pipeline>>
history == <<registered, replaced>>
state == <<localVersion, desired, active, failed>>
source == <<at, woken, permitted>>
wire == <<heartbeat, late, lates>>
bounds == <<calls, starts, failures>>
vars == <<server, call, candidate, history, process, state, source, wire, bounds>>

Control == [status : PipelineStatus, version : 1..MaxVersion]
Waiting == {"wait1", "wait2"}
Idle == [kind |-> "none"]
Report == [kind : {"sent"}, status : Reported]
Answer == [kind : {"answered"}, control : Control]

FirstHost == CHOOSE h \in Hostname : TRUE

\* A new project, or one where an agent has a pipeline.
Init ==
  /\ project = "active"
  /\ \/ agent = NoAgent /\ pipeline = NoPipeline /\ registered = {}
     \/ /\ agent = [hostname |-> FirstHost, status |-> "active"] /\ registered = {FirstHost}
        /\ pipeline = [status |-> "enabled", version |-> 1, reported |-> "stopped"]
  /\ call = [o \in Operator |-> NoCall] /\ candidate = FALSE
  /\ replaced = [v \in 1..MaxVersion |-> 0]
  /\ process = "down" /\ localVersion = 1 /\ desired = NoControl
  /\ active = FALSE /\ failed = FALSE
  /\ at = "ended" /\ woken = FALSE /\ permitted = FALSE
  /\ heartbeat = Idle /\ late = {} /\ lates = 0
  /\ calls = 0 /\ starts = 0 /\ failures = 0

-----------------------------------------------------------------------------
(***************************************************************************)
(* Control transactions.  Begin* is what the transaction reads and checks; *)
(* a check that fails ends the call with no effect and is not a step.      *)
(***************************************************************************)

Begin(o, request) ==
  /\ call[o] = NoCall /\ calls < MaxCalls
  /\ calls' = calls + 1
  /\ call' = [call EXCEPT ![o] = request]
  /\ UNCHANGED <<server, candidate, history, process, state, source, wire, starts, failures>>

End(o) == call' = [call EXCEPT ![o] = NoCall]
rest == <<candidate, process, state, source, wire, bounds>>

\* The same status again returns at once and writes no audit row.
BeginSetProjectStatus(o, s) == project # s /\ Begin(o, [op |-> "project", status |-> s])

BeginRegisterAgent(o, h) == project = "active" /\ Begin(o, [op |-> "register", hostname |-> h])

BeginCreatePipeline(o) ==
  /\ project = "active" /\ agent # NoAgent /\ pipeline = NoPipeline
  /\ Begin(o, [op |-> "create"])

BeginUpdatePipelineConfig(o) ==
  /\ pipeline # NoPipeline /\ pipeline.status # "disabled" /\ pipeline.version < MaxVersion
  /\ Begin(o, [op |-> "config", expected |-> pipeline.version])

\* The reported status's word in the desired status's column.
PauseByProjectStopped ==
  IF pipeline # NoPipeline /\ pipeline.status \in {"enabled", "error"}
  THEN [pipeline EXCEPT !.status = "stopped"] ELSE pipeline

PauseByProject ==
  IF pipeline # NoPipeline /\ pipeline.status \in {"enabled", "error"}
  THEN [pipeline EXCEPT !.status = "paused"] ELSE pipeline

SetProjectStatus(o) ==
  /\ call[o] # NoCall /\ call[o].op = "project" /\ End(o)
  /\ project' = call[o].status
  /\ pipeline' = IF project' = "disabled" THEN PauseByProject ELSE pipeline
  /\ UNCHANGED <<agent, history, rest>>

\* Without the comparison of hostnames.
RegisterAnyHost(h) ==
  [row |-> IF agent = NoAgent THEN [hostname |-> h, status |-> "active"] ELSE agent,
   granted |-> TRUE]

\* INSERT ... ON CONFLICT DO NOTHING, then the row of that name: a retry gets
\* the row its first attempt made, another host is refused.
Register(h) ==
  IF agent = NoAgent
  THEN [row |-> [hostname |-> h, status |-> "active"], granted |-> TRUE]
  ELSE [row |-> agent, granted |-> agent.hostname = h]

RegisterAgent(o) ==
  /\ call[o] # NoCall /\ call[o].op = "register" /\ End(o)
  /\ agent' = Register(call[o].hostname).row
  /\ registered' = IF Register(call[o].hostname).granted
                   THEN registered \cup {call[o].hostname} ELSE registered
  /\ UNCHANGED <<project, pipeline, replaced, rest>>

CreatePipeline(o) ==
  /\ call[o] # NoCall /\ call[o].op = "create" /\ End(o)
  /\ pipeline = NoPipeline
  /\ pipeline' = [status |-> "enabled", version |-> 1, reported |-> "stopped"]
  /\ UNCHANGED <<project, agent, history, rest>>

UpdateConfigUnchecked(expected) == pipeline.version >= expected /\ pipeline.status # "disabled"

\* WHERE config_version = $3 AND status <> 'disabled'
UpdateConfig(expected) == pipeline.version = expected /\ pipeline.status # "disabled"

UpdatePipelineConfig(o) ==
  /\ call[o] # NoCall /\ call[o].op = "config" /\ End(o)
  /\ UpdateConfig(call[o].expected)
  /\ pipeline' = [pipeline EXCEPT !.version = @ + 1]
  /\ replaced' = [replaced EXCEPT ![call[o].expected] = @ + 1]
  /\ UNCHANGED <<project, agent, registered, rest>>

\* An error of any statement, the CAS that finds no row, a cancelled request.
Abort(o) == call[o] # NoCall /\ End(o) /\ UNCHANGED <<server, history, rest>>

SetDesiredStatus(s) == [pipeline EXCEPT !.status = s]

\* One UPDATE, whatever the project's status and the pipeline's own.
SetPipelineStatus(s) ==
  /\ pipeline # NoPipeline /\ pipeline.status # s /\ calls < MaxCalls
  /\ calls' = calls + 1
  /\ pipeline' = SetDesiredStatus(s)
  /\ UNCHANGED <<project, agent, call, candidate, history, process, state, source, wire,
                 starts, failures>>

-----------------------------------------------------------------------------
\* The stale-agent job: its CTE selects, its UPDATE goes by the id alone.
others == <<project, pipeline, call, history, process, state, source, wire, bounds>>

\* Any time may have passed since the last heartbeat.
MarkStaleSelect ==
  /\ ~candidate /\ agent # NoAgent /\ agent.status = "active"
  /\ candidate' = TRUE /\ UNCHANGED <<agent, others>>

MarkStaleUpdate ==
  /\ candidate /\ candidate' = FALSE
  /\ agent' = [agent EXCEPT !.status = "stale"]
  /\ UNCHANGED others

-----------------------------------------------------------------------------
(***************************************************************************)
(* The agent's PipelineState: every operation holds its mutex.             *)
(***************************************************************************)
static == <<server, call, candidate, history>>

controlKnown == desired # NoControl

runnableLocked ==
  /\ ~failed
  /\ controlKnown => desired.status = "enabled" /\ desired.version = localVersion

\* The desired state looked at before the failure.
reportControlFirst ==
  CASE controlKnown /\ desired.status \in {"paused", "disabled"} -> "stopped"
    [] failed /\ ~(controlKnown /\ desired.status \in {"paused", "disabled"}) -> "error"
    [] OTHER -> IF active THEN "running" ELSE "stopped"

reportLocked ==
  CASE failed -> "error"
    [] ~failed /\ controlKnown /\ (desired.version # localVersion \/ desired.status = "error") -> "error"
    [] ~failed /\ controlKnown /\ desired.version = localVersion
         /\ desired.status \in {"paused", "disabled"} -> "stopped"
    [] OTHER -> IF active THEN "running" ELSE "stopped"

signalNobody == woken' = woken

\* Closing the current channel wakes whoever captured it.
signalLocked == woken' = TRUE

\* What the server last told this agent, however the code evaluates it.
Allowed(control) ==
  ~failed /\ control \in {NoControl, [status |-> "enabled", version |-> localVersion]}

\* The process starts with some version of the configuration file.
NewPipelineState(v) ==
  /\ process = "down" /\ pipeline # NoPipeline /\ starts < MaxStarts
  /\ starts' = starts + 1 /\ process' = "starting"
  /\ localVersion' = v /\ desired' = NoControl /\ active' = FALSE /\ failed' = FALSE
  /\ UNCHANGED <<static, source, wire, calls, failures>>

Start ==
  /\ process = "starting" /\ process' = "up"
  /\ active' = TRUE /\ failed' = FALSE
  /\ at' = "check1" /\ woken' = FALSE /\ permitted' = FALSE
  /\ UNCHANGED <<static, localVersion, desired, wire, bounds>>

\* The process stops or dies; a request on its way may still arrive.
Exit ==
  /\ process # "down" /\ process' = "down"
  /\ localVersion' = 1 /\ desired' = NoControl /\ active' = FALSE /\ failed' = FALSE
  /\ at' = "ended" /\ woken' = FALSE /\ permitted' = FALSE
  /\ heartbeat' = Idle
  /\ late' = IF heartbeat.kind = "sent" THEN late \cup {heartbeat.status} ELSE late
  /\ UNCHANGED <<static, lates, bounds>>

\* runPipeline returns an error: this pipeline is over, the others go on.
Fail ==
  /\ process = "up" /\ at # "ended" /\ failures < MaxFailures
  /\ failures' = failures + 1
  /\ failed' = TRUE /\ active' = FALSE
  /\ at' = "ended" /\ woken' = FALSE /\ permitted' = FALSE
  /\ UNCHANGED <<static, process, localVersion, desired, wire, calls, starts>>

-----------------------------------------------------------------------------
\* The source goroutine: WaitUntilRunnable, NextRecord, WaitUntilRunnable, send;
\* another one begins when the file has been rotated.
quiet == <<static, process, state, wire, bounds>>

WaitUntilRunnable(from, wait, to) ==
  \/ at = from /\ runnableLocked /\ at' = to /\ woken' = FALSE /\ UNCHANGED <<permitted, quiet>>
  \/ at = from /\ ~runnableLocked /\ at' = wait /\ woken' = FALSE
       /\ UNCHANGED <<permitted, quiet>>
  \/ at = wait /\ woken /\ at' = from /\ woken' = FALSE /\ UNCHANGED <<permitted, quiet>>

NextRecord ==
  /\ at = "read" /\ at' = "check2" /\ permitted' = Allowed(desired)
  /\ UNCHANGED <<woken, quiet>>

\* NextRecord returns RotationRequired, the pipeline switches files.
startSource == at = "read" /\ at' = "check1" /\ UNCHANGED <<woken, permitted, quiet>>

noSecondWait == at = "check2" /\ at' = "send" /\ UNCHANGED <<woken, permitted, quiet>>

secondWait == WaitUntilRunnable("check2", "wait2", "send")

Send == at = "send" /\ at' = "check1" /\ permitted' = FALSE /\ UNCHANGED <<woken, quiet>>

-----------------------------------------------------------------------------
\* Heartbeats: one request at a time, its answer applied before the next tick.
agentSide == <<process, localVersion, active, failed, at, woken, permitted, bounds>>

Reports ==
  /\ process # "down" /\ heartbeat = Idle
  /\ heartbeat' = [kind |-> "sent", status |-> reportLocked]
  /\ UNCHANGED <<static, desired, late, lates, agentSide>>

ReportStatus(report) == [pipeline EXCEPT !.reported = report]
SeenAgent == [agent EXCEPT !.status = IF @ = "stale" THEN "active" ELSE @]

\* The transaction: the agent row, the reported status, the desired state.
Heartbeat(report) == pipeline' = ReportStatus(report) /\ agent' = SeenAgent

\* The desired state its answer carries.
ListByAgent == [status |-> pipeline.status, version |-> pipeline.version]

HeartbeatAnswered ==
  /\ heartbeat.kind = "sent" /\ Heartbeat(heartbeat.status)
  /\ heartbeat' = [kind |-> "answered", control |-> ListByAgent]
  /\ UNCHANGED <<project, call, candidate, history, desired, late, lates, agentSide>>

\* Refused, rolled back, or unreachable: the agent hears an error.
HeartbeatFails ==
  /\ heartbeat.kind # "none" /\ heartbeat' = Idle
  /\ UNCHANGED <<static, desired, late, lates, agentSide>>

HeartbeatTimeout ==
  /\ heartbeat.kind = "sent" /\ lates < MaxLate
  /\ lates' = lates + 1 /\ late' = late \cup {heartbeat.status} /\ heartbeat' = Idle
  /\ UNCHANGED <<static, desired, agentSide>>

HeartbeatLate(r) ==
  /\ r \in late /\ late' = late \ {r} /\ Heartbeat(r)
  /\ UNCHANGED <<project, call, candidate, history, desired, heartbeat, lates, agentSide>>

\* A lost request; also a pooled connection that closes.
HeartbeatLost(r) ==
  /\ r \in late /\ late' = late \ {r}
  /\ UNCHANGED <<static, desired, heartbeat, lates, agentSide>>

Apply ==
  /\ heartbeat.kind = "answered" /\ heartbeat' = Idle
  /\ desired' = heartbeat.control /\ signalLocked
  /\ permitted' = IF at \in {"check2", "wait2"} THEN Allowed(heartbeat.control) ELSE permitted
  /\ UNCHANGED <<static, process, localVersion, active, failed, at, late, lates, bounds>>

-----------------------------------------------------------------------------
Transaction(o) ==
  \/ SetProjectStatus(o) \/ RegisterAgent(o) \/ CreatePipeline(o)
  \/ UpdatePipelineConfig(o) \/ Abort(o)

runHeartbeat == Reports \/ HeartbeatFails \/ HeartbeatTimeout \/ Apply

sourceStep ==
  \/ WaitUntilRunnable("check1", "wait1", "read") \/ NextRecord \/ startSource
  \/ secondWait \/ Send

Next ==
  \/ \E o \in Operator :
       \/ \E s \in {"active", "disabled"} : BeginSetProjectStatus(o, s)
       \/ \E h \in Hostname : BeginRegisterAgent(o, h)
       \/ BeginCreatePipeline(o) \/ BeginUpdatePipelineConfig(o)
       \/ Transaction(o)
  \/ \E s \in Asked : SetPipelineStatus(s)
  \/ MarkStaleSelect \/ MarkStaleUpdate
  \/ \E v \in 1..MaxVersion : NewPipelineState(v)
  \/ Start \/ Exit \/ Fail \/ sourceStep
  \/ runHeartbeat \/ HeartbeatAnswered
  \/ \E r \in Reported : HeartbeatLate(r) \/ HeartbeatLost(r)

\* The scheduler runs every goroutine, transactions and statements end.  The
\* file need not have another line and the spool need not have room: neither
\* NextRecord nor Send is fair.
Fairness ==
  /\ WF_vars(Start) /\ WF_vars(Reports) /\ WF_vars(Apply)
  /\ WF_vars(WaitUntilRunnable("check1", "wait1", "read")) /\ WF_vars(secondWait)
  /\ WF_vars(\E r \in Reported : HeartbeatLate(r) \/ HeartbeatLost(r))
  /\ WF_vars(HeartbeatAnswered \/ HeartbeatFails)
  /\ \A o \in Operator : WF_vars(Transaction(o))

Spec == Init /\ [][Next]_vars /\ Fairness

-----------------------------------------------------------------------------
(***************************************************************************)
(* Properties.                                                             *)
(***************************************************************************)

\* The rows are rows, and the agent holds a record only where the code does.
TypeOK ==
  /\ project \in {"active", "disabled"} /\ candidate \in BOOLEAN
  /\ agent \in AgentRow \cup {NoAgent} /\ pipeline \in PipelineRow \cup {NoPipeline}
  /\ desired \in Control \cup {NoControl} /\ localVersion \in 1..MaxVersion
  /\ heartbeat = Idle \/ heartbeat \in Report \cup Answer
  /\ candidate => agent # NoAgent
  /\ process # "down" => pipeline # NoPipeline
  /\ at \in Waiting \cup {"check1", "read", "check2", "send", "ended"}
  /\ permitted => at \in {"check2", "wait2", "send"}

\* Two operators who edit the same version of a pipeline's configuration do
\* not both succeed (UpdatePipelineConfig reads, then updates conditionally).
ConfigReplacedOnce ==
  pipeline # NoPipeline =>
    \A v \in 1..MaxVersion : replaced[v] = IF v < pipeline.version THEN 1 ELSE 0

\* Hosts that register one name at once, again after a lost answer, or late:
\* those told they are the agent are one host (AgentRepository.Register).
OneHost ==
  /\ Cardinality(registered) <= 1
  /\ registered # {} => agent # NoAgent /\ agent.hostname \in registered

\* A stop that is applied while the source reads, or while it holds the record
\* before its second check or waits there, holds the record until the pipeline
\* is allowed again, however often that changes.  A stop after the second check
\* lets the one record through: check and send are not atomic in the code.
StoppedRecordHeld == [][Send => permitted]_vars

Answered == []<><<Apply>>_vars
Up == process = "up"
Agreed == pipeline # NoPipeline /\ pipeline.status = "enabled" /\ pipeline.version = localVersion

\* A pipeline that may run for good does not keep its source waiting, whether
\* or not another heartbeat comes: a state applied between the check and the
\* select of WaitUntilRunnable wakes it.  And while heartbeats are answered, a
\* pipeline the server wants enabled, in the version the agent has, ends up
\* with its source not waiting, and one it does not want, or wants in another
\* version, stops passing records on.
Steered ==
  /\ <>[](Up /\ runnableLocked) => <>[](at \notin Waiting)
  /\ Answered =>
       /\ <>[](Up /\ Agreed /\ ~failed) => <>[](at \notin Waiting)
       /\ <>[](Up /\ ~Agreed) => <>[][~Send]_vars

\* And the server ends up knowing: a pipeline that failed is reported as failed
\* for good, whatever heartbeat arrives late and whatever is paused, and a
\* stale mark that overtook the heartbeat it had not seen does not last.
Informed ==
  Answered =>
    /\ <>[](Up /\ failed) => <>[](pipeline # NoPipeline /\ pipeline.reported = "error")
    /\ []<>(agent # NoAgent /\ agent.status = "active")
=============================================================================
