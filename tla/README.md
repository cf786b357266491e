# gline: a TLA+ verification project

gline ships log lines from files to a PostgreSQL-backed server.  Its promise is
*at least once on the wire, exactly once in the table*: the agent deletes a line
locally only when the server has it, and the server stores a batch once however
often it is sent (`docs/adr/0003-at-least-once-idempotency.md`).  The modules
here state that promise over the code that keeps it, check it with TLC on small
instances and prove parts of it with TLAPS for every instance.

## 1. The system

| Component | State | Operations | Talks to |
|---|---|---|---|
| Spool, `internal/agent/spool/wal.go` | a log file, its backup and its replacement; maps of pending and quarantined batches, checkpoints, `usedBytes`; a one-slot channel `changed` | Open (recovery), Commit, Ack, Quarantine, Transition, Pending/Peek, Close, compaction | called by pipelines, dispatcher and the quarantine command, under one mutex |
| Pipelines, `internal/agent/reliable/agent.go`, `batch.go` | entries not yet committed and the position they reach | read a record, flush (by size, ticker, shutdown), wait for space, rotate | source, spool |
| Dispatcher and transport, `dispatcher.go`, `transport.go` | per-batch attempt count and `blockedUntil` | pick the oldest batch that is not backing off, send, ack, quarantine, back off, stop | spool, server |
| Pipeline control and heartbeat, `control.go`, `heartbeat.go` | desired state, failures, a broadcast channel | apply a snapshot, wait until runnable | server control plane |
| File source, `internal/agent/source/durable_file.go` | open file, offset, identity, partial line | next record, detect rotation, rotate | the file system, `Spool.Transition` |
| Ingest, `internal/server/ingest/service.go`, `storage/postgres/ingest.go` | `ingest_batches`, `log_entries` | Accept (one transaction) | admission, control tables |
| Admission, `internal/server/admission/limiter.go` | token buckets, in-flight counts | AllowIngest, Commit, Release, TTL clean-up | ingest |
| Query, `internal/server/query`, `bootstrap/limiter.go` | per-project semaphores, cursors | Search, Acquire, release | entries |
| Server quarantine, `internal/server/operations`, `storage/postgres/quarantine.go` | rows pending, replaying, resolved, discarded | claim, replay, release, discard, requeue expired | ingest, maintenance worker |
| Control plane, `internal/server/control`, `storage/postgres/{agent,pipeline,project,api_key,usage,audit}.go` | projects, agents, pipelines, keys, audit | register, heartbeat, configure, disable, mark stale | agents, operators |
| Maintenance and retention, `internal/server/maintenance`, `storage/postgres/retention.go` | nothing of its own | delete old entries, requeue, mark stale | the database |
| Lifecycle and migrations, `bootstrap/application.go`, `storage/postgres/migrate.go` | listeners, worker, schema version | start, drain, stop, migrate under a lock | everything |
| Legacy agent, `internal/agent/{agent,sourcePipeline}.go`, `sender/` | an in-memory batch | batch or tick, send | destination |

What is hard here: the process can die between any two file operations of the
spool; compaction replaces the log with two renames; dispatcher and pipelines
share one notification slot; replies are lost and requests arrive late; several
server actors update one row in separate transactions.  `PROJECT.json` lists
these hazards at the lines where they bite, with the properties that cover them.

What makes the components correct:

* spool - memory is what a restart would recover; no crash or failed call loses,
  revives or reorders a batch, or moves a checkpoint without its batch; the byte
  budget is exact;
* agent - every line below a checkpoint is in exactly one batch; a batch leaves
  the spool only when it is stored or discarded by an operator; everything is
  settled in the end; a waiting goroutine is woken when it can go on;
* durable file - records are whole lines, checkpoints are exact, a file is left only
  when it is drained, and no line is committed twice;
* ingest - concurrent requests look as if served one after the other: accepted or
  duplicate is said only of what is durably stored with this very payload; nothing is
  stored for a request that began after its key, project or pipeline was closed (one that
  checked them before may still be stored after); budgets are exact;
* server quarantine - a resolved row is stored, once; the audit trail adds up; no claim
  lasts for ever;
* control plane - no edit is lost, one host is the agent, a stop holds every record that
  has not passed its second check, and agent and server end up agreeing;
* query and retention - a walk over the pages misses and repeats nothing; what is
  deleted is justified by a policy; a project converges to its limits.

## 2. Modules

| Module | Models | How it is used |
|---|---|---|
| `SpoolData` | batches, sources, sizes, calls: the data of the spool | extended by `Spool` and `Wal` |
| `Spool` | the abstract spool: a FIFO queue, a dead-letter set and checkpoints, and what its four calls do | extended by `SpoolCalls` and `Agent` |
| `SpoolCalls` | when they do it: one call in flight, which takes effect once or returns without effect | abstract specification of `Wal` |
| `Wal` | `wal.go`: files, memory, append, rollback, recovery, compaction, crash | `ImplementsSpool` instantiates `SpoolCalls` |
| `Agent` | pipelines + spool + channel + dispatcher + network + ingest | composes the components |
| `DurableFile` | `durable_file.go` with the flush and the rotation of `runPipeline`, against an application and logrotate | the positions `Agent` takes as line numbers, in bytes |
| `IngestLedger` | the abstract ledger: each batch once, each answer true | abstract specification of `Ingest` |
| `Admission` | `limiter.go`: buckets, in-flight counts, clean-up, as operators on the limiter's state | extended by `Ingest` |
| `Canonical` | `protocol.go`: the canonical form of numbers, and the value it must denote | extended by `Ingest` |
| `Ingest` | authentication, admission and the ingest transaction, statement by statement | `ImplementsLedger` instantiates `IngestLedger` |
| `Quarantine` | `operations/service.go`, `storage/postgres/quarantine.go`, the recovery of claims | composes replay, maintenance and agents' deliveries over the ledger |
| `ControlPlane` | `control/service.go`, agents, pipelines and projects in PostgreSQL, `heartbeat.go`, `control.go`, the source goroutine's two waits, the stale-agent job | composes server, network and agent |
| `Entries` | `query/service.go`, `bootstrap/limiter.go`, `entry.go`, `worker.go`, `retention.go` | composes readers, limiter, writers and the worker |
| `MCWal`, `MCAgent`, `MCFile`, `MCIngest`, `MCEntries` | values of the constants for TLC, symmetry | |
| `SeqFilter` | `Kept`: the elements of a sequence that belong to a set, in order, as a recursive function | extended by `Entries` and `Wal` |
| `DataLemmas` | facts about `ToSet`, `RemoveFirst`, `Append`, injective sequences, `Kept`, the minimum of a set, sums over finite sets | extended by the theorem modules |
| `WalProofs`, `AgentProofs`, `FileProofs`, `IngestProofs`, `QuarantineProofs`, `ControlPlaneProofs`, `EntriesProofs` | theorems | |

### Wal

`w.mu` makes operations exclusive, so the operation in progress is a value of
`phase`.  An append goes `append -> written -> ready` (`Write`, `Sync`), or to
`rollback` when a call fails (`WriteFails`, `SyncFails`, `rollbackAppend`); an Ack
that leaves the file larger than the threshold goes on to the compaction
(`CompactPending`, `CompactQuarantined`, `CompactCheckpoint`, `CompactSync`,
`RenameOld`, `RenameNew`, `Reopen`, with `CompactFails` for the early returns).
`dead` is a spool whose handle is gone.  `Crash` is possible everywhere and may
keep, tear or lose an unsynced record.  `Open` is `recoverReplacement`, `OpenFile`
and one `RecoverRecord` per record, ending in `RecoverDone`, `truncateTail` or
`RecoverCorrupt`.

What is durable is the queue, the dead letters and the checkpoints of `DurableLog`, the
files a restart would read.  `ImplementsSpool` maps them to `SpoolCalls`, and the record
being appended, with the position its Transition compared (`compared`), to the call in
flight (`CallInFlight`).  So a checkpoint may move alone only to where the Transition in
flight moves it and only from where that call found it; a compaction that reads a stale
commit last, a crash or a rollback that moved one would be no step of `SpoolCalls`.

External assumptions: fsync is durable; renames, removals and truncations are
atomic and take effect in order; identifiers are never minted twice (`Minted`).
`MaxBytes` does not change between restarts.

### Agent

A pipeline is in `read`, `commit`, `full` (ErrFull seen, not yet waiting), `wait`,
`failed` or `stopped`; the dispatcher in `next`, `send`, `park` (about to wait),
`wait` or `off`.  `full` and `park` are the windows between looking at the spool
and receiving from the channel.  The channel is Go's: a send goes to the goroutine
that has waited longest (`waitq`), else into the slot (`token`), else nowhere.
`late` holds requests the client has given up and that may still arrive.  401
stands for every terminal status (401, 403, 404), 422 for 400, 413 and 422.
A source is a file of numbered lines; parsing does not fail a line
(the code ships an unparsed one as it is), so it does not appear.  The operator
is assumed to discard local dead letters only while the agent is down.

### DurableFile

The file system is `path` (what the configured name points to), the bytes of every
file and the application's own handle; `Rename`, `Create`, `CopyTruncate` and
`Delete` are logrotate.  A line is two bytes, the second its newline, so that every
line can be read in two pieces.  The source is `read` (inside `ReadString`, with its
buffer), `eof` (about to look at the path), `send` (a record on the unbuffered
channel), `rotate` (it returned ErrSourceRotated) or `failed`.  `Flush` may happen in
every state of the source, since the ticker runs beside it; it is the spool's atomic
commit of records and checkpoint, as `Wal` provides it.  `Rotate` is the
compare-and-set `Transition` and the switch of handles.  A crash between the two is
`Rotate` and then `Crash`: the handles die with the process.

External assumptions: files are appended to, and an identity is reused only after
its file was deleted and closed.  With `LateWriter` the application begins new lines
in a file that was renamed; without it, it finishes the line it is in.

### Ingest, Admission, Canonical, IngestLedger

A request goes `idle`, `admit` (its clock reading taken before the limiter's lock),
then through the statements of the transaction: `GetProject`, `GetPipeline`,
`InsertBatch` (which waits for an uncommitted insert of the same key, as PostgreSQL's
unique index does), `FindBatch` on a conflict, `AddUsage`, `Commit`, and `Finish`, which keeps or refunds the reservation.  `Fail` is any
error or cancellation, `CommitUnheard` a commit whose answer is an error.  The usage row is
one per minute and an update waits for an uncommitted one of the same minute; the minute
is left out, `usage` is their sum, and `AddUsage` never waits, which allows every order the
rows allow.  What
operators change between the statements is `Change`; `seen` records which boundaries
were open at some moment of the request.  Tokens are integers in parts of a minute, so
that refills are exact.  `Canonical` spells a payload as the one number in it:
`canonicalNumber` is computed digit by digit, and `CanonicalExact` compares it with the
value of the literal, for every literal of the bounds a retry may bring.

### Quarantine

A replay is a claim, `Accept` and a resolution or a release, each a transaction of its
own; `Abandon` is a caller that goes away in between.  The age of a claim is abstracted
to whether its lease has expired.  `RequeueExpired` is one SQL statement in two steps,
because under READ COMMITTED its subquery reads a snapshot and its update waits for
rows and takes their new versions without looking at their status again.

### ControlPlane

Every control transaction is what it reads (`Begin...`) and the update that commits.
`Heartbeat` is one step: its reads and its updates concern the rows it locks.  The
agent is its `PipelineState` (`desired`, `active`, `failed`), the source goroutine (`at`)
and one heartbeat request at a time; requests it gave up on stay in `late`.  `permitted`
is a history variable: the state applied last before the second check passed allows the
record in hand.  A stop that arrives between that check and the send lets this one record
through, in the code and here.  `startSource` is the goroutine that begins after a rotation.
Disabled agents are left out: no operation of the server disables one.

### Entries

A reader's request takes a slot (`Acquire`, `TakeToken`, `Refuse`), reads one page in one
statement (`List`), and gives the slot back in two steps (`ReturnToken`, `releaseUser`).
Identifiers are taken before the insert commits, so an entry may appear behind a cursor.
The worker's cycle is `StartCycle` (the policies as listed then), one `AgeRetention` or
`ByteRetention` per statement, and `EndCycle`.  A row counts one byte.

## 3. Runs

| Run | Question | Bounds |
|---|---|---|
| `wal_invariants` | do memory, order and accounting agree with the files in every phase, and what can make Open refuse a log? | 3 batches, 2 sources, truncates fail |
| `wal_refinement` | does the log implement the spool and its calls, and do recovery, append and compaction end? | 2 batches, 5 records |
| `agent_safety` | is every line accounted for, deleted only when stored, stored once; may the dispatcher sleep on a batch it could send? | 3 lines, the third invalid, batches of up to 2, a spool of 2, 3 faults |
| `agent_liveness` | is every line settled in the end? | 2 lines, 3 faults, a spool that never fills |
| `agent_lost_wakeup` (violation) | is a sleeper woken when it has something to do? | 2 sources, a spool of 1 batch, no faults |
| `file_rotation` | are records whole lines, is the checkpoint exact, is a file left only when drained, and is every finished line committed? | 4 lines, 3 identities, 2 renames, 2 faults |
| `file_at_most_once` | is no line committed twice, whatever logrotate does? | 4 lines, 2 identities that are reused, 2 renames, a copytruncate, a deletion, late writers, 2 faults |
| `ingest` | do concurrent transactions implement the ledger; are boundaries, budgets and hashes right; is every request answered? | 3 requests for 2 batches with 2 payloads, 2 in flight, one change or two advances of the clock |
| `quarantine` | is a resolved row stored, does the trail add up, is every claim recovered? | 2 rows, one undecodable, 2 callers, 3 claims of a row |
| `quarantine_terminal` (violation) | does a terminal row stay as it is? | 1 row, 1 caller |
| `control_plane` | are edits, registrations and pauses respected, and do agent and server end up agreeing? | 2 operators, 2 hosts, 2 versions, 2 calls, a start, a failure, a late heartbeat |
| `entries` | are walks exact, slots bounded, deletions justified, and does retention converge? | 2 projects, 4 entries, 2 readers, pages and deletes of 1, 3 events |

Why the bounds are enough.  In the log, two batches of one source are the least
with which a compaction meets a pending and a quarantined one, and the third, of
another source, finds the spool full; four to five records let compaction happen,
crash and happen again.  In the agent, two lines per batch and two identifiers per
range of lines give a batch that died uncommitted and was rebuilt with other bounds;
three faults are a lost reply, a crash and one more; a spool as large as the largest
batch makes ErrFull frequent.  A fault is any crash, stop, lost reply, refusal, outage
or failed call: `MaxFaults` is the only bound on them.

For the file, four lines and two renames give a middle file that is opened, drained
and left; two faults are a crash before the first rotation and one after it.  A
copytruncate can lose lines (a file truncated and grown again between two polls
looks as if it had only grown), so the run with exact checkpoints and liveness
has none.  File identities are interchangeable in `file_at_most_once`, which uses
their symmetry; runs with temporal properties use none.

For ingest, three requests are an insert, one that waits for it, and one of another
batch; two payloads under one identifier make conflicts; a
budget of two entries and three bytes makes refusals and refunds matter.  `MaxWait` is
the number of ticks a request may spend between reading the clock and getting the
limiter's lock; a project's state must outlive a minute and such a wait at either end
(`Minute + 2 * MaxWait <= StateTTL`, while the code's `StateTTL` is ten minutes and at
least two), or a late clock reading could drop a bucket that is still owed.  One change
of a status can fall between any two statements.  For quarantine, two callers and three
claims give a caller that outlives its lease, one that claims after it, and one more
round after recovery.  For the control plane, two calls are the two sides of every
race; a restart with either version is the one start, because `Exit` resets all the
agent keeps.  For entries, pages and deletes of one row make every boundary between
pages and batches happen; two of the entries were observed at one instant.

Runs other than the two of the log switch the deadlock check off: when the bounded
events are used up and all work is done, nothing is left to do.

### Fairness

`Wal!FairSpec`: a started process runs (weak fairness of `Open`, `appendRecord`,
`compactLocked`); no operation is ever forced to be called.
`Agent!FairSpec`: goroutines are scheduled, timers run down, the server answers, an
administrator ends an outage and a service manager restarts the agent.  Lost
replies, crashes, refusals and outages have no fairness and are bounded in number.
`DurableFile!FairSpec`: the source and the pipeline are scheduled, the ticker ticks, a
stopped agent is started again and logrotate creates the file it renamed.  The
application writes when it likes.
`EventuallySettled` is checked with a spool that does not fill up, because of the
next section.
`Ingest!Spec`: the goroutine of a request runs until it has answered; nothing is assumed
of clients and operators.
`Quarantine!FairSpec`: leases expire, the worker's ticker ticks, and its update, which is
retried every cycle, does not fail for ever (strong fairness); callers owe nothing.
`ControlPlane!Fairness`: goroutines are scheduled, transactions end, the heartbeat loop
goes on.  Neither the next line of a file nor room in the spool is assumed, and the
properties say themselves that heartbeats are answered again and again.
`Entries!Spec`: the worker goes on; `Converges` says itself that cycles come to their end.

## 4. What the checks found

* `SleepersWoken` is violated (code bug).  `Spool.Changed()` is one slot, shared by
  the dispatcher and every pipeline that met ErrFull, and whoever receives does not
  pass it on.  After the Ack that empties the spool the dispatcher itself can take
  the notification (it is about to wait), while the pipeline sleeps; with two
  pipelines one can also take the notification of the other's commit, find the
  spool full and leave both itself and the dispatcher asleep.  A later heartbeat or
  timer does not help: an idle dispatcher has no timer.
* `TerminalStable` is violated (document and code differ): `RequeueExpired` updates the
  rows it selected by identifier alone.  A replay that resolves its row after the
  selection, with its lease just expired, is overwritten: the row is pending again
  though its replay was recorded.  `ResolvedStored` and `Quarantine`'s ledger show that
  the next replay is then a duplicate: nothing is stored twice.

Behaviours met while modelling that no run is spent on:

* `rollbackAppend` ignores a failed truncate, so the record of an Ack that returned an
  error can take effect at the next Open, although the comment at `wal.go:182` says that
  the batch stays pending for every earlier failure.  `OpenNeverCorrupt` shows that this
  is the one way to a log that Open refuses.
* A poll between logrotate's rename and create gets an error from `os.Stat`, which ends
  the pipeline (`DetectFails`); `docs/05-reliability-security-observability.md` promises
  a retry.
* After a copytruncate the source counts from 0 while the spool still has the old
  offset.  When the file is renamed and recreated before the next commit, `Transition`
  refuses the position `Rotate` expects and the pipeline ends (`SpoolFails`).
* A pipeline created or enabled by a transaction that read its project before it was
  disabled stays enabled in a disabled project.  `BoundariesHold` shows that ingest does
  not depend on it.
* `ListEnabled` returns the oldest policies up to `MaxProjectsPerCycle`, in every cycle
  the same, and an error of one project ends the cycle: later projects may never be
  served.  `Converges` assumes that cycles come to their end and that the list has room.
* A batch whose project or pipeline is closed, or whose key is revoked, between the checks of
  its transaction and the insert is stored: the checks lock nothing.  `BoundariesHold` states
  what is left of the boundary.
* A retention cycle goes on with the policies it listed at its start, also when they are
  changed or disabled meanwhile; `DeletionJustified` judges a deletion by the listed policy.
* A record that passed the second check of the source is sent even if a stop is applied
  before the send.
* One pipeline the server does not know rolls a whole heartbeat back.

## 5. What is proved

* `AgentTyped`, `DeletionNeedsStorage`, `LinesAlwaysAccounted`, `LinesStoredOnce`,
  `WorkAlwaysAnnounced` (`AgentProofs`), for every set of sources and batches, every size and
  every number of faults, from the named assumptions on the constants.
* `AgentTyped` needs to know who waits on the channel (`WaitersQueued`): a flushing
  pipeline must hold a batch for its wake-up to be well typed.
* `WorkAnnounced` is the part of the wake-up protocol that does hold beside `SleepersWoken`:
  the dispatcher sleeps on a batch it could send, with no timer for it, only while a pipeline
  is in its flush, or failed in it, and may have taken the notification.  The strengthening
  (`AnnounceInv`) follows the batch from the moment the dispatcher has looked at the queue
  (`park`): a batch that was not there then was committed since, and its signal is still in
  the slot, woke the dispatcher, or went to a pipeline; and a batch that backs off is one the
  timer is set for.
* `DeletedOnlyWhenStored` needs that a positive reply in the dispatcher's hands is
  about the batch it is sending and that this batch is stored: the strengthening
  ties `reply`, `cur` and `copies` together while `disp = "send"`.
* `LinesAccounted` and `StoredOnce` rest on `LinesInv`: the batches that ever entered the spool
  lie one behind the other up to the checkpoint of their source, without gap or overlap
  (`LayoutInv`); a batch being flushed starts where the checkpoint ends, which holds because only
  its own pipeline moves that checkpoint and a pipeline that reads holds no batch (`FlushInv`);
  and what the server was ever asked to store, also by requests still on their way, had
  entered the spool and was stored once (`RequestInv`).  A batch that died uncommitted with its
  process was therefore never sent, whatever its bounds were.
* `AgentLosesNoLine` puts these together end to end: every line below a source's durable
  checkpoint, which the agent will never read again, is pending, in the local quarantine,
  stored by the server or discarded by the operator (`NoLineLost`), and no step moves a
  checkpoint back or makes spool, server or operator forget a batch (`NothingTakenBack`).
  `LayoutInv` names the batch that covers the line, `DeletedOnlyWhenStored` says who has it once
  it has left the spool; a checkpoint only advances because a commit starts behind it.
* `WalTyped`, `SpoolNeverCorrupt`, `SpoolMirrorsLog`, `SpoolCapacity` and the refinement
  `WalImplementsSpool` (`WalProofs`), for any batches, sources, sizes, capacity and length of
  the log, with a crash or a failed call at every step.  The inductive invariant is
  `SpoolInv`, checked by TLC on the instance of `MCWal.cfg` before it was proved.  A log is
  `Sound` when each of its records may stand behind the ones before it (no second commit,
  acks and quarantines of batches that are there, within capacity), and `Recoverable` when it
  is sound up to at most one torn record at its end.  `LogInv` says which of the two every
  phase guarantees of `DurableLog`, and that memory `Mirrors` it, while recovering the part
  read so far; `CompactInv` says what the replacement holds in each of the three loops, so
  that at the renames it mirrors the same memory as the log it replaces; `InflightInv` ties
  the record being appended to what it left in the file.  `LogInv` is claimed only while no
  rollback has failed: after one, a record the process believes undone is still in the
  file, and later records need not fit behind it.  `MemoryInv` (lists, maps and byte
  counter agree) and the types hold even then.
* `WalImplementsSpool` assumes `~TruncateMayFail`, as its run does.  A running process's step
  that leaves memory alone is invisible because both logs mirror that memory: this covers
  write, rollback and all of a compaction.  The beginning of an append is the beginning of
  the call; `Sync`, and a crash after which the whole record is in the file, are its effect; a
  rollback that ends and a crash that loses the record return it without one.  `CallInv` says
  that the record being appended is one a call may append and that a Transition's source is
  still at the position it compared; recovery and the truncation of a torn record change
  nothing a reader of the log can see.
* `SpoolHoldsOnceInOrder`, under the same assumption, says what its users rely on, of the files
  alone: at every moment, inside an append, a rollback or a compaction too, what a restart
  would recover has each batch once, in the queue or dead-lettered, and none that was
  acknowledged (`HeldOnce`); and no step loses a batch, queues an acknowledged or dead-lettered
  one again, or lets one overtake another (`HeldInOrder`).  Both are proved with the abstract
  operations alone (`MovesKeep`), then carried over to the files along the refinement.
* `QuarantineTyped`, `ResolvedAlwaysStored`, `AuditAlwaysMatches` (`QuarantineProofs`),
  for every finite set of callers and any rows and number of claims.  `ResolvedStored`
  needs `AcceptedStored`: a caller whose Accept succeeded knows that the batch is in the
  ledger even if the claim is no longer its own, and nothing leaves the ledger.
  The audit counters are bounded only because the trail adds up, so type and trail are
  proved together; `Holders` counts the callers of a row, and one lemma per kind of step
  says how a claim and a return change that count.
* `ResolutionsStand` bounds the finding about resolved rows that are taken back (section 4): a
  row whose resolution was ever recorded, whatever its status is by now, has its own
  payload in the ledger, once (`EverResolvedStored`), because a caller resolves only what is in
  the ledger, and nothing strikes an audit record, replaces a payload or stores it again
  (`HistoryStands`).  A replay after such a requeue stores nothing.
* `ControlTyped`, `OneHostAlways`, `ConfigReplacedOnceAlways` and the action property
  `StoppedRecordAlwaysHeld` (`ControlPlaneProofs`), for any operators, hosts, versions and
  bounds, and `WakeupNeverLost`, on which the first part of `Steered` rests: a source that
  waits while its pipeline may run has been woken.  The invariant has a server part (rows are never removed, a call that creates a
  pipeline has seen the agent, the edits that succeeded are those of the versions before
  the current one), a process part (until its second check passes a record is
  permitted just when the desired state allows it: what `Apply` and `NextRecord` both
  maintain and the second wait relies on), and a link (only an agent with a pipeline runs or has
  heartbeats on their way).

* `FileTypeCorrect` and `FileDeliversOnce` (`FileProofs`), for every set of identities and
  lines, every number of renames, truncations, deletions and faults, with or without late
  writers.  `DeliveredOnce` follows from an order on lines: what is committed, what the
  pipeline holds, what the reader has in its buffer and what the open file has beyond its
  offset come one after the other, and a restart reads from a place before which all
  committed lines of that file lie.  A truncation only drops lines, so the order survives it.
* `FileRecordsWhole`, `FileCheckpointExact` and `FileRotationDrains`, for every instance in
  which files only grow (`OnlyGrow`: no copytruncate and no deletion), the last also without
  late writers.  The hypotheses are those of the code: a file truncated and grown again
  between two polls looks as if it had only grown, and a writer that begins a line in a
  renamed file after the last read is not waited for.  `WholeInv` says what a reader's
  buffer and position are parts of; `CoverInv` says that every finished line of a file up to a
  position is committed or in hand, for the four positions there are (checkpoint, entries,
  source, path); `DrainInv` that a file that was renamed and left holds nothing else.
* `IngestTypeCorrect`, `IngestStoresOnce`, `IngestAdmitsExactly`, `IngestBoundariesHold`
  and `IngestRefinesLedger` (`IngestProofs`), for every finite set of requests and any
  batches, payloads, budgets and number of changes.  The limiter's part says that tokens and
  what was spent never exceed the burst and the refill, that a project whose state was
  dropped is settled, and that a project's count is the number of requests that hold a
  reservation; the transaction's part that one uncommitted insert at most exists per batch
  and that a request past a statement has seen what the statement reads.  The last theorem is
  the safety part of the refinement: initial states are the ledger's, and each step is a step of
  the ledger or leaves it as it is.
* `IngestCanonicalExact` (`IngestProofs`), for every digit set, length and exponent the constants
  allow: writing an accepted literal keeps its value, two literals are written alike exactly
  when they have one value, and what is stored is written that way.  A value is the set of the
  non-zero digits with their powers of ten (`Places`).  Trimming drops zeroes only
  (`TrimmedDigits`), each of the four layouts of `canonicalNumber` puts the digits at the places
  they had (`WrittenPlaces`), and significant digits are determined by their places
  (`PlacesTell`), so that numerals of one value are laid out alike.  The proof needs to know
  that what requests bring are literals; `IngestAssumption` says so.
* `IngestToldTruly` joins that theorem and the refinement into what a sender may conclude:
  it is told accepted or duplicate only of a batch that is stored with a payload of the value it
  sent, however that was spelled then or now, and conflict only of one stored with another
  value (`ToldTruly`); what is stored is never changed (`StoredForGood`), so that the answer is
  still true when it arrives late.  The ledger's rules keep its answers true (`LedgerAnswers`),
  and the refinement makes every step of the transactions one of these rules.
* `EntriesTypeCorrect`, `EntriesWalksExact`, `EntriesConcurrencyBounded` and
  `EntriesDeletionJustified` (`EntriesProofs`), for every finite set of readers and any rows,
  pages and limits.  A walk is exact because its cursor separates the rows it has returned
  from the rows it has not, in the order of the pages, and a page is a prefix of what
  is left; the semaphores count the readers that hold them, also while a slot is half
  returned.
* `DataLemmas` has the facts on sequences, filters, minima and sums, proved from their
  definitions.  Where a fact needs induction over a set or a number, the induction is stated
  with the set of the elements that satisfy it, which the provers can instantiate.

Only model-checked: liveness (`EventuallyOpen`, `EventuallySettled`, `EventuallyDelivered`,
`EventuallyAnswered`, `ClaimsRecovered`, `Steered`, `Informed`, `Converges`), which is out of the prover's reach.  Every safety property of a passing run is stated by a theorem; the theorems
`AgentLosesNoLine`, `SpoolHoldsOnceInOrder`, `ResolutionsStand` and `IngestToldTruly` state what
follows from several of them and no run checks by itself.

## 6. What is not modelled

* Record encoding and checksums (a record is whole or torn), the bytes of a payload
  other than its numbers, wall-clock time, metrics and logging, the listing and export
  of dead letters.
* A record larger than the whole spool, two processes on one spool and a changed
  `MaxBytes` (the first two are listed as hazards).
* Creation of projects, creation and rotation of keys: they insert fresh rows nobody
  else has.  `QuarantineRepository.Create` and `ClaimPending`, which the server does not
  call.
* The decoding and validation of requests beyond numbers: data checks without state.
* Migrations: SQL files under PostgreSQL's advisory lock.  Start and shutdown of the
  server: a fixed sequence of calls.  Configuration and metrics.
* The legacy in-memory agent: nothing in it is durable or acknowledged.

PostgreSQL's own guarantees (READ COMMITTED snapshots, unique indexes, row locks,
rollback) are assumed as the modules' comments say.

## 7. Plan

The modules of the plan are written, and every safety property of a passing run is proved.
What remains is to shorten proofs, and to prove under which hypothesis on the lease
`TerminalStable`, which the code violates, does hold.
