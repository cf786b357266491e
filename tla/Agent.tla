-------------------------------- MODULE Agent --------------------------------
(***************************************************************************)
(* The reliable agent end to end: its pipelines, the spool they share, the *)
(* dispatcher that drains it over HTTP, and the server's idempotent        *)
(* ingest.  internal/agent/reliable/{agent,dispatcher,transport}.go and    *)
(* internal/server/ingest/service.go.                                      *)
(*                                                                         *)
(* The spool is the abstract one (module Spool, implemented by Wal) plus   *)
(* its one-slot notification channel (WAL.changed), on which the           *)
(* dispatcher waits for work and every pipeline waits for space.  A        *)
(* channel operation is Go's: a send goes to the goroutine that has waited *)
(* longest, else into the slot, else nowhere.                              *)
(***************************************************************************)
EXTENDS Spool

CONSTANTS
  LoOf,         \* batch b holds the lines LoOf[b]..PosOf[b] of source KeyOf[b]
  Lines,        \* Lines[k]: lines source k ever holds
  BatchSize,    \* AgentOptions.BatchSize
  Invalid,      \* batches the server's validation refuses (HTTP 422)
  Dispatcher,   \* the dispatcher, as a waiter on the channel
  NoBatch,
  MaxFaults     \* model bound: crashes, lost replies, failures and outages

ASSUME AgentAssumption ==
  /\ LoOf \in [Batch -> Nat]
  /\ \A b \in Batch : 0 < LoOf[b] /\ LoOf[b] <= PosOf[b] /\ Size[b] = PosOf[b] - LoOf[b] + 1
  /\ Pos \subseteq Nat /\ 0 \in Pos
  /\ Lines \in [Source -> Nat]
  /\ BatchSize \in Nat \ {0}
  /\ Invalid \subseteq Batch
  /\ Dispatcher \notin Source
  /\ NoBatch \notin Batch
  /\ MaxFaults \in Nat

VARIABLES
  agent,      \* the process: up, stopping (its context cancelled) or down
  pl,         \* where every pipeline goroutine is
  read,       \* last line a pipeline has taken into its entries
  batch,      \* batch a pipeline is committing
  disp,       \* where the dispatcher is
  cur,        \* batch it is sending
  armed,      \* batches its timer is set for: it rings when the first may be sent
  blocked,    \* batches whose blockedUntil is in the future
  token,      \* the channel's slot is full
  waitq,      \* goroutines blocked receiving from the channel, in order
  reply,      \* answer to the request in flight: none, or [status, code]
  late,       \* requests the dispatcher gave up, still on their way
  copies,     \* copies[b]: times the entries of b were inserted
  server,     \* ok, unavailable (disabled resources) or unauthorized
  discarded,  \* batches an operator discarded
  faults

procVars == <<agent, pl, read, batch>>
dispVars == <<disp, cur, armed, blocked>>
chanVars == <<token, waitq>>
netVars == <<reply, late, copies, server>>
vars == <<spoolVars, procVars, dispVars, chanVars, netVars, discarded, faults>>

Reply(s, c) == [status |-> s, code |-> c]
NoReply == Reply(0, "")
Replies == {NoReply, Reply(200, "accepted"), Reply(200, "duplicate"),
            Reply(401, "invalid_credential"), Reply(409, "resource_unavailable"),
            Reply(422, "invalid_batch"), Reply(429, "rate_limited"), Reply(500, "internal_error")}

Covers(b, k, n) == KeyOf[b] = k /\ LoOf[b] <= n /\ n <= PosOf[b]

PipelineAt == {"read", "commit", "full", "wait", "failed", "stopped"}
DispatcherAt == {"next", "send", "park", "wait", "off"}

TypeOK ==
  /\ SpoolTypeOK /\ checkpoint \in [Source -> Pos]
  /\ agent \in {"up", "stopping", "down"}
  /\ pl \in [Source -> PipelineAt]
  /\ read \in [Source -> Nat]
  /\ batch \in [Source -> Batch \cup {NoBatch}]
  /\ disp \in DispatcherAt
  /\ cur \in Batch \cup {NoBatch}
  /\ token \in BOOLEAN
  /\ armed \subseteq Batch /\ blocked \subseteq Batch /\ late \subseteq Batch
  /\ discarded \subseteq Batch
  /\ waitq \in Seq(Source \cup {Dispatcher})
  /\ reply \in Replies
  /\ copies \in [Batch -> Nat]
  /\ server \in {"ok", "unavailable", "unauthorized"}
  /\ faults \in 0..MaxFaults

\* Every source is anchored at the start of its file.
Init ==
  /\ queue = <<>> /\ quarantined = {} /\ done = {}
  /\ checkpoint = [k \in Source |-> 0]
  /\ agent = "down"
  /\ pl = [k \in Source |-> "stopped"]
  /\ read = [k \in Source |-> 0]
  /\ batch = [k \in Source |-> NoBatch]
  /\ disp = "off" /\ cur = NoBatch /\ armed = {} /\ blocked = {}
  /\ token = FALSE /\ waitq = <<>>
  /\ reply = NoReply /\ late = {} /\ server = "ok"
  /\ copies = [b \in Batch |-> 0]
  /\ discarded = {} /\ faults = 0

Fault == faults < MaxFaults /\ faults' = faults + 1

-----------------------------------------------------------------------------
(* The notification channel.                                               *)

\* Mutant: an unbuffered channel, on which a signal without a waiter is lost.
signalLost(p, d) ==
  IF waitq = <<>>
  THEN pl' = p /\ disp' = d /\ UNCHANGED chanVars
  ELSE /\ waitq' = Tail(waitq)
       /\ UNCHANGED token
       /\ IF Head(waitq) = Dispatcher
          THEN disp' = "next" /\ pl' = p
          ELSE disp' = d /\ pl' = [p EXCEPT ![Head(waitq)] = "commit"]

\* WAL.signal, by a goroutine that leaves the pipelines at p and the
\* dispatcher at d.
signal(p, d) ==
  IF waitq = <<>>
  THEN token' = TRUE /\ pl' = p /\ disp' = d /\ UNCHANGED waitq
  ELSE /\ waitq' = Tail(waitq)
       /\ UNCHANGED token
       /\ IF Head(waitq) = Dispatcher
          THEN disp' = "next" /\ pl' = p
          ELSE disp' = d /\ pl' = [p EXCEPT ![Head(waitq)] = "commit"]

\* A goroutine gives up waiting.
Leave(g) == waitq' = RemoveFirst(waitq, g)

-----------------------------------------------------------------------------
(* Pipelines: runPipeline and its flush.                                   *)

Fits(b) == Charged(Pending \cup quarantined) + Size[b] <= MaxBytes

\* A record arrives from the source goroutine; a full buffer is flushed first.
ReadRecord(k) ==
  /\ agent = "up" /\ pl[k] = "read"
  /\ read[k] < Lines[k]
  /\ read[k] - checkpoint[k] < BatchSize
  /\ read' = [read EXCEPT ![k] = @ + 1]
  /\ UNCHANGED <<spoolVars, agent, pl, batch, dispVars, chanVars, netVars, discarded, faults>>

\* Batches the spool holds or has let go.
Held == Pending \cup quarantined \cup done

\* Mutant: the entries are not cleared after a commit.
BuiltAgain(k, b) ==
  /\ b \notin Held
  /\ KeyOf[b] = k /\ LoOf[b] <= checkpoint[k] + 1 /\ PosOf[b] = read[k]

\* buildBatch: the entries read so far, under a new identifier.  One that died
\* uncommitted with its process is known to nobody, and counts as new.
Built(k, b) ==
  /\ b \notin Held
  /\ KeyOf[b] = k /\ LoOf[b] = checkpoint[k] + 1 /\ PosOf[b] = read[k]

\* flush, by batch size or by ticker.
Flush(k) ==
  /\ agent = "up" /\ pl[k] = "read"
  /\ \E b \in Batch :
       /\ Built(k, b)
       /\ batch' = [batch EXCEPT ![k] = b]
  /\ pl' = [pl EXCEPT ![k] = "commit"]
  /\ UNCHANGED <<spoolVars, agent, read, dispVars, chanVars, netVars, discarded, faults>>

\* Spool.Commit succeeds and signals.
CommitBatch(k) ==
  /\ agent = "up" /\ pl[k] = "commit"
  /\ Fits(batch[k])
  /\ SpoolCommit(batch[k])
  /\ batch' = [batch EXCEPT ![k] = NoBatch]
  /\ signal([pl EXCEPT ![k] = "read"], disp)
  /\ UNCHANGED <<agent, read, cur, armed, blocked, netVars, discarded, faults>>

\* Spool.Commit returns ErrFull; the goroutine is on its way to the channel.
CommitFull(k) ==
  /\ agent = "up" /\ pl[k] = "commit"
  /\ ~Fits(batch[k])
  /\ pl' = [pl EXCEPT ![k] = "full"]
  /\ UNCHANGED <<spoolVars, agent, read, batch, dispVars, chanVars, netVars, discarded, faults>>

\* Spool.Commit fails for another reason: this pipeline alone stops.
CommitFails(k) ==
  /\ agent = "up" /\ pl[k] = "commit"
  /\ Fault
  /\ pl' = [pl EXCEPT ![k] = "failed"]
  /\ batch' = [batch EXCEPT ![k] = NoBatch]
  /\ UNCHANGED <<spoolVars, agent, read, dispVars, chanVars, netVars, discarded>>

\* Receive from Spool.Changed().
AwaitSpace(k) ==
  /\ agent = "up" /\ pl[k] = "full"
  /\ IF token
     THEN token' = FALSE /\ pl' = [pl EXCEPT ![k] = "commit"] /\ UNCHANGED waitq
     ELSE waitq' = Append(waitq, k) /\ pl' = [pl EXCEPT ![k] = "wait"] /\ UNCHANGED token
  /\ UNCHANGED <<spoolVars, agent, read, batch, dispVars, netVars, discarded, faults>>

-----------------------------------------------------------------------------
(* The server.                                                             *)

Inserted(b) == copies[b] > 0

\* Mutant: the result of a duplicate has no status.
AnswerBlank(b) ==
  CASE server = "unauthorized" -> Reply(401, "invalid_credential")
    [] server # "unauthorized" /\ b \in Invalid -> Reply(422, "invalid_batch")
    [] server = "unavailable" /\ b \notin Invalid -> Reply(409, "resource_unavailable")
    [] server = "ok" /\ b \notin Invalid -> Reply(200, IF Inserted(b) THEN "" ELSE "accepted")

\* What ingestBatch answers: authentication, validation, then Accept's
\* transaction, in which a batch already committed is only acknowledged.
Answer(b) ==
  CASE server = "unauthorized" -> Reply(401, "invalid_credential")
    [] server # "unauthorized" /\ b \in Invalid -> Reply(422, "invalid_batch")
    [] server = "unavailable" /\ b \notin Invalid -> Reply(409, "resource_unavailable")
    [] server = "ok" /\ b \notin Invalid ->
         Reply(200, IF Inserted(b) THEN "duplicate" ELSE "accepted")

\* Mutant: entries are inserted without looking for the batch.
AcceptAgain(b) ==
  copies' = IF Answer(b).status = 200 THEN [copies EXCEPT ![b] = @ + 1] ELSE copies

\* The transaction's effect: the batch row and its entries, once per id.
Accept(b) ==
  copies' = IF Answer(b) = Reply(200, "accepted")
            THEN [copies EXCEPT ![b] = @ + 1] ELSE copies

\* The request in flight is handled and answered.
Serve ==
  /\ disp = "send" /\ reply = NoReply
  /\ reply' = Answer(cur)
  /\ Accept(cur)
  /\ UNCHANGED <<spoolVars, procVars, dispVars, chanVars, late, server, discarded, faults>>

\* Admission control refuses it, or it fails inside the server and the
\* transaction is rolled back.
ServeFails ==
  /\ disp = "send" /\ reply = NoReply
  /\ Fault
  /\ reply' \in {Reply(429, "rate_limited"), Reply(500, "internal_error")}
  /\ UNCHANGED <<spoolVars, procVars, dispVars, chanVars, late, copies, server, discarded>>

\* A request the client has given up is handled after all, or never.
ServeLate(b) ==
  /\ b \in late
  /\ late' = late \ {b}
  /\ Accept(b) \/ UNCHANGED copies
  /\ UNCHANGED <<spoolVars, procVars, dispVars, chanVars, reply, server, discarded, faults>>

\* An administrator disables or re-enables the project, agent or pipeline, or
\* revokes or renews the credential.
Administer(s) ==
  /\ s # server
  /\ server' = s
  /\ IF s = "ok" THEN UNCHANGED faults ELSE Fault
  /\ UNCHANGED <<spoolVars, procVars, dispVars, chanVars, reply, late, copies, discarded>>

-----------------------------------------------------------------------------
(* The dispatcher.                                                         *)

\* Mutant: any conflict is taken for a duplicate.
ClassConflict(r) ==
  CASE r.status \in {200, 409} -> "duplicate"
    [] r.status \in {408, 429} \/ r.status >= 500 -> "retryable"
    [] r.status \in {400, 413, 422} -> "quarantine"
    [] OTHER -> "terminal"

\* HTTPTransport.Send
Class(r) ==
  CASE r.status = 200 /\ r.code = "accepted" -> "accepted"
    [] r.status = 200 /\ r.code = "duplicate" -> "duplicate"
    [] r.status = 200 /\ r.code \notin {"accepted", "duplicate"} -> "retryable"
    [] r.status \in {408, 429} \/ r.status >= 500 -> "retryable"
    [] r.status = 409 /\ r.code = "resource_unavailable" -> "blocked"
    [] r.status = 409 /\ r.code # "resource_unavailable" -> "quarantine"
    [] r.status \in {400, 413, 422} -> "quarantine"
    [] OTHER -> "terminal"

\* Positions in the queue of the batches that are not backing off.
Deliverable == {i \in DOMAIN queue : queue[i] \notin blocked}

\* nextPending: the oldest batch that is not backing off is sent; without one
\* the dispatcher is going to wait, with a timer if a batch is backing off.
nextPending ==
  /\ agent = "up" /\ disp = "next"
  /\ IF Deliverable # {}
     THEN /\ cur' = queue[Min(Deliverable)] /\ disp' = "send" /\ reply' = NoReply
          /\ armed' = {}
     ELSE /\ disp' = "park" /\ armed' = Pending
          /\ UNCHANGED <<cur, reply>>
  /\ UNCHANGED <<spoolVars, procVars, blocked, chanVars, late, copies, server, discarded, faults>>

\* waitForDispatcherEvent
waitForDispatcherEvent ==
  /\ agent = "up" /\ disp = "park"
  /\ IF token
     THEN token' = FALSE /\ disp' = "next" /\ UNCHANGED waitq
     ELSE waitq' = Append(waitq, Dispatcher) /\ disp' = "wait" /\ UNCHANGED token
  /\ UNCHANGED <<spoolVars, procVars, cur, armed, blocked, netVars, discarded, faults>>

TimerFires ==
  /\ agent = "up" /\ disp \in {"park", "wait"}
  /\ armed \ blocked # {}
  /\ disp' = "next"
  /\ Leave(Dispatcher)
  /\ UNCHANGED <<spoolVars, procVars, cur, armed, blocked, token, netVars, discarded, faults>>

\* The backoff of a batch ends.
Elapse(b) ==
  /\ agent = "up" /\ b \in blocked
  /\ blocked' = blocked \ {b}
  /\ UNCHANGED <<spoolVars, procVars, disp, cur, armed, chanVars, netVars, discarded, faults>>

\* The send returned.
Returned(class) == agent = "up" /\ disp = "send" /\ reply # NoReply /\ Class(reply) \in class

\* The batch is deleted locally.
OnAccepted ==
  /\ Returned({"accepted", "duplicate"})
  /\ SpoolAck(cur)
  /\ signal(pl, "next")
  /\ cur' = NoBatch /\ reply' = NoReply
  /\ blocked' = blocked \ {cur}
  /\ UNCHANGED <<agent, read, batch, armed, late, copies, server, discarded, faults>>

OnQuarantine ==
  /\ Returned({"quarantine"})
  /\ SpoolQuarantine(cur)
  /\ signal(pl, "next")
  /\ cur' = NoBatch /\ reply' = NoReply
  /\ blocked' = blocked \ {cur}
  /\ UNCHANGED <<agent, read, batch, armed, late, copies, server, discarded, faults>>

BackOff ==
  /\ blocked' = blocked \cup {cur}
  /\ disp' = "next" /\ cur' = NoBatch /\ reply' = NoReply
  /\ UNCHANGED <<spoolVars, procVars, armed, chanVars, copies, server, discarded>>

OnRetryable ==
  /\ Returned({"retryable", "blocked"})
  /\ BackOff
  /\ UNCHANGED <<late, faults>>

\* The connection breaks or times out, before or after the server acted.
SendFails ==
  /\ agent = "up" /\ disp = "send"
  /\ Fault
  /\ late' = IF reply = NoReply THEN late \cup {cur} ELSE late
  /\ BackOff

\* A terminal answer, or a spool error while acknowledging or quarantining,
\* ends the dispatcher and with it the agent.
DispatcherStops ==
  /\ \/ Returned({"terminal"}) /\ UNCHANGED faults
     \/ Returned({"accepted", "duplicate", "quarantine"}) /\ Fault
  /\ agent' = "stopping"
  /\ disp' = "off" /\ cur' = NoBatch /\ reply' = NoReply
  /\ UNCHANGED <<spoolVars, pl, read, batch, armed, blocked, chanVars, late, copies, server, discarded>>

\* The ACK is durable, but the compaction behind it had to close the spool:
\* Ack returns an error all the same.
AckCloses ==
  /\ Returned({"accepted", "duplicate"})
  /\ Fault
  /\ SpoolAck(cur)
  /\ agent' = "stopping"
  /\ signal(pl, "off")
  /\ cur' = NoBatch /\ reply' = NoReply
  /\ UNCHANGED <<read, batch, armed, blocked, late, copies, server, discarded>>

-----------------------------------------------------------------------------
(* The process.                                                            *)

\* A source anchored anew has left a notification in the channel.
Start ==
  /\ agent = "down"
  /\ agent' = "up"
  /\ pl' = [k \in Source |-> "read"]
  /\ read' = checkpoint
  /\ disp' = "next" /\ armed' = {}
  /\ token' \in BOOLEAN
  /\ UNCHANGED <<spoolVars, batch, cur, blocked, waitq, netVars, discarded, faults>>

\* A request cut off by the end of the process may still arrive.
Abandon == late' = IF disp = "send" /\ reply = NoReply THEN late \cup {cur} ELSE late

\* SIGTERM: the context of dispatcher and pipelines is cancelled.
Stop ==
  /\ agent = "up"
  /\ Fault
  /\ agent' = "stopping"
  /\ Abandon
  /\ disp' = "off" /\ cur' = NoBatch /\ reply' = NoReply
  /\ Leave(Dispatcher)
  /\ UNCHANGED <<spoolVars, pl, read, batch, armed, blocked, token, copies, server, discarded>>

\* A pipeline ends.  One inside flush gives up, and so does a shutdownFlush
\* that fails or finds the spool full: nothing is acknowledged any more.
PipelineStops(k) ==
  /\ agent = "stopping" /\ pl[k] # "stopped"
  /\ pl' = [pl EXCEPT ![k] = "stopped"]
  /\ batch' = [batch EXCEPT ![k] = NoBatch]
  /\ Leave(k)
  /\ UNCHANGED <<spoolVars, agent, read, dispVars, token, netVars, discarded, faults>>

\* A pipeline that was collecting commits what it has, and ends.
shutdownFlush(k) ==
  /\ agent = "stopping" /\ pl[k] = "read"
  /\ \E b \in Batch : Built(k, b) /\ SpoolCommit(b)
  /\ signal([pl EXCEPT ![k] = "stopped"], disp)
  /\ UNCHANGED <<agent, read, batch, cur, armed, blocked, netVars, discarded, faults>>

Down ==
  /\ agent' = "down"
  /\ pl' = [k \in Source |-> "stopped"]
  /\ read' = [k \in Source |-> 0]
  /\ batch' = [k \in Source |-> NoBatch]
  /\ disp' = "off" /\ cur' = NoBatch /\ armed' = {} /\ blocked' = {}
  /\ token' = FALSE /\ waitq' = <<>>
  /\ reply' = NoReply
  /\ UNCHANGED <<copies, server>>

Exit ==
  /\ agent = "stopping"
  /\ \A k \in Source : pl[k] = "stopped"
  /\ Down
  /\ UNCHANGED <<spoolVars, late, discarded, faults>>

Crash ==
  /\ agent # "down"
  /\ Fault
  /\ Abandon
  /\ Down
  /\ UNCHANGED <<spoolVars, discarded>>

\* gline-agent -quarantine-discard, while the agent is not running.
Discard(b) ==
  /\ agent = "down"
  /\ b \in quarantined
  /\ SpoolAck(b)
  /\ discarded' = discarded \cup {b}
  /\ UNCHANGED <<procVars, dispVars, chanVars, netVars, faults>>

-----------------------------------------------------------------------------
Pipeline(k) ==
  \/ ReadRecord(k) \/ Flush(k) \/ CommitBatch(k) \/ CommitFull(k) \/ AwaitSpace(k)
  \/ PipelineStops(k) \/ shutdownFlush(k)

Dispatch ==
  \/ nextPending \/ waitForDispatcherEvent \/ TimerFires
  \/ OnAccepted \/ OnQuarantine \/ OnRetryable \/ DispatcherStops \/ AckCloses

Next ==
  \/ \E k \in Source : Pipeline(k) \/ CommitFails(k)
  \/ Dispatch \/ SendFails
  \/ \E b \in Batch : Elapse(b) \/ ServeLate(b) \/ Discard(b)
  \/ Serve \/ ServeFails
  \/ \E s \in {"ok", "unavailable", "unauthorized"} : Administer(s)
  \/ Start \/ Stop \/ Exit \/ Crash

Spec == Init /\ [][Next]_vars

\* Goroutines run, time passes, the server answers, outages end and a
\* service manager starts the agent again.
FairSpec ==
  /\ Spec
  /\ \A k \in Source : WF_vars(Pipeline(k))
  /\ WF_vars(Dispatch)
  /\ \A b \in Batch : WF_vars(Elapse(b))
  /\ WF_vars(Serve)
  /\ WF_vars(Administer("ok"))
  /\ WF_vars(Start) /\ WF_vars(Exit)

(***************************************************************************)
(* Properties.                                                             *)
(***************************************************************************)

\* Batches the dispatcher could send and will not be woken for by its timer.
Unannounced == Pending \ (blocked \cup armed)

\* A pipeline that may have taken a notification: it is in a flush, or its
\* commit failed.
MayHaveTaken(k) == pl[k] \in {"commit", "full", "wait", "failed"}

\* The dispatcher sleeps on a batch it could send only when a notification was
\* taken by a pipeline that is still flushing, or failed in it.  A commit
\* between its look at the queue and its wait, the end of a backoff and a
\* notification it takes itself never leave it asleep.
WorkAnnounced ==
  disp = "wait" /\ Unannounced # {} => \E k \in Source : MayHaveTaken(k)

\* Every line below a source's durable checkpoint is in exactly one batch
\* that the spool holds or has let go, and no line above it is in any:
\* crashes, failed commits and shutdowns neither skip nor repeat a line.
LinesAccounted ==
  \A k \in Source : \A n \in 1..Lines[k] :
    LET holders == {b \in Held : Covers(b, k, n)}
    IN  IF n <= checkpoint[k] THEN \E b \in holders : holders = {b} ELSE holders = {}

\* A batch leaves the spool only when the server has its entries or an
\* operator discarded it, whatever was lost, late or repeated in between.
DeletedOnlyWhenStored == \A b \in done : Inserted(b) \/ b \in discarded

\* The server stores no line twice, under any batch identifier.
StoredOnce ==
  \A k \in Source : \A n \in 1..Lines[k] :
    LET holders == {b \in Batch : Covers(b, k, n) /\ Inserted(b)}
    IN  /\ \A b, c \in holders : b = c
        /\ \A b \in holders : copies[b] = 1

\* Every line of source k has reached the server, the local quarantine or,
\* out of it, the operator.
Settled(k) ==
  \A n \in 1..Lines[k] :
    \E b \in Batch : Covers(b, k, n) /\ (Inserted(b) \/ b \in quarantined \cup discarded)

\* However many replies are lost and however often the agent is restarted, in
\* the end every line is settled, unless a failed commit took the pipeline
\* out of service.
EventuallySettled == \A k \in Source : <>[](Settled(k) \/ pl[k] = "failed")

\* A sleeper on the notification channel wakes up when there is something for
\* it to do: a pipeline when its batch fits, the dispatcher when a batch may
\* be sent.
SleepersWoken ==
  /\ \A k \in Source :
       (pl[k] = "wait" /\ batch[k] # NoBatch /\ Fits(batch[k])) ~> (pl[k] # "wait")
  /\ (disp = "wait" /\ Deliverable # {}) ~> (disp # "wait")
=============================================================================
