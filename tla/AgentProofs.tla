----------------------------- MODULE AgentProofs -----------------------------
(***************************************************************************)
(* Theorems about Agent, for any sources, batches, capacity and number of  *)
(* faults.                                                                 *)
(***************************************************************************)
EXTENDS Agent, DataLemmas

\* A request is in flight for a batch, and only while the dispatcher sends;
\* and nobody waits or sends in a process that does not run.
RequestsOfARunningAgent ==
  /\ disp = "send" => cur \in Batch
  /\ reply # NoReply => disp = "send"
  /\ agent = "down" => disp = "off" /\ waitq = <<>>

\* A goroutine is blocked on the channel exactly when it is in the channel's
\* queue, once; and a pipeline in the middle of a flush holds its batch.
WaitersQueued ==
  /\ IsInjective(waitq)
  /\ \A k \in Source : pl[k] = "wait" <=> k \in ToSet(waitq)
  /\ disp = "wait" <=> Dispatcher \in ToSet(waitq)
  /\ \A k \in Source : pl[k] \in {"commit", "full", "wait"} => batch[k] \in Batch

\* Processes, requests and the channel: what all theorems start from.
ProcessInv == TypeOK /\ WaitersQueued /\ RequestsOfARunningAgent

-----------------------------------------------------------------------------
(* The channel.                                                            *)

\* The state of the goroutines that the channel operations touch.
Goroutines ==
  /\ pl \in [Source -> PipelineAt] /\ disp \in DispatcherAt
  /\ token \in BOOLEAN /\ waitq \in Seq(Source \cup {Dispatcher})
  /\ batch \in [Source -> Batch \cup {NoBatch}]
  /\ WaitersQueued

\* WAL.signal wakes the goroutine that has waited longest, and no other.
LEMMA SignalWakesOne ==
  ASSUME Goroutines, batch' \in [Source -> Batch \cup {NoBatch}],
         NEW p \in [Source -> PipelineAt], NEW d \in DispatcherAt,
         \A k \in Source : p[k] = "wait" <=> pl[k] = "wait",
         \A k \in Source : p[k] \in {"commit", "full", "wait"} => batch'[k] \in Batch,
         d = "wait" <=> disp = "wait",
         signal(p, d)
  PROVE  Goroutines' /\ (disp' = d \/ (disp = "wait" /\ disp' = "next"))
<1>1. CASE waitq = <<>>
  BY <1>1 DEF signal, Goroutines, WaitersQueued
<1>2. CASE waitq # <<>>
  <2>1. /\ Head(waitq) \in Source \cup {Dispatcher} /\ Tail(waitq) \in Seq(Source \cup {Dispatcher})
        /\ IsInjective(Tail(waitq))
        /\ ToSet(Tail(waitq)) = ToSet(waitq) \ {Head(waitq)}
        /\ Head(waitq) \in ToSet(waitq)
    <3>1. Head(waitq) = waitq[1] /\ 1 \in DOMAIN waitq
      BY <1>2, HeadTailProperties, EmptySeq DEF Goroutines
    <3>2. Head(waitq) \in ToSet(waitq)
      BY <3>1 DEF ToSet
    <3>. QED BY <3>2, <1>2, TailOfDistinct DEF Goroutines, WaitersQueued
  <2>2. waitq' = Tail(waitq) /\ token' = token
    BY <1>2 DEF signal
  <2>3. CASE Head(waitq) = Dispatcher
    <3>1. disp' = "next" /\ pl' = p
      BY <1>2, <2>3 DEF signal
    <3>. QED BY <2>1, <2>2, <2>3, <3>1, AgentAssumption DEF Goroutines, WaitersQueued, DispatcherAt
  <2>4. CASE Head(waitq) \in Source /\ Head(waitq) # Dispatcher
    <3>1. disp' = d /\ pl' = [p EXCEPT ![Head(waitq)] = "commit"]
      BY <1>2, <2>4 DEF signal
    <3>2. pl[Head(waitq)] = "wait" /\ batch'[Head(waitq)] \in Batch
      BY <2>1, <2>4 DEF Goroutines, WaitersQueued
    <3>3. pl' \in [Source -> PipelineAt]
      BY <3>1 DEF PipelineAt
    <3>4. \A k \in Source : pl'[k] = IF k = Head(waitq) THEN "commit" ELSE p[k]
      BY <3>1
    <3>5. IsInjective(waitq') /\ waitq' \in Seq(Source \cup {Dispatcher})
      BY <2>1, <2>2
    <3>6. \A k \in Source : pl'[k] = "wait" <=> k \in ToSet(waitq')
      BY <2>1, <2>2, <3>4 DEF Goroutines, WaitersQueued
    <3>7. disp' = "wait" <=> Dispatcher \in ToSet(waitq')
      BY <2>1, <2>2, <2>4, <3>1 DEF Goroutines, WaitersQueued
    <3>8. \A k \in Source : pl'[k] \in {"commit", "full", "wait"} => batch'[k] \in Batch
      BY <3>2, <3>4
    <3>. QED BY <2>2, <3>1, <3>3, <3>5, <3>6, <3>7, <3>8 DEF Goroutines, WaitersQueued
  <2>. QED BY <2>1, <2>3, <2>4
<1>. QED BY <1>1, <1>2

\* A goroutine that stops waiting leaves the queue, whoever it is.
LEMMA LeaveKeepsOthers ==
  ASSUME Goroutines, NEW g, Leave(g)
  PROVE  /\ waitq' \in Seq(Source \cup {Dispatcher})
         /\ IsInjective(waitq')
         /\ ToSet(waitq') = ToSet(waitq) \ {g}
BY RemoveFirstOfDistinct DEF Goroutines, WaitersQueued, Leave

\* A step that leaves channel and goroutines alone keeps the invariant on them.
LEMMA GoroutinesUnchanged ==
  ASSUME Goroutines, UNCHANGED <<pl, batch, disp, token, waitq>>
  PROVE  Goroutines'
BY DEF Goroutines, WaitersQueued

\* The rest of TypeOK.
Data ==
  /\ SpoolTypeOK /\ checkpoint \in [Source -> Pos]
  /\ agent \in {"up", "stopping", "down"}
  /\ read \in [Source -> Nat]
  /\ cur \in Batch \cup {NoBatch}
  /\ armed \subseteq Batch /\ blocked \subseteq Batch /\ late \subseteq Batch
  /\ discarded \subseteq Batch
  /\ reply \in Replies
  /\ copies \in [Batch -> Nat]
  /\ server \in {"ok", "unavailable", "unauthorized"}
  /\ faults \in 0..MaxFaults

\* ProcessInv, taken apart before a step and put together after it.
LEMMA ProcessInvSplit ==
  ASSUME ProcessInv
  PROVE  Goroutines /\ Data /\ RequestsOfARunningAgent
BY DEF ProcessInv, Goroutines, Data, TypeOK

\* The other way round, after a step.
LEMMA ProcessInvJoin ==
  ASSUME Goroutines', Data', RequestsOfARunningAgent'
  PROVE  ProcessInv'
BY DEF ProcessInv, Goroutines, Data, TypeOK

-----------------------------------------------------------------------------
(* The spool's and the server's operations, on well-typed arguments.       *)

\* The operations of the spool keep its type.
LEMMA SpoolStepTyped ==
  ASSUME SpoolTypeOK, checkpoint \in [Source -> Pos], NEW b \in Batch,
         SpoolCommit(b) \/ SpoolAck(b) \/ SpoolQuarantine(b)
  PROVE  SpoolTypeOK' /\ (checkpoint \in [Source -> Pos])'
<1>1. RemoveFirst(queue, b) \in Seq(Batch)
  BY RemoveFirstTyped DEF SpoolTypeOK
<1>2. CASE SpoolCommit(b)
  BY <1>2, DataAssumption DEF SpoolTypeOK, SpoolCommit
<1>3. CASE SpoolAck(b)
  BY <1>1, <1>3 DEF SpoolTypeOK, SpoolAck
<1>4. CASE SpoolQuarantine(b)
  BY <1>1, <1>4 DEF SpoolTypeOK, SpoolQuarantine
<1>. QED BY <1>2, <1>3, <1>4

\* So does a step that leaves it alone.
LEMMA SpoolUnchanged ==
  ASSUME SpoolTypeOK, checkpoint \in [Source -> Pos], UNCHANGED spoolVars
  PROVE  SpoolTypeOK' /\ (checkpoint \in [Source -> Pos])'
BY DEF SpoolTypeOK, spoolVars

\* An answer is one the transport knows, and success means the entries are
\* stored when the answer leaves the server.
LEMMA AnswerMeansStored ==
  ASSUME Data, NEW b \in Batch, Accept(b)
  PROVE  /\ Answer(b) \in Replies
         /\ copies' \in [Batch -> Nat]
         /\ \A c \in Batch : copies'[c] >= copies[c]
         /\ Answer(b).status = 200 => copies'[b] > 0
<1>1. copies \in [Batch -> Nat] /\ server \in {"ok", "unavailable", "unauthorized"}
  BY DEF Data
<1>2. CASE server = "ok" /\ b \notin Invalid /\ Inserted(b)
  <2>1. Answer(b) = Reply(200, "duplicate")
    BY <1>2 DEF Answer
  <2>2. copies' = copies
    BY <2>1 DEF Accept, Reply
  <2>. QED BY <1>1, <1>2, <2>1, <2>2 DEF Replies, Inserted
<1>3. CASE server = "ok" /\ b \notin Invalid /\ ~Inserted(b)
  <2>1. Answer(b) = Reply(200, "accepted")
    BY <1>3 DEF Answer
  <2>2. copies' = [copies EXCEPT ![b] = @ + 1]
    BY <2>1 DEF Accept
  <2>. QED BY <1>1, <2>1, <2>2 DEF Replies
<1>4. CASE server # "ok" \/ b \in Invalid
  <2>1. Answer(b) \in {Reply(401, "invalid_credential"), Reply(422, "invalid_batch"),
                       Reply(409, "resource_unavailable")}
    BY <1>1, <1>4 DEF Answer
  <2>2. Answer(b).status # 200
    BY <2>1 DEF Reply
  <2>3. copies' = copies
    BY <2>2 DEF Accept, Reply
  <2>. QED BY <1>1, <2>1, <2>2, <2>3 DEF Replies
<1>. QED BY <1>2, <1>3, <1>4

-----------------------------------------------------------------------------
(* Every action keeps ProcessInv.                                          *)

\* Every action of a pipeline: reading, flushing, waiting for space, ending.
LEMMA PipelineStep ==
  ASSUME ProcessInv, NEW k \in Source, Pipeline(k) \/ CommitFails(k)
  PROVE  ProcessInv'
<1>. USE DEF RequestsOfARunningAgent
<1>0. Goroutines /\ Data /\ RequestsOfARunningAgent
  BY ProcessInvSplit
<1>1. CASE ReadRecord(k)
  <2>1. Goroutines'
    BY <1>0, <1>1, GoroutinesUnchanged DEF ReadRecord, chanVars, dispVars
  <2>2. read' \in [Source -> Nat]
    BY <1>0, <1>1 DEF ReadRecord, Data
  <2>3. Data'
    BY <1>0, <1>1, <2>2, SpoolUnchanged DEF ReadRecord, Data, dispVars, netVars
  <2>. QED BY <1>0, <1>1, <2>1, <2>3, ProcessInvJoin DEF ReadRecord, dispVars, netVars
<1>2. CASE Flush(k)
  <2>1. PICK b \in Batch : batch' = [batch EXCEPT ![k] = b]
    BY <1>2 DEF Flush
  <2>2. pl[k] = "read" /\ pl' = [pl EXCEPT ![k] = "commit"] /\ UNCHANGED <<disp, token, waitq>>
    BY <1>2 DEF Flush, dispVars, chanVars
  <2>3. Goroutines'
    BY <1>0, <2>1, <2>2 DEF Goroutines, WaitersQueued, PipelineAt
  <2>4. Data'
    BY <1>0, <1>2, SpoolUnchanged DEF Flush, Data, dispVars, netVars
  <2>. QED BY <1>0, <1>2, <2>3, <2>4, ProcessInvJoin DEF Flush, dispVars, netVars
<1>3. CASE CommitBatch(k)
  <2>. DEFINE p == [pl EXCEPT ![k] = "read"]
  <2>1. pl[k] = "commit" /\ batch[k] \in Batch /\ batch' = [batch EXCEPT ![k] = NoBatch]
    BY <1>0, <1>3 DEF CommitBatch, Goroutines, WaitersQueued
  <2>2. p \in [Source -> PipelineAt] /\ \A j \in Source : p[j] = IF j = k THEN "read" ELSE pl[j]
    BY <1>0 DEF Goroutines, PipelineAt
  <2>3. batch' \in [Source -> Batch \cup {NoBatch}]
        /\ \A j \in Source : batch'[j] = IF j = k THEN NoBatch ELSE batch[j]
    BY <1>0, <2>1 DEF Goroutines
  <2>4. signal(p, disp)
    BY <1>3 DEF CommitBatch
  <2>. HIDE DEF p
  <2>5. \A j \in Source : p[j] = "wait" <=> pl[j] = "wait"
    BY <2>1, <2>2
  <2>6. \A j \in Source : p[j] \in {"commit", "full", "wait"} => batch'[j] \in Batch
    BY <1>0, <2>2, <2>3 DEF Goroutines, WaitersQueued
  <2>7. Goroutines' /\ (disp' = disp \/ (disp = "wait" /\ disp' = "next"))
    BY <1>0, <2>2, <2>3, <2>4, <2>5, <2>6, SignalWakesOne DEF Goroutines
  <2>8. Data'
    BY <1>0, <1>3, <2>1, SpoolStepTyped DEF CommitBatch, Data, netVars
  <2>. QED BY <1>0, <1>3, <2>7, <2>8, ProcessInvJoin DEF CommitBatch, netVars
<1>4. CASE CommitFull(k)
  <2>1. Goroutines'
    BY <1>0, <1>4 DEF CommitFull, Goroutines, WaitersQueued, PipelineAt, dispVars, chanVars
  <2>2. Data'
    BY <1>0, <1>4, SpoolUnchanged DEF CommitFull, Data, dispVars, netVars
  <2>. QED BY <1>0, <1>4, <2>1, <2>2, ProcessInvJoin DEF CommitFull, dispVars, netVars
<1>5. CASE AwaitSpace(k)
  <2>1. /\ pl[k] = "full" /\ UNCHANGED <<batch, disp>>
        /\ pl' = [pl EXCEPT ![k] = IF token THEN "commit" ELSE "wait"]
        /\ token' = FALSE
        /\ waitq' = IF token THEN waitq ELSE Append(waitq, k)
    BY <1>0, <1>5 DEF AwaitSpace, dispVars, Goroutines
  <2>2. k \notin ToSet(waitq)
    BY <1>0, <2>1 DEF Goroutines, WaitersQueued
  <2>3. ASSUME ~token
        PROVE  /\ waitq' \in Seq(Source \cup {Dispatcher}) /\ IsInjective(waitq')
               /\ ToSet(waitq') = ToSet(waitq) \cup {k}
    BY <1>0, <2>1, <2>2, <2>3, AppendToDistinct DEF Goroutines, WaitersQueued
  <2>4. \A j \in Source : pl'[j] = IF j # k THEN pl[j] ELSE IF token THEN "commit" ELSE "wait"
    BY <1>0, <2>1 DEF Goroutines
  <2>5. Goroutines'
    BY <1>0, <2>1, <2>3, <2>4, AgentAssumption DEF Goroutines, WaitersQueued, PipelineAt
  <2>6. Data'
    BY <1>0, <1>5, SpoolUnchanged DEF AwaitSpace, Data, dispVars, netVars
  <2>. QED BY <1>0, <1>5, <2>5, <2>6, ProcessInvJoin DEF AwaitSpace, dispVars, netVars
<1>6. CASE PipelineStops(k)
  <2>1. /\ pl' = [pl EXCEPT ![k] = "stopped"] /\ batch' = [batch EXCEPT ![k] = NoBatch]
        /\ Leave(k) /\ UNCHANGED <<disp, token>>
    BY <1>6 DEF PipelineStops, dispVars
  <2>2. /\ waitq' \in Seq(Source \cup {Dispatcher}) /\ IsInjective(waitq')
        /\ ToSet(waitq') = ToSet(waitq) \ {k}
    BY <1>0, <2>1, LeaveKeepsOthers
  <2>3. Goroutines'
    BY <1>0, <2>1, <2>2, AgentAssumption DEF Goroutines, WaitersQueued, PipelineAt
  <2>4. Data'
    BY <1>0, <1>6, SpoolUnchanged DEF PipelineStops, Data, dispVars, netVars
  <2>. QED BY <1>0, <1>6, <2>3, <2>4, ProcessInvJoin DEF PipelineStops, dispVars, netVars
<1>8. CASE shutdownFlush(k)
  <2>. DEFINE p == [pl EXCEPT ![k] = "stopped"]
  <2>1. pl[k] = "read" /\ agent = "stopping" /\ UNCHANGED batch
    BY <1>8 DEF shutdownFlush
  <2>2. p \in [Source -> PipelineAt] /\ \A j \in Source : p[j] = IF j = k THEN "stopped" ELSE pl[j]
    BY <1>0 DEF Goroutines, PipelineAt
  <2>3. signal(p, disp)
    BY <1>8 DEF shutdownFlush
  <2>. HIDE DEF p
  <2>4. \A j \in Source : p[j] = "wait" <=> pl[j] = "wait"
    BY <2>1, <2>2
  <2>5. \A j \in Source : p[j] \in {"commit", "full", "wait"} => batch'[j] \in Batch
    BY <1>0, <2>1, <2>2 DEF Goroutines, WaitersQueued
  <2>6. Goroutines' /\ (disp' = disp \/ (disp = "wait" /\ disp' = "next"))
    BY <1>0, <2>1, <2>2, <2>3, <2>4, <2>5, SignalWakesOne DEF Goroutines
  <2>7. SpoolTypeOK' /\ (checkpoint \in [Source -> Pos])'
    BY <1>0, <1>8, SpoolStepTyped DEF shutdownFlush, Data
  <2>8. Data'
    BY <1>0, <1>8, <2>7 DEF shutdownFlush, Data, netVars
  <2>. QED BY <1>0, <1>8, <2>6, <2>8, ProcessInvJoin DEF shutdownFlush, netVars
<1>7. CASE CommitFails(k)
  <2>1. /\ pl[k] = "commit" /\ pl' = [pl EXCEPT ![k] = "failed"]
        /\ batch' = [batch EXCEPT ![k] = NoBatch] /\ UNCHANGED <<disp, token, waitq>>
    BY <1>7 DEF CommitFails, dispVars, chanVars
  <2>2. Goroutines'
    BY <1>0, <2>1 DEF Goroutines, WaitersQueued, PipelineAt
  <2>3. Data'
    BY <1>0, <1>7, SpoolUnchanged, AgentAssumption DEF CommitFails, Fault, Data, dispVars, netVars
  <2>. QED BY <1>0, <1>7, <2>2, <2>3, ProcessInvJoin DEF CommitFails, dispVars, netVars
<1>. QED BY <1>1, <1>2, <1>3, <1>4, <1>5, <1>6, <1>7, <1>8 DEF Pipeline

\* Every action of the dispatcher, its timer and its connection.
LEMMA DispatcherStep ==
  ASSUME ProcessInv, Dispatch \/ SendFails \/ \E b \in Batch : Elapse(b)
  PROVE  ProcessInv'
<1>. USE DEF RequestsOfARunningAgent
<1>0. Goroutines /\ Data /\ RequestsOfARunningAgent
  BY ProcessInvSplit
<1>1. CASE nextPending
  <2>1. UNCHANGED <<pl, batch, token, waitq>> /\ disp = "next" /\ disp' \in {"send", "park"}
    BY <1>1 DEF nextPending, procVars, chanVars
  <2>2. Goroutines'
    BY <1>0, <2>1 DEF Goroutines, WaitersQueued, DispatcherAt
  <2>3. ASSUME Deliverable # {}
        PROVE  queue[Min(Deliverable)] \in Batch
    <3>1. Deliverable \in SUBSET Nat /\ Deliverable \subseteq DOMAIN queue /\ queue \in Seq(Batch)
      BY <1>0 DEF Deliverable, Data, SpoolTypeOK
    <3>2. Min(Deliverable) \in DOMAIN queue
      BY <2>3, <3>1, MinIsLeast
    <3>. QED BY <3>1, <3>2, ElementOfSeq
  <2>4. cur' \in Batch \cup {NoBatch} /\ (disp' = "send" => cur' \in Batch)
    BY <1>0, <1>1, <2>3 DEF nextPending, Data
  <2>5. Pending \subseteq Batch
    BY <1>0, ElementOfSeq DEF Pending, ToSet, Data, SpoolTypeOK
  <2>6. armed' \subseteq Batch /\ reply' = NoReply
    BY <1>0, <1>1, <2>1, <2>5 DEF nextPending
  <2>7. Data'
    BY <1>0, <1>1, <2>4, <2>6, SpoolUnchanged DEF nextPending, Data, procVars, Replies
  <2>. QED BY <1>1, <2>2, <2>4, <2>6, <2>7, ProcessInvJoin DEF nextPending, procVars
<1>2. CASE waitForDispatcherEvent
  <2>1. /\ disp = "park" /\ UNCHANGED <<pl, batch>>
        /\ disp' = IF token THEN "next" ELSE "wait"
        /\ token' = FALSE
        /\ waitq' = IF token THEN waitq ELSE Append(waitq, Dispatcher)
    BY <1>0, <1>2 DEF waitForDispatcherEvent, procVars, Goroutines
  <2>2. Dispatcher \notin ToSet(waitq)
    BY <1>0, <2>1 DEF Goroutines, WaitersQueued
  <2>3. ASSUME ~token
        PROVE  /\ waitq' \in Seq(Source \cup {Dispatcher}) /\ IsInjective(waitq')
               /\ ToSet(waitq') = ToSet(waitq) \cup {Dispatcher}
    BY <1>0, <2>1, <2>2, <2>3, AppendToDistinct DEF Goroutines, WaitersQueued
  <2>4. Goroutines'
    BY <1>0, <2>1, <2>3, AgentAssumption DEF Goroutines, WaitersQueued, DispatcherAt
  <2>5. Data'
    BY <1>0, <1>2, SpoolUnchanged DEF waitForDispatcherEvent, Data, procVars, netVars
  <2>. QED BY <1>0, <1>2, <2>1, <2>4, <2>5, ProcessInvJoin DEF waitForDispatcherEvent, procVars, netVars
<1>3. CASE TimerFires
  <2>1. /\ disp \in {"park", "wait"} /\ disp' = "next" /\ Leave(Dispatcher)
        /\ UNCHANGED <<pl, batch, token>>
    BY <1>3 DEF TimerFires, procVars
  <2>2. /\ waitq' \in Seq(Source \cup {Dispatcher}) /\ IsInjective(waitq')
        /\ ToSet(waitq') = ToSet(waitq) \ {Dispatcher}
    BY <1>0, <2>1, LeaveKeepsOthers
  <2>3. Goroutines'
    BY <1>0, <2>1, <2>2, AgentAssumption DEF Goroutines, WaitersQueued, DispatcherAt
  <2>4. Data'
    BY <1>0, <1>3, SpoolUnchanged DEF TimerFires, Data, procVars, netVars
  <2>. QED BY <1>0, <1>3, <2>1, <2>3, <2>4, ProcessInvJoin DEF TimerFires, procVars, netVars
<1>4. CASE OnAccepted \/ OnQuarantine
  <2>1. /\ disp = "send" /\ cur \in Batch /\ signal(pl, "next") /\ UNCHANGED batch
        /\ cur' = NoBatch /\ reply' = NoReply
    BY <1>0, <1>4 DEF OnAccepted, OnQuarantine, Returned
  <2>2. Goroutines' /\ disp' = "next"
    <3>1. "next" \in DispatcherAt /\ pl \in [Source -> PipelineAt]
          /\ \A k \in Source : pl[k] \in {"commit", "full", "wait"} => batch'[k] \in Batch
      BY <1>0, <2>1 DEF DispatcherAt, Goroutines, WaitersQueued
    <3>. QED BY <1>0, <2>1, <3>1, SignalWakesOne DEF Goroutines
  <2>3. SpoolTypeOK' /\ (checkpoint \in [Source -> Pos])'
    BY <1>0, <1>4, <2>1, SpoolStepTyped DEF OnAccepted, OnQuarantine, Data
  <2>4. Data'
    BY <1>0, <1>4, <2>1, <2>3 DEF OnAccepted, OnQuarantine, Data, Replies
  <2>5. agent' = "up"
    BY <1>4 DEF OnAccepted, OnQuarantine, Returned
  <2>. QED BY <2>1, <2>2, <2>4, <2>5, ProcessInvJoin
<1>5. CASE OnRetryable \/ SendFails
  <2>1. disp = "send" /\ cur \in Batch /\ BackOff
    BY <1>0, <1>5 DEF OnRetryable, SendFails, Returned
  <2>2. /\ disp' = "next" /\ cur' = NoBatch /\ reply' = NoReply
        /\ UNCHANGED <<pl, batch, token, waitq>>
    BY <2>1 DEF BackOff, procVars, chanVars
  <2>3. Goroutines'
    BY <1>0, <2>1, <2>2 DEF Goroutines, WaitersQueued, DispatcherAt
  <2>4. late' \subseteq Batch /\ faults' \in 0..MaxFaults
    BY <1>0, <1>5, <2>1, AgentAssumption DEF OnRetryable, SendFails, Fault, Data
  <2>5. Data'
    BY <1>0, <2>1, <2>2, <2>4, SpoolUnchanged DEF BackOff, Data, procVars, Replies
  <2>6. agent' = "up"
    BY <1>5, <2>1 DEF OnRetryable, SendFails, Returned, BackOff, procVars
  <2>. QED BY <2>2, <2>3, <2>5, <2>6, ProcessInvJoin
<1>6. CASE DispatcherStops
  <2>1. /\ disp = "send" /\ disp' = "off" /\ cur' = NoBatch /\ reply' = NoReply
        /\ UNCHANGED <<pl, batch, token, waitq>> /\ agent' = "stopping"
    BY <1>6 DEF DispatcherStops, Returned, chanVars
  <2>2. Goroutines'
    BY <1>0, <2>1 DEF Goroutines, WaitersQueued, DispatcherAt
  <2>3. faults' \in 0..MaxFaults
    BY <1>0, <1>6, AgentAssumption DEF DispatcherStops, Fault, Data
  <2>4. Data'
    BY <1>0, <1>6, <2>1, <2>3, SpoolUnchanged DEF DispatcherStops, Data, Replies
  <2>. QED BY <2>1, <2>2, <2>4, ProcessInvJoin
<1>8. CASE AckCloses
  <2>1. /\ disp = "send" /\ cur \in Batch /\ signal(pl, "off") /\ UNCHANGED batch
        /\ cur' = NoBatch /\ reply' = NoReply /\ agent' = "stopping"
    BY <1>0, <1>8 DEF AckCloses, Returned
  <2>2. Goroutines' /\ disp' = "off"
    <3>1. "off" \in DispatcherAt /\ pl \in [Source -> PipelineAt]
          /\ \A k \in Source : pl[k] \in {"commit", "full", "wait"} => batch'[k] \in Batch
      BY <1>0, <2>1 DEF DispatcherAt, Goroutines, WaitersQueued
    <3>. QED BY <1>0, <2>1, <3>1, SignalWakesOne DEF Goroutines
  <2>3. SpoolTypeOK' /\ (checkpoint \in [Source -> Pos])'
    BY <1>0, <1>8, <2>1, SpoolStepTyped DEF AckCloses, Data
  <2>4. faults' \in 0..MaxFaults
    BY <1>0, <1>8, AgentAssumption DEF AckCloses, Fault, Data
  <2>5. Data'
    BY <1>0, <1>8, <2>1, <2>3, <2>4 DEF AckCloses, Data, Replies
  <2>. QED BY <2>1, <2>2, <2>5, ProcessInvJoin
<1>7. ASSUME NEW b \in Batch, Elapse(b)
      PROVE  ProcessInv'
  <2>1. Goroutines'
    BY <1>0, <1>7, GoroutinesUnchanged DEF Elapse, procVars, chanVars
  <2>2. Data'
    BY <1>0, <1>7, SpoolUnchanged DEF Elapse, Data, procVars, netVars
  <2>. QED BY <1>0, <1>7, <2>1, <2>2, ProcessInvJoin DEF Elapse, procVars, chanVars, netVars
<1>. QED BY <1>1, <1>2, <1>3, <1>4, <1>5, <1>6, <1>7, <1>8 DEF Dispatch

ServerNext ==
  \/ Serve \/ ServeFails
  \/ \E b \in Batch : ServeLate(b)
  \/ \E s \in {"ok", "unavailable", "unauthorized"} : Administer(s)

\* Every action of the server and of its administrators.
LEMMA ServerStep ==
  ASSUME ProcessInv, ServerNext
  PROVE  ProcessInv'
<1>. USE DEF RequestsOfARunningAgent
<1>0. Goroutines /\ Data /\ RequestsOfARunningAgent
  BY ProcessInvSplit
<1>1. UNCHANGED <<pl, batch, disp, cur, token, waitq>> /\ UNCHANGED <<agent, read, armed, blocked>>
      /\ UNCHANGED <<spoolVars, discarded>>
  BY DEF ServerNext, Serve, ServeFails, ServeLate, Administer, procVars, dispVars, chanVars
<1>2. Goroutines'
  BY <1>0, <1>1, GoroutinesUnchanged
<1>3. SpoolTypeOK' /\ (checkpoint \in [Source -> Pos])'
  BY <1>0, <1>1, SpoolUnchanged DEF Data
<1>4. CASE Serve
  <2>1. /\ disp = "send" /\ cur \in Batch /\ reply' = Answer(cur) /\ Accept(cur)
        /\ UNCHANGED <<late, server, faults>>
    BY <1>0, <1>4 DEF Serve
  <2>2. reply' \in Replies /\ copies' \in [Batch -> Nat]
    BY <1>0, <2>1, AnswerMeansStored
  <2>. QED BY <1>0, <1>1, <1>2, <1>3, <2>1, <2>2, ProcessInvJoin DEF Data
<1>5. CASE ServeFails
  <2>1. /\ disp = "send" /\ reply' \in Replies
        /\ UNCHANGED <<late, copies, server>> /\ faults' \in 0..MaxFaults
    BY <1>0, <1>5, AgentAssumption DEF ServeFails, Fault, Data, Replies
  <2>. QED BY <1>0, <1>1, <1>2, <1>3, <2>1, ProcessInvJoin DEF Data
<1>6. ASSUME NEW b \in Batch, ServeLate(b)
      PROVE  ProcessInv'
  <2>1. late' \subseteq Batch /\ UNCHANGED <<reply, server, faults>>
    BY <1>0, <1>6 DEF ServeLate, Data
  <2>2. copies' \in [Batch -> Nat]
    BY <1>0, <1>6, AnswerMeansStored DEF ServeLate, Data
  <2>. QED BY <1>0, <1>1, <1>2, <1>3, <2>1, <2>2, ProcessInvJoin DEF Data
<1>7. ASSUME NEW s \in {"ok", "unavailable", "unauthorized"}, Administer(s)
      PROVE  ProcessInv'
  <2>1. server' = s /\ UNCHANGED <<reply, late, copies>> /\ faults' \in 0..MaxFaults
    BY <1>0, <1>7, AgentAssumption DEF Administer, Fault, Data
  <2>. QED BY <1>0, <1>1, <1>2, <1>3, <2>1, ProcessInvJoin DEF Data
<1>. QED BY <1>4, <1>5, <1>6, <1>7 DEF ServerNext

\* Nobody runs: nobody waits.
LEMMA NobodyWaits ==
  ASSUME pl' = [k \in Source |-> "stopped"], batch' = [k \in Source |-> NoBatch],
         disp' = "off", token' = FALSE, waitq' = <<>>
  PROVE  Goroutines'
<1>1. IsInjective(<<>>) /\ ToSet(<<>>) = {}
  BY EmptyIsDistinct
<1>2. pl' \in [Source -> PipelineAt] /\ batch' \in [Source -> Batch \cup {NoBatch}]
  BY DEF PipelineAt
<1>3. \A k \in Source : pl'[k] = "stopped"
  OBVIOUS
<1>4. /\ IsInjective(waitq') /\ ToSet(waitq') = {}
      /\ waitq' \in Seq(Source \cup {Dispatcher})
  BY <1>1
<1>. QED BY <1>2, <1>3, <1>4 DEF Goroutines, WaitersQueued, DispatcherAt

\* Start, shutdown, crash, and the operator while the agent is down.
LEMMA ProcessStep ==
  ASSUME ProcessInv, Start \/ Stop \/ Exit \/ Crash \/ \E b \in Batch : Discard(b)
  PROVE  ProcessInv'
<1>. USE DEF RequestsOfARunningAgent
<1>0. Goroutines /\ Data /\ RequestsOfARunningAgent
  BY ProcessInvSplit
<1>1. CASE Start
  <2>1. /\ waitq = <<>> /\ reply = NoReply /\ pl' = [k \in Source |-> "read"] /\ disp' = "next"
        /\ agent' = "up" /\ armed' = {} /\ read' = checkpoint
        /\ token' \in BOOLEAN /\ UNCHANGED <<batch, waitq>>
    BY <1>0, <1>1 DEF Start
  <2>2. pl' \in [Source -> PipelineAt] /\ \A k \in Source : pl'[k] = "read"
    BY <2>1 DEF PipelineAt
  <2>3. IsInjective(waitq') /\ ToSet(waitq') = {} /\ waitq' \in Seq(Source \cup {Dispatcher})
    BY <2>1, EmptyIsDistinct
  <2>4. Goroutines'
    BY <1>0, <2>1, <2>2, <2>3 DEF Goroutines, WaitersQueued, DispatcherAt
  <2>5. read' \in [Source -> Nat]
    BY <1>0, <2>1, AgentAssumption DEF Data
  <2>6. Data'
    BY <1>0, <1>1, <2>1, <2>5, SpoolUnchanged DEF Start, Data, netVars
  <2>. QED BY <1>0, <1>1, <2>1, <2>4, <2>6, ProcessInvJoin DEF Start, netVars
<1>2. CASE Stop
  <2>1. /\ disp' = "off" /\ cur' = NoBatch /\ reply' = NoReply /\ agent' = "stopping"
        /\ Leave(Dispatcher) /\ Abandon /\ Fault /\ UNCHANGED <<pl, batch, token>>
    BY <1>2 DEF Stop
  <2>2. /\ waitq' \in Seq(Source \cup {Dispatcher}) /\ IsInjective(waitq')
        /\ ToSet(waitq') = ToSet(waitq) \ {Dispatcher}
    BY <1>0, <2>1, LeaveKeepsOthers
  <2>3. Goroutines'
    BY <1>0, <2>1, <2>2, AgentAssumption DEF Goroutines, WaitersQueued, DispatcherAt
  <2>4. late' \subseteq Batch /\ faults' \in 0..MaxFaults
    BY <1>0, <2>1, AgentAssumption DEF Abandon, Fault, Data
  <2>5. Data'
    BY <1>0, <1>2, <2>1, <2>4, SpoolUnchanged DEF Stop, Data, Replies
  <2>. QED BY <2>1, <2>3, <2>5, ProcessInvJoin
<1>3. CASE Exit \/ Crash
  <2>1. Down /\ UNCHANGED <<spoolVars, discarded>>
    BY <1>3 DEF Exit, Crash
  <2>2. Goroutines'
    BY <2>1, NobodyWaits DEF Down
  <2>3. late' \subseteq Batch /\ faults' \in 0..MaxFaults
    BY <1>0, <1>3, AgentAssumption DEF Exit, Crash, Abandon, Fault, Data
  <2>4. Data'
    BY <1>0, <2>1, <2>3, SpoolUnchanged DEF Down, Data, Replies
  <2>. QED BY <2>1, <2>2, <2>4, ProcessInvJoin DEF Down
<1>4. ASSUME NEW b \in Batch, Discard(b)
      PROVE  ProcessInv'
  <2>1. Goroutines'
    BY <1>0, <1>4, GoroutinesUnchanged DEF Discard, procVars, dispVars, chanVars
  <2>2. Data'
    BY <1>0, <1>4, SpoolStepTyped DEF Discard, Data, procVars, dispVars, netVars
  <2>. QED BY <1>0, <1>4, <2>1, <2>2, ProcessInvJoin DEF Discard, procVars, dispVars, chanVars, netVars
<1>. QED BY <1>1, <1>2, <1>3, <1>4

\* The first state has nobody running and nobody waiting.
LEMMA ProcessInvInit == Init => ProcessInv
<1>. SUFFICES ASSUME Init
              PROVE  ProcessInv
  OBVIOUS
<1>1. IsInjective(waitq) /\ ToSet(waitq) = {} /\ waitq \in Seq(Source \cup {Dispatcher})
  BY EmptyIsDistinct DEF Init
<1>2. WaitersQueued
  BY <1>1 DEF Init, WaitersQueued
<1>3. SpoolTypeOK /\ checkpoint \in [Source -> Pos]
  BY AgentAssumption DEF Init, SpoolTypeOK
<1>4. /\ pl \in [Source -> PipelineAt] /\ read \in [Source -> Nat]
      /\ batch \in [Source -> Batch \cup {NoBatch}] /\ copies \in [Batch -> Nat]
  BY DEF Init, PipelineAt
<1>5. reply \in Replies /\ disp \in DispatcherAt /\ token \in BOOLEAN
  BY DEF Init, Replies, DispatcherAt
<1>6. TypeOK
  BY <1>1, <1>3, <1>4, <1>5, AgentAssumption DEF Init, TypeOK
<1>. QED BY <1>2, <1>6 DEF Init, ProcessInv, RequestsOfARunningAgent

\* Every step keeps the invariant of processes and channel.
LEMMA ProcessInvStep == ProcessInv /\ [Next]_vars => ProcessInv'
<1>1. ASSUME ProcessInv, Next
      PROVE  ProcessInv'
  BY <1>1, PipelineStep, DispatcherStep, ServerStep, ProcessStep DEF Next, ServerNext
<1>2. ASSUME ProcessInv, UNCHANGED vars
      PROVE  ProcessInv'
  BY <1>2 DEF vars, spoolVars, procVars, dispVars, chanVars, netVars,
              ProcessInv, TypeOK, SpoolTypeOK, WaitersQueued, RequestsOfARunningAgent
<1>. QED BY <1>1, <1>2

\* So it always holds.
LEMMA ProcessInvAlways == Spec => []ProcessInv
BY ProcessInvInit, ProcessInvStep, PTL DEF Spec

\* Every variable of the agent keeps its type: no batch that does not exist is
\* committed, sent or acknowledged, whoever is woken in whatever order.
THEOREM AgentTyped == Spec => []TypeOK
<1>1. ProcessInv => TypeOK
  BY DEF ProcessInv
<1>. QED BY <1>1, ProcessInvAlways, PTL

-----------------------------------------------------------------------------
(* End-to-end delivery.                                                    *)

\* The strengthening: a positive answer under way is for stored entries.
DeliveryInv ==
  /\ reply.status = 200 => Inserted(cur)
  /\ DeletedOnlyWhenStored

\* The server never forgets a batch, and answers with success only once it
\* has it; the answer belongs to the batch that is being sent.
LEMMA AnswersAreKept ==
  ASSUME ProcessInv, DeliveryInv, Next
  PROVE  /\ \A b \in Batch : Inserted(b) => Inserted(b)'
         /\ (reply.status = 200 => Inserted(cur))'
<1>. USE DEF Inserted
<1>0. Goroutines /\ Data /\ RequestsOfARunningAgent
  BY ProcessInvSplit
<1>1. NoReply.status # 200
  BY DEF NoReply, Reply
<1>2. ASSUME UNCHANGED copies, reply' = NoReply \/ UNCHANGED <<reply, cur>>
      PROVE  /\ \A b \in Batch : Inserted(b) => Inserted(b)'
             /\ (reply.status = 200 => Inserted(cur))'
  BY <1>1, <1>2 DEF DeliveryInv
<1>3. CASE \E k \in Source : Pipeline(k) \/ CommitFails(k)
  BY <1>2, <1>3 DEF Pipeline, ReadRecord, Flush, CommitBatch, CommitFull, CommitFails, AwaitSpace,
                   PipelineStops, shutdownFlush, dispVars, netVars
<1>4. CASE Dispatch \/ SendFails \/ \E b \in Batch : Elapse(b)
  BY <1>0, <1>2, <1>4 DEF Dispatch, SendFails, Elapse, nextPending, waitForDispatcherEvent, TimerFires,
             OnAccepted, OnQuarantine, OnRetryable, BackOff, DispatcherStops, AckCloses,
             dispVars, netVars, RequestsOfARunningAgent
<1>5. CASE Serve
  <2>1. cur \in Batch /\ reply' = Answer(cur) /\ Accept(cur) /\ cur' = cur
    BY <1>0, <1>5 DEF Serve, dispVars, RequestsOfARunningAgent
  <2>2. /\ \A b \in Batch : copies'[b] >= copies[b] /\ copies[b] \in Nat /\ copies'[b] \in Nat
        /\ Answer(cur).status = 200 => copies'[cur] > 0
    BY <1>0, <2>1, AnswerMeansStored DEF Data
  <2>. QED BY <2>1, <2>2
<1>6. CASE ServeFails
  <2>1. reply'.status # 200 /\ UNCHANGED copies
    BY <1>6 DEF ServeFails, Reply
  <2>. QED BY <2>1
<1>7. ASSUME NEW b \in Batch, ServeLate(b)
      PROVE  /\ \A c \in Batch : Inserted(c) => Inserted(c)'
             /\ (reply.status = 200 => Inserted(cur))'
  <2>1. UNCHANGED <<reply, cur, disp>>
    BY <1>7 DEF ServeLate, dispVars
  <2>2. \A c \in Batch : copies'[c] >= copies[c] /\ copies[c] \in Nat /\ copies'[c] \in Nat
    BY <1>0, <1>7, AnswerMeansStored DEF ServeLate, Data
  <2>3. reply.status = 200 => cur \in Batch
    BY <1>0, <1>1 DEF RequestsOfARunningAgent
  <2>. QED BY <2>1, <2>2, <2>3 DEF DeliveryInv
<1>8. CASE \E s \in {"ok", "unavailable", "unauthorized"} : Administer(s)
  BY <1>2, <1>8 DEF Administer, dispVars
<1>9. CASE Start \/ Stop \/ Exit \/ Crash \/ \E b \in Batch : Discard(b)
  BY <1>2, <1>9 DEF Start, Stop, Exit, Crash, Down, Discard, dispVars, netVars
<1>. QED BY <1>3, <1>4, <1>5, <1>6, <1>7, <1>8, <1>9 DEF Next

\* classify takes no other status than 200 for a success.
LEMMA SuccessIs200 ==
  ASSUME NEW r \in Replies, Class(r) \in {"accepted", "duplicate"}
  PROVE  r.status = 200
<1>1. r.status = 200 \/ r.status \in {0, 401, 409, 422, 429, 500}
  <2>1. CASE r = Reply(0, "")
    BY <2>1 DEF Reply
  <2>2. CASE r = Reply(200, "accepted") \/ r = Reply(200, "duplicate")
    BY <2>2 DEF Reply
  <2>3. CASE r = Reply(401, "invalid_credential")
    BY <2>3 DEF Reply
  <2>4. CASE r = Reply(409, "resource_unavailable")
    BY <2>4 DEF Reply
  <2>5. CASE r = Reply(422, "invalid_batch")
    BY <2>5 DEF Reply
  <2>6. CASE r = Reply(429, "rate_limited")
    BY <2>6 DEF Reply
  <2>7. CASE r = Reply(500, "internal_error")
    BY <2>7 DEF Reply
  <2>8. \/ r = Reply(0, "") \/ r = Reply(200, "accepted") \/ r = Reply(200, "duplicate")
        \/ r = Reply(401, "invalid_credential") \/ r = Reply(409, "resource_unavailable")
        \/ r = Reply(422, "invalid_batch") \/ r = Reply(429, "rate_limited")
        \/ r = Reply(500, "internal_error")
    BY ZenonT(60) DEF Replies, NoReply
  <2>. QED BY <2>1, <2>2, <2>3, <2>4, <2>5, <2>6, <2>7, <2>8, ZenonT(60)
<1>2. ASSUME r.status \in {0, 401} PROVE Class(r) = "terminal"
  BY <1>2 DEF Class
<1>3. ASSUME r.status = 409 PROVE Class(r) \in {"blocked", "quarantine"}
  BY <1>3 DEF Class
<1>4. ASSUME r.status = 422 PROVE Class(r) = "quarantine"
  BY <1>4 DEF Class
<1>5. ASSUME r.status \in {429, 500} PROVE Class(r) = "retryable"
  BY <1>5 DEF Class
<1>. QED BY <1>1, <1>2, <1>3, <1>4, <1>5

\* What a step adds to the batches gone for good was answered with success or
\* is being discarded.
LEMMA DeletionIsAuthorised ==
  ASSUME ProcessInv, Next, NEW b, b \in done', b \notin done
  PROVE  (b = cur /\ reply.status = 200 /\ cur \in Batch) \/ b \in discarded'
<1>0. Goroutines /\ Data /\ RequestsOfARunningAgent
  BY ProcessInvSplit
<1>1. CASE OnAccepted \/ AckCloses
  <2>1. done' = done \cup {cur} /\ disp = "send" /\ Class(reply) \in {"accepted", "duplicate"}
    BY <1>1 DEF OnAccepted, AckCloses, SpoolAck, Returned
  <2>2. reply \in Replies
    BY <1>0 DEF Data
  <2>3. reply.status = 200
    BY <2>1, <2>2, SuccessIs200
  <2>. QED BY <1>0, <2>1, <2>3 DEF RequestsOfARunningAgent
<1>2. CASE \E c \in Batch : Discard(c)
  BY <1>2 DEF Discard, SpoolAck
<1>3. CASE UNCHANGED done
  BY <1>3
<1>4. OnAccepted \/ AckCloses \/ (\E c \in Batch : Discard(c)) \/ UNCHANGED done
  BY DEF Next, Pipeline, Dispatch, ReadRecord, Flush, CommitBatch, CommitFull, CommitFails, AwaitSpace,
         PipelineStops, shutdownFlush, SendFails, Elapse, nextPending, waitForDispatcherEvent, TimerFires,
         OnQuarantine, OnRetryable, BackOff, DispatcherStops, Serve, ServeFails, ServeLate, Administer, Start, Stop,
         Exit, Crash, SpoolCommit, SpoolQuarantine, spoolVars
<1>. QED BY <1>1, <1>2, <1>3, <1>4

\* Every step keeps the invariant of delivery.
LEMMA DeliveryInvStep == ProcessInv /\ DeliveryInv /\ [Next]_vars => DeliveryInv'
<1>1. ASSUME ProcessInv, DeliveryInv, Next
      PROVE  DeliveryInv'
  <2>1. /\ \A b \in Batch : Inserted(b) => Inserted(b)'
        /\ (reply.status = 200 => Inserted(cur))'
    BY <1>1, AnswersAreKept
  <2>2. done \subseteq Batch /\ discarded \subseteq discarded'
    BY <1>1 DEF ProcessInv, TypeOK, SpoolTypeOK, Next, Pipeline, Dispatch, ReadRecord, Flush, CommitBatch,
         CommitFull, CommitFails, AwaitSpace, PipelineStops, shutdownFlush, AckCloses, SendFails, Elapse, nextPending,
         waitForDispatcherEvent, TimerFires, OnAccepted, OnQuarantine, OnRetryable, BackOff,
         DispatcherStops, Serve, ServeFails, ServeLate, Administer, Start, Stop, Exit, Crash, Discard
  <2>3. ASSUME NEW b \in done'
        PROVE  Inserted(b)' \/ b \in discarded'
    <3>1. CASE b \in done
      BY <1>1, <2>1, <2>2, <3>1 DEF DeliveryInv, DeletedOnlyWhenStored
    <3>2. CASE b \notin done
      BY <1>1, <2>1, <3>2, DeletionIsAuthorised DEF DeliveryInv
    <3>. QED BY <3>1, <3>2
  <2>. QED BY <2>1, <2>3 DEF DeliveryInv, DeletedOnlyWhenStored
<1>2. ASSUME DeliveryInv, UNCHANGED vars
      PROVE  DeliveryInv'
  BY <1>2 DEF vars, spoolVars, dispVars, netVars, DeliveryInv, DeletedOnlyWhenStored, Inserted
<1>. QED BY <1>1, <1>2

\* No path through lost replies, late requests, retries, outages, crashes and
\* shutdowns deletes a batch from the spool that the server does not have,
\* unless the operator discards it.
THEOREM DeletionNeedsStorage == Spec => []DeletedOnlyWhenStored
<1>1. Init => DeliveryInv
  <2>1. NoReply.status # 200
    BY DEF NoReply, Reply
  <2>. QED BY <2>1 DEF Init, DeliveryInv, DeletedOnlyWhenStored
<1>2. ProcessInv /\ DeliveryInv /\ [Next]_vars => DeliveryInv'
  BY DeliveryInvStep
<1>3. DeliveryInv => DeletedOnlyWhenStored
  BY DEF DeliveryInv
<1>. QED BY <1>1, <1>2, <1>3, ProcessInvAlways, PTL DEF Spec
-----------------------------------------------------------------------------
(* Lines and batches.                                                      *)

\* No batch is in the spool's queue twice.
QueueInv == IsInjective(queue)

\* The batches that entered the spool lie one behind the other: they are below
\* the checkpoint of their source, they share no line, and they leave no gap.
LayoutInv ==
  /\ \A b \in Held : PosOf[b] <= checkpoint[KeyOf[b]]
  /\ \A b, c \in Held : KeyOf[b] = KeyOf[c] /\ b # c => PosOf[b] < LoOf[c] \/ PosOf[c] < LoOf[b]
  /\ \A k \in Source : \A n \in 1..checkpoint[k] : \E b \in Held : Covers(b, k, n)

\* A batch being flushed starts where the checkpoint ends, and a pipeline that
\* reads, or does not run, has none.
FlushInv ==
  /\ \A k \in Source : batch[k] # NoBatch => KeyOf[batch[k]] = k /\ LoOf[batch[k]] = checkpoint[k] + 1
  /\ \A k \in Source : pl[k] = "read" \/ agent = "down" => batch[k] = NoBatch

\* What the server was ever asked to store entered the spool first, and it
\* stored it once.
RequestInv ==
  /\ disp = "send" => cur \in Held
  /\ late \subseteq Held
  /\ \A b \in Batch : copies[b] > 0 => b \in Held /\ copies[b] = 1

LinesInv == QueueInv /\ LayoutInv /\ FlushInv /\ RequestInv

\* What the spool holds or has let go are batches.
LEMMA HeldTyped ==
  ASSUME SpoolTypeOK
  PROVE  Held \subseteq Batch
BY ElementOfSeq DEF SpoolTypeOK, Held, Pending, ToSet

\* Spool.Commit adds the batch and moves the checkpoint of its source.
LEMMA CommitHolds ==
  ASSUME Data, QueueInv, NEW b \in Batch, SpoolCommit(b)
  PROVE  /\ b \notin Held /\ Held' = Held \cup {b} /\ QueueInv'
         /\ \A k \in Source : checkpoint'[k] = IF k = KeyOf[b] THEN PosOf[b] ELSE checkpoint[k]
<1>1. queue \in Seq(Batch) /\ b \notin ToSet(queue) /\ checkpoint \in [Source -> Pos]
  BY DEF Data, SpoolTypeOK, SpoolCommit, Pending
<1>2. IsInjective(queue') /\ ToSet(queue') = ToSet(queue) \cup {b}
  BY <1>1, AppendToDistinct DEF SpoolCommit, QueueInv
<1>3. UNCHANGED <<quarantined, done>> /\ checkpoint' = [checkpoint EXCEPT ![KeyOf[b]] = PosOf[b]]
  BY DEF SpoolCommit
<1>4. b \notin Held
  BY DEF SpoolCommit, Held
<1>. QED BY <1>1, <1>2, <1>3, <1>4 DEF QueueInv, Held, Pending

\* Ack and Quarantine only move a batch that entered earlier.
LEMMA RemovalHolds ==
  ASSUME Data, QueueInv, NEW b \in Batch, SpoolAck(b) \/ SpoolQuarantine(b)
  PROVE  Held' = Held /\ QueueInv' /\ checkpoint' = checkpoint
<1>1. queue \in Seq(Batch) /\ queue' = RemoveFirst(queue, b) /\ checkpoint' = checkpoint
  BY DEF Data, SpoolTypeOK, SpoolAck, SpoolQuarantine
<1>2. IsInjective(queue') /\ ToSet(queue') = ToSet(queue) \ {b}
  BY <1>1, RemoveFirstOfDistinct DEF QueueInv
<1>3. CASE SpoolAck(b)
  BY <1>1, <1>2, <1>3 DEF QueueInv, SpoolAck, Held, Pending
<1>4. CASE SpoolQuarantine(b)
  BY <1>1, <1>2, <1>4 DEF QueueInv, SpoolQuarantine, Held, Pending
<1>. QED BY <1>3, <1>4

\* A step that leaves the spool alone moves no batch.
LEMMA IdleHolds ==
  ASSUME QueueInv, UNCHANGED spoolVars
  PROVE  Held' = Held /\ QueueInv' /\ checkpoint' = checkpoint
BY DEF QueueInv, spoolVars, Held, Pending

\* The layout depends on the batches and the checkpoints only.
LEMMA LayoutUnchanged ==
  ASSUME LayoutInv, Held' = Held, checkpoint' = checkpoint
  PROVE  LayoutInv'
BY DEF LayoutInv, Covers

\* A batch that starts where the checkpoint ends extends the layout.
LEMMA LayoutExtended ==
  ASSUME Data, LayoutInv, NEW b \in Batch, b \notin Held, Held' = Held \cup {b},
         LoOf[b] = checkpoint[KeyOf[b]] + 1,
         \A k \in Source : checkpoint'[k] = IF k = KeyOf[b] THEN PosOf[b] ELSE checkpoint[k]
  PROVE  LayoutInv'
<1>. DEFINE k == KeyOf[b]
<1>0. /\ \A c \in Batch : KeyOf[c] \in Source /\ LoOf[c] \in Nat /\ PosOf[c] \in Nat /\ LoOf[c] <= PosOf[c]
      /\ \A j \in Source : checkpoint[j] \in Nat
      /\ Held \subseteq Batch
  BY DataAssumption, AgentAssumption, HeldTyped DEF Data
<1>1. checkpoint[k] < LoOf[b] /\ LoOf[b] <= PosOf[b] /\ checkpoint'[k] = PosOf[b]
  BY <1>0
<1>2. ASSUME NEW c \in Held'
      PROVE  PosOf[c] <= checkpoint'[KeyOf[c]]
  <2>1. CASE c = b
    BY <1>0, <1>1, <2>1
  <2>2. CASE c \in Held /\ KeyOf[c] = k
    <3>1. PosOf[c] <= checkpoint[k]
      BY <2>2 DEF LayoutInv
    <3>. QED BY <1>0, <1>1, <2>2, <3>1
  <2>3. CASE c \in Held /\ KeyOf[c] # k
    BY <1>0, <2>3 DEF LayoutInv
  <2>. QED BY <2>1, <2>2, <2>3
<1>3. ASSUME NEW c \in Held', NEW d \in Held', KeyOf[c] = KeyOf[d], c # d
      PROVE  PosOf[c] < LoOf[d] \/ PosOf[d] < LoOf[c]
  <2>1. ASSUME NEW e \in Held, KeyOf[e] = k
        PROVE  PosOf[e] < LoOf[b]
    <3>1. PosOf[e] <= checkpoint[k]
      BY <2>1 DEF LayoutInv
    <3>. QED BY <1>0, <1>1, <3>1
  <2>2. CASE c \in Held /\ d \in Held
    BY <1>3, <2>2 DEF LayoutInv
  <2>. QED BY <1>3, <2>1, <2>2
<1>4. ASSUME NEW j \in Source, NEW n \in 1..checkpoint'[j]
      PROVE  \E c \in Held' : Covers(c, j, n)
  <2>1. CASE n \in 1..checkpoint[j]
    <3>1. PICK c \in Held : Covers(c, j, n)
      BY <2>1 DEF LayoutInv
    <3>. QED BY <3>1
  <2>2. CASE n \notin 1..checkpoint[j]
    <3>1. j = k
      BY <2>2
    <3>2. LoOf[b] <= n /\ n <= PosOf[b]
      BY <1>0, <1>1, <2>2, <3>1
    <3>. QED BY <3>1, <3>2 DEF Covers
  <2>. QED BY <2>1, <2>2
<1>. QED BY <1>2, <1>3, <1>4 DEF LayoutInv, Covers

\* The goroutine a signal wakes does not start to read.
LEMMA SignalStartsNoReader ==
  ASSUME Goroutines, NEW p \in [Source -> PipelineAt], NEW d, signal(p, d)
  PROVE  \A k \in Source : pl'[k] = "read" => p[k] = "read"
BY DEF signal

\* What a step does to the spool and to the batches in the pipelines' hands.
Moved == Held' = Held /\ QueueInv' /\ checkpoint' = checkpoint

\* A pipeline commits behind its checkpoint, and only what it read.
LEMMA PipelineLines ==
  ASSUME ProcessInv, QueueInv, LayoutInv, FlushInv, NEW k \in Source, Pipeline(k) \/ CommitFails(k)
  PROVE  QueueInv' /\ LayoutInv' /\ FlushInv' /\ Held \subseteq Held'
<1>0. Goroutines /\ Data
  BY ProcessInvSplit
<1>1. CASE ReadRecord(k) \/ CommitFull(k) \/ AwaitSpace(k)
  <2>1. UNCHANGED <<spoolVars, batch, agent>> /\ \A j \in Source : pl'[j] = "read" => pl[j] = "read"
    BY <1>0, <1>1 DEF ReadRecord, CommitFull, AwaitSpace, Goroutines
  <2>2. Moved
    BY <2>1, IdleHolds DEF Moved
  <2>3. LayoutInv'
    BY <2>2, LayoutUnchanged DEF Moved
  <2>. QED BY <2>1, <2>2, <2>3 DEF FlushInv, Moved
<1>2. CASE Flush(k)
  <2>1. PICK b \in Batch : Built(k, b) /\ batch' = [batch EXCEPT ![k] = b]
    BY <1>2 DEF Flush
  <2>2. UNCHANGED <<spoolVars, agent>> /\ agent = "up" /\ pl' = [pl EXCEPT ![k] = "commit"]
    BY <1>2 DEF Flush
  <2>3. Moved
    BY <2>2, IdleHolds DEF Moved
  <2>4. /\ \A j \in Source : batch'[j] = IF j = k THEN b ELSE batch[j]
        /\ \A j \in Source : pl'[j] = IF j = k THEN "commit" ELSE pl[j]
    BY <1>0, <2>1, <2>2 DEF Goroutines
  <2>5. FlushInv'
    BY <2>1, <2>2, <2>3, <2>4 DEF FlushInv, Built, Moved
  <2>. QED BY <2>3, <2>5, LayoutUnchanged DEF Moved
<1>3. CASE CommitBatch(k)
  <2>. DEFINE b == batch[k]
              p == [pl EXCEPT ![k] = "read"]
  <2>1. /\ pl[k] = "commit" /\ SpoolCommit(b) /\ batch' = [batch EXCEPT ![k] = NoBatch]
        /\ signal(p, disp) /\ UNCHANGED agent /\ agent = "up"
    BY <1>3 DEF CommitBatch
  <2>2. b \in Batch /\ KeyOf[b] = k /\ LoOf[b] = checkpoint[k] + 1
    BY <1>0, <2>1, AgentAssumption DEF Goroutines, WaitersQueued, FlushInv
  <2>3. /\ b \notin Held /\ Held' = Held \cup {b} /\ QueueInv'
        /\ \A j \in Source : checkpoint'[j] = IF j = KeyOf[b] THEN PosOf[b] ELSE checkpoint[j]
    BY <1>0, <2>1, <2>2, CommitHolds
  <2>4. LayoutInv'
    BY <1>0, <2>2, <2>3, LayoutExtended
  <2>5. p \in [Source -> PipelineAt] /\ \A j \in Source : p[j] = IF j = k THEN "read" ELSE pl[j]
    BY <1>0 DEF Goroutines, PipelineAt
  <2>6. \A j \in Source : pl'[j] = "read" => p[j] = "read"
    BY <1>0, <2>1, <2>5, SignalStartsNoReader
  <2>7. \A j \in Source : batch'[j] = IF j = k THEN NoBatch ELSE batch[j]
    BY <1>0, <2>1 DEF Goroutines
  <2>8. FlushInv'
    <3>1. ASSUME NEW j \in Source, batch'[j] # NoBatch
          PROVE  KeyOf[batch'[j]] = j /\ LoOf[batch'[j]] = checkpoint'[j] + 1
      BY <2>2, <2>3, <2>7, <3>1 DEF FlushInv
    <3>2. ASSUME NEW j \in Source, pl'[j] = "read" \/ agent' = "down"
          PROVE  batch'[j] = NoBatch
      BY <2>1, <2>5, <2>6, <2>7, <3>2 DEF FlushInv
    <3>. QED BY <3>1, <3>2 DEF FlushInv
  <2>. QED BY <2>3, <2>4, <2>8
<1>4. CASE PipelineStops(k) \/ CommitFails(k)
  <2>1. /\ UNCHANGED <<spoolVars, agent>> /\ batch' = [batch EXCEPT ![k] = NoBatch]
        /\ \A j \in Source : pl'[j] = "read" => pl[j] = "read"
    BY <1>0, <1>4 DEF PipelineStops, CommitFails, Goroutines
  <2>2. Moved
    BY <2>1, IdleHolds DEF Moved
  <2>3. \A j \in Source : batch'[j] = IF j = k THEN NoBatch ELSE batch[j]
    BY <1>0, <2>1 DEF Goroutines
  <2>4. FlushInv'
    BY <2>1, <2>2, <2>3 DEF FlushInv, Moved
  <2>. QED BY <2>2, <2>4, LayoutUnchanged DEF Moved
<1>5. CASE shutdownFlush(k)
  <2>. DEFINE p == [pl EXCEPT ![k] = "stopped"]
  <2>1. PICK b \in Batch : Built(k, b) /\ SpoolCommit(b)
    BY <1>5 DEF shutdownFlush
  <2>2. pl[k] = "read" /\ UNCHANGED <<agent, batch>> /\ agent = "stopping" /\ signal(p, disp)
    BY <1>5 DEF shutdownFlush
  <2>3. KeyOf[b] = k /\ LoOf[b] = checkpoint[k] + 1
    BY <2>1 DEF Built
  <2>4. /\ b \notin Held /\ Held' = Held \cup {b} /\ QueueInv'
        /\ \A j \in Source : checkpoint'[j] = IF j = KeyOf[b] THEN PosOf[b] ELSE checkpoint[j]
    BY <1>0, <2>1, CommitHolds
  <2>5. LayoutInv'
    BY <1>0, <2>3, <2>4, LayoutExtended
  <2>6. p \in [Source -> PipelineAt] /\ \A j \in Source : p[j] = IF j = k THEN "stopped" ELSE pl[j]
    BY <1>0 DEF Goroutines, PipelineAt
  <2>7. \A j \in Source : pl'[j] = "read" => p[j] = "read"
    BY <1>0, <2>2, <2>6, SignalStartsNoReader
  <2>8. batch[k] = NoBatch
    BY <2>2 DEF FlushInv
  <2>9. FlushInv'
    <3>1. ASSUME NEW j \in Source, batch'[j] # NoBatch
          PROVE  KeyOf[batch'[j]] = j /\ LoOf[batch'[j]] = checkpoint'[j] + 1
      BY <2>2, <2>3, <2>4, <2>8, <3>1 DEF FlushInv
    <3>2. ASSUME NEW j \in Source, pl'[j] = "read" \/ agent' = "down"
          PROVE  batch'[j] = NoBatch
      BY <2>2, <2>6, <2>7, <3>2 DEF FlushInv
    <3>. QED BY <3>1, <3>2 DEF FlushInv
  <2>. QED BY <2>4, <2>5, <2>9
<1>. QED BY <1>1, <1>2, <1>3, <1>4, <1>5 DEF Pipeline

\* Nobody but a pipeline commits, and no one else holds a batch for it.
OthersNext ==
  \/ Dispatch \/ SendFails \/ ServerNext \/ Start \/ Stop \/ Exit \/ Crash
  \/ \E b \in Batch : Elapse(b) \/ Discard(b)

\* Nobody else changes which batches there are.
LEMMA OthersLines ==
  ASSUME ProcessInv, QueueInv, LayoutInv, FlushInv, OthersNext
  PROVE  Moved /\ LayoutInv' /\ FlushInv'
<1>0. Goroutines /\ Data /\ RequestsOfARunningAgent
  BY ProcessInvSplit
<1>1. CASE OnAccepted \/ OnQuarantine \/ AckCloses
  <2>1. /\ cur \in Batch /\ (SpoolAck(cur) \/ SpoolQuarantine(cur)) /\ UNCHANGED batch
        /\ agent' # "down" /\ agent # "down" /\ \E d : signal(pl, d)
    BY <1>0, <1>1 DEF OnAccepted, OnQuarantine, AckCloses, Returned, RequestsOfARunningAgent
  <2>2. Moved
    BY <1>0, <2>1, RemovalHolds DEF Moved
  <2>3. \A j \in Source : pl'[j] = "read" => pl[j] = "read"
    BY <1>0, <2>1, SignalStartsNoReader DEF Goroutines
  <2>4. FlushInv'
    BY <2>1, <2>2, <2>3 DEF FlushInv, Moved
  <2>. QED BY <2>2, <2>4, LayoutUnchanged DEF Moved
<1>2. ASSUME NEW b \in Batch, Discard(b)
      PROVE  Moved /\ LayoutInv' /\ FlushInv'
  <2>1. SpoolAck(b) /\ UNCHANGED <<batch, agent, pl>>
    BY <1>2 DEF Discard, procVars
  <2>2. Moved
    BY <1>0, <2>1, RemovalHolds DEF Moved
  <2>3. FlushInv'
    BY <2>1, <2>2 DEF FlushInv, Moved
  <2>. QED BY <2>2, <2>3, LayoutUnchanged DEF Moved
<1>3. CASE Exit \/ Crash
  <2>1. UNCHANGED spoolVars /\ batch' = [k \in Source |-> NoBatch]
    BY <1>3 DEF Exit, Crash, Down
  <2>2. Moved
    BY <2>1, IdleHolds DEF Moved
  <2>3. FlushInv'
    BY <2>1 DEF FlushInv
  <2>. QED BY <2>2, <2>3, LayoutUnchanged DEF Moved
<1>4. CASE Start
  <2>1. UNCHANGED <<spoolVars, batch>> /\ agent = "down"
    BY <1>4 DEF Start
  <2>2. Moved
    BY <2>1, IdleHolds DEF Moved
  <2>3. FlushInv'
    BY <2>1, <2>2 DEF FlushInv, Moved
  <2>. QED BY <2>2, <2>3, LayoutUnchanged DEF Moved
<1>5. ASSUME UNCHANGED <<spoolVars, batch, pl>>, agent' = agent \/ agent' = "stopping"
      PROVE  Moved /\ LayoutInv' /\ FlushInv'
  <2>1. Moved
    BY <1>5, IdleHolds DEF Moved
  <2>2. FlushInv'
    BY <1>5, <2>1 DEF FlushInv, Moved
  <2>. QED BY <2>1, <2>2, LayoutUnchanged DEF Moved
<1>6. CASE nextPending \/ waitForDispatcherEvent \/ TimerFires \/ OnRetryable \/ SendFails \/ DispatcherStops
  BY <1>5, <1>6 DEF nextPending, waitForDispatcherEvent, TimerFires, OnRetryable, SendFails, BackOff,
                    DispatcherStops, procVars
<1>7. CASE ServerNext \/ Stop \/ \E b \in Batch : Elapse(b)
  BY <1>5, <1>7 DEF ServerNext, Serve, ServeFails, ServeLate, Administer, Stop, Elapse, procVars
<1>. QED BY <1>1, <1>2, <1>3, <1>4, <1>6, <1>7 DEF OthersNext, Dispatch

\* Accept stores a batch that is not stored, once.
LEMMA AcceptOnce ==
  ASSUME Data, NEW b \in Batch, Accept(b), \A c \in Batch : copies[c] > 0 => copies[c] = 1
  PROVE  /\ \A c \in Batch : c # b => copies'[c] = copies[c]
         /\ copies'[b] > 0 => copies'[b] = 1
<1>1. copies \in [Batch -> Nat]
  BY DEF Data
<1>2. CASE Answer(b) = Reply(200, "accepted")
  <2>1. copies' = [copies EXCEPT ![b] = @ + 1]
    BY <1>2 DEF Accept
  <2>2. ~Inserted(b)
    <3>. SUFFICES ASSUME Inserted(b)
                  PROVE  FALSE
      OBVIOUS
    <3>1. server \in {"ok", "unavailable", "unauthorized"}
      BY DEF Data
    <3>2. Answer(b) \in {Reply(200, "duplicate"), Reply(401, "invalid_credential"),
                         Reply(422, "invalid_batch"), Reply(409, "resource_unavailable")}
      BY <3>1 DEF Answer
    <3>. QED BY <1>2, <3>2 DEF Reply
  <2>3. copies[b] = 0
    BY <1>1, <2>2 DEF Inserted
  <2>. QED BY <1>1, <2>1, <2>3
<1>3. CASE Answer(b) # Reply(200, "accepted")
  BY <1>3 DEF Accept
<1>. QED BY <1>2, <1>3

\* What is asked of the server comes out of the spool, in every step.
LEMMA RequestsStep ==
  ASSUME ProcessInv, RequestInv, Held \subseteq Held', Next
  PROVE  RequestInv'
<1>0. Goroutines /\ Data /\ RequestsOfARunningAgent
  BY ProcessInvSplit
<1>1. ASSUME disp' = "send" => cur' \in Held, late' \subseteq Held, UNCHANGED copies
      PROVE  RequestInv'
  BY <1>1 DEF RequestInv
<1>2. CASE \E k \in Source : Pipeline(k) \/ CommitFails(k)
  <2>1. PICK k \in Source : Pipeline(k) \/ CommitFails(k)
    BY <1>2
  <2>2. UNCHANGED <<cur, late, copies>>
    BY <2>1 DEF Pipeline, ReadRecord, Flush, CommitBatch, CommitFull, CommitFails, AwaitSpace, PipelineStops,
                shutdownFlush, dispVars, netVars
  <2>3. disp' = disp \/ disp' = "next"
    BY <2>1 DEF Pipeline, ReadRecord, Flush, CommitBatch, CommitFull, CommitFails, AwaitSpace, PipelineStops,
                shutdownFlush, dispVars, signal
  <2>. QED BY <1>1, <2>2, <2>3 DEF RequestInv
<1>3. CASE nextPending
  <2>1. UNCHANGED <<late, copies>>
    BY <1>3 DEF nextPending
  <2>2. ASSUME disp' = "send"
        PROVE  cur' \in Held
    <3>1. Deliverable # {} /\ cur' = queue[Min(Deliverable)]
      BY <1>3, <2>2 DEF nextPending
    <3>2. Deliverable \in SUBSET Nat /\ Deliverable \subseteq DOMAIN queue
      BY <1>0 DEF Deliverable, Data, SpoolTypeOK
    <3>3. Min(Deliverable) \in DOMAIN queue
      BY <3>1, <3>2, MinIsLeast
    <3>. QED BY <3>1, <3>3 DEF Held, Pending, ToSet
  <2>. QED BY <1>1, <2>1, <2>2 DEF RequestInv
<1>4. CASE OnAccepted \/ OnQuarantine \/ AckCloses
  <2>1. UNCHANGED <<late, copies>> /\ disp' \in {"next", "off"}
    BY <1>4 DEF OnAccepted, OnQuarantine, AckCloses, signal
  <2>. QED BY <1>1, <2>1 DEF RequestInv
<1>5. CASE waitForDispatcherEvent \/ TimerFires \/ OnRetryable \/ DispatcherStops
  <2>1. UNCHANGED <<late, copies>> /\ disp' # "send"
    BY <1>5 DEF waitForDispatcherEvent, TimerFires, OnRetryable, BackOff, DispatcherStops, netVars
  <2>. QED BY <1>1, <2>1 DEF RequestInv
<1>6. CASE SendFails \/ Stop \/ Crash \/ Exit
  <2>1. UNCHANGED copies /\ disp' # "send" /\ late' \subseteq Held
    BY <1>6 DEF SendFails, BackOff, Stop, Crash, Exit, Down, Abandon, RequestInv
  <2>. QED BY <1>1, <2>1
<1>7. CASE Start
  <2>1. UNCHANGED <<late, copies>> /\ disp' # "send"
    BY <1>7 DEF Start, netVars
  <2>. QED BY <1>1, <2>1 DEF RequestInv
<1>8. CASE ServeFails \/ \E b \in Batch : Elapse(b) \/ Discard(b)
  <2>1. UNCHANGED <<late, copies, disp, cur>>
    BY <1>8 DEF ServeFails, Elapse, Discard, dispVars, netVars
  <2>. QED BY <1>1, <2>1 DEF RequestInv
<1>9. CASE \E s \in {"ok", "unavailable", "unauthorized"} : Administer(s)
  <2>1. UNCHANGED <<late, copies, disp, cur>>
    BY <1>9 DEF Administer, dispVars
  <2>. QED BY <1>1, <2>1 DEF RequestInv
<1>10. ASSUME NEW b \in Batch, b \in Held, Accept(b), disp' = "send" => cur' \in Held, late' \subseteq Held
       PROVE  RequestInv'
  <2>1. /\ \A c \in Batch : c # b => copies'[c] = copies[c]
        /\ copies'[b] > 0 => copies'[b] = 1
    BY <1>0, <1>10, AcceptOnce DEF RequestInv
  <2>. QED BY <1>10, <2>1 DEF RequestInv
<1>11. CASE Serve
  <2>1. disp = "send" /\ cur \in Batch /\ Accept(cur) /\ UNCHANGED <<disp, cur, late>>
    BY <1>0, <1>11 DEF Serve, dispVars, RequestsOfARunningAgent
  <2>. QED BY <1>10, <2>1 DEF RequestInv
<1>12. ASSUME NEW b \in Batch, ServeLate(b)
       PROVE  RequestInv'
  <2>1. b \in late /\ late' \subseteq late /\ UNCHANGED <<disp, cur>> /\ (Accept(b) \/ UNCHANGED copies)
    BY <1>12 DEF ServeLate, dispVars
  <2>. QED BY <1>1, <1>10, <2>1 DEF RequestInv
<1>. QED BY <1>2, <1>3, <1>4, <1>5, <1>6, <1>7, <1>8, <1>9, <1>11, <1>12 DEF Next, Dispatch

\* Every step keeps the layout of lines and batches.
LEMMA LinesInvStep == ProcessInv /\ LinesInv /\ [Next]_vars => LinesInv'
<1>1. ASSUME ProcessInv, LinesInv, Next
      PROVE  LinesInv'
  <2>1. (\E k \in Source : Pipeline(k) \/ CommitFails(k)) \/ OthersNext
    BY <1>1 DEF Next, OthersNext, ServerNext
  <2>2. QueueInv' /\ LayoutInv' /\ FlushInv' /\ Held \subseteq Held'
    BY <1>1, <2>1, PipelineLines, OthersLines DEF LinesInv, Moved
  <2>. QED BY <1>1, <2>2, RequestsStep DEF LinesInv
<1>2. ASSUME LinesInv, UNCHANGED vars
      PROVE  LinesInv'
  <2>1. UNCHANGED <<spoolVars, procVars, dispVars, netVars>>
    BY <1>2 DEF vars
  <2>2. Moved
    BY <1>2, <2>1, IdleHolds DEF LinesInv, Moved
  <2>3. LayoutInv'
    BY <1>2, <2>2, LayoutUnchanged DEF LinesInv, Moved
  <2>4. FlushInv' /\ RequestInv'
    BY <1>2, <2>1, <2>2 DEF LinesInv, Moved, FlushInv, RequestInv, procVars, dispVars, netVars
  <2>. QED BY <2>2, <2>3, <2>4 DEF LinesInv, Moved
<1>. QED BY <1>1, <1>2

\* At first there is no batch.
LEMMA LinesInvInit == Init => LinesInv
<1>. SUFFICES ASSUME Init
              PROVE  LinesInv
  OBVIOUS
<1>1. QueueInv /\ Held = {}
  BY EmptyIsDistinct DEF Init, QueueInv, Held, Pending
<1>2. LayoutInv
  BY <1>1 DEF Init, LayoutInv
<1>3. FlushInv /\ RequestInv
  BY <1>1 DEF Init, FlushInv, RequestInv
<1>. QED BY <1>1, <1>2, <1>3 DEF LinesInv

\* So it always holds.
LEMMA LinesInvAlways == Spec => [](ProcessInv /\ LinesInv)
BY ProcessInvAlways, LinesInvInit, LinesInvStep, PTL DEF Spec

\* Two batches in the spool that cover a line are one.
LEMMA OneHolder ==
  ASSUME ProcessInv, LinesInv, NEW k \in Source, NEW n \in Nat,
         NEW b \in Held, NEW c \in Held, Covers(b, k, n), Covers(c, k, n)
  PROVE  b = c /\ n <= checkpoint[k]
<1>1. b \in Batch /\ c \in Batch
  BY HeldTyped DEF ProcessInv, TypeOK
<1>2. /\ LoOf[b] \in Nat /\ PosOf[b] \in Nat /\ LoOf[c] \in Nat /\ PosOf[c] \in Nat
      /\ checkpoint[k] \in Nat
  BY <1>1, DataAssumption, AgentAssumption DEF ProcessInv, TypeOK
<1>3. PosOf[b] <= checkpoint[k]
  BY DEF LinesInv, LayoutInv, Covers
<1>4. KeyOf[b] = KeyOf[c]
  BY DEF Covers
<1>5. b # c => PosOf[b] < LoOf[c] \/ PosOf[c] < LoOf[b]
  BY <1>4 DEF LinesInv, LayoutInv
<1>. QED BY <1>2, <1>3, <1>5 DEF Covers

\* Crashes between reading and committing, failed commits, full spools and
\* shutdowns neither skip a line of a source nor put it into two batches: the
\* lines below the durable checkpoint are in one batch each, the others in none.
THEOREM LinesAlwaysAccounted == Spec => []LinesAccounted
<1>1. ASSUME ProcessInv, LinesInv
      PROVE  LinesAccounted
  <2>. SUFFICES ASSUME NEW k \in Source, NEW n \in 1..Lines[k]
                PROVE  LET holders == {b \in Held : Covers(b, k, n)}
                       IN  IF n <= checkpoint[k] THEN \E b \in holders : holders = {b} ELSE holders = {}
    BY DEF LinesAccounted
  <2>. DEFINE holders == {b \in Held : Covers(b, k, n)}
  <2>0. checkpoint[k] \in Nat /\ Lines[k] \in Nat
    BY <1>1, AgentAssumption DEF ProcessInv, TypeOK
  <2>1. n \in Nat /\ n >= 1 /\ checkpoint[k] \in Nat
    BY <2>0
  <2>2. CASE n <= checkpoint[k]
    <3>1. n \in 1..checkpoint[k]
      BY <2>1, <2>2
    <3>2. PICK b \in Held : Covers(b, k, n)
      BY <1>1, <3>1 DEF LinesInv, LayoutInv
    <3>3. \A c \in holders : c = b
      BY <1>1, <2>1, <3>2, OneHolder
    <3>4. b \in holders /\ holders = {b}
      BY <3>2, <3>3
    <3>. QED BY <2>2, <3>4
  <2>3. CASE ~(n <= checkpoint[k])
    <3>1. holders = {}
      BY <1>1, <2>1, <2>3, OneHolder
    <3>. QED BY <2>3, <3>1
  <2>. QED BY <2>2, <2>3
<1>. QED BY <1>1, LinesInvAlways, PTL

\* A line that is sent again after a lost reply, a crash or a restart, in its
\* old batch, is stored once: a stored batch has been in the spool, whose
\* batches share no line, and the server stores each of them once.
THEOREM LinesStoredOnce == Spec => []StoredOnce
<1>1. ASSUME ProcessInv, LinesInv
      PROVE  StoredOnce
  <2>1. ASSUME NEW k \in Source, NEW n \in 1..Lines[k], NEW b \in Batch, NEW c \in Batch,
               Covers(b, k, n), Covers(c, k, n), Inserted(b), Inserted(c)
        PROVE  b = c /\ copies[b] = 1
    <3>1. b \in Held /\ c \in Held /\ copies[b] = 1
      BY <1>1, <2>1 DEF LinesInv, RequestInv, Inserted
    <3>2. n \in Nat
      BY AgentAssumption
    <3>. QED BY <1>1, <2>1, <3>1, <3>2, OneHolder
  <2>. QED BY <2>1 DEF StoredOnce
<1>. QED BY <1>1, LinesInvAlways, PTL

-----------------------------------------------------------------------------
(* Nothing a source was advanced over is lost.                             *)

\* Every line below a source's durable checkpoint, which the agent therefore
\* never reads again, still waits in the spool, sits in the local quarantine,
\* is stored by the server, or was discarded by the operator.
NoLineLost ==
  \A k \in Source : \A n \in 1..checkpoint[k] :
    \E b \in Batch :
      Covers(b, k, n) /\ (b \in Pending \cup quarantined \/ Inserted(b) \/ b \in discarded)

\* A checkpoint moves forward, and server, spool and operator forget no batch
\* that went through them.
OnlyForward ==
  /\ \A k \in Source : checkpoint[k] <= checkpoint'[k]
  /\ \A b \in Batch : copies[b] <= copies'[b]
  /\ Held \subseteq Held' /\ done \subseteq done' /\ discarded \subseteq discarded'

\* No step, of a crash or a restart either, takes anything back.
NothingTakenBack == [][OnlyForward]_vars

\* A pipeline commits behind the checkpoint, so that its checkpoint only
\* advances.
LEMMA CommitAdvances ==
  ASSUME Data, QueueInv, NEW k \in Source, NEW b \in Batch, SpoolCommit(b),
         KeyOf[b] = k, LoOf[b] = checkpoint[k] + 1
  PROVE  \A j \in Source : checkpoint[j] <= checkpoint'[j]
<1>1. \A j \in Source : checkpoint'[j] = IF j = KeyOf[b] THEN PosOf[b] ELSE checkpoint[j]
  BY CommitHolds
<1>2. LoOf[b] <= PosOf[b] /\ LoOf[b] \in Nat /\ PosOf[b] \in Nat
  BY DataAssumption, AgentAssumption
<1>3. \A j \in Source : checkpoint[j] \in Nat
  BY AgentAssumption DEF Data
<1>. QED BY <1>1, <1>2, <1>3

\* Nobody else moves a checkpoint, and what entered the spool is remembered.
LEMMA CheckpointsAdvance ==
  ASSUME ProcessInv, LinesInv, Next
  PROVE  (\A k \in Source : checkpoint[k] <= checkpoint'[k]) /\ Held \subseteq Held'
<1>0. Goroutines /\ Data /\ QueueInv /\ LayoutInv /\ FlushInv
  BY ProcessInvSplit DEF LinesInv
<1>1. \A k \in Source : checkpoint[k] \in Nat
  BY <1>0, AgentAssumption DEF Data
<1>2. ASSUME checkpoint' = checkpoint
      PROVE  \A k \in Source : checkpoint[k] <= checkpoint'[k]
  BY <1>1, <1>2
<1>3. ASSUME NEW k \in Source, Pipeline(k) \/ CommitFails(k)
      PROVE  \A j \in Source : checkpoint[j] <= checkpoint'[j]
  <2>1. CASE CommitBatch(k)
    <3>1. pl[k] = "commit" /\ SpoolCommit(batch[k])
      BY <2>1 DEF CommitBatch
    <3>2. batch[k] \in Batch /\ KeyOf[batch[k]] = k /\ LoOf[batch[k]] = checkpoint[k] + 1
      BY <1>0, <3>1, AgentAssumption DEF Goroutines, WaitersQueued, FlushInv
    <3>. QED BY <1>0, <3>1, <3>2, CommitAdvances
  <2>2. CASE shutdownFlush(k)
    <3>1. PICK b \in Batch : Built(k, b) /\ SpoolCommit(b)
      BY <2>2 DEF shutdownFlush
    <3>2. KeyOf[b] = k /\ LoOf[b] = checkpoint[k] + 1
      BY <3>1 DEF Built
    <3>. QED BY <1>0, <3>1, <3>2, CommitAdvances
  <2>3. CASE ReadRecord(k) \/ Flush(k) \/ CommitFull(k) \/ AwaitSpace(k) \/ PipelineStops(k) \/ CommitFails(k)
    BY <1>2, <2>3 DEF ReadRecord, Flush, CommitFull, AwaitSpace, PipelineStops, CommitFails, spoolVars
  <2>. QED BY <1>3, <2>1, <2>2, <2>3 DEF Pipeline
<1>4. CASE OthersNext
  BY <1>0, <1>2, <1>4, OthersLines DEF Moved
<1>5. (\E k \in Source : Pipeline(k) \/ CommitFails(k)) \/ OthersNext
  BY DEF Next, OthersNext, ServerNext
<1>6. Held \subseteq Held'
  BY <1>0, <1>5, PipelineLines, OthersLines DEF Moved
<1>. QED BY <1>3, <1>4, <1>5, <1>6

\* What left the spool for good, and what was discarded, stays so.
LEMMA DeletionsStand ==
  ASSUME ProcessInv, Next
  PROVE  done \subseteq done' /\ discarded \subseteq discarded'
<1>1. ASSUME NEW k \in Source, Pipeline(k) \/ CommitFails(k)
      PROVE  UNCHANGED <<done, discarded>>
  BY <1>1 DEF Pipeline, ReadRecord, Flush, CommitBatch, CommitFull, AwaitSpace, PipelineStops,
              shutdownFlush, CommitFails, SpoolCommit, spoolVars
<1>2. CASE OnAccepted \/ OnQuarantine \/ AckCloses
  BY <1>2 DEF OnAccepted, OnQuarantine, AckCloses, SpoolAck, SpoolQuarantine
<1>3. ASSUME NEW b \in Batch, Discard(b)
      PROVE  done \subseteq done' /\ discarded \subseteq discarded'
  BY <1>3 DEF Discard, SpoolAck
<1>4. CASE nextPending \/ waitForDispatcherEvent \/ TimerFires \/ OnRetryable \/ DispatcherStops \/ SendFails
  BY <1>4 DEF nextPending, waitForDispatcherEvent, TimerFires, OnRetryable, DispatcherStops, SendFails,
              BackOff, spoolVars
<1>5. CASE ServerNext \/ Start \/ Stop \/ Exit \/ Crash \/ \E b \in Batch : Elapse(b)
  BY <1>5 DEF ServerNext, Serve, ServeFails, ServeLate, Administer, Start, Stop, Exit, Crash, Elapse, spoolVars
<1>. QED BY <1>1, <1>2, <1>3, <1>4, <1>5 DEF Next, Dispatch, ServerNext

\* The server's store only grows.
LEMMA StoreGrows ==
  ASSUME ProcessInv, Next
  PROVE  \A b \in Batch : copies[b] <= copies'[b]
<1>0. copies \in [Batch -> Nat] /\ RequestsOfARunningAgent
  BY DEF ProcessInv, TypeOK
<1>1. CASE UNCHANGED copies
  BY <1>0, <1>1
<1>2. ASSUME NEW b \in Batch, Accept(b)
      PROVE  \A c \in Batch : copies[c] <= copies'[c]
  BY <1>0, <1>2 DEF Accept
<1>3. ASSUME Serve
      PROVE  \A c \in Batch : copies[c] <= copies'[c]
  <2>1. cur \in Batch /\ Accept(cur)
    BY <1>0, <1>3 DEF Serve, RequestsOfARunningAgent
  <2>. QED BY <1>2, <2>1
<1>4. ASSUME NEW b \in Batch, ServeLate(b)
      PROVE  \A c \in Batch : copies[c] <= copies'[c]
  BY <1>1, <1>2, <1>4 DEF ServeLate
<1>5. ASSUME NEW k \in Source, Pipeline(k) \/ CommitFails(k)
      PROVE  UNCHANGED copies
  BY <1>5 DEF Pipeline, ReadRecord, Flush, CommitBatch, CommitFull, AwaitSpace, PipelineStops,
              shutdownFlush, CommitFails, netVars
<1>6. CASE Dispatch \/ SendFails \/ ServeFails \/ Start \/ Stop \/ Exit \/ Crash
  BY <1>1, <1>6 DEF Dispatch, nextPending, waitForDispatcherEvent, TimerFires, OnAccepted, OnQuarantine,
                    OnRetryable, DispatcherStops, AckCloses, SendFails, BackOff, ServeFails, Start, Stop,
                    Exit, Crash, Down, netVars
<1>7. CASE \E b \in Batch : Elapse(b) \/ Discard(b)
  BY <1>1, <1>7 DEF Elapse, Discard, netVars
<1>8. CASE \E s \in {"ok", "unavailable", "unauthorized"} : Administer(s)
  BY <1>1, <1>8 DEF Administer
<1>. QED BY <1>1, <1>3, <1>4, <1>5, <1>6, <1>7, <1>8 DEF Next

\* End to end, across crashes, lost replies, outages, full spools, poison
\* batches and shutdowns: a checkpoint is never ahead of what is safe, and what
\* is safe stays so.  The layout of the batches names the one that holds the
\* line; if it has left the spool, the delivery invariant names who has it.
THEOREM AgentLosesNoLine == Spec => []NoLineLost /\ NothingTakenBack
<1>1. ASSUME ProcessInv, LinesInv, DeletedOnlyWhenStored
      PROVE  NoLineLost
  <2>. SUFFICES ASSUME NEW k \in Source, NEW n \in 1..checkpoint[k]
                PROVE  \E b \in Batch : /\ Covers(b, k, n)
                                        /\ b \in Pending \cup quarantined \/ Inserted(b) \/ b \in discarded
    BY DEF NoLineLost
  <2>1. PICK b \in Held : Covers(b, k, n)
    BY <1>1 DEF LinesInv, LayoutInv
  <2>2. b \in Batch
    BY <1>1, HeldTyped DEF ProcessInv, TypeOK
  <2>3. b \in Pending \cup quarantined \/ Inserted(b) \/ b \in discarded
    BY <1>1 DEF Held, DeletedOnlyWhenStored
  <2>. QED BY <2>1, <2>2, <2>3
<1>2. ProcessInv /\ LinesInv /\ [Next]_vars => [OnlyForward]_vars
  BY CheckpointsAdvance, DeletionsStand, StoreGrows DEF OnlyForward
<1>3. Spec => [][OnlyForward]_vars
  BY <1>2, LinesInvAlways, PTL DEF Spec
<1>4. Spec => NothingTakenBack
  BY <1>3 DEF NothingTakenBack
<1>5. Spec => []NoLineLost
  BY <1>1, LinesInvAlways, DeletionNeedsStorage, PTL
<1>. QED BY <1>4, <1>5

-----------------------------------------------------------------------------
(* Notifications.                                                          *)

\* A parked or sleeping dispatcher has its timer set for every batch that is
\* backing off; for another batch there is a notification, or a pipeline that
\* may have taken it.
Announced ==
  /\ Pending \cap blocked \subseteq armed
  /\ Pending \subseteq armed \/ token \/ \E k \in Source : MayHaveTaken(k)

\* The strengthening of WorkAnnounced.  Only batches that entered the spool
\* back off, so that one just committed does not; and nobody waits beside a
\* notification.
AnnounceInv ==
  /\ blocked \subseteq Held
  /\ token => waitq = <<>>
  /\ agent = "stopping" => disp = "off"
  /\ disp \in {"park", "wait"} => Announced

\* A signal reaches the slot, the dispatcher or a pipeline in its flush.
LEMMA SignalReaches ==
  ASSUME Goroutines, token => waitq = <<>>, NEW p \in [Source -> PipelineAt], NEW d, signal(p, d)
  PROVE  /\ token' => waitq' = <<>>
         /\ disp' = d \/ (disp = "wait" /\ disp' = "next")
         /\ token' \/ disp' = "next" \/ \E k \in Source : MayHaveTaken(k)'
<1>1. CASE waitq = <<>>
  BY <1>1 DEF signal
<1>2. CASE waitq # <<>>
  <2>1. Head(waitq) \in Source \cup {Dispatcher} /\ Head(waitq) \in ToSet(waitq)
    <3>1. Head(waitq) = waitq[1] /\ 1 \in DOMAIN waitq
      BY <1>2, HeadTailProperties, EmptySeq DEF Goroutines
    <3>2. Head(waitq) \in ToSet(waitq)
      BY <3>1 DEF ToSet
    <3>. QED BY <3>2, <1>2, HeadTailProperties DEF Goroutines
  <2>2. ~token'
    BY <1>2 DEF signal, Goroutines
  <2>3. CASE Head(waitq) = Dispatcher
    BY <1>2, <2>1, <2>2, <2>3 DEF signal, Goroutines, WaitersQueued
  <2>4. CASE Head(waitq) \in Source /\ Head(waitq) # Dispatcher
    <3>1. disp' = d /\ pl'[Head(waitq)] = "commit"
      BY <1>2, <2>4 DEF signal
    <3>. QED BY <2>2, <2>4, <3>1 DEF MayHaveTaken
  <2>. QED BY <2>1, <2>3, <2>4
<1>. QED BY <1>1, <1>2

\* Nobody is left in an empty queue.
LEMMA LeaveEmpty ==
  ASSUME NEW g, waitq = <<>>, Leave(g)
  PROVE  waitq' = <<>>
<1>1. waitq \in Seq(Source) /\ Len(waitq) = 0
  BY EmptySeq
<1>2. \/ RemoveFirst(waitq, g) = waitq
      \/ \E i \in 1..Len(waitq) : waitq[i] = g /\ RemoveFirst(waitq, g) = RemoveAt(waitq, i)
  BY <1>1, RemoveFirstIsRemoveAt, Zenon
<1>. QED BY <1>1, <1>2 DEF Leave

\* The pipelines.
LEMMA PipelineAnnounces ==
  ASSUME ProcessInv, LinesInv, AnnounceInv, Held \subseteq Held',
         NEW k \in Source, Pipeline(k) \/ CommitFails(k)
  PROVE  AnnounceInv'
<1>0. Goroutines /\ Data /\ QueueInv
  BY ProcessInvSplit DEF LinesInv
<1>1. pl \in [Source -> PipelineAt]
  BY <1>0 DEF Goroutines
<1>2. CASE ReadRecord(k)
  BY <1>2 DEF ReadRecord, AnnounceInv, Announced, MayHaveTaken, spoolVars, dispVars, chanVars, Pending
<1>3. CASE Flush(k) \/ CommitFull(k) \/ CommitFails(k)
  <2>1. /\ UNCHANGED <<blocked, token, waitq, agent, disp, armed, queue>>
        /\ pl'[k] \in {"commit", "full", "failed"}
    BY <1>1, <1>3 DEF Flush, CommitFull, CommitFails, spoolVars, dispVars, chanVars
  <2>2. MayHaveTaken(k)'
    BY <2>1 DEF MayHaveTaken
  <2>. QED BY <2>1, <2>2 DEF AnnounceInv, Announced, Pending
<1>4. CASE AwaitSpace(k)
  <2>1. /\ UNCHANGED <<blocked, agent, disp, armed, queue>> /\ ~token'
        /\ pl'[k] \in {"commit", "wait"}
    BY <1>0, <1>1, <1>4 DEF AwaitSpace, spoolVars, dispVars, Goroutines
  <2>2. MayHaveTaken(k)'
    BY <2>1 DEF MayHaveTaken
  <2>. QED BY <2>1, <2>2 DEF AnnounceInv, Announced, Pending
<1>5. CASE CommitBatch(k)
  <2>. DEFINE b == batch[k]
              q == [pl EXCEPT ![k] = "read"]
  <2>1. /\ b \in Batch /\ SpoolCommit(b) /\ signal(q, disp) /\ q \in [Source -> PipelineAt]
        /\ UNCHANGED <<agent, armed, blocked>> /\ agent = "up"
    BY <1>0, <1>1, <1>5 DEF CommitBatch, Goroutines, WaitersQueued, PipelineAt
  <2>. HIDE DEF q, b
  <2>2. b \notin Held
    BY <1>0, <2>1, CommitHolds
  <2>3. Pending' \cap blocked \subseteq Pending \cap blocked
    <3>1. queue \in Seq(Batch) /\ b \notin ToSet(queue) /\ queue' = Append(queue, b)
      BY <1>0, <2>1 DEF Data, SpoolTypeOK, SpoolCommit, Pending
    <3>2. ToSet(queue') = ToSet(queue) \cup {b}
      BY <1>0, <2>1, <3>1, AppendToDistinct DEF QueueInv
    <3>. QED BY <2>2, <3>2 DEF Pending, AnnounceInv
  <2>4. /\ token' => waitq' = <<>>
        /\ disp' = disp \/ (disp = "wait" /\ disp' = "next")
        /\ token' \/ disp' = "next" \/ \E j \in Source : MayHaveTaken(j)'
    BY <1>0, <2>1, SignalReaches DEF AnnounceInv
  <2>. QED BY <2>1, <2>3, <2>4 DEF AnnounceInv, Announced
<1>6. CASE PipelineStops(k)
  <2>1. /\ agent = "stopping" /\ UNCHANGED <<agent, disp, blocked, token>> /\ Leave(k)
    BY <1>6 DEF PipelineStops, dispVars
  <2>. QED BY <2>1, LeaveEmpty DEF AnnounceInv
<1>7. CASE shutdownFlush(k)
  <2>. DEFINE q == [pl EXCEPT ![k] = "stopped"]
  <2>1. /\ signal(q, disp) /\ q \in [Source -> PipelineAt] /\ disp = "off"
        /\ UNCHANGED <<agent, blocked>>
    BY <1>1, <1>7 DEF shutdownFlush, PipelineAt, AnnounceInv
  <2>. HIDE DEF q
  <2>2. (token' => waitq' = <<>>) /\ disp' = "off"
    BY <1>0, <2>1, SignalReaches DEF AnnounceInv
  <2>. QED BY <2>1, <2>2 DEF AnnounceInv
<1>. QED BY <1>2, <1>3, <1>4, <1>5, <1>6, <1>7 DEF Pipeline

\* The dispatcher looks at the queue before it parks, and its timer is set for
\* what it then saw backing off.
LEMMA DispatcherAnnounces ==
  ASSUME ProcessInv, LinesInv, AnnounceInv, Held \subseteq Held',
         Dispatch \/ SendFails \/ \E b \in Batch : Elapse(b)
  PROVE  AnnounceInv'
<1>0. Goroutines /\ Data /\ QueueInv /\ RequestInv /\ RequestsOfARunningAgent
  BY ProcessInvSplit DEF LinesInv
<1>1. CASE nextPending
  BY <1>1 DEF nextPending, AnnounceInv, Announced, Pending, spoolVars, procVars, chanVars
<1>2. CASE waitForDispatcherEvent
  <2>1. /\ UNCHANGED <<blocked, agent, armed, queue, pl>> /\ agent = "up" /\ disp = "park" /\ ~token'
        /\ disp' = "next" \/ (disp' = "wait" /\ ~token)
    BY <1>0, <1>2 DEF waitForDispatcherEvent, spoolVars, procVars, Goroutines
  <2>2. Pending' = Pending /\ \A k \in Source : MayHaveTaken(k)' = MayHaveTaken(k)
    BY <2>1 DEF Pending, MayHaveTaken
  <2>. QED BY <2>1, <2>2 DEF AnnounceInv, Announced
<1>3. CASE TimerFires
  <2>1. /\ UNCHANGED <<blocked, agent, token>> /\ agent = "up" /\ disp' = "next" /\ Leave(Dispatcher)
    BY <1>3 DEF TimerFires, procVars
  <2>. QED BY <2>1, LeaveEmpty DEF AnnounceInv
<1>4. CASE OnAccepted \/ OnQuarantine
  <2>1. /\ signal(pl, "next") /\ pl \in [Source -> PipelineAt] /\ agent' = "up" /\ blocked' \subseteq blocked
    BY <1>0, <1>4 DEF OnAccepted, OnQuarantine, Returned, Goroutines
  <2>2. (token' => waitq' = <<>>) /\ disp' = "next"
    BY <1>0, <2>1, SignalReaches DEF AnnounceInv
  <2>. QED BY <2>1, <2>2 DEF AnnounceInv
<1>5. CASE OnRetryable \/ SendFails
  <2>1. /\ disp = "send" /\ disp' = "next" /\ blocked' = blocked \cup {cur}
        /\ UNCHANGED <<agent, token, waitq>> /\ agent = "up"
    BY <1>5 DEF OnRetryable, SendFails, Returned, BackOff, procVars, chanVars
  <2>. QED BY <1>0, <2>1 DEF AnnounceInv, RequestInv
<1>6. CASE DispatcherStops
  BY <1>6 DEF DispatcherStops, chanVars, AnnounceInv
<1>7. CASE AckCloses
  <2>1. /\ signal(pl, "off") /\ pl \in [Source -> PipelineAt] /\ disp = "send" /\ UNCHANGED blocked
    BY <1>0, <1>7 DEF AckCloses, Returned, Goroutines
  <2>2. (token' => waitq' = <<>>) /\ disp' = "off"
    BY <1>0, <2>1, SignalReaches DEF AnnounceInv
  <2>. QED BY <2>1, <2>2 DEF AnnounceInv
<1>8. CASE \E b \in Batch : Elapse(b)
  BY <1>8 DEF Elapse, AnnounceInv, Announced, Pending, MayHaveTaken, spoolVars, procVars, chanVars
<1>. QED BY <1>1, <1>2, <1>3, <1>4, <1>5, <1>6, <1>7, <1>8 DEF Dispatch

\* Server, process and operator.
LEMMA OthersAnnounce ==
  ASSUME ProcessInv, LinesInv, AnnounceInv, Held \subseteq Held',
         ServerNext \/ Start \/ Stop \/ Exit \/ Crash \/ \E b \in Batch : Discard(b)
  PROVE  AnnounceInv'
<1>0. RequestsOfARunningAgent
  BY ProcessInvSplit
<1>1. CASE ServerNext
  <2>1. UNCHANGED <<queue, pl, agent, disp, armed, blocked, token, waitq>>
    BY <1>1 DEF ServerNext, Serve, ServeFails, ServeLate, Administer, spoolVars, procVars, dispVars, chanVars
  <2>. QED BY <2>1 DEF AnnounceInv, Announced, Pending, MayHaveTaken
<1>2. CASE Start
  BY <1>0, <1>2 DEF Start, AnnounceInv, RequestsOfARunningAgent
<1>3. CASE Stop
  <2>1. UNCHANGED <<blocked, token>> /\ disp' = "off" /\ Leave(Dispatcher)
    BY <1>3 DEF Stop
  <2>. QED BY <2>1, LeaveEmpty DEF AnnounceInv
<1>4. CASE Exit \/ Crash
  BY <1>4 DEF Exit, Crash, Down, AnnounceInv
<1>5. CASE \E b \in Batch : Discard(b)
  BY <1>0, <1>5 DEF Discard, AnnounceInv, RequestsOfARunningAgent, procVars, dispVars, chanVars
<1>. QED BY <1>1, <1>2, <1>3, <1>4, <1>5

\* No notification is lost except to a full pipeline: with any number of
\* pipelines on the one-slot channel, a dispatcher that sleeps on a batch it
\* could send, without a timer for it, has a pipeline in its flush, or failed
\* in it, to thank for that.
THEOREM WorkAlwaysAnnounced == Spec => []WorkAnnounced
<1>1. Init => AnnounceInv
  BY DEF Init, AnnounceInv
<1>2. ProcessInv /\ LinesInv /\ AnnounceInv /\ [Next]_vars => AnnounceInv'
  <2>1. ASSUME ProcessInv, LinesInv, AnnounceInv, Next
        PROVE  AnnounceInv'
    <3>1. Held \subseteq Held'
      BY <2>1, CheckpointsAdvance
    <3>. QED BY <2>1, <3>1, PipelineAnnounces, DispatcherAnnounces, OthersAnnounce DEF Next, ServerNext
  <2>2. ASSUME AnnounceInv, UNCHANGED vars
        PROVE  AnnounceInv'
    BY <2>2 DEF vars, spoolVars, procVars, dispVars, chanVars, AnnounceInv, Announced, Held, Pending, MayHaveTaken
  <2>. QED BY <2>1, <2>2
<1>3. ASSUME ProcessInv, AnnounceInv
      PROVE  WorkAnnounced
  <2>. SUFFICES ASSUME disp = "wait", Unannounced # {}
                PROVE  \E k \in Source : MayHaveTaken(k)
    BY DEF WorkAnnounced
  <2>1. waitq # <<>>
    BY <1>3, EmptyIsDistinct DEF ProcessInv, WaitersQueued
  <2>. QED BY <1>3, <2>1 DEF AnnounceInv, Announced, Unannounced
<1>. QED BY <1>1, <1>2, <1>3, LinesInvAlways, PTL DEF Spec
=============================================================================
