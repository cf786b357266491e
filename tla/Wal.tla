--------------------------------- MODULE Wal ---------------------------------
(***************************************************************************)
(* The agent's write-ahead log: internal/agent/spool/wal.go.               *)
(*                                                                         *)
(* One mutex (w.mu) serialises the operations, so an operation in progress *)
(* is a value of `phase': the append of its record (write, fsync, and the  *)
(* rollback of a failed one) and, after an Ack, the compaction, record by  *)
(* record and rename by rename.  The process may die in every phase.  What *)
(* a process finds again is what is in the directory: the log, the backup  *)
(* and the half-written replacement.                                       *)
(*                                                                         *)
(* External assumptions: fsync makes the file's contents survive; an       *)
(* unsynced write survives whole, torn or not at all; renames, removals    *)
(* and truncations take effect atomically and in order.  An Open that      *)
(* fails to read or to write a file ends the process, like a crash.        *)
(***************************************************************************)
EXTENDS SpoolData, SeqFilter

CONSTANTS
  Anchors,          \* positions a Transition moves a source to: where a file is
                    \* first anchored, or the start of a recreated one
  CompactBytes,     \* max(MaxBytes, 64 KiB): file size that triggers compaction
  MaxLog,           \* model bound: records in the log when an append starts
  TruncateMayFail   \* can the Truncate of a rollback fail?

ASSUME WalAssumption ==
  /\ Anchors \subseteq Pos
  /\ CompactBytes \in Nat /\ CompactBytes >= MaxBytes
  /\ MaxLog \in Nat
  /\ TruncateMayFail \in BOOLEAN

\* The log, the previous log during a replacement, the replacement being written.
File == {"main", "bak", "compact"}

CommitRec(b) == [kind |-> "commit", id |-> b]
AckRec(b) == [kind |-> "ack", id |-> b]
QuarantineRec(b) == [kind |-> "quarantine", id |-> b]
CheckpointRec(k, p) == [kind |-> "checkpoint", key |-> k, pos |-> p]
Torn == [kind |-> "torn"]      \* the beginning of a record, cut off

Record == {CommitRec(b) : b \in Batch} \cup {AckRec(b) : b \in Batch}
          \cup {QuarantineRec(b) : b \in Batch}
          \cup {CheckpointRec(k, p) : k \in Source, p \in Pos}

Memory == [pending : SUBSET Batch, quarantined : SUBSET Batch, seen : SUBSET Batch,
           order : Seq(Batch), quarantineOrder : Seq(Batch),
           checkpoints : [Source -> Pos \cup {NoPos}], usedBytes : Int]

Idle == {"down", "ready", "dead"}
Appending == {"append", "written", "rollback"}
Compacting == {"compactPending", "compactQuarantined", "compactCheckpoints"}
Phase == Idle \cup {"opening", "recovering"} \cup Appending \cup Compacting
         \cup {"renameOld", "renameNew", "reopen"}

VARIABLES
  dir,       \* files that exist
  log,       \* contents of every file, <<>> for one that does not exist
  mem,       \* the WAL struct's maps, lists and byte counter
  phase,     \* where the process is
  inflight,  \* the record being appended
  compared,  \* the position its Transition found, NoPos for the other calls
  start,     \* length of the log before that append
  cursor,    \* records recovered, or list entries compacted, so far
  acked,     \* history: batches whose ACK took effect
  tainted,   \* history: a rollback failed to remove what it wrote
  corrupt    \* history: Open returned ErrCorrupt

disk == <<dir, log>>
\* No append and no loop in progress.
Rest == inflight' = Torn /\ compared' = NoPos /\ start' = 0 /\ cursor' = 0
ghosts == <<acked, tainted, corrupt>>
vars == <<dir, log, mem, phase, inflight, compared, start, cursor, acked, tainted, corrupt>>

EmptyMemory ==
  [pending |-> {}, quarantined |-> {}, seen |-> {}, order |-> <<>>, quarantineOrder |-> <<>>,
   checkpoints |-> [k \in Source |-> NoPos], usedBytes |-> 0]

TypeOK ==
  /\ dir \subseteq File
  /\ log \in [File -> Seq(Record \cup {Torn})]
  /\ mem \in Memory
  /\ phase \in Phase
  /\ inflight \in Record \cup {Torn}
  /\ compared \in Pos \cup {NoPos}
  /\ start \in Nat /\ cursor \in Nat
  /\ acked \subseteq Batch
  /\ tainted \in BOOLEAN /\ corrupt \in BOOLEAN

Init ==
  /\ dir = {}
  /\ log = [f \in File |-> <<>>]
  /\ mem = EmptyMemory
  /\ phase = "down"
  /\ inflight = Torn /\ compared = NoPos
  /\ start = 0 /\ cursor = 0
  /\ acked = {}
  /\ tainted = FALSE /\ corrupt = FALSE

-----------------------------------------------------------------------------
(* The in-memory effect of a record, the same when it is appended and when *)
(* it is recovered.                                                        *)

applyCommit(m, b) ==
  [m EXCEPT !.pending = @ \cup {b},
            !.order = Append(@, b),
            !.seen = @ \cup {b},
            !.checkpoints = [@ EXCEPT ![KeyOf[b]] = PosOf[b]],
            !.usedBytes = @ + Size[b]]

removeActive(m, b) ==
  [m EXCEPT !.pending = @ \ {b}, !.quarantined = @ \ {b}, !.usedBytes = @ - Size[b]]

\* Mutant: a quarantined batch is no longer charged.
applyQuarantineFree(m, b) ==
  [m EXCEPT !.pending = @ \ {b},
            !.quarantined = @ \cup {b},
            !.quarantineOrder = Append(@, b),
            !.usedBytes = @ - Size[b]]

\* The commit's bytes stay in usedBytes.
applyQuarantine(m, b) ==
  [m EXCEPT !.pending = @ \ {b},
            !.quarantined = @ \cup {b},
            !.quarantineOrder = Append(@, b)]

applyCheckpoint(m, k, p) == [m EXCEPT !.checkpoints = [@ EXCEPT ![k] = p]]

Apply(m, r) ==
  CASE r.kind = "commit"     -> applyCommit(m, r.id)
    [] r.kind = "ack"        -> removeActive(m, r.id)
    [] r.kind = "quarantine" -> applyQuarantine(m, r.id)
    [] r.kind = "checkpoint" -> applyCheckpoint(m, r.key, r.pos)

\* What applyRecovered accepts; everything else is ErrCorrupt.
Acceptable(m, r) ==
  CASE r.kind = "commit"     -> r.id \notin m.seen
    [] r.kind = "ack"        -> r.id \in m.pending \cup m.quarantined
    [] r.kind = "quarantine" -> r.id \in m.pending
    [] r.kind = "checkpoint" -> TRUE
    [] OTHER                 -> FALSE

-----------------------------------------------------------------------------
(* Directory operations.                                                   *)

Unlink(f) ==
  /\ dir' = dir \ {f}
  /\ log' = [log EXCEPT ![f] = <<>>]

Rename(from, to) ==
  /\ dir' = (dir \ {from}) \cup {to}
  /\ log' = [log EXCEPT ![to] = log[from], ![from] = <<>>]

SetMain(l) == log' = [log EXCEPT !["main"] = l]

Keep(n) == SubSeq(log["main"], 1, n)

\* Size of the log file: control records are smaller than any commit.
FileBytes(l) ==
  SumFunction([i \in DOMAIN l |-> IF l[i].kind = "commit" THEN Size[l[i].id] ELSE 1])

-----------------------------------------------------------------------------
(* Open.                                                                   *)

\* A replacement interrupted between its two renames is undone, one
\* interrupted after them is completed.
recoverReplacement ==
  /\ phase = "down"
  /\ phase' = "opening"
  /\ IF "main" \notin dir /\ "bak" \in dir THEN Rename("bak", "main")
     ELSE Unlink("bak")
  /\ UNCHANGED <<mem, inflight, compared, start, cursor, ghosts>>

\* The leftover replacement is dropped, the log opened or created.
OpenFile ==
  /\ phase = "opening"
  /\ dir' = (dir \ {"compact"}) \cup {"main"}
  /\ log' = [log EXCEPT !["compact"] = <<>>]
  /\ mem' = EmptyMemory
  /\ phase' = "recovering"
  /\ UNCHANGED <<inflight, compared, start, cursor, ghosts>>

\* One turn of the loop of recover.
RecoverRecord ==
  /\ phase = "recovering"
  /\ cursor < Len(log["main"])
  /\ Acceptable(mem, log["main"][cursor + 1])
  /\ mem' = Apply(mem, log["main"][cursor + 1])
  /\ cursor' = cursor + 1
  /\ UNCHANGED <<disk, phase, inflight, compared, start, ghosts>>

\* Mutant: recovery starts over without cutting the incomplete record.
truncateTailRetried ==
  /\ phase = "recovering"
  /\ cursor < Len(log["main"])
  /\ log["main"][cursor + 1] = Torn
  /\ phase' = "opening"
  /\ Rest
  /\ UNCHANGED <<disk, mem, ghosts>>

\* An incomplete record ends the log.  The length in a torn header can also
\* reach past records appended behind it: they are cut off with it.
truncateTail ==
  /\ phase = "recovering"
  /\ cursor < Len(log["main"])
  /\ log["main"][cursor + 1] = Torn
  /\ SetMain(Keep(cursor))
  /\ phase' = "ready"
  /\ Rest
  /\ UNCHANGED <<dir, mem, ghosts>>

\* A record that cannot be applied, or a torn one with more behind it.
RecoverCorrupt ==
  /\ phase = "recovering"
  /\ cursor < Len(log["main"])
  /\ LET r == log["main"][cursor + 1]
     IN IF r = Torn THEN cursor + 1 < Len(log["main"]) ELSE ~Acceptable(mem, r)
  /\ corrupt' = TRUE
  /\ phase' = "down"
  /\ mem' = EmptyMemory
  /\ Rest
  /\ UNCHANGED <<disk, acked, tainted>>

RecoverDone ==
  /\ phase = "recovering"
  /\ cursor = Len(log["main"])
  /\ phase' = "ready"
  /\ Rest
  /\ UNCHANGED <<disk, mem, ghosts>>

-----------------------------------------------------------------------------
(* The operations.  Calls that change nothing (a closed spool, a batch     *)
(* already seen, ErrFull, an Ack of an unknown batch, a second Quarantine, *)
(* a failed compare-and-set) return without a step.                        *)

Begin(r, expected) ==
  /\ phase = "ready"
  /\ Len(log["main"]) < MaxLog
  /\ inflight' = r
  /\ compared' = expected
  /\ start' = Len(log["main"])
  /\ phase' = "append"
  /\ UNCHANGED <<disk, mem, cursor, ghosts>>

\* A batch identifier is minted once (reliable/batch.go): only the process
\* that committed a batch could repeat the call, and seen refuses it.
Minted(b) == b \in acked => b \in mem.seen

\* Mutant: the seen set is not consulted.
CommitTwice(b) ==
  /\ Minted(b)
  /\ Size[b] <= MaxBytes - mem.usedBytes
  /\ Begin(CommitRec(b), NoPos)

Commit(b) ==
  /\ Minted(b)
  /\ b \notin mem.seen
  /\ Size[b] <= MaxBytes - mem.usedBytes
  /\ Begin(CommitRec(b), NoPos)

Ack(b) ==
  /\ b \in mem.pending \cup mem.quarantined
  /\ Begin(AckRec(b), NoPos)

Quarantine(b) ==
  /\ b \in mem.pending
  /\ Begin(QuarantineRec(b), NoPos)

\* Mutant: the expected position is written, not the next one.
TransitionBack(k, expected, p) ==
  /\ mem.checkpoints[k] = expected
  /\ Begin(CheckpointRec(k, expected), expected)

\* expected = NoPos stands for a nil expectation: no checkpoint yet.
Transition(k, expected, p) ==
  /\ mem.checkpoints[k] = expected
  /\ Begin(CheckpointRec(k, p), expected)

\* The process is asked to stop.
Close ==
  /\ phase \in {"ready", "dead"}
  /\ phase' = "down"
  /\ mem' = EmptyMemory
  /\ UNCHANGED <<disk, inflight, compared, start, cursor, ghosts>>

-----------------------------------------------------------------------------
(* appendRecord.                                                           *)

Write ==
  /\ phase = "append"
  /\ SetMain(Append(log["main"], inflight))
  /\ phase' = "written"
  /\ UNCHANGED <<dir, mem, inflight, compared, start, cursor, ghosts>>

\* A failed Seek or write, or a short one.
WriteFails ==
  /\ phase = "append"
  /\ \E l \in {log["main"], Append(log["main"], Torn)} : SetMain(l)
  /\ phase' = "rollback"
  /\ UNCHANGED <<dir, mem, inflight, compared, start, cursor, ghosts>>

\* The record is durable: the operation takes effect.
Sync ==
  /\ phase = "written"
  /\ mem' = Apply(mem, inflight)
  /\ acked' = IF inflight.kind = "ack" THEN acked \cup {inflight.id} ELSE acked
  /\ phase' = IF inflight.kind = "ack" /\ FileBytes(log["main"]) > CompactBytes
              THEN "compactPending" ELSE "ready"
  /\ IF phase' = "compactPending"
     THEN /\ dir' = dir \cup {"compact"}
          /\ log' = [log EXCEPT !["compact"] = <<>>]
     ELSE UNCHANGED disk
  /\ Rest
  /\ UNCHANGED <<tainted, corrupt>>

SyncFails ==
  /\ phase = "written"
  /\ phase' = "rollback"
  /\ UNCHANGED <<disk, mem, inflight, compared, start, cursor, ghosts>>

\* Whatever its own failures, rollbackAppend leaves the spool open.
rollbackAppend ==
  /\ phase = "rollback"
  /\ phase' = "ready"
  /\ \/ /\ SetMain(Keep(start))
        /\ UNCHANGED tainted
     \/ /\ TruncateMayFail
        /\ tainted' = (tainted \/ Len(log["main"]) > start)
        /\ UNCHANGED log
  /\ Rest
  /\ UNCHANGED <<dir, mem, acked, corrupt>>

-----------------------------------------------------------------------------
(* compactLocked: the live state is written to a fresh file, record by     *)
(* record; then the file takes the log's place.                            *)

AppendCompact(rs) == log' = [log EXCEPT !["compact"] = @ \o rs]

\* Mutant: the queue is walked backwards.
CompactedBackwards == mem.order[Len(mem.order) - cursor]

\* The batch the pending loop has come to.
CompactedNext == mem.order[cursor + 1]

\* Pending commits, in order.
CompactPending ==
  /\ phase = "compactPending"
  /\ IF cursor < Len(mem.order)
     THEN /\ LET b == CompactedNext
             IN AppendCompact(IF b \in mem.pending THEN <<CommitRec(b)>> ELSE <<>>)
          /\ cursor' = cursor + 1
          /\ UNCHANGED phase
     ELSE /\ phase' = "compactQuarantined"
          /\ cursor' = 0
          /\ UNCHANGED log
  /\ UNCHANGED <<dir, mem, inflight, compared, start, ghosts>>

\* A quarantined batch: its commit, then its quarantine record.
DeadLetter(b) == <<CommitRec(b), QuarantineRec(b)>>

\* Quarantined batches, in the order they were quarantined.
CompactQuarantined ==
  /\ phase = "compactQuarantined"
  /\ IF cursor < Len(mem.quarantineOrder)
     THEN /\ LET b == mem.quarantineOrder[cursor + 1]
             IN AppendCompact(IF b \in mem.quarantined
                              THEN DeadLetter(b) ELSE <<>>)
          /\ cursor' = cursor + 1
          /\ UNCHANGED phase
     ELSE /\ phase' = "compactCheckpoints"
          /\ cursor' = 0
          /\ UNCHANGED log
  /\ UNCHANGED <<dir, mem, inflight, compared, start, ghosts>>

\* Mutant: the snapshots are left out, the commits say it all.
NoSnapshots == {}

\* Sources whose snapshot is not written yet.
KeysLeft ==
  {k \in Source : /\ mem.checkpoints[k] # NoPos
                  /\ \A i \in DOMAIN log["compact"] :
                       log["compact"][i] # CheckpointRec(k, mem.checkpoints[k])}

\* Checkpoint snapshots come last; the code sorts the keys, which are distinct.
CompactCheckpoint(k) ==
  /\ phase = "compactCheckpoints"
  /\ k \in KeysLeft
  /\ AppendCompact(<<CheckpointRec(k, mem.checkpoints[k])>>)
  /\ UNCHANGED <<dir, mem, phase, inflight, compared, start, cursor, ghosts>>

\* A write, fsync or close of the new file fails: it is removed and the
\* compaction given up.
CompactFails ==
  /\ phase \in Compacting
  /\ Unlink("compact")
  /\ phase' = "ready"
  /\ Rest
  /\ UNCHANGED <<mem, ghosts>>

\* The new file is synced and closed, then the old handle is closed.  When
\* that close fails, w.file is unusable although w.closed stays false: every
\* later append fails at its Seek.
CompactSync ==
  /\ phase = "compactCheckpoints"
  /\ KeysLeft = {}
  /\ \/ phase' = "renameOld" /\ UNCHANGED disk
     \/ phase' = "dead" /\ Unlink("compact")
  /\ UNCHANGED <<mem, inflight, compared, start, cursor, ghosts>>

\* On failure the old log is opened again, or the spool closed.
RenameOld ==
  /\ phase = "renameOld"
  /\ \/ /\ Rename("main", "bak")
        /\ phase' = "renameNew"
     \/ /\ dir' = dir \ {"bak", "compact"}
        /\ log' = [log EXCEPT !["bak"] = <<>>, !["compact"] = <<>>]
        /\ phase' \in {"ready", "dead"}
  /\ UNCHANGED <<mem, inflight, compared, start, cursor, ghosts>>

\* On failure the backup is moved back, if that works, and opened, if that works.
RenameNew ==
  /\ phase = "renameNew"
  /\ \/ /\ Rename("compact", "main")
        /\ phase' = "reopen"
     \/ /\ Rename("bak", "main")
        /\ phase' \in {"ready", "dead"}
     \/ /\ phase' = "dead"
        /\ UNCHANGED disk
  /\ UNCHANGED <<mem, inflight, compared, start, cursor, ghosts>>

\* The backup is removed, if that works, and the new log opened, if that works.
Reopen ==
  /\ phase = "reopen"
  /\ Unlink("bak") \/ UNCHANGED disk
  /\ phase' \in {"ready", "dead"}
  /\ UNCHANGED <<mem, inflight, compared, start, cursor, ghosts>>

-----------------------------------------------------------------------------
\* The process dies.  A record not yet synced survives whole, torn or not at
\* all; if it survives whole, the interrupted operation has taken effect.
Crash ==
  /\ phase # "down"
  /\ phase' = "down"
  /\ mem' = EmptyMemory
  /\ \/ /\ UNCHANGED log
        /\ acked' = IF /\ phase \in {"written", "rollback"}
                       /\ inflight.kind = "ack"
                       /\ log["main"] = Append(Keep(start), inflight)
                    THEN acked \cup {inflight.id} ELSE acked
     \/ /\ phase \in {"written", "rollback"}
        /\ \E l \in {Keep(start), Append(Keep(start), Torn)} : SetMain(l)
        /\ UNCHANGED acked
  /\ Rest
  /\ UNCHANGED <<dir, tainted, corrupt>>

Open == recoverReplacement \/ OpenFile \/ RecoverRecord \/ truncateTail
        \/ RecoverCorrupt \/ RecoverDone

appendRecord == Write \/ WriteFails \/ Sync \/ SyncFails \/ rollbackAppend

compactLocked ==
  \/ CompactPending \/ CompactQuarantined \/ \E k \in Source : CompactCheckpoint(k)
  \/ CompactFails \/ CompactSync \/ RenameOld \/ RenameNew \/ Reopen

Next ==
  \/ Open
  \/ \E b \in Batch : Commit(b) \/ Ack(b) \/ Quarantine(b)
  \/ \E k \in Source, e \in Pos \cup {NoPos}, p \in Anchors : Transition(k, e, p)
  \/ appendRecord
  \/ compactLocked
  \/ Close
  \/ Crash

Spec == Init /\ [][Next]_vars

\* A started process runs: the operating system schedules it, and a service
\* manager starts it again.
FairSpec == Spec /\ WF_vars(Open) /\ WF_vars(appendRecord) /\ WF_vars(compactLocked)

-----------------------------------------------------------------------------
(* What a log says.                                                        *)

Ids(l, kind) == {l[i].id : i \in {j \in DOMAIN l : l[j].kind = kind}}

CommittedIn(l) == Ids(l, "commit")
AckedIn(l) == Ids(l, "ack")
QuarantinedIn(l) == Ids(l, "quarantine") \ AckedIn(l)
PendingIn(l) == CommittedIn(l) \ (AckedIn(l) \cup QuarantinedIn(l))

\* The batches of its commit records, in order.
OrderIn(l) ==
  LET commits == Kept(l, {CommitRec(b) : b \in Batch})
  IN  [i \in DOMAIN commits |-> commits[i].id]

QueueIn(l) == Kept(OrderIn(l), PendingIn(l))

\* Position record r gives source k, NoPos if it gives none.
PosIn(r, k) ==
  CASE r.kind = "commit"     -> IF KeyOf[r.id] = k THEN PosOf[r.id] ELSE NoPos
    [] r.kind = "checkpoint" -> IF r.key = k THEN r.pos ELSE NoPos
    [] OTHER                 -> NoPos

\* The last record about a source decides.
CheckpointIn(l, k) ==
  LET about == {i \in DOMAIN l : PosIn(l[i], k) # NoPos}
  IN  IF about = {} THEN NoPos
      ELSE PosIn(l[CHOOSE i \in about : \A j \in about : j <= i], k)

\* The log an Open would find, without a record whose append has not succeeded.
DurableLog ==
  IF phase \in {"written", "rollback"} THEN Keep(start)
  ELSE IF "main" \in dir THEN log["main"] ELSE log["bak"]

-----------------------------------------------------------------------------
(* Pending(), the queue the dispatcher is shown: Peek is its head.         *)
PendingQueue == Kept(mem.order, mem.pending)

\* The process holds a recovered image of the log.
Running == phase \notin {"down", "opening", "recovering"}

(***************************************************************************)
(* Properties.                                                             *)
(***************************************************************************)

\* While the process runs, its maps say exactly what a restart would recover
\* from the files it would find at this moment: in the middle of an append,
\* of a rollback, of a compaction and between its renames.  The dispatcher
\* sees pending batches in the order they became durable, also after a
\* compaction moved quarantined ones behind them.
MemoryMirrorsLog ==
  Running /\ ~tainted =>
    /\ mem.pending = PendingIn(DurableLog)
    /\ mem.quarantined = QuarantinedIn(DurableLog)
    /\ \A k \in Source : mem.checkpoints[k] = CheckpointIn(DurableLog, k)
    /\ PendingQueue = QueueIn(DurableLog)

\* usedBytes, maintained by increments across commit, quarantine, ack,
\* recovery and compaction, is the size of the batches held, within MaxBytes.
CapacityAccounted ==
  /\ mem.usedBytes = Charged(mem.pending \cup mem.quarantined)
  /\ ~tainted => mem.usedBytes <= MaxBytes

\* No crash and no I/O failure short of a failed rollback leaves files that
\* Open refuses (ErrCorrupt) - neither torn tails nor half-done replacements.
OpenNeverCorrupt == ~tainted => ~corrupt

\* The call in flight: from its first write on it holds the record it appends.
CallInFlight ==
  IF phase \notin Appending THEN NoCall
  ELSE IF inflight.kind = "checkpoint"
       THEN TransitionCall(inflight.key, compared, inflight.pos)
       ELSE BatchCall(inflight.kind, inflight.id)

\* The files and the memory together implement the durable queue.
Abstract == INSTANCE SpoolCalls WITH
  queue <- QueueIn(DurableLog),
  quarantined <- QuarantinedIn(DurableLog),
  done <- acked,
  checkpoint <- [k \in Source |-> CheckpointIn(DurableLog, k)],
  call <- CallInFlight

\* What is durable changes only as the call in flight asks: its batch enters
\* or leaves, or its source moves from the position it compared with.  No
\* crash or failed write does more than finish or undo that call, and while
\* none is in flight - in recovery, between the renames and in every step of a
\* compaction - no batch is lost, brought back or reordered and no checkpoint
\* moves, back to an older position either.
ImplementsSpool == Abstract!CallsSpec

\* Unless it is killed over and over, a process that opens the spool, appends
\* or compacts comes to the end of it: recovery cuts what it cannot read, and
\* rollback and compaction terminate, whichever of their calls fail.
EventuallyOpen == []<>(phase \in {"ready", "dead"}) \/ []<><<Crash>>_vars
=============================================================================
