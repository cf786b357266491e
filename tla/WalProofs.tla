------------------------------ MODULE WalProofs ------------------------------
(* Theorems about Wal, for any batches, sources, sizes and bounds. *)
EXTENDS Wal, DataLemmas

\* An operation appends a record, behind everything that was in the log; the
\* rollback truncates the log to a length it really had.
AppendInv ==
  /\ phase \in Appending => inflight \in Record
  /\ phase \in Appending => start <= Len(log["main"])

WalInv == TypeOK /\ AppendInv

-----------------------------------------------------------------------------
(* Records and memory.                                                     *)

\* What kinds of records there are, and which fields each has.
LEMMA RecordKinds ==
  ASSUME NEW r \in Record
  PROVE  \/ \E b \in Batch : r = CommitRec(b)
         \/ \E b \in Batch : r = AckRec(b)
         \/ \E b \in Batch : r = QuarantineRec(b)
         \/ \E k \in Source, p \in Pos : r = CheckpointRec(k, p)
BY DEF Record

\* Applying a record gives a memory again.
LEMMA ApplyTyped ==
  ASSUME NEW m \in Memory, NEW r \in Record
  PROVE  Apply(m, r) \in Memory
<1>0. /\ m.pending \subseteq Batch /\ m.quarantined \subseteq Batch /\ m.seen \subseteq Batch
      /\ m.order \in Seq(Batch) /\ m.quarantineOrder \in Seq(Batch)
      /\ m.checkpoints \in [Source -> Pos \cup {NoPos}] /\ m.usedBytes \in Int
  BY DEF Memory
<1>1. ASSUME NEW b \in Batch
      PROVE  applyCommit(m, b) \in Memory
  <2>1. /\ m.pending \cup {b} \subseteq Batch /\ m.seen \cup {b} \subseteq Batch
        /\ Append(m.order, b) \in Seq(Batch) /\ m.usedBytes + Size[b] \in Int
        /\ [m.checkpoints EXCEPT ![KeyOf[b]] = PosOf[b]] \in [Source -> Pos \cup {NoPos}]
    BY <1>0, DataAssumption, AppendProperties
  <2>. QED BY <2>1 DEF Memory, applyCommit
<1>2. ASSUME NEW b \in Batch
      PROVE  removeActive(m, b) \in Memory
  <2>1. m.usedBytes - Size[b] \in Int
    BY <1>0, DataAssumption
  <2>. QED BY <1>0, <2>1 DEF Memory, removeActive
<1>3. ASSUME NEW b \in Batch
      PROVE  applyQuarantine(m, b) \in Memory
  <2>1. Append(m.quarantineOrder, b) \in Seq(Batch)
    BY <1>0, AppendProperties
  <2>. QED BY <1>0, <2>1 DEF Memory, applyQuarantine
<1>4. ASSUME NEW k \in Source, NEW p \in Pos
      PROVE  applyCheckpoint(m, k, p) \in Memory
  BY DEF Memory, applyCheckpoint
<1>5. CASE \E b \in Batch : r = CommitRec(b)
  BY <1>1, <1>5 DEF Apply, CommitRec
<1>6. CASE \E b \in Batch : r = AckRec(b)
  BY <1>2, <1>6 DEF Apply, AckRec
<1>7. CASE \E b \in Batch : r = QuarantineRec(b)
  BY <1>3, <1>7 DEF Apply, QuarantineRec
<1>8. CASE \E k \in Source, p \in Pos : r = CheckpointRec(k, p)
  BY <1>4, <1>8 DEF Apply, CheckpointRec
<1>. QED BY <1>5, <1>6, <1>7, <1>8, RecordKinds

\* A process starts with a memory.
LEMMA EmptyMemoryTyped == EmptyMemory \in Memory
BY DEF EmptyMemory, Memory

-----------------------------------------------------------------------------
(* Files.                                                                  *)

Files == [File -> Seq(Record \cup {Torn})]

\* Emptying a file keeps the directory's type.
LEMMA EmptiedTyped ==
  ASSUME NEW l \in Files, NEW f \in File
  PROVE  [l EXCEPT ![f] = <<>>] \in Files
<1>1. <<>> \in Seq(Record \cup {Torn})
  BY EmptySeq
<1>. QED BY <1>1 DEF Files

\* Removing a file leaves files.
LEMMA UnlinkTyped ==
  ASSUME NEW f \in File, dir \subseteq File, log \in Files, Unlink(f)
  PROVE  dir' \subseteq File /\ log' \in Files
BY DEF Unlink, Files

\* Renaming one leaves files.
LEMMA RenameTyped ==
  ASSUME NEW f \in File, NEW g \in File, dir \subseteq File, log \in Files, Rename(f, g)
  PROVE  dir' \subseteq File /\ log' \in Files
<1>1. dir' \subseteq File /\ log' = [log EXCEPT ![g] = log[f], ![f] = <<>>]
  BY DEF Rename
<1>2. log[f] \in Seq(Record \cup {Torn}) /\ <<>> \in Seq(Record \cup {Torn})
  BY EmptySeq DEF Files
<1>3. [log EXCEPT ![g] = log[f]] \in Files
  BY <1>2 DEF Files
<1>4. [[log EXCEPT ![g] = log[f]] EXCEPT ![f] = <<>>] \in Files
  BY <1>2, <1>3 DEF Files
<1>. QED BY <1>1, <1>4

\* A part of the log is a log.
LEMMA KeepTyped ==
  ASSUME log \in Files, NEW n \in Nat
  PROVE  n <= Len(log["main"]) => Keep(n) \in Seq(Record \cup {Torn})
BY SubSeqProperties DEF Keep, Files, File

\* Every compaction record is one.
LEMMA AppendCompactTyped ==
  ASSUME log \in Files, NEW rs \in Seq(Record), AppendCompact(rs)
  PROVE  log' \in Files
<1>1. rs \in Seq(Record \cup {Torn}) /\ log["compact"] \in Seq(Record \cup {Torn})
  BY SeqMonotonic DEF Files, File
<1>2. log["compact"] \o rs \in Seq(Record \cup {Torn})
  BY <1>1, ConcatProperties
<1>. QED BY <1>2 DEF AppendCompact, Files, File

\* The acknowledged batch of an ACK record is a batch.
LEMMA AckNamesABatch ==
  ASSUME NEW r \in Record, r.kind = "ack"
  PROVE  r.id \in Batch
BY RecordKinds DEF CommitRec, AckRec, QuarantineRec, CheckpointRec

\* The loop of recover applies whole records only.
LEMMA AcceptableIsARecord ==
  ASSUME NEW m, NEW r \in Record \cup {Torn}, Acceptable(m, r)
  PROVE  r \in Record
BY DEF Acceptable, Torn

-----------------------------------------------------------------------------
(* Every action keeps WalInv.                                              *)

\* Open keeps WalInv.
LEMMA OpenStep ==
  ASSUME WalInv, Open
  PROVE  WalInv'
<1>0. /\ TypeOK /\ AppendInv /\ log \in Files
      /\ Len(log["main"]) \in Nat /\ log["main"] \in Seq(Record \cup {Torn})
  BY DEF WalInv, TypeOK, Files, File
<1>. USE DEF AppendInv, Appending, Phase, Idle, Compacting
<1>1. CASE recoverReplacement
  <2>1. dir' \subseteq File /\ log' \in Files
    BY <1>0, <1>1, UnlinkTyped, RenameTyped DEF recoverReplacement, TypeOK, File
  <2>. QED BY <1>0, <1>1, <2>1 DEF recoverReplacement, WalInv, TypeOK, Files, ghosts
<1>2. CASE OpenFile
  <2>1. dir' \subseteq File /\ log' \in Files
    BY <1>0, <1>2 DEF OpenFile, TypeOK, File, Files
  <2>. QED BY <1>0, <1>2, <2>1, EmptyMemoryTyped DEF OpenFile, WalInv, TypeOK, Files, ghosts
<1>3. CASE RecoverRecord
  <2>1. log["main"][cursor + 1] \in Record
    BY <1>0, <1>3, AcceptableIsARecord, ElementOfSeq DEF RecoverRecord, TypeOK
  <2>2. mem' \in Memory
    BY <1>0, <1>3, <2>1, ApplyTyped DEF RecoverRecord, TypeOK
  <2>. QED BY <1>0, <1>3, <2>2 DEF RecoverRecord, WalInv, TypeOK, disk, ghosts
<1>4. CASE truncateTail
  <2>1. Keep(cursor) \in Seq(Record \cup {Torn})
    BY <1>0, <1>4, KeepTyped DEF truncateTail, TypeOK
  <2>2. log' \in Files
    BY <1>0, <1>4, <2>1 DEF truncateTail, SetMain, Files, File
  <2>. QED BY <1>0, <1>4, <2>2 DEF truncateTail, Rest, WalInv, TypeOK, Files, ghosts
<1>5. CASE RecoverCorrupt
  BY <1>0, <1>5, EmptyMemoryTyped DEF RecoverCorrupt, Rest, WalInv, TypeOK, disk
<1>6. CASE RecoverDone
  BY <1>0, <1>6 DEF RecoverDone, Rest, WalInv, TypeOK, disk, ghosts
<1>. QED BY <1>1, <1>2, <1>3, <1>4, <1>5, <1>6 DEF Open

\* So does the start of an operation,
LEMMA OperationStep ==
  ASSUME WalInv,
         \/ \E b \in Batch : Commit(b) \/ Ack(b) \/ Quarantine(b)
         \/ \E k \in Source, e \in Pos \cup {NoPos}, p \in Anchors : Transition(k, e, p)
  PROVE  WalInv'
<1>1. PICK r \in Record, expected \in Pos \cup {NoPos} : Begin(r, expected)
  <2>1. ASSUME NEW b \in Batch
        PROVE  CommitRec(b) \in Record /\ AckRec(b) \in Record /\ QuarantineRec(b) \in Record
    BY DEF Record
  <2>2. ASSUME NEW k \in Source, NEW p \in Anchors
        PROVE  CheckpointRec(k, p) \in Record
    BY WalAssumption DEF Record
  <2>. QED BY <2>1, <2>2 DEF Commit, Ack, Quarantine, Transition
<1>2. Len(log["main"]) \in Nat
  BY DEF WalInv, TypeOK, File
<1>. QED BY <1>1, <1>2 DEF Begin, WalInv, TypeOK, AppendInv, Appending, Phase, disk, ghosts

\* the append of its record,
LEMMA AppendStep ==
  ASSUME WalInv, appendRecord
  PROVE  WalInv'
<1>0. /\ TypeOK /\ AppendInv /\ log \in Files
      /\ Len(log["main"]) \in Nat /\ log["main"] \in Seq(Record \cup {Torn})
  BY DEF WalInv, TypeOK, Files, File
<1>. USE DEF AppendInv, Appending, Phase, Idle, Compacting
<1>1. ASSUME NEW r \in Record \cup {Torn}
      PROVE  /\ Append(log["main"], r) \in Seq(Record \cup {Torn})
             /\ Len(Append(log["main"], r)) = Len(log["main"]) + 1
  BY <1>0, AppendProperties
<1>2. CASE Write
  <2>1. /\ inflight \in Record /\ log' = [log EXCEPT !["main"] = Append(log["main"], inflight)]
    BY <1>0, <1>2 DEF Write, SetMain
  <2>2. log' \in Files /\ Len(log'["main"]) = Len(log["main"]) + 1
    BY <1>0, <1>1, <2>1 DEF Files, File
  <2>. QED BY <1>0, <1>2, <2>1, <2>2 DEF Write, WalInv, TypeOK, Files, ghosts
<1>3. CASE WriteFails
  <2>1. PICK l \in {log["main"], Append(log["main"], Torn)} : log' = [log EXCEPT !["main"] = l]
    BY <1>3 DEF WriteFails, SetMain
  <2>2. l \in Seq(Record \cup {Torn}) /\ Len(l) >= Len(log["main"]) /\ Len(l) \in Nat
    <3>1. CASE l = log["main"]
      BY <1>0, <3>1
    <3>2. CASE l = Append(log["main"], Torn)
      <4>1. Torn \in Record \cup {Torn}
        OBVIOUS
      <4>. QED BY <1>0, <1>1, <3>2, <4>1
    <3>. QED BY <2>1, <3>1, <3>2
  <2>3. log' \in Files /\ log'["main"] = l
    BY <1>0, <2>1, <2>2 DEF Files, File
  <2>. QED BY <1>0, <1>3, <2>2, <2>3 DEF WriteFails, WalInv, TypeOK, Files, ghosts
<1>4. CASE Sync
  <2>1. inflight \in Record
    BY <1>0, <1>4 DEF Sync
  <2>2. mem' \in Memory /\ acked' \subseteq Batch
    BY <1>0, <1>4, <2>1, ApplyTyped, AckNamesABatch DEF Sync, TypeOK
  <2>3. dir' \subseteq File /\ log' \in Files
    <3>1. [log EXCEPT !["compact"] = <<>>] \in Files
      BY <1>0, EmptiedTyped DEF File
    <3>. QED BY <1>0, <1>4, <3>1 DEF Sync, disk, TypeOK, File
  <2>4. phase' \in {"compactPending", "ready"}
    BY <1>4 DEF Sync
  <2>. QED BY <1>0, <1>4, <2>2, <2>3, <2>4 DEF Sync, Rest, WalInv, TypeOK, Files
<1>5. CASE SyncFails
  BY <1>0, <1>5 DEF SyncFails, WalInv, TypeOK, disk, ghosts
<1>6. CASE rollbackAppend
  <2>1. Keep(start) \in Seq(Record \cup {Torn})
    BY <1>0, <1>6, KeepTyped DEF rollbackAppend, TypeOK
  <2>2. log' \in Files /\ tainted' \in BOOLEAN
    BY <1>0, <1>6, <2>1 DEF rollbackAppend, SetMain, TypeOK, Files, File
  <2>. QED BY <1>0, <1>6, <2>2 DEF rollbackAppend, Rest, WalInv, TypeOK, Files
<1>. QED BY <1>2, <1>3, <1>4, <1>5, <1>6 DEF appendRecord

\* the compaction,
LEMMA CompactStep ==
  ASSUME WalInv, compactLocked
  PROVE  WalInv'
<1>0. /\ TypeOK /\ AppendInv /\ log \in Files /\ dir \subseteq File
      /\ mem.order \in Seq(Batch) /\ mem.quarantineOrder \in Seq(Batch)
      /\ mem.checkpoints \in [Source -> Pos \cup {NoPos}]
  BY DEF WalInv, TypeOK, Files, Memory
<1>. USE DEF AppendInv, Appending, Phase, Idle, Compacting
<1>1. CASE CompactPending
  <2>1. ASSUME cursor < Len(mem.order)
        PROVE  CompactedNext \in Batch
    BY <1>0, <2>1, ElementOfSeq DEF CompactedNext, TypeOK
  <2>2. \A b \in Batch : <<CommitRec(b)>> \in Seq(Record) /\ <<>> \in Seq(Record)
    BY DEF Record
  <2>3. log' \in Files
    BY <1>0, <1>1, <2>1, <2>2, AppendCompactTyped DEF CompactPending
  <2>. QED BY <1>0, <1>1, <2>3 DEF CompactPending, WalInv, TypeOK, Files, ghosts
<1>2. CASE CompactQuarantined
  <2>1. ASSUME cursor < Len(mem.quarantineOrder)
        PROVE  mem.quarantineOrder[cursor + 1] \in Batch
    BY <1>0, <2>1, ElementOfSeq DEF TypeOK
  <2>2. \A b \in Batch : DeadLetter(b) \in Seq(Record) /\ <<>> \in Seq(Record)
    BY DEF Record, DeadLetter
  <2>3. log' \in Files
    BY <1>0, <1>2, <2>1, <2>2, AppendCompactTyped DEF CompactQuarantined
  <2>. QED BY <1>0, <1>2, <2>3 DEF CompactQuarantined, WalInv, TypeOK, Files, ghosts
<1>3. ASSUME NEW k \in Source, CompactCheckpoint(k)
      PROVE  WalInv'
  <2>1. mem.checkpoints[k] \in Pos
    BY <1>0, <1>3 DEF CompactCheckpoint, KeysLeft
  <2>2. <<CheckpointRec(k, mem.checkpoints[k])>> \in Seq(Record)
    BY <2>1 DEF Record
  <2>3. log' \in Files
    BY <1>0, <1>3, <2>2, AppendCompactTyped DEF CompactCheckpoint
  <2>. QED BY <1>0, <1>3, <2>3 DEF CompactCheckpoint, WalInv, TypeOK, Files, ghosts
<1>4. CASE CompactFails
  <2>1. dir' \subseteq File /\ log' \in Files
    BY <1>0, <1>4, UnlinkTyped DEF CompactFails, File
  <2>. QED BY <1>0, <1>4, <2>1 DEF CompactFails, Rest, WalInv, TypeOK, Files, ghosts
<1>5. CASE CompactSync
  <2>1. dir' \subseteq File /\ log' \in Files
    BY <1>0, <1>5, UnlinkTyped DEF CompactSync, File, disk
  <2>. QED BY <1>0, <1>5, <2>1 DEF CompactSync, WalInv, TypeOK, Files, ghosts
<1>6. CASE RenameOld
  <2>1. dir' \subseteq File /\ log' \in Files
    <3>1. [[log EXCEPT !["bak"] = <<>>] EXCEPT !["compact"] = <<>>] \in Files
      BY <1>0, EmptiedTyped DEF File
    <3>2. [log EXCEPT !["bak"] = <<>>, !["compact"] = <<>>]
            = [[log EXCEPT !["bak"] = <<>>] EXCEPT !["compact"] = <<>>]
      OBVIOUS
    <3>3. CASE Rename("main", "bak")
      BY <1>0, <3>3, RenameTyped DEF File
    <3>4. CASE ~Rename("main", "bak")
      BY <1>0, <1>6, <3>1, <3>2, <3>4 DEF RenameOld, File
    <3>. QED BY <3>3, <3>4
  <2>. QED BY <1>0, <1>6, <2>1 DEF RenameOld, WalInv, TypeOK, Files, ghosts
<1>7. CASE RenameNew
  <2>1. dir' \subseteq File /\ log' \in Files
    BY <1>0, <1>7, RenameTyped DEF RenameNew, File, disk
  <2>. QED BY <1>0, <1>7, <2>1 DEF RenameNew, WalInv, TypeOK, Files, ghosts
<1>8. CASE Reopen
  <2>1. dir' \subseteq File /\ log' \in Files
    BY <1>0, <1>8, UnlinkTyped DEF Reopen, File, disk
  <2>. QED BY <1>0, <1>8, <2>1 DEF Reopen, WalInv, TypeOK, Files, ghosts
<1>. QED BY <1>1, <1>2, <1>3, <1>4, <1>5, <1>6, <1>7, <1>8 DEF compactLocked

\* and a stop, asked for or not.
LEMMA StopStep ==
  ASSUME WalInv, Close \/ Crash
  PROVE  WalInv'
<1>0. /\ TypeOK /\ AppendInv /\ log \in Files
      /\ Len(log["main"]) \in Nat /\ log["main"] \in Seq(Record \cup {Torn})
  BY DEF WalInv, TypeOK, Files, File
<1>. USE DEF AppendInv, Appending, Phase, Idle
<1>1. CASE Close
  BY <1>0, <1>1, EmptyMemoryTyped DEF Close, WalInv, TypeOK, disk, ghosts
<1>2. CASE Crash
  <2>1. ASSUME phase \in {"written", "rollback"}
        PROVE  /\ Keep(start) \in Seq(Record \cup {Torn})
               /\ Append(Keep(start), Torn) \in Seq(Record \cup {Torn})
    BY <1>0, <2>1, KeepTyped, AppendProperties DEF TypeOK
  <2>2. log' \in Files
    BY <1>0, <1>2, <2>1 DEF Crash, SetMain, Files, File
  <2>3. acked' \subseteq Batch
    BY <1>0, <1>2, AckNamesABatch DEF Crash, TypeOK
  <2>. QED BY <1>0, <1>2, <2>2, <2>3, EmptyMemoryTyped DEF Crash, Rest, WalInv, TypeOK, Files
<1>. QED BY <1>1, <1>2

\* WalInv holds initially.
LEMMA WalInvInit ==
  ASSUME Init
  PROVE  WalInv
<1>1. [f \in File |-> <<>>] \in [File -> Seq(Record \cup {Torn})]
  BY EmptySeq
<1>2. TypeOK
  <2>1. /\ dir = {} /\ log = [f \in File |-> <<>>] /\ mem = EmptyMemory /\ phase = "down"
        /\ inflight = Torn /\ compared = NoPos /\ start = 0 /\ cursor = 0 /\ acked = {}
    BY DEF Init
  <2>2. tainted \in BOOLEAN /\ corrupt \in BOOLEAN
    BY DEF Init
  <2>3. log \in [File -> Seq(Record \cup {Torn})]
    BY <1>1, <2>1, Zenon
  <2>4. phase \in Phase
    BY <2>1 DEF Phase, Idle
  <2>5. dir \subseteq File /\ mem \in Memory /\ inflight \in Record \cup {Torn}
    BY <2>1, EmptyMemoryTyped, Zenon
  <2>6. start \in Nat /\ cursor \in Nat /\ acked \subseteq Batch /\ compared \in Pos \cup {NoPos}
    BY <2>1
  <2>. QED BY <2>2, <2>3, <2>4, <2>5, <2>6 DEF TypeOK
<1>3. AppendInv
  BY DEF Init, AppendInv, Appending
<1>. QED BY <1>2, <1>3 DEF WalInv

\* Every variable of the log keeps its type, through every crash, failed
\* write, rollback and compaction: files hold whole records and torn ones
\* only, and no checkpoint record without a position is ever written.
THEOREM WalTyped == Spec => []TypeOK
<1>1. Init => WalInv
  BY WalInvInit
<1>2. WalInv /\ [Next]_vars => WalInv'
  <2>1. ASSUME WalInv, Next
        PROVE  WalInv'
    BY <2>1, OpenStep, OperationStep, AppendStep, CompactStep, StopStep DEF Next
  <2>2. ASSUME WalInv, UNCHANGED vars
        PROVE  WalInv'
    BY <2>2 DEF vars, WalInv, TypeOK, AppendInv
  <2>. QED BY <2>1, <2>2
<1>3. WalInv => TypeOK
  BY DEF WalInv
<1>. QED BY <1>1, <1>2, <1>3, PTL DEF Spec

(***************************************************************************)
(* What a log says, and what one more record changes.                      *)
(***************************************************************************)

\* A log as it is on disk.
Logs == Seq(Record \cup {Torn})

\* A record appended: the batches it names.
LEMMA IdsOfAppend ==
  ASSUME NEW l \in Logs, NEW r \in Record \cup {Torn}, NEW kind
  PROVE  Ids(Append(l, r), kind) = IF r.kind = kind THEN Ids(l, kind) \cup {r.id} ELSE Ids(l, kind)
<1>. DEFINE t == Append(l, r)
            n == Len(l)
<1>1. n \in Nat /\ DOMAIN l = 1..n /\ DOMAIN t = 1..(n + 1) /\ t[n + 1] = r /\ \A i \in 1..n : t[i] = l[i]
  BY DEF Logs
<1>. HIDE DEF t, n
<1>2. Ids(l, kind) \subseteq Ids(t, kind)
  BY <1>1 DEF Ids
<1>3. r.kind = kind => r.id \in Ids(t, kind)
  BY <1>1 DEF Ids
<1>4. ASSUME NEW x \in Ids(t, kind)
      PROVE  x \in Ids(l, kind) \/ (r.kind = kind /\ x = r.id)
  <2>1. PICK i \in 1..(n + 1) : t[i].kind = kind /\ x = t[i].id
    BY <1>1 DEF Ids
  <2>2. i = n + 1 \/ i \in 1..n
    BY <1>1
  <2>. QED BY <1>1, <2>1, <2>2 DEF Ids
<1>. QED BY <1>2, <1>3, <1>4 DEF t

\* The four kinds, and the torn one.
LEMMA IdsOfAppends ==
  ASSUME NEW l \in Logs
  PROVE  /\ \A b \in Batch :
              LET t == Append(l, CommitRec(b))
              IN  /\ CommittedIn(t) = CommittedIn(l) \cup {b}
                  /\ AckedIn(t) = AckedIn(l) /\ Ids(t, "quarantine") = Ids(l, "quarantine")
         /\ \A b \in Batch :
              LET t == Append(l, AckRec(b))
              IN  /\ AckedIn(t) = AckedIn(l) \cup {b}
                  /\ CommittedIn(t) = CommittedIn(l) /\ Ids(t, "quarantine") = Ids(l, "quarantine")
         /\ \A b \in Batch :
              LET t == Append(l, QuarantineRec(b))
              IN  /\ Ids(t, "quarantine") = Ids(l, "quarantine") \cup {b}
                  /\ CommittedIn(t) = CommittedIn(l) /\ AckedIn(t) = AckedIn(l)
         /\ \A k \in Source, p \in Pos :
              LET t == Append(l, CheckpointRec(k, p))
              IN  /\ CommittedIn(t) = CommittedIn(l) /\ AckedIn(t) = AckedIn(l)
                  /\ Ids(t, "quarantine") = Ids(l, "quarantine")
         /\ LET t == Append(l, Torn)
            IN  /\ CommittedIn(t) = CommittedIn(l) /\ AckedIn(t) = AckedIn(l)
                /\ Ids(t, "quarantine") = Ids(l, "quarantine")
<1>1. /\ \A b \in Batch : CommitRec(b).kind = "commit" /\ CommitRec(b).id = b
      /\ \A b \in Batch : AckRec(b).kind = "ack" /\ AckRec(b).id = b
      /\ \A b \in Batch : QuarantineRec(b).kind = "quarantine" /\ QuarantineRec(b).id = b
      /\ \A k \in Source, p \in Pos : CheckpointRec(k, p).kind = "checkpoint"
      /\ Torn.kind = "torn"
  BY DEF CommitRec, AckRec, QuarantineRec, CheckpointRec, Torn
<1>2. /\ \A b \in Batch : {CommitRec(b), AckRec(b), QuarantineRec(b)} \subseteq Record
      /\ \A k \in Source, p \in Pos : CheckpointRec(k, p) \in Record
  BY DEF Record
<1>3. ASSUME NEW b \in Batch
      PROVE  LET t == Append(l, CommitRec(b))
             IN  /\ CommittedIn(t) = CommittedIn(l) \cup {b}
                 /\ AckedIn(t) = AckedIn(l) /\ Ids(t, "quarantine") = Ids(l, "quarantine")
  BY <1>1, <1>2, IdsOfAppend DEF CommittedIn, AckedIn
<1>4. ASSUME NEW b \in Batch
      PROVE  LET t == Append(l, AckRec(b))
             IN  /\ AckedIn(t) = AckedIn(l) \cup {b}
                 /\ CommittedIn(t) = CommittedIn(l) /\ Ids(t, "quarantine") = Ids(l, "quarantine")
  BY <1>1, <1>2, IdsOfAppend DEF CommittedIn, AckedIn
<1>5. ASSUME NEW b \in Batch
      PROVE  LET t == Append(l, QuarantineRec(b))
             IN  /\ Ids(t, "quarantine") = Ids(l, "quarantine") \cup {b}
                 /\ CommittedIn(t) = CommittedIn(l) /\ AckedIn(t) = AckedIn(l)
  BY <1>1, <1>2, IdsOfAppend DEF CommittedIn, AckedIn
<1>6. ASSUME NEW k \in Source, NEW p \in Pos
      PROVE  LET t == Append(l, CheckpointRec(k, p))
             IN  /\ CommittedIn(t) = CommittedIn(l) /\ AckedIn(t) = AckedIn(l)
                 /\ Ids(t, "quarantine") = Ids(l, "quarantine")
  BY <1>1, <1>2, IdsOfAppend DEF CommittedIn, AckedIn
<1>7. LET t == Append(l, Torn)
      IN  /\ CommittedIn(t) = CommittedIn(l) /\ AckedIn(t) = AckedIn(l)
          /\ Ids(t, "quarantine") = Ids(l, "quarantine")
  BY <1>1, IdsOfAppend DEF CommittedIn, AckedIn
<1>. QED BY <1>3, <1>4, <1>5, <1>6, <1>7

\* The empty log says nothing.
LEMMA EmptyLog ==
  /\ CommittedIn(<<>>) = {} /\ AckedIn(<<>>) = {} /\ Ids(<<>>, "quarantine") = {}
  /\ OrderIn(<<>>) = <<>> /\ \A k \in Source : CheckpointIn(<<>>, k) = NoPos
<1>1. DOMAIN <<>> = {}
  OBVIOUS
<1>2. \A kind : Ids(<<>>, kind) = {}
  BY <1>1 DEF Ids
<1>3. OrderIn(<<>>) = <<>>
  <2>1. Kept(<<>>, {CommitRec(b) : b \in Batch}) = <<>>
    BY KeptOfEmpty
  <2>2. OrderIn(<<>>) = [i \in DOMAIN <<>> |-> <<>>[i].id]
    BY <2>1 DEF OrderIn
  <2>. QED BY <2>2, <1>1
<1>4. \A k \in Source : CheckpointIn(<<>>, k) = NoPos
  BY <1>1 DEF CheckpointIn
<1>. QED BY <1>2, <1>3, <1>4 DEF CommittedIn, AckedIn

\* A commit record adds its batch to the order; no other record does.
LEMMA OrderOfAppend ==
  ASSUME NEW l \in Logs, OrderIn(l) \in Seq(Batch)
  PROVE  /\ \A b \in Batch : OrderIn(Append(l, CommitRec(b))) = Append(OrderIn(l), b)
         /\ \A r \in Record \cup {Torn} : r.kind # "commit" => OrderIn(Append(l, r)) = OrderIn(l)
<1>. DEFINE commits == {CommitRec(b) : b \in Batch}
            s == Kept(l, commits)
<1>1. /\ \A b \in Batch : CommitRec(b) \in commits /\ CommitRec(b) \in Record /\ CommitRec(b).id = b
      /\ \A r \in commits : r.kind = "commit"
  <2>1. \A b \in Batch : CommitRec(b) \in commits /\ CommitRec(b) \in Record
    BY DEF Record
  <2>2. \A b \in Batch : CommitRec(b).kind = "commit" /\ CommitRec(b).id = b
    BY DEF CommitRec
  <2>. QED BY <2>1, <2>2
<1>. HIDE DEF commits
<1>2. s \in Logs
  BY KeptTyped DEF Logs
<1>3. \A r \in Record \cup {Torn} : Kept(Append(l, r), commits) = IF r \in commits THEN Append(s, r) ELSE s
  BY KeptOfAppend DEF Logs
<1>4. OrderIn(l) = [i \in DOMAIN s |-> s[i].id]
  BY DEF OrderIn, commits
<1>5. ASSUME NEW r \in Record \cup {Torn}, r.kind # "commit"
      PROVE  OrderIn(Append(l, r)) = OrderIn(l)
  BY <1>1, <1>3, <1>4, <1>5 DEF OrderIn, commits
<1>6. ASSUME NEW b \in Batch
      PROVE  OrderIn(Append(l, CommitRec(b))) = Append(OrderIn(l), b)
  <2>. DEFINE t == Append(s, CommitRec(b))
              n == Len(s)
              o == [i \in DOMAIN t |-> t[i].id]
  <2>1. OrderIn(Append(l, CommitRec(b))) = o
    BY <1>1, <1>3 DEF OrderIn, commits
  <2>2. /\ n \in Nat /\ DOMAIN s = 1..n /\ DOMAIN t = 1..(n + 1)
        /\ t[n + 1] = CommitRec(b) /\ \A i \in 1..n : t[i] = s[i]
    <3>1. CommitRec(b) \in Record \cup {Torn}
      BY <1>1
    <3>. HIDE DEF s
    <3>. QED BY <1>2, <3>1 DEF Logs
  <2>. HIDE DEF t, n, s
  <2>3. /\ Len(OrderIn(l)) = n /\ \A i \in 1..n : OrderIn(l)[i] = s[i].id
    BY <1>4, <2>2
  <2>4. DOMAIN o = 1..(n + 1) /\ o[n + 1] = b /\ \A i \in 1..n : o[i] = OrderIn(l)[i]
    BY <1>1, <2>2, <2>3
  <2>. HIDE DEF o
  <2>5. /\ Append(OrderIn(l), b) \in Seq(Batch) /\ Len(Append(OrderIn(l), b)) = n + 1
        /\ Append(OrderIn(l), b)[n + 1] = b
        /\ \A i \in 1..n : Append(OrderIn(l), b)[i] = OrderIn(l)[i]
    BY <2>2, <2>3
  <2>6. o \in Seq(Batch) /\ Len(o) = n + 1
    <3>1. \A i \in 1..(n + 1) : o[i] \in Batch
      BY <2>2, <2>3, <2>4
    <3>2. o = [i \in 1..(n + 1) |-> o[i]]
      BY <2>4 DEF o
    <3>. QED BY <2>2, <3>1, <3>2, SMTT(30)
  <2>7. o = Append(OrderIn(l), b)
    <3>1. \A i \in 1..(n + 1) : o[i] = Append(OrderIn(l), b)[i]
      BY <2>2, <2>4, <2>5
    <3>. QED BY <2>5, <2>6, <3>1, SeqEqual
  <2>. QED BY <2>1, <2>7
<1>. QED BY <1>5, <1>6

\* The last record about a source decides its position.
LEMMA CheckpointOfAppend ==
  ASSUME NEW l \in Logs, NEW r \in Record \cup {Torn}, NEW k
  PROVE  CheckpointIn(Append(l, r), k)
           = IF PosIn(r, k) # NoPos THEN PosIn(r, k) ELSE CheckpointIn(l, k)
<1>. DEFINE t == Append(l, r)
            n == Len(l)
            about(s) == {i \in DOMAIN s : PosIn(s[i], k) # NoPos}
            last(s) == CHOOSE i \in about(s) : \A j \in about(s) : j <= i
<1>1. n \in Nat /\ DOMAIN l = 1..n /\ DOMAIN t = 1..(n + 1) /\ t[n + 1] = r /\ \A i \in 1..n : t[i] = l[i]
  BY DEF Logs
<1>. HIDE DEF t, n
<1>2. /\ CheckpointIn(l, k) = IF about(l) = {} THEN NoPos ELSE PosIn(l[last(l)], k)
      /\ CheckpointIn(t, k) = IF about(t) = {} THEN NoPos ELSE PosIn(t[last(t)], k)
  BY DEF CheckpointIn
<1>3. about(l) \in SUBSET (1..n) /\ about(l) \in SUBSET (0..n)
  BY <1>1
<1>4. CASE PosIn(r, k) # NoPos
  <2>1. n + 1 \in about(t) /\ \A j \in about(t) : j \in Nat /\ j <= n + 1
    BY <1>1, <1>4
  <2>. HIDE DEF about
  <2>2. last(t) \in about(t) /\ \A j \in about(t) : j <= last(t)
    BY <2>1
  <2>. HIDE DEF last
  <2>3. last(t) = n + 1
    BY <1>1, <2>1, <2>2
  <2>. QED BY <1>1, <1>2, <1>4, <2>1, <2>3 DEF t
<1>5. CASE PosIn(r, k) = NoPos
  <2>1. about(t) = about(l)
    BY <1>1, <1>5
  <2>2. CASE about(l) = {}
    BY <1>2, <1>5, <2>1, <2>2 DEF t
  <2>3. CASE about(l) # {}
    <3>. HIDE DEF about
    <3>1. \E i \in about(l) : \A j \in about(l) : j <= i
      BY <1>1, <1>3, <2>3, MaxExists
    <3>2. last(l) \in about(l)
      BY <3>1
    <3>3. last(t) = last(l)
      BY <2>1
    <3>4. last(l) \in 1..n
      BY <1>3, <3>2
    <3>. HIDE DEF last
    <3>. QED BY <1>1, <1>2, <1>5, <2>1, <2>3, <3>3, <3>4 DEF t
  <2>. QED BY <2>2, <2>3
<1>. QED BY <1>4, <1>5

\* What a record says about positions.
LEMMA PosOfRecord ==
  /\ \A b \in Batch, k \in Source : PosIn(CommitRec(b), k) = IF KeyOf[b] = k THEN PosOf[b] ELSE NoPos
  /\ \A b \in Batch, k \in Source : PosIn(AckRec(b), k) = NoPos /\ PosIn(QuarantineRec(b), k) = NoPos
  /\ \A j \in Source, p \in Pos, k \in Source : PosIn(CheckpointRec(j, p), k) = IF j = k THEN p ELSE NoPos
  /\ \A k \in Source : PosIn(Torn, k) = NoPos
BY DEF PosIn, CommitRec, AckRec, QuarantineRec, CheckpointRec, Torn

\* A torn record at the end says nothing.
LEMMA TornSaysNothing ==
  ASSUME NEW l \in Logs, OrderIn(l) \in Seq(Batch)
  PROVE  LET t == Append(l, Torn)
         IN  /\ CommittedIn(t) = CommittedIn(l) /\ AckedIn(t) = AckedIn(l)
             /\ PendingIn(t) = PendingIn(l) /\ QuarantinedIn(t) = QuarantinedIn(l)
             /\ QueueIn(t) = QueueIn(l)
             /\ \A k \in Source : CheckpointIn(t, k) = CheckpointIn(l, k)
<1>. DEFINE t == Append(l, Torn)
<1>1. CommittedIn(t) = CommittedIn(l) /\ AckedIn(t) = AckedIn(l) /\ Ids(t, "quarantine") = Ids(l, "quarantine")
  BY IdsOfAppends
<1>2. Torn.kind # "commit" /\ Torn \in Record \cup {Torn}
  BY DEF Torn
<1>3. OrderIn(t) = OrderIn(l)
  BY <1>2, OrderOfAppend
<1>4. \A k \in Source : CheckpointIn(t, k) = CheckpointIn(l, k)
  BY <1>2, CheckpointOfAppend, PosOfRecord
<1>. HIDE DEF t
<1>5. PendingIn(t) = PendingIn(l) /\ QuarantinedIn(t) = QuarantinedIn(l)
  BY <1>1 DEF PendingIn, QuarantinedIn
<1>. QED BY <1>1, <1>3, <1>4, <1>5 DEF QueueIn, t

\* Batches the spool holds according to a log.
LiveIn(l) == CommittedIn(l) \ AckedIn(l)

\* A record that may stand behind the records of l.
Follows(l, r) ==
  /\ r.kind = "commit" => r.id \notin CommittedIn(l)
  /\ r.kind = "ack" => r.id \in LiveIn(l)
  /\ r.kind = "quarantine" => r.id \in PendingIn(l)
  /\ Charged(LiveIn(Append(l, r))) <= MaxBytes

\* A log every record of which may stand where it stands.
Sound(l) == l \in Seq(Record) /\ \A i \in 1..Len(l) : Follows(SubSeq(l, 1, i - 1), l[i])

\* What a crash may leave: such a log, or one with a torn record at its end.
Recoverable(l) ==
  \/ Sound(l)
  \/ \E n \in 0..Len(l) : Sound(SubSeq(l, 1, n)) /\ l = Append(SubSeq(l, 1, n), Torn)

-----------------------------------------------------------------------------
(* Sound logs.                                                             *)

\* A log need not hold a torn record.
LEMMA RecordsAreALog ==
  ASSUME NEW l \in Seq(Record)
  PROVE  l \in Logs
BY SeqMonotonic DEF Logs

\* Half a record is not a record.
LEMMA TornIsNoRecord == Torn \notin Record
<1>1. \A r \in Record : r.kind # "torn"
  <2>1. \A b : CommitRec(b).kind # "torn" /\ AckRec(b).kind # "torn" /\ QuarantineRec(b).kind # "torn"
    BY DEF CommitRec, AckRec, QuarantineRec
  <2>2. \A k, p : CheckpointRec(k, p).kind # "torn"
    BY DEF CheckpointRec
  <2>. QED BY <2>1, <2>2, RecordKinds
<1>2. Torn.kind = "torn"
  BY DEF Torn
<1>. QED BY <1>1, <1>2

\* Nothing is held at first.
LEMMA SoundEmpty == Sound(<<>>)
BY DEF Sound

\* A log is sound one record longer when the record may stand there.
LEMMA SoundAppend ==
  ASSUME NEW l \in Seq(Record), NEW r \in Record
  PROVE  Sound(Append(l, r)) <=> Sound(l) /\ Follows(l, r)
<1>. DEFINE t == Append(l, r)
            n == Len(l)
<1>1. /\ n \in Nat /\ t \in Seq(Record) /\ Len(t) = n + 1 /\ t[n + 1] = r /\ \A i \in 1..n : t[i] = l[i]
  OBVIOUS
<1>2. \A i \in 1..n : SubSeq(t, 1, i - 1) = SubSeq(l, 1, i - 1)
  <2>1. \A i \in 1..n : i - 1 \in 0..Len(l)
    BY <1>1
  <2>. QED BY <2>1, PrefixKept
<1>3. SubSeq(t, 1, (n + 1) - 1) = l
  <2>1. SubSeq(t, 1, n) = SubSeq(l, 1, n)
    BY <1>1, PrefixKept
  <2>2. SubSeq(l, 1, n) = l
    BY PrefixEnds
  <2>3. (n + 1) - 1 = n
    BY <1>1
  <2>. HIDE DEF t
  <2>. QED BY <2>1, <2>2, <2>3
<1>4. \A i \in 1..(n + 1) : i \in 1..n \/ i = n + 1
  BY <1>1
<1>5. n + 1 \in 1..(n + 1) /\ \A i \in 1..n : i \in 1..(n + 1)
  BY <1>1
<1>. HIDE DEF t, n
<1>6. Sound(t) => Sound(l) /\ Follows(l, r)
  <2>. SUFFICES ASSUME \A i \in 1..(n + 1) : Follows(SubSeq(t, 1, i - 1), t[i])
       PROVE  (\A i \in 1..n : Follows(SubSeq(l, 1, i - 1), l[i])) /\ Follows(l, r)
    BY <1>1 DEF Sound, n
  <2>1. ASSUME NEW i \in 1..n
        PROVE  Follows(SubSeq(l, 1, i - 1), l[i])
    BY <1>1, <1>2, <1>5
  <2>2. Follows(l, r)
    BY <1>1, <1>3, <1>5
  <2>. QED BY <2>1, <2>2
<1>7. Sound(l) /\ Follows(l, r) => Sound(t)
  <2>. SUFFICES ASSUME \A i \in 1..n : Follows(SubSeq(l, 1, i - 1), l[i]), Follows(l, r)
       PROVE  \A i \in 1..(n + 1) : Follows(SubSeq(t, 1, i - 1), t[i])
    BY <1>1 DEF Sound, n
  <2>1. \A i \in 1..n : Follows(SubSeq(t, 1, i - 1), t[i])
    BY <1>1, <1>2
  <2>2. Follows(SubSeq(t, 1, (n + 1) - 1), t[n + 1])
    BY <1>1, <1>3
  <2>. QED BY <1>4, <2>1, <2>2
<1>. QED BY <1>6, <1>7 DEF t

\* The beginning of a sound log is sound, and the next record may stand behind it.
LEMMA SoundPrefix ==
  ASSUME NEW l, Sound(l), NEW n \in 0..Len(l)
  PROVE  /\ SubSeq(l, 1, n) \in Seq(Record) /\ Sound(SubSeq(l, 1, n))
         /\ n < Len(l) => l[n + 1] \in Record /\ Follows(SubSeq(l, 1, n), l[n + 1])
<1>0. l \in Seq(Record) /\ Len(l) \in Nat /\ n \in Nat
  BY DEF Sound
<1>1. /\ SubSeq(l, 1, n) \in Seq(Record) /\ Len(SubSeq(l, 1, n)) = n
      /\ \A i \in 1..n : SubSeq(l, 1, n)[i] = l[i]
  BY <1>0, PrefixOfPrefix
<1>2. \A i \in 1..n : SubSeq(SubSeq(l, 1, n), 1, i - 1) = SubSeq(l, 1, i - 1)
  <2>1. \A i \in 1..n : i - 1 \in 0..n
    BY <1>0
  <2>. QED BY <1>0, <2>1, PrefixOfPrefix
<1>3. \A i \in 1..n : Follows(SubSeq(l, 1, i - 1), l[i])
  BY <1>0 DEF Sound
<1>4. Sound(SubSeq(l, 1, n))
  BY <1>1, <1>2, <1>3 DEF Sound
<1>5. ASSUME n < Len(l)
      PROVE  l[n + 1] \in Record /\ Follows(SubSeq(l, 1, n), l[n + 1])
  <2>1. n + 1 \in 1..Len(l) /\ (n + 1) - 1 = n
    BY <1>0, <1>5
  <2>2. Follows(SubSeq(l, 1, (n + 1) - 1), l[n + 1])
    BY <2>1 DEF Sound
  <2>. QED BY <1>0, <2>1, <2>2
<1>. QED BY <1>1, <1>4, <1>5

\* What is acknowledged or quarantined was committed, once.
Coherent(l) ==
  /\ CommittedIn(l) \subseteq Batch /\ IsFiniteSet(CommittedIn(l))
  /\ AckedIn(l) \subseteq CommittedIn(l) /\ Ids(l, "quarantine") \subseteq CommittedIn(l)
  /\ OrderIn(l) \in Seq(Batch) /\ IsInjective(OrderIn(l)) /\ ToSet(OrderIn(l)) = CommittedIn(l)

\* A record that may stand there keeps a log coherent,
LEMMA CoherentAppend ==
  ASSUME NEW l \in Seq(Record), NEW r \in Record, Coherent(l), Follows(l, r)
  PROVE  Coherent(Append(l, r))
<1>0. l \in Logs
  BY RecordsAreALog
<1>1. ASSUME NEW b \in Batch, r = CommitRec(b)
      PROVE  Coherent(Append(l, r))
  <2>1. b \notin CommittedIn(l)
    BY <1>1 DEF Follows, CommitRec
  <2>2. /\ CommittedIn(Append(l, r)) = CommittedIn(l) \cup {b} /\ AckedIn(Append(l, r)) = AckedIn(l)
        /\ Ids(Append(l, r), "quarantine") = Ids(l, "quarantine")
    BY <1>0, <1>1, IdsOfAppends
  <2>3. OrderIn(Append(l, r)) = Append(OrderIn(l), b)
    BY <1>0, <1>1, OrderOfAppend DEF Coherent
  <2>4. /\ Append(OrderIn(l), b) \in Seq(Batch) /\ IsInjective(Append(OrderIn(l), b))
        /\ ToSet(Append(OrderIn(l), b)) = ToSet(OrderIn(l)) \cup {b}
    BY <2>1, AppendToDistinct DEF Coherent
  <2>5. IsFiniteSet(CommittedIn(l) \cup {b})
    BY FS_AddElement DEF Coherent
  <2>. QED BY <2>2, <2>3, <2>4, <2>5 DEF Coherent
<1>2. ASSUME NEW b \in Batch, r = AckRec(b)
      PROVE  Coherent(Append(l, r))
  <2>1. b \in CommittedIn(l) /\ r.kind # "commit"
    BY <1>2 DEF Follows, AckRec, LiveIn
  <2>2. /\ CommittedIn(Append(l, r)) = CommittedIn(l) /\ AckedIn(Append(l, r)) = AckedIn(l) \cup {b}
        /\ Ids(Append(l, r), "quarantine") = Ids(l, "quarantine")
    BY <1>0, <1>2, IdsOfAppends
  <2>3. OrderIn(Append(l, r)) = OrderIn(l)
    BY <1>0, <2>1, OrderOfAppend DEF Coherent
  <2>. QED BY <2>1, <2>2, <2>3 DEF Coherent
<1>3. ASSUME NEW b \in Batch, r = QuarantineRec(b)
      PROVE  Coherent(Append(l, r))
  <2>1. b \in CommittedIn(l) /\ r.kind # "commit"
    BY <1>3 DEF Follows, QuarantineRec, PendingIn
  <2>2. /\ CommittedIn(Append(l, r)) = CommittedIn(l) /\ AckedIn(Append(l, r)) = AckedIn(l)
        /\ Ids(Append(l, r), "quarantine") = Ids(l, "quarantine") \cup {b}
    BY <1>0, <1>3, IdsOfAppends
  <2>3. OrderIn(Append(l, r)) = OrderIn(l)
    BY <1>0, <2>1, OrderOfAppend DEF Coherent
  <2>. QED BY <2>1, <2>2, <2>3 DEF Coherent
<1>4. ASSUME NEW k \in Source, NEW p \in Pos, r = CheckpointRec(k, p)
      PROVE  Coherent(Append(l, r))
  <2>1. r.kind # "commit"
    BY <1>4 DEF CheckpointRec
  <2>2. /\ CommittedIn(Append(l, r)) = CommittedIn(l) /\ AckedIn(Append(l, r)) = AckedIn(l)
        /\ Ids(Append(l, r), "quarantine") = Ids(l, "quarantine")
    BY <1>0, <1>4, IdsOfAppends
  <2>3. OrderIn(Append(l, r)) = OrderIn(l)
    BY <1>0, <2>1, OrderOfAppend DEF Coherent
  <2>. QED BY <2>1, <2>2, <2>3 DEF Coherent
<1>. QED BY <1>1, <1>2, <1>3, <1>4, RecordKinds

\* so sound logs are coherent.
LEMMA SoundCoherent ==
  ASSUME NEW l, Sound(l)
  PROVE  Coherent(l)
<1>. DEFINE K == {s \in Seq(Record) : Sound(s) => Coherent(s)}
<1>1. <<>> \in K
  <2>1. <<>> \in Seq(Record) /\ <<>> \in Seq(Batch)
    OBVIOUS
  <2>. QED BY <2>1, EmptyLog, EmptyIsDistinct, FS_EmptySet DEF Coherent
<1>2. ASSUME NEW s \in K, NEW r \in Record
      PROVE  Append(s, r) \in K
  BY SoundAppend, CoherentAppend
<1>. HIDE DEF K
<1>3. K \in SUBSET Seq(Record)
  BY DEF K
<1>4. l \in Seq(Record)
  BY DEF Sound
<1>5. l \in K
  BY <1>1, <1>2, <1>3, <1>4, InductiveSeqs
<1>. QED BY <1>5 DEF K

\* The sets a sound log tells apart, and the queue.
LEMMA SoundViews ==
  ASSUME NEW l, Sound(l)
  PROVE  /\ l \in Logs /\ LiveIn(l) = PendingIn(l) \cup QuarantinedIn(l)
         /\ PendingIn(l) \cap QuarantinedIn(l) = {}
         /\ LiveIn(l) \subseteq Batch /\ IsFiniteSet(LiveIn(l))
         /\ QueueIn(l) \in Seq(Batch) /\ ToSet(QueueIn(l)) = PendingIn(l) /\ IsInjective(QueueIn(l))
         /\ Charged(LiveIn(l)) \in Int /\ Charged(LiveIn(l)) <= MaxBytes
<1>1. Coherent(l) /\ l \in Logs /\ l \in Seq(Record)
  BY SoundCoherent, RecordsAreALog DEF Sound
<1>2. LiveIn(l) = PendingIn(l) \cup QuarantinedIn(l) /\ PendingIn(l) \cap QuarantinedIn(l) = {}
  BY <1>1 DEF Coherent, LiveIn, PendingIn, QuarantinedIn
<1>3. LiveIn(l) \subseteq Batch /\ IsFiniteSet(LiveIn(l))
  BY <1>1, FS_Subset DEF Coherent, LiveIn
<1>4. QueueIn(l) \in Seq(Batch) /\ ToSet(QueueIn(l)) = PendingIn(l)
  <2>1. QueueIn(l) \in Seq(Batch) /\ ToSet(QueueIn(l)) = ToSet(OrderIn(l)) \cap PendingIn(l)
    BY <1>1, KeptTyped DEF Coherent, QueueIn
  <2>2. PendingIn(l) \subseteq ToSet(OrderIn(l))
    BY <1>1 DEF Coherent, PendingIn
  <2>. QED BY <2>1, <2>2
<1>5. IsInjective(QueueIn(l))
  BY <1>1, KeptDistinct DEF Coherent, QueueIn
<1>6. Charged(LiveIn(l)) \in Int
  <2>1. \A b \in LiveIn(l) : Size[b] \in Int
    BY <1>3, DataAssumption
  <2>. QED BY <1>3, <2>1, SumTyped DEF Charged
<1>7. Charged(LiveIn(l)) <= MaxBytes
  <2>1. CASE l = <<>>
    <3>1. LiveIn(l) = {}
      BY <2>1, EmptyLog DEF LiveIn
    <3>2. Charged({}) = 0
      BY SumStep, FS_EmptySet DEF Charged
    <3>. QED BY <3>1, <3>2, DataAssumption
  <2>2. CASE l # <<>>
    <3>1. Len(l) - 1 \in Nat /\ (Len(l) - 1) + 1 = Len(l)
      BY <1>1, <2>2, EmptySeq
    <3>2. PICK t \in Seq(Record), r \in Record : l = Append(t, r)
      <4>. DEFINE n == Len(l) - 1
      <4>1. n \in Nat /\ Len(l) = n + 1
        BY <3>1
      <4>. HIDE DEF n
      <4>2. \E t \in Seq(Record), r \in Record : l = Append(t, r) /\ Len(t) = n
        BY <1>1, <4>1, SplitLast, Zenon
      <4>. QED BY <4>2
    <3>3. Follows(t, r)
      BY <3>2, SoundAppend
    <3>. QED BY <3>2, <3>3 DEF Follows
  <2>. QED BY <2>1, <2>2
<1>. QED BY <1>1, <1>2, <1>3, <1>4, <1>5, <1>6, <1>7

\* What one more record changes.
LEMMA CommitChanges ==
  ASSUME NEW l, Sound(l), NEW b \in Batch, b \notin CommittedIn(l)
  PROVE  LET t == Append(l, CommitRec(b))
         IN  /\ PendingIn(t) = PendingIn(l) \cup {b} /\ QuarantinedIn(t) = QuarantinedIn(l)
             /\ CommittedIn(t) = CommittedIn(l) \cup {b} /\ LiveIn(t) = LiveIn(l) \cup {b}
             /\ OrderIn(t) = Append(OrderIn(l), b) /\ QueueIn(t) = Append(QueueIn(l), b)
             /\ \A k \in Source :
                  CheckpointIn(t, k) = IF KeyOf[b] = k THEN PosOf[b] ELSE CheckpointIn(l, k)
<1>. DEFINE t == Append(l, CommitRec(b))
<1>1. Coherent(l) /\ l \in Logs /\ CommitRec(b) \in Record
  BY SoundCoherent, RecordsAreALog DEF Sound, Record
<1>2. CommittedIn(t) = CommittedIn(l) \cup {b} /\ AckedIn(t) = AckedIn(l)
      /\ Ids(t, "quarantine") = Ids(l, "quarantine")
  BY <1>1, IdsOfAppends
<1>3. OrderIn(t) = Append(OrderIn(l), b)
  BY <1>1, OrderOfAppend DEF Coherent
<1>4. \A k \in Source : CheckpointIn(t, k) = IF KeyOf[b] = k THEN PosOf[b] ELSE CheckpointIn(l, k)
  <2>1. PosOf[b] # NoPos
    BY DataAssumption
  <2>. QED BY <1>1, <2>1, CheckpointOfAppend, PosOfRecord
<1>. HIDE DEF t
<1>5. /\ PendingIn(t) = PendingIn(l) \cup {b} /\ QuarantinedIn(t) = QuarantinedIn(l)
      /\ LiveIn(t) = LiveIn(l) \cup {b}
  BY <1>1, <1>2 DEF Coherent, PendingIn, QuarantinedIn, LiveIn
<1>6. QueueIn(t) = Append(QueueIn(l), b)
  <2>1. OrderIn(l) \in Seq(Batch) /\ b \notin ToSet(OrderIn(l))
    BY <1>1 DEF Coherent
  <2>2. Kept(OrderIn(l), PendingIn(l) \cup {b}) = QueueIn(l)
    BY <2>1, KeptSame DEF QueueIn
  <2>3. Kept(Append(OrderIn(l), b), PendingIn(l) \cup {b})
          = Append(Kept(OrderIn(l), PendingIn(l) \cup {b}), b)
    BY <2>1, KeptOfAppend
  <2>. QED BY <1>3, <1>5, <2>2, <2>3 DEF QueueIn
<1>. QED BY <1>2, <1>3, <1>4, <1>5, <1>6 DEF t

\* An ack takes its batch out, pending or quarantined.
LEMMA AckChanges ==
  ASSUME NEW l, Sound(l), NEW b \in Batch, b \in LiveIn(l)
  PROVE  LET t == Append(l, AckRec(b))
         IN  /\ PendingIn(t) = PendingIn(l) \ {b} /\ QuarantinedIn(t) = QuarantinedIn(l) \ {b}
             /\ CommittedIn(t) = CommittedIn(l) /\ LiveIn(t) = LiveIn(l) \ {b}
             /\ OrderIn(t) = OrderIn(l) /\ QueueIn(t) = Kept(QueueIn(l), PendingIn(l) \ {b})
             /\ \A k \in Source : CheckpointIn(t, k) = CheckpointIn(l, k)
<1>. DEFINE t == Append(l, AckRec(b))
<1>1. Coherent(l) /\ l \in Logs /\ AckRec(b) \in Record /\ AckRec(b).kind # "commit"
  BY SoundCoherent, RecordsAreALog DEF Sound, Record, AckRec
<1>2. CommittedIn(t) = CommittedIn(l) /\ AckedIn(t) = AckedIn(l) \cup {b}
      /\ Ids(t, "quarantine") = Ids(l, "quarantine")
  BY <1>1, IdsOfAppends
<1>3. OrderIn(t) = OrderIn(l)
  BY <1>1, OrderOfAppend DEF Coherent
<1>4. \A k \in Source : CheckpointIn(t, k) = CheckpointIn(l, k)
  BY <1>1, CheckpointOfAppend, PosOfRecord
<1>. HIDE DEF t
<1>5. /\ PendingIn(t) = PendingIn(l) \ {b} /\ QuarantinedIn(t) = QuarantinedIn(l) \ {b}
      /\ LiveIn(t) = LiveIn(l) \ {b}
  BY <1>1, <1>2 DEF Coherent, PendingIn, QuarantinedIn, LiveIn
<1>6. QueueIn(t) = Kept(QueueIn(l), PendingIn(l) \ {b})
  BY <1>1, <1>3, <1>5, KeptOfKept DEF Coherent, QueueIn
<1>. QED BY <1>2, <1>3, <1>4, <1>5, <1>6 DEF t

\* A quarantine moves its batch out of the queue.
LEMMA QuarantineChanges ==
  ASSUME NEW l, Sound(l), NEW b \in Batch, b \in PendingIn(l)
  PROVE  LET t == Append(l, QuarantineRec(b))
         IN  /\ PendingIn(t) = PendingIn(l) \ {b} /\ QuarantinedIn(t) = QuarantinedIn(l) \cup {b}
             /\ CommittedIn(t) = CommittedIn(l) /\ LiveIn(t) = LiveIn(l)
             /\ OrderIn(t) = OrderIn(l) /\ QueueIn(t) = Kept(QueueIn(l), PendingIn(l) \ {b})
             /\ \A k \in Source : CheckpointIn(t, k) = CheckpointIn(l, k)
<1>. DEFINE t == Append(l, QuarantineRec(b))
<1>1. Coherent(l) /\ l \in Logs /\ QuarantineRec(b) \in Record /\ QuarantineRec(b).kind # "commit"
  BY SoundCoherent, RecordsAreALog DEF Sound, Record, QuarantineRec
<1>2. CommittedIn(t) = CommittedIn(l) /\ AckedIn(t) = AckedIn(l)
      /\ Ids(t, "quarantine") = Ids(l, "quarantine") \cup {b}
  BY <1>1, IdsOfAppends
<1>3. OrderIn(t) = OrderIn(l)
  BY <1>1, OrderOfAppend DEF Coherent
<1>4. \A k \in Source : CheckpointIn(t, k) = CheckpointIn(l, k)
  BY <1>1, CheckpointOfAppend, PosOfRecord
<1>. HIDE DEF t
<1>5. /\ PendingIn(t) = PendingIn(l) \ {b} /\ QuarantinedIn(t) = QuarantinedIn(l) \cup {b}
      /\ LiveIn(t) = LiveIn(l)
  BY <1>1, <1>2 DEF Coherent, PendingIn, QuarantinedIn, LiveIn
<1>6. QueueIn(t) = Kept(QueueIn(l), PendingIn(l) \ {b})
  BY <1>1, <1>3, <1>5, KeptOfKept DEF Coherent, QueueIn
<1>. QED BY <1>2, <1>3, <1>4, <1>5, <1>6 DEF t

\* A checkpoint moves its source and nothing else.
LEMMA CheckpointChanges ==
  ASSUME NEW l, Sound(l), NEW j \in Source, NEW p \in Pos
  PROVE  LET t == Append(l, CheckpointRec(j, p))
         IN  /\ PendingIn(t) = PendingIn(l) /\ QuarantinedIn(t) = QuarantinedIn(l)
             /\ CommittedIn(t) = CommittedIn(l) /\ LiveIn(t) = LiveIn(l)
             /\ OrderIn(t) = OrderIn(l) /\ QueueIn(t) = QueueIn(l)
             /\ \A k \in Source : CheckpointIn(t, k) = IF j = k THEN p ELSE CheckpointIn(l, k)
<1>. DEFINE t == Append(l, CheckpointRec(j, p))
<1>1. Coherent(l) /\ l \in Logs /\ CheckpointRec(j, p) \in Record /\ CheckpointRec(j, p).kind # "commit"
  <2>1. CheckpointRec(j, p) \in Record
    BY DEF Record
  <2>2. CheckpointRec(j, p).kind # "commit"
    BY DEF CheckpointRec
  <2>. QED BY <2>1, <2>2, SoundCoherent, RecordsAreALog DEF Sound
<1>2. CommittedIn(t) = CommittedIn(l) /\ AckedIn(t) = AckedIn(l)
      /\ Ids(t, "quarantine") = Ids(l, "quarantine")
  BY <1>1, IdsOfAppends
<1>3. OrderIn(t) = OrderIn(l)
  BY <1>1, OrderOfAppend DEF Coherent
<1>4. \A k \in Source : CheckpointIn(t, k) = IF j = k THEN p ELSE CheckpointIn(l, k)
  <2>1. p # NoPos
    BY DataAssumption
  <2>. QED BY <1>1, <2>1, CheckpointOfAppend, PosOfRecord
<1>. HIDE DEF t
<1>5. /\ PendingIn(t) = PendingIn(l) /\ QuarantinedIn(t) = QuarantinedIn(l) /\ LiveIn(t) = LiveIn(l)
  BY <1>2 DEF PendingIn, QuarantinedIn, LiveIn
<1>6. QueueIn(t) = QueueIn(l)
  BY <1>3, <1>5 DEF QueueIn
<1>. QED BY <1>2, <1>3, <1>4, <1>5, <1>6 DEF t

\* Recovery reads records that may stand where they stand, up to a torn one
\* that ends the log.
LEMMA RecoverableSplit ==
  ASSUME NEW l \in Logs, Recoverable(l), NEW i \in 0..Len(l)
  PROVE  /\ i < Len(l) => /\ Sound(SubSeq(l, 1, i))
                          /\ \/ l[i + 1] \in Record /\ Follows(SubSeq(l, 1, i), l[i + 1])
                             \/ l[i + 1] = Torn /\ i + 1 = Len(l)
         /\ l \in Seq(Record) => Sound(l)
<1>0. Len(l) \in Nat /\ i \in Nat
  BY DEF Logs
<1>1. CASE Sound(l)
  BY <1>1, SoundPrefix
<1>2. ASSUME NEW n \in 0..Len(l), Sound(SubSeq(l, 1, n)), l = Append(SubSeq(l, 1, n), Torn)
      PROVE  /\ i < Len(l) => /\ Sound(SubSeq(l, 1, i))
                              /\ \/ l[i + 1] \in Record /\ Follows(SubSeq(l, 1, i), l[i + 1])
                                 \/ l[i + 1] = Torn /\ i + 1 = Len(l)
             /\ l \in Seq(Record) => Sound(l)
  <2>. DEFINE s == SubSeq(l, 1, n)
  <2>1. s \in Logs /\ Len(s) = n /\ n \in Nat /\ s \in Seq(Record)
    BY <1>0, <1>2, PrefixOfPrefix DEF Logs, Sound
  <2>2. Len(l) = n + 1 /\ l[n + 1] = Torn /\ \A j \in 1..n : l[j] = s[j]
    <3>1. Torn \in Record \cup {Torn}
      OBVIOUS
    <3>2. Len(Append(s, Torn)) = n + 1 /\ Append(s, Torn)[n + 1] = Torn
          /\ \A j \in 1..n : Append(s, Torn)[j] = s[j]
      <4>. HIDE DEF s
      <4>. QED BY <2>1, <3>1 DEF Logs
    <3>. QED BY <1>2, <3>2, Zenon
  <2>3. ASSUME i < Len(l)
        PROVE  /\ Sound(SubSeq(l, 1, i))
               /\ \/ l[i + 1] \in Record /\ Follows(SubSeq(l, 1, i), l[i + 1])
                  \/ l[i + 1] = Torn /\ i + 1 = Len(l)
    <3>1. i \in 0..n
      BY <1>0, <2>1, <2>2, <2>3
    <3>2. SubSeq(s, 1, i) = SubSeq(l, 1, i)
      BY <3>1, PrefixOfPrefix DEF Logs
    <3>3. Sound(SubSeq(l, 1, i)) /\ (i < n => s[i + 1] \in Record /\ Follows(SubSeq(l, 1, i), s[i + 1]))
      <4>. HIDE DEF s
      <4>1. Sound(s) /\ i \in 0..Len(s)
        BY <1>2, <2>1, <3>1 DEF s
      <4>. QED BY <2>1, <3>2, <4>1, SoundPrefix
    <3>. HIDE DEF s
    <3>4. CASE i < n
      <4>1. i + 1 \in 1..n
        BY <1>0, <2>1, <3>4
      <4>. QED BY <2>2, <3>3, <3>4, <4>1
    <3>5. CASE i = n
      BY <2>2, <3>3, <3>5
    <3>. QED BY <1>0, <2>1, <3>1, <3>4, <3>5
  <2>4. l \notin Seq(Record)
    <3>. HIDE DEF s
    <3>1. n + 1 \in 1..Len(l)
      BY <2>1, <2>2
    <3>. QED BY <2>2, <3>1, TornIsNoRecord, ElementOfSeq
  <2>. QED BY <2>3, <2>4
<1>. QED BY <1>1, <1>2 DEF Recoverable

\* Memory m is what log l says.
Mirrors(m, l) ==
  /\ m.pending = PendingIn(l) /\ m.quarantined = QuarantinedIn(l)
  /\ \A k \in Source : m.checkpoints[k] = CheckpointIn(l, k)
  /\ Kept(m.order, m.pending) = QueueIn(l)
  /\ CommittedIn(l) \subseteq m.seen

\* The maps, lists and the counter of the WAL struct agree with each other.
MemoryInv(m) ==
  /\ m.pending \subseteq ToSet(m.order) /\ ToSet(m.order) \subseteq m.seen
  /\ m.quarantined \subseteq ToSet(m.quarantineOrder) /\ ToSet(m.quarantineOrder) \subseteq m.seen
  /\ m.pending \cap ToSet(m.quarantineOrder) = {}
  /\ IsInjective(m.order) /\ IsInjective(m.quarantineOrder)
  /\ m.usedBytes = Charged(m.pending \cup m.quarantined)
  /\ \A b \in m.seen : m.checkpoints[KeyOf[b]] # NoPos

-----------------------------------------------------------------------------
(* Memory.                                                                 *)

\* The fields the effect of a record changes.
LEMMA ApplyChanges ==
  ASSUME NEW m \in Memory
  PROVE  /\ \A b \in Batch :
              LET n == Apply(m, CommitRec(b))
              IN  /\ n.pending = m.pending \cup {b} /\ n.quarantined = m.quarantined
                  /\ n.seen = m.seen \cup {b}
                  /\ n.order = Append(m.order, b) /\ n.quarantineOrder = m.quarantineOrder
                  /\ n.checkpoints = [m.checkpoints EXCEPT ![KeyOf[b]] = PosOf[b]]
                  /\ n.usedBytes = m.usedBytes + Size[b]
         /\ \A b \in Batch :
              LET n == Apply(m, AckRec(b))
              IN  /\ n.pending = m.pending \ {b} /\ n.quarantined = m.quarantined \ {b}
                  /\ n.seen = m.seen /\ n.order = m.order /\ n.quarantineOrder = m.quarantineOrder
                  /\ n.checkpoints = m.checkpoints /\ n.usedBytes = m.usedBytes - Size[b]
         /\ \A b \in Batch :
              LET n == Apply(m, QuarantineRec(b))
              IN  /\ n.pending = m.pending \ {b} /\ n.quarantined = m.quarantined \cup {b}
                  /\ n.seen = m.seen /\ n.order = m.order
                  /\ n.quarantineOrder = Append(m.quarantineOrder, b)
                  /\ n.checkpoints = m.checkpoints /\ n.usedBytes = m.usedBytes
         /\ \A k \in Source, p \in Pos :
              LET n == Apply(m, CheckpointRec(k, p))
              IN  /\ n.pending = m.pending /\ n.quarantined = m.quarantined /\ n.seen = m.seen
                  /\ n.order = m.order /\ n.quarantineOrder = m.quarantineOrder
                  /\ n.checkpoints = [m.checkpoints EXCEPT ![k] = p] /\ n.usedBytes = m.usedBytes
<1>1. ASSUME NEW b \in Batch
      PROVE  LET n == Apply(m, CommitRec(b))
             IN  /\ n.pending = m.pending \cup {b} /\ n.quarantined = m.quarantined
                 /\ n.seen = m.seen \cup {b}
                 /\ n.order = Append(m.order, b) /\ n.quarantineOrder = m.quarantineOrder
                 /\ n.checkpoints = [m.checkpoints EXCEPT ![KeyOf[b]] = PosOf[b]]
                 /\ n.usedBytes = m.usedBytes + Size[b]
  <2>1. Apply(m, CommitRec(b)) = applyCommit(m, b)
    BY DEF Apply, CommitRec
  <2>2. LET n == applyCommit(m, b)
        IN  /\ n.pending = m.pending \cup {b} /\ n.quarantined = m.quarantined
            /\ n.seen = m.seen \cup {b}
            /\ n.order = Append(m.order, b) /\ n.quarantineOrder = m.quarantineOrder
            /\ n.checkpoints = [m.checkpoints EXCEPT ![KeyOf[b]] = PosOf[b]]
            /\ n.usedBytes = m.usedBytes + Size[b]
    BY DEF applyCommit, Memory
  <2>. QED BY <2>1, <2>2
<1>2. ASSUME NEW b \in Batch
      PROVE  LET n == Apply(m, AckRec(b))
             IN  /\ n.pending = m.pending \ {b} /\ n.quarantined = m.quarantined \ {b}
                 /\ n.seen = m.seen /\ n.order = m.order /\ n.quarantineOrder = m.quarantineOrder
                 /\ n.checkpoints = m.checkpoints /\ n.usedBytes = m.usedBytes - Size[b]
  <2>1. Apply(m, AckRec(b)) = removeActive(m, b)
    BY DEF Apply, AckRec
  <2>2. LET n == removeActive(m, b)
        IN  /\ n.pending = m.pending \ {b} /\ n.quarantined = m.quarantined \ {b}
            /\ n.seen = m.seen /\ n.order = m.order /\ n.quarantineOrder = m.quarantineOrder
            /\ n.checkpoints = m.checkpoints /\ n.usedBytes = m.usedBytes - Size[b]
    BY DEF removeActive, Memory
  <2>. QED BY <2>1, <2>2
<1>3. ASSUME NEW b \in Batch
      PROVE  LET n == Apply(m, QuarantineRec(b))
             IN  /\ n.pending = m.pending \ {b} /\ n.quarantined = m.quarantined \cup {b}
                 /\ n.seen = m.seen /\ n.order = m.order
                 /\ n.quarantineOrder = Append(m.quarantineOrder, b)
                 /\ n.checkpoints = m.checkpoints /\ n.usedBytes = m.usedBytes
  <2>1. Apply(m, QuarantineRec(b)) = applyQuarantine(m, b)
    BY DEF Apply, QuarantineRec
  <2>2. LET n == applyQuarantine(m, b)
        IN  /\ n.pending = m.pending \ {b} /\ n.quarantined = m.quarantined \cup {b}
            /\ n.seen = m.seen /\ n.order = m.order
            /\ n.quarantineOrder = Append(m.quarantineOrder, b)
            /\ n.checkpoints = m.checkpoints /\ n.usedBytes = m.usedBytes
    BY DEF applyQuarantine, Memory
  <2>. QED BY <2>1, <2>2
<1>4. ASSUME NEW k \in Source, NEW p \in Pos
      PROVE  LET n == Apply(m, CheckpointRec(k, p))
             IN  /\ n.pending = m.pending /\ n.quarantined = m.quarantined /\ n.seen = m.seen
                 /\ n.order = m.order /\ n.quarantineOrder = m.quarantineOrder
                 /\ n.checkpoints = [m.checkpoints EXCEPT ![k] = p] /\ n.usedBytes = m.usedBytes
  <2>1. Apply(m, CheckpointRec(k, p)) = applyCheckpoint(m, k, p)
    BY DEF Apply, CheckpointRec
  <2>2. LET n == applyCheckpoint(m, k, p)
        IN  /\ n.pending = m.pending /\ n.quarantined = m.quarantined /\ n.seen = m.seen
            /\ n.order = m.order /\ n.quarantineOrder = m.quarantineOrder
            /\ n.checkpoints = [m.checkpoints EXCEPT ![k] = p] /\ n.usedBytes = m.usedBytes
    BY DEF applyCheckpoint, Memory
  <2>. QED BY <2>1, <2>2
<1>. QED BY <1>1, <1>2, <1>3, <1>4

\* What applyRecovered accepts, record by record.
LEMMA AcceptableMeans ==
  ASSUME NEW m
  PROVE  /\ \A b \in Batch : Acceptable(m, CommitRec(b)) <=> b \notin m.seen
         /\ \A b \in Batch : Acceptable(m, AckRec(b)) <=> b \in m.pending \cup m.quarantined
         /\ \A b \in Batch : Acceptable(m, QuarantineRec(b)) <=> b \in m.pending
         /\ \A k \in Source, p \in Pos : Acceptable(m, CheckpointRec(k, p))
BY DEF Acceptable, CommitRec, AckRec, QuarantineRec, CheckpointRec

\* The parts of a memory.
LEMMA MemoryFields ==
  ASSUME NEW m \in Memory
  PROVE  /\ m.pending \subseteq Batch /\ m.quarantined \subseteq Batch /\ m.seen \subseteq Batch
         /\ m.order \in Seq(Batch) /\ m.quarantineOrder \in Seq(Batch)
         /\ m.checkpoints \in [Source -> Pos \cup {NoPos}] /\ m.usedBytes \in Int
BY DEF Memory

\* The batches held are finitely many, of known sizes.
LEMMA HeldFinite ==
  ASSUME NEW m \in Memory, MemoryInv(m)
  PROVE  /\ IsFiniteSet(m.pending \cup m.quarantined)
         /\ m.pending \cup m.quarantined \subseteq Batch /\ m.pending \cup m.quarantined \subseteq m.seen
         /\ \A b \in Batch : Size[b] \in Nat /\ Size[b] \in Int
<1>1. IsFiniteSet(ToSet(m.order)) /\ IsFiniteSet(ToSet(m.quarantineOrder))
  BY MemoryFields, LenOfDistinct DEF MemoryInv
<1>2. IsFiniteSet(m.pending) /\ IsFiniteSet(m.quarantined)
  BY <1>1, FS_Subset DEF MemoryInv
<1>3. IsFiniteSet(m.pending \cup m.quarantined)
  BY <1>2, FS_Union
<1>4. m.pending \cup m.quarantined \subseteq Batch /\ m.pending \cup m.quarantined \subseteq m.seen
  BY MemoryFields DEF MemoryInv
<1>5. \A b \in Batch : Size[b] \in Nat /\ Size[b] \in Int
  BY DataAssumption
<1>. QED BY <1>3, <1>4, <1>5

\* An acceptable record keeps the maps, the lists and the counter together.
LEMMA ApplyKeepsMemory ==
  ASSUME NEW m \in Memory, MemoryInv(m), NEW r \in Record, Acceptable(m, r)
  PROVE  MemoryInv(Apply(m, r))
<1>. DEFINE n == Apply(m, r)
            held == m.pending \cup m.quarantined
<1>0. /\ m.order \in Seq(Batch) /\ m.quarantineOrder \in Seq(Batch) /\ m.seen \subseteq Batch
      /\ m.checkpoints \in [Source -> Pos \cup {NoPos}] /\ m.usedBytes \in Int
      /\ m.pending \subseteq Batch /\ m.quarantined \subseteq Batch
  BY MemoryFields
<1>1. IsFiniteSet(held) /\ held \subseteq Batch /\ held \subseteq m.seen /\ \A b \in Batch : Size[b] \in Int
  BY HeldFinite
<1>2. ASSUME NEW b \in Batch, r = CommitRec(b)
      PROVE  MemoryInv(n)
  <2>1. b \notin m.seen
    BY <1>2, AcceptableMeans
  <2>2. /\ n.pending = m.pending \cup {b} /\ n.quarantined = m.quarantined
        /\ n.seen = m.seen \cup {b}
        /\ n.order = Append(m.order, b) /\ n.quarantineOrder = m.quarantineOrder
        /\ n.checkpoints = [m.checkpoints EXCEPT ![KeyOf[b]] = PosOf[b]]
        /\ n.usedBytes = m.usedBytes + Size[b]
    BY <1>2, ApplyChanges
  <2>. HIDE DEF n
  <2>3. /\ IsInjective(Append(m.order, b)) /\ ToSet(Append(m.order, b)) = ToSet(m.order) \cup {b}
    BY <1>0, <2>1, AppendToDistinct DEF MemoryInv
  <2>4. n.usedBytes = Charged(n.pending \cup n.quarantined)
    <3>1. n.pending \cup n.quarantined = held \cup {b} /\ b \notin held
      BY <1>1, <2>1, <2>2
    <3>2. \A x \in held \cup {b} : Size[x] \in Int
      BY <1>1
    <3>3. Charged(held \cup {b}) = Size[b] + Charged(held)
      BY <1>1, <3>1, <3>2, SumWith DEF Charged
    <3>4. m.usedBytes = Charged(held) /\ Size[b] \in Int
      BY <1>1 DEF MemoryInv
    <3>. HIDE DEF held
    <3>5. Charged(held) \in Int
      BY <1>0, <3>4
    <3>6. n.usedBytes = Charged(held \cup {b})
      BY <2>2, <3>3, <3>4, <3>5
    <3>. QED BY <3>1, <3>6, Zenon
  <2>5. ASSUME NEW x \in n.seen
        PROVE  n.checkpoints[KeyOf[x]] # NoPos
    <3>1. KeyOf[x] \in Source /\ KeyOf[b] \in Source /\ PosOf[b] # NoPos
      BY <1>0, <2>2, DataAssumption
    <3>2. n.checkpoints[KeyOf[x]] = IF KeyOf[x] = KeyOf[b] THEN PosOf[b] ELSE m.checkpoints[KeyOf[x]]
      BY <1>0, <2>2, <3>1
    <3>3. x # b => m.checkpoints[KeyOf[x]] # NoPos
      BY <2>2 DEF MemoryInv
    <3>. QED BY <3>1, <3>2, <3>3
  <2>6. n.pending \cap ToSet(n.quarantineOrder) = {}
    BY <2>1, <2>2 DEF MemoryInv
  <2>7. /\ n.pending \subseteq ToSet(n.order) /\ ToSet(n.order) \subseteq n.seen
        /\ n.quarantined \subseteq ToSet(n.quarantineOrder) /\ ToSet(n.quarantineOrder) \subseteq n.seen
    BY <2>2, <2>3 DEF MemoryInv
  <2>8. IsInjective(n.order) /\ IsInjective(n.quarantineOrder)
    BY <2>2, <2>3 DEF MemoryInv
  <2>. QED BY <2>4, <2>5, <2>6, <2>7, <2>8 DEF MemoryInv
<1>3. ASSUME NEW b \in Batch, r = AckRec(b)
      PROVE  MemoryInv(n)
  <2>1. b \in held
    BY <1>3, AcceptableMeans
  <2>2. /\ n.pending = m.pending \ {b} /\ n.quarantined = m.quarantined \ {b}
        /\ n.seen = m.seen /\ n.order = m.order /\ n.quarantineOrder = m.quarantineOrder
        /\ n.checkpoints = m.checkpoints /\ n.usedBytes = m.usedBytes - Size[b]
    BY <1>3, ApplyChanges
  <2>. HIDE DEF n
  <2>3. n.usedBytes = Charged(n.pending \cup n.quarantined)
    <3>1. n.pending \cup n.quarantined = held \ {b}
      BY <2>2
    <3>2. \A x \in held : Size[x] \in Int
      BY <1>1
    <3>3. Charged(held) = Size[b] + Charged(held \ {b})
      BY <1>1, <2>1, <3>2, SumWithout DEF Charged
    <3>4. Charged(held \ {b}) \in Int
      <4>1. IsFiniteSet(held \ {b}) /\ \A x \in held \ {b} : Size[x] \in Int
        BY <1>1, <3>2, FS_Subset
      <4>. QED BY <4>1, SumTyped DEF Charged
    <3>5. m.usedBytes = Charged(held) /\ Size[b] \in Int
      BY <1>1 DEF MemoryInv
    <3>. HIDE DEF held
    <3>6. n.usedBytes = Charged(held \ {b})
      BY <2>2, <3>3, <3>4, <3>5
    <3>. QED BY <3>1, <3>6, Zenon
  <2>. QED BY <2>2, <2>3 DEF MemoryInv
<1>4. ASSUME NEW b \in Batch, r = QuarantineRec(b)
      PROVE  MemoryInv(n)
  <2>1. b \in m.pending
    BY <1>4, AcceptableMeans
  <2>2. /\ n.pending = m.pending \ {b} /\ n.quarantined = m.quarantined \cup {b}
        /\ n.seen = m.seen /\ n.order = m.order
        /\ n.quarantineOrder = Append(m.quarantineOrder, b)
        /\ n.checkpoints = m.checkpoints /\ n.usedBytes = m.usedBytes
    BY <1>4, ApplyChanges
  <2>. HIDE DEF n
  <2>3. b \notin ToSet(m.quarantineOrder) /\ b \in m.seen
    BY <2>1 DEF MemoryInv
  <2>4. /\ IsInjective(Append(m.quarantineOrder, b))
        /\ ToSet(Append(m.quarantineOrder, b)) = ToSet(m.quarantineOrder) \cup {b}
    BY <1>0, <2>3, AppendToDistinct DEF MemoryInv
  <2>5. n.pending \cup n.quarantined = held
    BY <2>1, <2>2
  <2>6. n.usedBytes = Charged(n.pending \cup n.quarantined)
    BY <2>2, <2>5 DEF MemoryInv
  <2>. QED BY <2>2, <2>3, <2>4, <2>6 DEF MemoryInv
<1>5. ASSUME NEW k \in Source, NEW p \in Pos, r = CheckpointRec(k, p)
      PROVE  MemoryInv(n)
  <2>1. /\ n.pending = m.pending /\ n.quarantined = m.quarantined /\ n.seen = m.seen
        /\ n.order = m.order /\ n.quarantineOrder = m.quarantineOrder
        /\ n.checkpoints = [m.checkpoints EXCEPT ![k] = p] /\ n.usedBytes = m.usedBytes
    BY <1>5, ApplyChanges
  <2>. HIDE DEF n
  <2>2. ASSUME NEW x \in n.seen
        PROVE  n.checkpoints[KeyOf[x]] # NoPos
    <3>1. KeyOf[x] \in Source /\ p # NoPos
      BY <1>0, <2>1, DataAssumption
    <3>2. n.checkpoints[KeyOf[x]] = IF KeyOf[x] = k THEN p ELSE m.checkpoints[KeyOf[x]]
      BY <1>0, <2>1, <3>1
    <3>3. m.checkpoints[KeyOf[x]] # NoPos
      BY <2>1 DEF MemoryInv
    <3>. QED BY <3>1, <3>2, <3>3
  <2>. QED BY <2>1, <2>2 DEF MemoryInv
<1>. QED BY <1>2, <1>3, <1>4, <1>5, RecordKinds

\* The empty memory mirrors the empty log.
LEMMA EmptyMemoryHolds ==
  /\ MemoryInv(EmptyMemory) /\ Mirrors(EmptyMemory, <<>>) /\ EmptyMemory.seen = CommittedIn(<<>>)
  /\ EmptyMemory.usedBytes = 0
<1>1. /\ EmptyMemory.pending = {} /\ EmptyMemory.quarantined = {} /\ EmptyMemory.seen = {}
      /\ EmptyMemory.order = <<>> /\ EmptyMemory.quarantineOrder = <<>> /\ EmptyMemory.usedBytes = 0
      /\ EmptyMemory.checkpoints = [k \in Source |-> NoPos]
  BY DEF EmptyMemory
<1>2. Charged({}) = 0
  BY SumStep, FS_EmptySet DEF Charged
<1>3. MemoryInv(EmptyMemory)
  BY <1>1, <1>2, EmptyIsDistinct DEF MemoryInv
<1>4. PendingIn(<<>>) = {} /\ QuarantinedIn(<<>>) = {}
  BY EmptyLog DEF PendingIn, QuarantinedIn
<1>5. QueueIn(<<>>) = <<>> /\ Kept(<<>>, {}) = <<>>
  BY EmptyLog, KeptOfEmpty DEF QueueIn
<1>. QED BY <1>1, <1>3, <1>4, <1>5, EmptyLog DEF Mirrors

-----------------------------------------------------------------------------
(* Memory and log together.                                                *)

\* Bytes: what memory holds is what the log holds.
LEMMA MirroredBytes ==
  ASSUME NEW m \in Memory, MemoryInv(m), NEW l, Sound(l), Mirrors(m, l)
  PROVE  LiveIn(l) = m.pending \cup m.quarantined /\ m.usedBytes = Charged(LiveIn(l))
         /\ m.usedBytes <= MaxBytes
BY SoundViews DEF Mirrors, MemoryInv

\* What recovery is about to read, it accepts.
LEMMA FollowsAccepted ==
  ASSUME NEW m, NEW l, Sound(l), Mirrors(m, l), m.seen = CommittedIn(l), NEW r \in Record, Follows(l, r)
  PROVE  Acceptable(m, r)
<1>0. LiveIn(l) = m.pending \cup m.quarantined
  BY SoundViews DEF Mirrors
<1>1. CASE \E b \in Batch : r = CommitRec(b)
  BY <1>1, AcceptableMeans DEF Follows, CommitRec
<1>2. CASE \E b \in Batch : r = AckRec(b)
  BY <1>0, <1>2, AcceptableMeans DEF Follows, AckRec
<1>3. CASE \E b \in Batch : r = QuarantineRec(b)
  BY <1>3, AcceptableMeans DEF Follows, QuarantineRec, Mirrors
<1>4. CASE \E k \in Source, p \in Pos : r = CheckpointRec(k, p)
  BY <1>4, AcceptableMeans
<1>. QED BY <1>1, <1>2, <1>3, <1>4, RecordKinds

\* A record that takes batches out of the log, or leaves them, fits.
LEMMA LessIsCharged ==
  ASSUME NEW l, Sound(l), NEW L \in SUBSET LiveIn(l)
  PROVE  Charged(L) <= MaxBytes
<1>1. IsFiniteSet(LiveIn(l)) /\ LiveIn(l) \subseteq Batch /\ Charged(LiveIn(l)) \in Int
      /\ Charged(LiveIn(l)) <= MaxBytes
  BY SoundViews
<1>2. \A b \in LiveIn(l) : Size[b] \in Nat
  BY <1>1, DataAssumption
<1>3. Charged(L) <= Charged(LiveIn(l))
  BY <1>1, <1>2, SumMonotone DEF Charged
<1>4. Charged(L) \in Int
  <2>1. IsFiniteSet(L) /\ \A b \in L : Size[b] \in Int
    BY <1>1, <1>2, FS_Subset
  <2>. QED BY <2>1, SumTyped DEF Charged
<1>. QED BY <1>1, <1>3, <1>4, DataAssumption

\* What an operation is about to append may stand behind the log.
LEMMA AcceptedFollows ==
  ASSUME NEW m \in Memory, MemoryInv(m), NEW l, Sound(l), Mirrors(m, l), NEW r \in Record,
         Acceptable(m, r), r.kind = "commit" => m.usedBytes + Size[r.id] <= MaxBytes
  PROVE  Follows(l, r)
<1>0. /\ LiveIn(l) = m.pending \cup m.quarantined /\ m.usedBytes = Charged(LiveIn(l))
      /\ l \in Logs
  BY MirroredBytes, SoundViews
<1>1. ASSUME NEW b \in Batch, r = CommitRec(b)
      PROVE  Follows(l, r)
  <2>1. r.kind = "commit" /\ r.id = b /\ b \notin m.seen
    BY <1>1, AcceptableMeans DEF CommitRec
  <2>2. b \notin CommittedIn(l)
    BY <2>1 DEF Mirrors
  <2>3. LiveIn(Append(l, r)) = LiveIn(l) \cup {b}
    BY <1>1, <2>2, CommitChanges
  <2>4. Charged(LiveIn(l) \cup {b}) = Size[b] + Charged(LiveIn(l))
    <3>1. IsFiniteSet(LiveIn(l)) /\ LiveIn(l) \subseteq Batch
      BY SoundViews
    <3>2. b \notin LiveIn(l)
      BY <2>2 DEF LiveIn
    <3>3. \A x \in LiveIn(l) \cup {b} : Size[x] \in Int
      BY <3>1, DataAssumption
    <3>. QED BY <3>1, <3>2, <3>3, SumWith DEF Charged
  <2>5. m.usedBytes \in Int /\ Size[b] \in Int /\ m.usedBytes + Size[b] <= MaxBytes
    BY <2>1, MemoryFields, DataAssumption
  <2>6. Charged(LiveIn(Append(l, r))) <= MaxBytes
    BY <1>0, <2>3, <2>4, <2>5, DataAssumption
  <2>. QED BY <2>1, <2>2, <2>6 DEF Follows
<1>2. ASSUME NEW b \in Batch, r = AckRec(b)
      PROVE  Follows(l, r)
  <2>1. r.kind = "ack" /\ r.id = b /\ b \in LiveIn(l)
    BY <1>0, <1>2, AcceptableMeans DEF AckRec
  <2>2. LiveIn(Append(l, r)) \subseteq LiveIn(l)
    <3>1. LiveIn(Append(l, AckRec(b))) = LiveIn(l) \ {b}
      BY <2>1, AckChanges
    <3>. QED BY <1>2, <3>1
  <2>. QED BY <2>1, <2>2, LessIsCharged DEF Follows
<1>3. ASSUME NEW b \in Batch, r = QuarantineRec(b)
      PROVE  Follows(l, r)
  <2>1. r.kind = "quarantine" /\ r.id = b /\ b \in PendingIn(l)
    BY <1>3, AcceptableMeans DEF QuarantineRec, Mirrors
  <2>2. LiveIn(Append(l, r)) \subseteq LiveIn(l)
    BY <1>3, <2>1, QuarantineChanges
  <2>. QED BY <2>1, <2>2, LessIsCharged DEF Follows
<1>4. ASSUME NEW k \in Source, NEW p \in Pos, r = CheckpointRec(k, p)
      PROVE  Follows(l, r)
  <2>1. r.kind = "checkpoint"
    BY <1>4 DEF CheckpointRec
  <2>2. LiveIn(Append(l, r)) \subseteq LiveIn(l)
    BY <1>4, CheckpointChanges
  <2>. QED BY <2>1, <2>2, LessIsCharged DEF Follows
<1>. QED BY <1>1, <1>2, <1>3, <1>4, RecordKinds

\* Appended and applied, a record changes log and memory alike.
LEMMA ApplyMirrors ==
  ASSUME NEW m \in Memory, MemoryInv(m), NEW l, Sound(l), Mirrors(m, l), NEW r \in Record,
         Acceptable(m, r), Follows(l, r)
  PROVE  Mirrors(Apply(m, r), Append(l, r))
<1>. DEFINE n == Apply(m, r)
            t == Append(l, r)
<1>0. /\ m.order \in Seq(Batch) /\ m.seen \subseteq Batch
      /\ m.checkpoints \in [Source -> Pos \cup {NoPos}]
      /\ m.pending = PendingIn(l) /\ m.quarantined = QuarantinedIn(l)
      /\ \A k \in Source : m.checkpoints[k] = CheckpointIn(l, k)
      /\ Kept(m.order, m.pending) = QueueIn(l)
      /\ CommittedIn(l) \subseteq m.seen /\ LiveIn(l) = PendingIn(l) \cup QuarantinedIn(l)
  BY MemoryFields, SoundViews DEF Mirrors
<1>1. ASSUME NEW b \in Batch, r = CommitRec(b)
      PROVE  Mirrors(n, t)
  <2>1. b \notin m.seen /\ b \notin CommittedIn(l)
    BY <1>0, <1>1, AcceptableMeans
  <2>2. /\ n.pending = m.pending \cup {b} /\ n.quarantined = m.quarantined
        /\ n.seen = m.seen \cup {b} /\ n.order = Append(m.order, b)
        /\ n.checkpoints = [m.checkpoints EXCEPT ![KeyOf[b]] = PosOf[b]]
    BY <1>1, ApplyChanges, ZenonT(60)
  <2>3. /\ PendingIn(t) = PendingIn(l) \cup {b} /\ QuarantinedIn(t) = QuarantinedIn(l)
        /\ CommittedIn(t) = CommittedIn(l) \cup {b} /\ QueueIn(t) = Append(QueueIn(l), b)
        /\ \A k \in Source : CheckpointIn(t, k) = IF KeyOf[b] = k THEN PosOf[b] ELSE CheckpointIn(l, k)
    BY <1>1, <2>1, CommitChanges
  <2>. HIDE DEF n, t
  <2>4. Kept(n.order, n.pending) = QueueIn(t)
    <3>1. b \notin ToSet(m.order)
      BY <2>1 DEF MemoryInv
    <3>2. Kept(m.order, m.pending \cup {b}) = Kept(m.order, m.pending)
      BY <1>0, <3>1, KeptSame
    <3>3. Kept(Append(m.order, b), m.pending \cup {b}) = Append(Kept(m.order, m.pending \cup {b}), b)
      BY <1>0, KeptOfAppend, SMTT(30)
    <3>. QED BY <1>0, <2>2, <2>3, <3>2, <3>3
  <2>5. \A k \in Source : n.checkpoints[k] = CheckpointIn(t, k)
    BY <1>0, <2>2, <2>3, DataAssumption
  <2>. QED BY <1>0, <2>2, <2>3, <2>4, <2>5 DEF Mirrors
<1>2. ASSUME NEW b \in Batch, r = AckRec(b)
      PROVE  Mirrors(n, t)
  <2>1. b \in LiveIn(l)
    BY <1>0, <1>2, AcceptableMeans
  <2>2. /\ n.pending = m.pending \ {b} /\ n.quarantined = m.quarantined \ {b}
        /\ n.seen = m.seen /\ n.order = m.order /\ n.checkpoints = m.checkpoints
    BY <1>2, ApplyChanges
  <2>3. /\ PendingIn(t) = PendingIn(l) \ {b} /\ QuarantinedIn(t) = QuarantinedIn(l) \ {b}
        /\ CommittedIn(t) = CommittedIn(l) /\ QueueIn(t) = Kept(QueueIn(l), PendingIn(l) \ {b})
        /\ \A k \in Source : CheckpointIn(t, k) = CheckpointIn(l, k)
    BY <1>2, <2>1, AckChanges
  <2>. HIDE DEF n, t
  <2>4. Kept(n.order, n.pending) = QueueIn(t)
    <3>1. Kept(Kept(m.order, m.pending), m.pending \ {b}) = Kept(m.order, m.pending \ {b})
      BY <1>0, KeptOfKept
    <3>. QED BY <1>0, <2>2, <2>3, <3>1
  <2>. QED BY <1>0, <2>2, <2>3, <2>4 DEF Mirrors
<1>3. ASSUME NEW b \in Batch, r = QuarantineRec(b)
      PROVE  Mirrors(n, t)
  <2>1. b \in PendingIn(l)
    BY <1>0, <1>3, AcceptableMeans
  <2>2. /\ n.pending = m.pending \ {b} /\ n.quarantined = m.quarantined \cup {b}
        /\ n.seen = m.seen /\ n.order = m.order /\ n.checkpoints = m.checkpoints
    BY <1>3, ApplyChanges
  <2>3. /\ PendingIn(t) = PendingIn(l) \ {b} /\ QuarantinedIn(t) = QuarantinedIn(l) \cup {b}
        /\ CommittedIn(t) = CommittedIn(l) /\ QueueIn(t) = Kept(QueueIn(l), PendingIn(l) \ {b})
        /\ \A k \in Source : CheckpointIn(t, k) = CheckpointIn(l, k)
    BY <1>3, <2>1, QuarantineChanges
  <2>. HIDE DEF n, t
  <2>4. Kept(n.order, n.pending) = QueueIn(t)
    <3>1. Kept(Kept(m.order, m.pending), m.pending \ {b}) = Kept(m.order, m.pending \ {b})
      BY <1>0, KeptOfKept
    <3>. QED BY <1>0, <2>2, <2>3, <3>1
  <2>. QED BY <1>0, <2>2, <2>3, <2>4 DEF Mirrors
<1>4. ASSUME NEW j \in Source, NEW p \in Pos, r = CheckpointRec(j, p)
      PROVE  Mirrors(n, t)
  <2>1. /\ n.pending = m.pending /\ n.quarantined = m.quarantined /\ n.seen = m.seen
        /\ n.order = m.order /\ n.checkpoints = [m.checkpoints EXCEPT ![j] = p]
    BY <1>4, ApplyChanges
  <2>2. /\ PendingIn(t) = PendingIn(l) /\ QuarantinedIn(t) = QuarantinedIn(l)
        /\ CommittedIn(t) = CommittedIn(l) /\ QueueIn(t) = QueueIn(l)
        /\ \A k \in Source : CheckpointIn(t, k) = IF j = k THEN p ELSE CheckpointIn(l, k)
    BY <1>4, CheckpointChanges
  <2>. HIDE DEF n, t
  <2>3. \A k \in Source : n.checkpoints[k] = CheckpointIn(t, k)
    BY <1>0, <2>1, <2>2
  <2>. QED BY <1>0, <2>1, <2>2, <2>3 DEF Mirrors
<1>. QED BY <1>1, <1>2, <1>3, <1>4, RecordKinds

-----------------------------------------------------------------------------
(* The replacement c a compaction writes from memory m.                    *)

\* It says nothing that memory does not hold.
ReplacementInv(c, m) ==
  /\ Sound(c) /\ CommittedIn(c) = PendingIn(c) \cup QuarantinedIn(c)
  /\ \A k \in Source : CheckpointIn(c, k) # NoPos => m.checkpoints[k] # NoPos

NoSnapshot(c) == \A i \in DOMAIN c : c[i].kind # "checkpoint"

\* Written up to entry n of the order.
PendingWritten(c, m, n) ==
  /\ n <= Len(m.order)
  /\ PendingIn(c) = m.pending \cap ToSet(SubSeq(m.order, 1, n))
  /\ QuarantinedIn(c) = {}
  /\ OrderIn(c) = Kept(SubSeq(m.order, 1, n), m.pending)

\* Written up to entry n of the quarantine order.
QuarantinedWritten(c, m, n) ==
  /\ n <= Len(m.quarantineOrder)
  /\ PendingIn(c) = m.pending
  /\ QuarantinedIn(c) = m.quarantined \cap ToSet(SubSeq(m.quarantineOrder, 1, n))
  /\ QueueIn(c) = Kept(m.order, m.pending)

SnapshotIn(c, m, k) == \E i \in DOMAIN c : c[i] = CheckpointRec(k, m.checkpoints[k])

\* Written but for the snapshots that are missing.
SnapshotsWritten(c, m) ==
  /\ PendingIn(c) = m.pending /\ QuarantinedIn(c) = m.quarantined
  /\ QueueIn(c) = Kept(m.order, m.pending)
  /\ \A k \in Source :
       m.checkpoints[k] # NoPos /\ SnapshotIn(c, m, k) => CheckpointIn(c, k) = m.checkpoints[k]

\* Any part of what memory holds fits.
LEMMA HeldFits ==
  ASSUME NEW m \in Memory, MemoryInv(m), m.usedBytes <= MaxBytes,
         NEW L \in SUBSET (m.pending \cup m.quarantined)
  PROVE  Charged(L) <= MaxBytes
<1>. DEFINE held == m.pending \cup m.quarantined
<1>1. IsFiniteSet(held) /\ held \subseteq Batch /\ \A b \in Batch : Size[b] \in Nat
  BY HeldFinite
<1>2. m.usedBytes = Charged(held) /\ m.usedBytes \in Int
  BY MemoryFields DEF MemoryInv
<1>. HIDE DEF held
<1>3. \A b \in held : Size[b] \in Nat
  BY <1>1
<1>4. L \in SUBSET held
  BY DEF held
<1>5. Charged(L) <= Charged(held)
  BY <1>1, <1>3, <1>4, SumMonotone DEF Charged
<1>6. Charged(L) \in Int
  <2>1. IsFiniteSet(L) /\ \A b \in L : Size[b] \in Int
    BY <1>1, <1>3, <1>4, FS_Subset
  <2>. QED BY <2>1, SumTyped DEF Charged
<1>. QED BY <1>2, <1>5, <1>6, DataAssumption

\* Appending a list of one, of none, of two.
LEMMA AppendedRecords ==
  ASSUME NEW c \in Logs
  PROVE  /\ c \o <<>> = c
         /\ \A r \in Record : c \o <<r>> = Append(c, r)
         /\ \A r \in Record, q \in Record : c \o <<r, q>> = Append(Append(c, r), q)
<1>0. c \in Seq(Record \cup {Torn})
  BY DEF Logs
<1>1. c \o <<>> = c
  BY <1>0, ConcatEmptySeq
<1>2. \A r \in Record : c \o <<r>> = Append(c, r) /\ Append(c, r) \in Seq(Record \cup {Torn})
  BY <1>0, AppendIsConcat, AppendProperties
<1>3. ASSUME NEW r \in Record, NEW q \in Record
      PROVE  c \o <<r, q>> = Append(Append(c, r), q)
  <2>. DEFINE n == Len(c)
              d == Append(Append(c, r), q)
              e == c \o <<r, q>>
  <2>1. /\ n \in Nat /\ Append(c, r) \in Seq(Record \cup {Torn}) /\ Len(Append(c, r)) = n + 1
        /\ Append(c, r)[n + 1] = r /\ \A i \in 1..n : Append(c, r)[i] = c[i]
    BY <1>0
  <2>2. /\ d \in Seq(Record \cup {Torn}) /\ Len(d) = n + 2 /\ d[n + 2] = q
        /\ \A i \in 1..(n + 1) : d[i] = Append(c, r)[i]
    <3>. HIDE DEF n
    <3>1. n + 1 + 1 = n + 2
      BY <2>1
    <3>. QED BY <2>1, <3>1, AppendProperties
  <2>3. /\ <<r, q>> \in Seq(Record \cup {Torn}) /\ Len(<<r, q>>) = 2 /\ <<r, q>>[1] = r /\ <<r, q>>[2] = q
    OBVIOUS
  <2>4. /\ e \in Seq(Record \cup {Torn}) /\ Len(e) = n + 2
        /\ \A i \in 1..(n + 2) : e[i] = IF i <= n THEN c[i] ELSE <<r, q>>[i - n]
    BY <1>0, <2>3, ConcatProperties
  <2>. HIDE DEF n, d, e
  <2>5. ASSUME NEW i \in 1..(n + 2)
        PROVE  e[i] = d[i]
    <3>1. CASE i <= n
      <4>1. i \in 1..n /\ i \in 1..(n + 1)
        BY <2>1, <3>1
      <4>. QED BY <2>1, <2>2, <2>4, <3>1, <4>1
    <3>2. CASE i = n + 1
      <4>1. i - n = 1 /\ ~(i <= n) /\ i \in 1..(n + 1)
        BY <2>1, <3>2
      <4>2. e[i] = <<r, q>>[i - n]
        BY <2>4, <4>1
      <4>. QED BY <2>1, <2>2, <2>3, <3>2, <4>1, <4>2
    <3>3. CASE i = n + 2
      <4>1. i - n = 2 /\ ~(i <= n)
        BY <2>1, <3>3
      <4>2. e[i] = <<r, q>>[i - n]
        BY <2>4, <4>1
      <4>. QED BY <2>2, <2>3, <3>3, <4>1, <4>2
    <3>. QED BY <2>1, <3>1, <3>2, <3>3
  <2>6. e = d
    BY <2>2, <2>4, <2>5, SeqEqual
  <2>. QED BY <2>6 DEF d, e
<1>. QED BY <1>1, <1>2, <1>3

\* A record that is no snapshot leaves a log without snapshots without them.
LEMMA NoSnapshotAppend ==
  ASSUME NEW c \in Logs, NoSnapshot(c), NEW r \in Record, r.kind # "checkpoint"
  PROVE  NoSnapshot(Append(c, r))
<1>. DEFINE t == Append(c, r)
            n == Len(c)
<1>1. n \in Nat /\ DOMAIN c = 1..n /\ DOMAIN t = 1..(n + 1) /\ t[n + 1] = r /\ \A i \in 1..n : t[i] = c[i]
  BY DEF Logs
<1>. HIDE DEF t, n
<1>2. \A i \in 1..(n + 1) : i \in 1..n \/ i = n + 1
  BY <1>1
<1>. QED BY <1>1, <1>2 DEF NoSnapshot, t

\* A batch memory holds is added to the replacement.
LEMMA ReplacementCommit ==
  ASSUME NEW m \in Memory, MemoryInv(m), m.usedBytes <= MaxBytes, NEW c, ReplacementInv(c, m),
         LiveIn(c) \subseteq m.pending \cup m.quarantined,
         NEW b \in m.pending \cup m.quarantined, b \notin CommittedIn(c)
  PROVE  LET t == Append(c, CommitRec(b))
         IN  /\ b \in Batch /\ t \in Seq(Record) /\ ReplacementInv(t, m)
             /\ PendingIn(t) = PendingIn(c) \cup {b} /\ QuarantinedIn(t) = QuarantinedIn(c)
             /\ OrderIn(t) = Append(OrderIn(c), b) /\ QueueIn(t) = Append(QueueIn(c), b)
             /\ LiveIn(t) \subseteq m.pending \cup m.quarantined
<1>. DEFINE t == Append(c, CommitRec(b))
<1>1. b \in Batch /\ b \in m.seen /\ c \in Seq(Record) /\ Sound(c) /\ CommitRec(b) \in Record
  <2>1. b \in Batch /\ b \in m.seen
    BY HeldFinite
  <2>2. CommitRec(b) \in Record
    BY <2>1 DEF Record
  <2>. QED BY <2>1, <2>2 DEF ReplacementInv, Sound
<1>2. /\ PendingIn(t) = PendingIn(c) \cup {b} /\ QuarantinedIn(t) = QuarantinedIn(c)
      /\ CommittedIn(t) = CommittedIn(c) \cup {b} /\ LiveIn(t) = LiveIn(c) \cup {b}
      /\ OrderIn(t) = Append(OrderIn(c), b) /\ QueueIn(t) = Append(QueueIn(c), b)
      /\ \A k \in Source : CheckpointIn(t, k) = IF KeyOf[b] = k THEN PosOf[b] ELSE CheckpointIn(c, k)
  BY <1>1, CommitChanges
<1>3. Charged(LiveIn(t)) <= MaxBytes
  <2>1. LiveIn(t) \in SUBSET (m.pending \cup m.quarantined)
    BY <1>2
  <2>. QED BY <2>1, HeldFits
<1>4. Follows(c, CommitRec(b))
  BY <1>3 DEF Follows, CommitRec
<1>5. Sound(t) /\ t \in Seq(Record)
  BY <1>1, <1>4, SoundAppend
<1>6. \A k \in Source : CheckpointIn(t, k) # NoPos => m.checkpoints[k] # NoPos
  BY <1>1, <1>2 DEF MemoryInv, ReplacementInv
<1>. HIDE DEF t
<1>7. CommittedIn(t) = PendingIn(t) \cup QuarantinedIn(t)
  BY <1>2 DEF ReplacementInv
<1>. QED BY <1>1, <1>2, <1>5, <1>6, <1>7 DEF ReplacementInv, t

\* One turn of the pending loop.
LEMMA PendingWrittenStep ==
  ASSUME NEW m \in Memory, MemoryInv(m), m.usedBytes <= MaxBytes, NEW c, ReplacementInv(c, m),
         NoSnapshot(c), NEW n \in Nat, PendingWritten(c, m, n), n < Len(m.order)
  PROVE  LET b == m.order[n + 1]
             t == IF b \in m.pending THEN Append(c, CommitRec(b)) ELSE c
         IN  ReplacementInv(t, m) /\ NoSnapshot(t) /\ PendingWritten(t, m, n + 1)
<1>. DEFINE b == m.order[n + 1]
            s == SubSeq(m.order, 1, n)
            u == SubSeq(m.order, 1, n + 1)
<1>1. m.order \in Seq(Batch) /\ IsInjective(m.order) /\ Len(m.order) \in Nat /\ n + 1 <= Len(m.order)
  BY MemoryFields DEF MemoryInv
<1>2. s \in Seq(Batch) /\ b \in Batch /\ u = Append(s, b)
  BY <1>1, PrefixGrows
<1>3. b \notin ToSet(s)
  BY <1>1, NextIsNew
<1>. HIDE DEF b, s, u
<1>4. ToSet(u) = ToSet(s) \cup {b}
  BY <1>2, AppendSet
<1>5. Kept(u, m.pending) = IF b \in m.pending THEN Append(Kept(s, m.pending), b) ELSE Kept(s, m.pending)
  BY <1>2, KeptOfAppend
<1>6. /\ PendingIn(c) = m.pending \cap ToSet(s) /\ QuarantinedIn(c) = {}
      /\ OrderIn(c) = Kept(s, m.pending) /\ Sound(c) /\ CommittedIn(c) = PendingIn(c) \cup QuarantinedIn(c)
  BY DEF PendingWritten, ReplacementInv, s
<1>7. CASE b \in m.pending
  <2>. DEFINE t == Append(c, CommitRec(b))
  <2>1. b \notin CommittedIn(c) /\ LiveIn(c) \subseteq m.pending \cup m.quarantined
    BY <1>3, <1>6 DEF LiveIn
  <2>2. /\ ReplacementInv(t, m) /\ PendingIn(t) = PendingIn(c) \cup {b}
        /\ QuarantinedIn(t) = QuarantinedIn(c) /\ OrderIn(t) = Append(OrderIn(c), b)
    BY <1>7, <2>1, ReplacementCommit
  <2>3. NoSnapshot(t)
    <3>1. CommitRec(b) \in Record /\ CommitRec(b).kind # "checkpoint" /\ c \in Logs
      BY <1>2, <1>6, SoundViews DEF Record, CommitRec
    <3>. QED BY <3>1, NoSnapshotAppend
  <2>. HIDE DEF t
  <2>4. PendingWritten(t, m, n + 1)
    BY <1>1, <1>4, <1>5, <1>6, <1>7, <2>2 DEF PendingWritten, u
  <2>. QED BY <1>7, <2>2, <2>3, <2>4 DEF t, b
<1>8. CASE b \notin m.pending
  <2>1. PendingWritten(c, m, n + 1)
    BY <1>1, <1>4, <1>5, <1>6, <1>8 DEF PendingWritten, u
  <2>. QED BY <1>8, <2>1 DEF b
<1>. QED BY <1>7, <1>8

\* The pending loop is through.
LEMMA PendingWrittenDone ==
  ASSUME NEW m \in Memory, MemoryInv(m), NEW c, ReplacementInv(c, m), PendingWritten(c, m, Len(m.order))
  PROVE  QuarantinedWritten(c, m, 0)
<1>1. m.order \in Seq(Batch) /\ m.quarantineOrder \in Seq(Batch)
  BY MemoryFields
<1>2. SubSeq(m.order, 1, Len(m.order)) = m.order /\ SubSeq(m.quarantineOrder, 1, 0) = <<>>
  BY <1>1, PrefixEnds
<1>3. PendingIn(c) = m.pending
  BY <1>2 DEF PendingWritten, MemoryInv
<1>4. QueueIn(c) = Kept(m.order, m.pending)
  <2>1. OrderIn(c) = Kept(m.order, m.pending)
    BY <1>2 DEF PendingWritten
  <2>2. Kept(Kept(m.order, m.pending), m.pending) = Kept(m.order, m.pending)
    BY <1>1, KeptOfKept
  <2>. QED BY <1>3, <2>1, <2>2 DEF QueueIn
<1>5. QuarantinedIn(c) = m.quarantined \cap ToSet(<<>>)
  BY EmptyIsDistinct DEF PendingWritten
<1>6. 0 <= Len(m.quarantineOrder)
  BY <1>1
<1>. QED BY <1>2, <1>3, <1>4, <1>5, <1>6 DEF QuarantinedWritten

\* One turn of the quarantine loop.
LEMMA QuarantinedWrittenStep ==
  ASSUME NEW m \in Memory, MemoryInv(m), m.usedBytes <= MaxBytes, NEW c, ReplacementInv(c, m),
         NoSnapshot(c), NEW n \in Nat, QuarantinedWritten(c, m, n), n < Len(m.quarantineOrder)
  PROVE  LET b == m.quarantineOrder[n + 1]
             t == IF b \in m.quarantined
                  THEN Append(Append(c, CommitRec(b)), QuarantineRec(b)) ELSE c
         IN  ReplacementInv(t, m) /\ NoSnapshot(t) /\ QuarantinedWritten(t, m, n + 1)
<1>. DEFINE b == m.quarantineOrder[n + 1]
            s == SubSeq(m.quarantineOrder, 1, n)
            u == SubSeq(m.quarantineOrder, 1, n + 1)
<1>1. /\ m.quarantineOrder \in Seq(Batch) /\ IsInjective(m.quarantineOrder)
      /\ Len(m.quarantineOrder) \in Nat /\ n + 1 <= Len(m.quarantineOrder)
  BY MemoryFields DEF MemoryInv
<1>2. s \in Seq(Batch) /\ b \in Batch /\ u = Append(s, b)
  BY <1>1, PrefixGrows
<1>3. b \notin ToSet(s) /\ b \in ToSet(m.quarantineOrder)
  <2>1. n + 1 \in DOMAIN m.quarantineOrder
    BY <1>1
  <2>. QED BY <1>1, <2>1, NextIsNew DEF ToSet
<1>. HIDE DEF b, s, u
<1>4. ToSet(u) = ToSet(s) \cup {b}
  BY <1>2, AppendSet
<1>5. /\ PendingIn(c) = m.pending /\ QuarantinedIn(c) = m.quarantined \cap ToSet(s)
      /\ QueueIn(c) = Kept(m.order, m.pending) /\ Sound(c)
      /\ CommittedIn(c) = PendingIn(c) \cup QuarantinedIn(c)
  BY DEF QuarantinedWritten, ReplacementInv, s
<1>6. CASE b \in m.quarantined
  <2>. DEFINE d == Append(c, CommitRec(b))
              t == Append(d, QuarantineRec(b))
  <2>1. b \notin m.pending
    BY <1>3 DEF MemoryInv
  <2>2. b \notin CommittedIn(c) /\ LiveIn(c) \subseteq m.pending \cup m.quarantined
    BY <1>3, <1>5, <2>1 DEF LiveIn
  <2>3. /\ ReplacementInv(d, m) /\ PendingIn(d) = PendingIn(c) \cup {b} /\ d \in Seq(Record)
        /\ QuarantinedIn(d) = QuarantinedIn(c) /\ QueueIn(d) = Append(QueueIn(c), b)
        /\ LiveIn(d) \subseteq m.pending \cup m.quarantined
    BY <1>6, <2>2, ReplacementCommit
  <2>4. /\ CommitRec(b) \in Record /\ CommitRec(b).kind # "checkpoint" /\ c \in Logs
        /\ QuarantineRec(b) \in Record /\ QuarantineRec(b).kind # "checkpoint"
    BY <1>2, <1>5, SoundViews DEF Record, CommitRec, QuarantineRec
  <2>5. NoSnapshot(d)
    BY <2>4, NoSnapshotAppend
  <2>. HIDE DEF d
  <2>6. NoSnapshot(t)
    BY <2>3, <2>4, <2>5, NoSnapshotAppend, RecordsAreALog
  <2>7. Sound(d) /\ b \in PendingIn(d)
    BY <2>3 DEF ReplacementInv
  <2>8. /\ PendingIn(t) = PendingIn(d) \ {b} /\ QuarantinedIn(t) = QuarantinedIn(d) \cup {b}
        /\ CommittedIn(t) = CommittedIn(d) /\ LiveIn(t) = LiveIn(d)
        /\ QueueIn(t) = Kept(QueueIn(d), PendingIn(d) \ {b})
        /\ \A k \in Source : CheckpointIn(t, k) = CheckpointIn(d, k)
    BY <1>2, <2>7, QuarantineChanges
  <2>9. Charged(LiveIn(t)) <= MaxBytes
    BY <2>3, <2>8, HeldFits
  <2>10. Follows(d, QuarantineRec(b))
    BY <2>7, <2>9 DEF Follows, QuarantineRec
  <2>11. Sound(t)
    BY <2>3, <2>4, <2>7, <2>10, SoundAppend
  <2>. HIDE DEF t
  <2>12. ReplacementInv(t, m)
    BY <2>3, <2>7, <2>8, <2>11 DEF ReplacementInv
  <2>13. PendingIn(t) = m.pending
    BY <1>5, <2>1, <2>3, <2>8
  <2>14. QuarantinedIn(t) = m.quarantined \cap ToSet(u)
    BY <1>4, <1>5, <1>6, <2>3, <2>8
  <2>15. QueueIn(t) = QueueIn(c)
    <3>1. QueueIn(c) \in Seq(Batch) /\ ToSet(QueueIn(c)) = m.pending
      BY <1>5, SoundViews
    <3>2. Kept(Append(QueueIn(c), b), m.pending) = Kept(QueueIn(c), m.pending)
      BY <1>2, <2>1, <3>1, KeptOfAppend
    <3>3. Kept(QueueIn(c), m.pending) = QueueIn(c)
      BY <3>1, KeptAll
    <3>. QED BY <2>3, <2>8, <2>13, <3>2, <3>3
  <2>16. QuarantinedWritten(t, m, n + 1)
    BY <1>1, <1>5, <2>13, <2>14, <2>15 DEF QuarantinedWritten, u
  <2>. QED BY <1>6, <2>6, <2>12, <2>16 DEF t, d, b
<1>7. CASE b \notin m.quarantined
  <2>1. QuarantinedWritten(c, m, n + 1)
    BY <1>1, <1>4, <1>5, <1>7 DEF QuarantinedWritten, u
  <2>. QED BY <1>7, <2>1 DEF b
<1>. QED BY <1>6, <1>7

\* The quarantine loop is through: no snapshot is written yet.
LEMMA QuarantinedWrittenDone ==
  ASSUME NEW m \in Memory, MemoryInv(m), NEW c, ReplacementInv(c, m), NoSnapshot(c),
         QuarantinedWritten(c, m, Len(m.quarantineOrder))
  PROVE  SnapshotsWritten(c, m)
<1>1. m.quarantineOrder \in Seq(Batch)
  BY MemoryFields
<1>2. SubSeq(m.quarantineOrder, 1, Len(m.quarantineOrder)) = m.quarantineOrder
  BY <1>1, PrefixEnds
<1>3. QuarantinedIn(c) = m.quarantined
  BY <1>2 DEF QuarantinedWritten, MemoryInv
<1>4. \A k \in Source : ~SnapshotIn(c, m, k)
  <2>1. \A k, p : CheckpointRec(k, p).kind = "checkpoint"
    BY DEF CheckpointRec
  <2>. QED BY <2>1 DEF NoSnapshot, SnapshotIn
<1>. QED BY <1>3, <1>4 DEF SnapshotsWritten, QuarantinedWritten

\* One more snapshot.
LEMMA SnapshotsWrittenStep ==
  ASSUME NEW m \in Memory, NEW c, ReplacementInv(c, m), SnapshotsWritten(c, m),
         NEW j \in Source, m.checkpoints[j] # NoPos
  PROVE  LET t == Append(c, CheckpointRec(j, m.checkpoints[j]))
         IN  ReplacementInv(t, m) /\ SnapshotsWritten(t, m)
<1>. DEFINE p == m.checkpoints[j]
            r == CheckpointRec(j, p)
            t == Append(c, r)
            n == Len(c)
<1>1. p \in Pos /\ Sound(c) /\ c \in Seq(Record) /\ c \in Logs
  BY MemoryFields, SoundViews DEF ReplacementInv, Sound
<1>2. r \in Record /\ r.kind = "checkpoint" /\ r.key = j
  <2>1. r \in Record
    BY <1>1 DEF Record
  <2>2. r.kind = "checkpoint" /\ r.key = j
    BY DEF CheckpointRec
  <2>. QED BY <2>1, <2>2
<1>3. /\ PendingIn(t) = PendingIn(c) /\ QuarantinedIn(t) = QuarantinedIn(c)
      /\ CommittedIn(t) = CommittedIn(c) /\ LiveIn(t) = LiveIn(c) /\ QueueIn(t) = QueueIn(c)
      /\ \A k \in Source : CheckpointIn(t, k) = IF j = k THEN p ELSE CheckpointIn(c, k)
  BY <1>1, CheckpointChanges
<1>4. Follows(c, r)
  <2>1. Charged(LiveIn(t)) <= MaxBytes
    BY <1>1, <1>3, SoundViews
  <2>. QED BY <1>2, <2>1 DEF Follows
<1>5. Sound(t)
  BY <1>1, <1>2, <1>4, SoundAppend
<1>6. ReplacementInv(t, m)
  <2>. HIDE DEF t
  <2>. QED BY <1>3, <1>5 DEF ReplacementInv
<1>7. ASSUME NEW k \in Source, m.checkpoints[k] # NoPos, SnapshotIn(t, m, k)
      PROVE  CheckpointIn(t, k) = m.checkpoints[k]
  <2>1. CASE k = j
    BY <1>3, <2>1
  <2>2. CASE k # j
    <3>1. n \in Nat /\ DOMAIN c = 1..n /\ DOMAIN t = 1..(n + 1) /\ t[n + 1] = r /\ \A i \in 1..n : t[i] = c[i]
      BY <1>1, <1>2
    <3>. HIDE DEF t, n, r
    <3>2. PICK i \in 1..(n + 1) : t[i] = CheckpointRec(k, m.checkpoints[k])
      BY <1>7, <3>1 DEF SnapshotIn
    <3>3. i # n + 1
      <4>1. CheckpointRec(k, m.checkpoints[k]).key = k
        BY DEF CheckpointRec
      <4>. QED BY <1>2, <2>2, <3>1, <3>2, <4>1
    <3>4. i \in 1..n
      BY <3>1, <3>3
    <3>5. SnapshotIn(c, m, k)
      BY <3>1, <3>2, <3>4 DEF SnapshotIn
    <3>. QED BY <1>3, <1>7, <2>2, <3>5 DEF SnapshotsWritten
  <2>. QED BY <2>1, <2>2
<1>. HIDE DEF t
<1>8. SnapshotsWritten(t, m)
  BY <1>3, <1>7 DEF SnapshotsWritten
<1>. QED BY <1>6, <1>8 DEF t, r, p

\* With every snapshot written, the replacement says what memory holds.
LEMMA ReplacementDone ==
  ASSUME NEW m \in Memory, MemoryInv(m), NEW c, ReplacementInv(c, m), SnapshotsWritten(c, m),
         \A k \in Source : m.checkpoints[k] # NoPos => SnapshotIn(c, m, k)
  PROVE  Sound(c) /\ Mirrors(m, c)
<1>1. \A k \in Source : m.checkpoints[k] = CheckpointIn(c, k)
  BY DEF SnapshotsWritten, ReplacementInv
<1>2. CommittedIn(c) \subseteq m.seen
  BY HeldFinite DEF SnapshotsWritten, ReplacementInv
<1>. QED BY <1>1, <1>2 DEF SnapshotsWritten, ReplacementInv, Mirrors

-----------------------------------------------------------------------------
(* Memory, directory and append, even after a rollback that failed.        *)

\* A file that does not exist has no contents; the log exists unless a
\* replacement is half done.
DirInv ==
  /\ \A f \in File : f \notin dir => log[f] = <<>>
  /\ phase \notin {"down", "opening", "renameNew", "dead"} => "main" \in dir
  /\ phase = "opening" => "main" \in dir \/ "bak" \notin dir
  /\ phase = "renameNew" => "main" \notin dir
  /\ phase \in Compacting => "compact" \in dir

\* The record being appended may be applied, and what it left in the file.
InflightInv ==
  /\ phase \in Appending =>
       /\ Acceptable(mem, inflight)
       /\ inflight.kind = "commit" => /\ mem.usedBytes + Size[inflight.id] <= MaxBytes
                                      /\ inflight.id \notin acked
  /\ phase = "append" => start = Len(log["main"])
  /\ phase = "written" => log["main"] = Append(Keep(start), inflight)
  /\ phase = "rollback" =>
       log["main"] \in {Keep(start), Append(Keep(start), inflight), Append(Keep(start), Torn)}
  /\ phase \notin {"recovering", "compactPending", "compactQuarantined"} => cursor = 0
  /\ phase \in {"down", "opening"} => mem = EmptyMemory

\* What holds even after a rollback that failed.
BaseInv == WalInv /\ MemoryInv(mem) /\ DirInv /\ InflightInv

\* Every step keeps WalInv.
LEMMA WalStep ==
  ASSUME WalInv, Next
  PROVE  WalInv'
BY OpenStep, OperationStep, AppendStep, CompactStep, StopStep DEF Next

\* The maps, the lists and the counter stay together.
LEMMA MemoryStep ==
  ASSUME BaseInv, Next
  PROVE  MemoryInv(mem')
<1>0. mem \in Memory /\ MemoryInv(mem)
  BY DEF BaseInv, WalInv, TypeOK
<1>1. ASSUME RecoverRecord
      PROVE  MemoryInv(mem')
  <2>1. cursor + 1 \in 1..Len(log["main"]) /\ log["main"] \in Seq(Record \cup {Torn})
    BY <1>1 DEF BaseInv, WalInv, TypeOK, File, RecoverRecord
  <2>2. log["main"][cursor + 1] \in Record
    BY <1>1, <2>1, AcceptableIsARecord, ElementOfSeq DEF RecoverRecord
  <2>. QED BY <1>0, <1>1, <2>2, ApplyKeepsMemory DEF RecoverRecord
<1>2. ASSUME Sync
      PROVE  MemoryInv(mem')
  <2>1. inflight \in Record /\ Acceptable(mem, inflight)
    BY <1>2 DEF Sync, BaseInv, WalInv, AppendInv, InflightInv, Appending
  <2>. QED BY <1>0, <1>2, <2>1, ApplyKeepsMemory DEF Sync
<1>3. \/ RecoverRecord \/ Sync \/ mem' = mem \/ mem' = EmptyMemory
  BY DEF Next, Open, recoverReplacement, OpenFile, truncateTail, RecoverCorrupt, RecoverDone,
         Commit, Ack, Quarantine, Transition, Begin, appendRecord, Write, WriteFails, SyncFails,
         rollbackAppend, compactLocked, CompactPending, CompactQuarantined, CompactCheckpoint,
         CompactFails, CompactSync, RenameOld, RenameNew, Reopen, Close, Crash
<1>. QED BY <1>0, <1>1, <1>2, <1>3, EmptyMemoryHolds

\* Files and directory stay together.
LEMMA DirStep ==
  ASSUME BaseInv, Next
  PROVE  DirInv'
<1>0. /\ dir \subseteq File /\ log \in Files /\ DirInv /\ phase \in Phase
  BY DEF BaseInv, WalInv, TypeOK, Files
<1>. USE <1>0 DEF DirInv, File, Files, Phase, Idle, Appending, Compacting
<1>1. CASE recoverReplacement
  <2>1. CASE "main" \notin dir /\ "bak" \in dir
    BY <1>1, <2>1 DEF recoverReplacement, Rename
  <2>2. CASE ~("main" \notin dir /\ "bak" \in dir)
    BY <1>1, <2>2 DEF recoverReplacement, Unlink
  <2>. QED BY <2>1, <2>2
<1>2. CASE OpenFile
  BY <1>2 DEF OpenFile
<1>3. CASE RecoverRecord \/ RecoverCorrupt \/ RecoverDone \/ SyncFails \/ Close
  BY <1>3 DEF RecoverRecord, RecoverCorrupt, RecoverDone, SyncFails, Close, disk
<1>4. CASE truncateTail
  BY <1>4 DEF truncateTail, SetMain
<1>5. ASSUME NEW r, NEW expected, Begin(r, expected)
      PROVE  DirInv'
  BY <1>5 DEF Begin, disk
<1>6. CASE Write \/ WriteFails \/ rollbackAppend
  BY <1>6 DEF Write, WriteFails, rollbackAppend, SetMain
<1>7. CASE Sync
  <2>1. CASE phase' = "compactPending"
    BY <1>7, <2>1 DEF Sync
  <2>2. CASE phase' # "compactPending"
    BY <1>7, <2>2 DEF Sync, disk
  <2>. QED BY <2>1, <2>2
<1>8. CASE CompactPending \/ CompactQuarantined \/ \E k \in Source : CompactCheckpoint(k)
  <2>1. /\ "main" \in dir /\ "compact" \in dir /\ dir' = dir
        /\ phase' \in Compacting /\ \A f \in File \ {"compact"} : log'[f] = log[f]
    BY <1>8 DEF CompactPending, CompactQuarantined, CompactCheckpoint, AppendCompact
  <2>. QED BY <2>1
<1>9. CASE CompactFails \/ CompactSync
  BY <1>9 DEF CompactFails, CompactSync, Unlink, disk
<1>10. CASE RenameOld
  BY <1>10 DEF RenameOld, Rename
<1>11. CASE RenameNew
  BY <1>11 DEF RenameNew, Rename, disk
<1>12. CASE Reopen
  BY <1>12 DEF Reopen, Unlink, disk
<1>13. CASE Crash
  BY <1>13 DEF Crash, SetMain
<1>. QED BY <1>1, <1>2, <1>3, <1>4, <1>5, <1>6, <1>7, <1>8, <1>9, <1>10, <1>11, <1>12, <1>13
     DEF Next, Open, appendRecord, compactLocked, Commit, Ack, Quarantine, Transition

\* What an operation starts to append may be applied.
LEMMA BeginStep ==
  ASSUME BaseInv,
         \/ \E b \in Batch : Commit(b) \/ Ack(b) \/ Quarantine(b)
         \/ \E k \in Source, e \in Pos \cup {NoPos}, p \in Anchors : Transition(k, e, p)
  PROVE  /\ \E r \in Record, expected \in Pos \cup {NoPos} :
              /\ Begin(r, expected) /\ Acceptable(mem, r)
              /\ r.kind = "commit" => mem.usedBytes + Size[r.id] <= MaxBytes /\ r.id \notin acked
         /\ InflightInv'
<1>1. PICK r \in Record, expected \in Pos \cup {NoPos} :
        /\ Begin(r, expected) /\ Acceptable(mem, r)
        /\ r.kind = "commit" => mem.usedBytes + Size[r.id] <= MaxBytes /\ r.id \notin acked
  <2>1. ASSUME NEW b \in Batch, Commit(b)
        PROVE  \E r \in Record, expected \in Pos \cup {NoPos} :
                 /\ Begin(r, expected) /\ Acceptable(mem, r)
                 /\ r.kind = "commit" => mem.usedBytes + Size[r.id] <= MaxBytes /\ r.id \notin acked
    <3>1. CommitRec(b) \in Record
      BY DEF Record
    <3>2. CommitRec(b).id = b
      BY DEF CommitRec
    <3>3. mem.usedBytes \in Int /\ Size[b] \in Nat /\ MaxBytes \in Nat
      BY DataAssumption DEF BaseInv, WalInv, TypeOK, Memory
    <3>4. Begin(CommitRec(b), NoPos) /\ b \notin mem.seen /\ Size[b] <= MaxBytes - mem.usedBytes /\ b \notin acked
      BY <2>1 DEF Commit, Minted
    <3>5. mem.usedBytes + Size[b] <= MaxBytes
      BY <3>3, <3>4
    <3>. QED BY <3>1, <3>2, <3>4, <3>5, AcceptableMeans
  <2>2. ASSUME NEW b \in Batch, Ack(b) \/ Quarantine(b)
        PROVE  \E r \in Record, expected \in Pos \cup {NoPos} :
                 Begin(r, expected) /\ Acceptable(mem, r) /\ r.kind # "commit"
    <3>1. AckRec(b) \in Record /\ QuarantineRec(b) \in Record
      BY DEF Record
    <3>2. AckRec(b).kind # "commit" /\ QuarantineRec(b).kind # "commit"
      BY DEF AckRec, QuarantineRec
    <3>. QED BY <2>2, <3>1, <3>2, AcceptableMeans DEF Ack, Quarantine
  <2>3. ASSUME NEW k \in Source, NEW e \in Pos \cup {NoPos}, NEW p \in Anchors, Transition(k, e, p)
        PROVE  \E r \in Record, expected \in Pos \cup {NoPos} :
                 Begin(r, expected) /\ Acceptable(mem, r) /\ r.kind # "commit"
    <3>1. CheckpointRec(k, p) \in Record /\ p \in Pos
      BY WalAssumption DEF Record
    <3>2. CheckpointRec(k, p).kind # "commit"
      BY DEF CheckpointRec
    <3>. QED BY <2>3, <3>1, <3>2, AcceptableMeans DEF Transition
  <2>. QED BY <2>1, <2>2, <2>3
<1>2. InflightInv'
  BY <1>1 DEF Begin, InflightInv, BaseInv, Appending, disk, ghosts
<1>. QED BY <1>1, <1>2

\* The log without the record being appended.
LEMMA KeepOfAppend ==
  ASSUME NEW l \in Logs, NEW r \in Record \cup {Torn}
  PROVE  /\ SubSeq(l, 1, Len(l)) = l /\ SubSeq(Append(l, r), 1, Len(l)) = l
         /\ Len(l) \in Nat /\ Len(Append(l, r)) = Len(l) + 1
<1>1. Len(l) \in 0..Len(l) /\ l \in Seq(Record \cup {Torn}) /\ Len(l) \in Nat
  BY DEF Logs
<1>2. SubSeq(l, 1, Len(l)) = l
  BY <1>1, PrefixEnds
<1>3. SubSeq(Append(l, r), 1, Len(l)) = SubSeq(l, 1, Len(l))
  BY <1>1, PrefixKept
<1>4. Len(Append(l, r)) = Len(l) + 1
  BY <1>1, AppendProperties
<1>. QED BY <1>1, <1>2, <1>3, <1>4

\* Every step keeps InflightInv.
LEMMA InflightStep ==
  ASSUME BaseInv, Next
  PROVE  InflightInv'
<1>0. /\ InflightInv /\ log \in [File -> Logs] /\ log["main"] \in Logs /\ phase \in Phase
      /\ inflight \in Record \cup {Torn}
  BY DEF BaseInv, WalInv, TypeOK, Logs, File
<1>. USE DEF Appending, Phase, Idle, Compacting
<1>1. CASE \/ \E b \in Batch : Commit(b) \/ Ack(b) \/ Quarantine(b)
           \/ \E k \in Source, e \in Pos \cup {NoPos}, p \in Anchors : Transition(k, e, p)
  BY <1>1, BeginStep
<1>2. CASE recoverReplacement \/ OpenFile \/ RecoverRecord
  BY <1>0, <1>2 DEF recoverReplacement, OpenFile, RecoverRecord, InflightInv
<1>3. CASE truncateTail \/ RecoverCorrupt \/ RecoverDone \/ Crash \/ rollbackAppend \/ CompactFails
  BY <1>0, <1>3 DEF truncateTail, RecoverCorrupt, RecoverDone, Crash, rollbackAppend, CompactFails, Rest, InflightInv
<1>4. CASE Close
  BY <1>0, <1>4 DEF Close, InflightInv
<1>5. CASE Sync
  <2>1. phase' \in {"ready", "compactPending"} /\ cursor' = 0
    BY <1>5 DEF Sync, Rest
  <2>. QED BY <2>1 DEF InflightInv
<1>6. CASE CompactPending \/ CompactQuarantined \/ (\E k \in Source : CompactCheckpoint(k)) \/ CompactSync
  BY <1>0, <1>6 DEF CompactPending, CompactQuarantined, CompactCheckpoint, CompactSync, InflightInv
<1>7. CASE RenameOld \/ RenameNew \/ Reopen
  BY <1>0, <1>7 DEF RenameOld, RenameNew, Reopen, InflightInv
<1>8. CASE Write
  <2>1. log'["main"] = Append(log["main"], inflight) /\ start = Len(log["main"]) /\ start' = start
    BY <1>0, <1>8 DEF Write, SetMain, InflightInv, File
  <2>2. SubSeq(log'["main"], 1, start) = log["main"]
    BY <1>0, <2>1, KeepOfAppend
  <2>3. log'["main"] = Append(Keep(start)', inflight')
    BY <1>8, <2>1, <2>2 DEF Keep, Write
  <2>. QED BY <1>0, <1>8, <2>3 DEF Write, InflightInv, ghosts
<1>9. CASE WriteFails
  <2>1. /\ start = Len(log["main"]) /\ start' = start
        /\ log'["main"] = log["main"] \/ log'["main"] = Append(log["main"], Torn)
    BY <1>0, <1>9 DEF WriteFails, SetMain, InflightInv, File
  <2>2. SubSeq(log'["main"], 1, start) = log["main"]
    BY <1>0, <2>1, KeepOfAppend
  <2>3. log'["main"] \in {Keep(start)', Append(Keep(start)', inflight'), Append(Keep(start)', Torn)}
    BY <2>1, <2>2 DEF Keep
  <2>. QED BY <1>0, <1>9, <2>3 DEF WriteFails, InflightInv, ghosts
<1>10. CASE SyncFails
  BY <1>0, <1>10 DEF SyncFails, InflightInv, Keep, disk, ghosts
<1>. QED BY <1>1, <1>2, <1>3, <1>4, <1>5, <1>6, <1>7, <1>8, <1>9, <1>10
     DEF Next, Open, appendRecord, compactLocked

-----------------------------------------------------------------------------
(* The inductive invariant.                                                *)

\* The replacement being written, in every phase of the compaction.
CompactInv ==
  LET c == log["compact"]
  IN  /\ phase \in Compacting => ReplacementInv(c, mem)
      /\ phase \in {"compactPending", "compactQuarantined"} => NoSnapshot(c)
      /\ phase = "compactPending" => PendingWritten(c, mem, cursor)
      /\ phase = "compactQuarantined" => QuarantinedWritten(c, mem, cursor)
      /\ phase = "compactCheckpoints" => SnapshotsWritten(c, mem)
      /\ phase \in {"renameOld", "renameNew"} => Sound(c) /\ Mirrors(mem, c)

\* The log on disk, in every phase.
LogInv ==
  /\ ~corrupt
  /\ phase = "down" => Recoverable(DurableLog)
  /\ phase \in {"opening", "recovering"} => Recoverable(log["main"])
  /\ phase = "recovering" => /\ cursor <= Len(log["main"]) /\ Keep(cursor) \in Seq(Record)
                             /\ Mirrors(mem, Keep(cursor)) /\ mem.seen = CommittedIn(Keep(cursor))
  /\ Running => Sound(DurableLog) /\ Mirrors(mem, DurableLog)
  /\ CompactInv

\* All of it.
SpoolInv == BaseInv /\ (~tainted => LogInv)

\* What every step starts from.
LEMMA Unfolded ==
  ASSUME SpoolInv, ~tainted
  PROVE  /\ WalInv /\ TypeOK /\ AppendInv /\ DirInv /\ InflightInv /\ LogInv /\ CompactInv /\ ~corrupt
         /\ mem \in Memory /\ MemoryInv(mem) /\ phase \in Phase /\ dir \subseteq File
         /\ log \in [File -> Logs] /\ log["main"] \in Logs /\ log["bak"] \in Logs /\ log["compact"] \in Logs
         /\ cursor \in Nat /\ start \in Nat /\ Len(log["main"]) \in Nat
<1>1. WalInv /\ TypeOK /\ AppendInv /\ DirInv /\ InflightInv /\ LogInv /\ CompactInv /\ ~corrupt
      /\ MemoryInv(mem)
  BY DEF SpoolInv, BaseInv, WalInv, LogInv
<1>2. log \in [File -> Logs] /\ log["main"] \in Logs /\ log["bak"] \in Logs /\ log["compact"] \in Logs
  BY <1>1 DEF TypeOK, Logs, File
<1>3. Len(log["main"]) \in Nat
  BY <1>2 DEF Logs
<1>. QED BY <1>1, <1>2, <1>3 DEF TypeOK

\* A step that taints nothing starts from an untainted state.
LEMMA TaintStays ==
  ASSUME SpoolInv, Next, ~tainted'
  PROVE  ~tainted
BY DEF Next, Open, recoverReplacement, OpenFile, RecoverRecord, truncateTail, RecoverCorrupt, RecoverDone,
       Commit, Ack, Quarantine, Transition, Begin, appendRecord, Write, WriteFails, Sync, SyncFails,
       rollbackAppend, compactLocked, CompactPending, CompactQuarantined, CompactCheckpoint,
       CompactFails, CompactSync, RenameOld, RenameNew, Reopen, Close, Crash, ghosts

\* What a clean stop leaves, recovery accepts;
LEMMA SoundRecoverable ==
  ASSUME NEW l, Sound(l)
  PROVE  Recoverable(l)
BY DEF Recoverable

\* so it does with a torn record at the end.
LEMMA TornRecoverable ==
  ASSUME NEW l, Sound(l)
  PROVE  Recoverable(Append(l, Torn))
<1>1. l \in Logs /\ Torn \in Record \cup {Torn}
  BY SoundViews
<1>2. /\ SubSeq(Append(l, Torn), 1, Len(l)) = l /\ Len(Append(l, Torn)) = Len(l) + 1 /\ Len(l) \in Nat
  BY <1>1, KeepOfAppend
<1>3. Len(l) \in 0..Len(Append(l, Torn))
  BY <1>2
<1>. QED BY <1>2, <1>3 DEF Recoverable

\* Open: recovery reads back what a crash left, and refuses nothing.
LEMMA OpenLogStep ==
  ASSUME SpoolInv, ~tainted, Open
  PROVE  LogInv'
<1>0. /\ DirInv /\ InflightInv /\ LogInv /\ ~corrupt
      /\ mem \in Memory /\ MemoryInv(mem) /\ dir \subseteq File
      /\ log \in [File -> Logs] /\ log["main"] \in Logs /\ log["bak"] \in Logs
      /\ cursor \in Nat /\ Len(log["main"]) \in Nat
  BY Unfolded
<1>1. CASE recoverReplacement
  <2>1. phase = "down" /\ phase' = "opening" /\ corrupt' = corrupt
    BY <1>1 DEF recoverReplacement, ghosts
  <2>2. Recoverable(log'["main"])
    <3>1. CASE "main" \notin dir /\ "bak" \in dir
      <4>1. log'["main"] = log["bak"] /\ DurableLog = log["bak"]
        BY <1>0, <1>1, <2>1, <3>1 DEF recoverReplacement, Rename, File, DurableLog
      <4>. QED BY <1>0, <2>1, <4>1 DEF LogInv
    <3>2. CASE "main" \in dir
      <4>1. log'["main"] = log["main"] /\ DurableLog = log["main"]
        BY <1>0, <1>1, <2>1, <3>2 DEF recoverReplacement, Unlink, File, DurableLog
      <4>. QED BY <1>0, <2>1, <4>1 DEF LogInv
    <3>3. CASE "main" \notin dir /\ "bak" \notin dir
      <4>1. log'["main"] = <<>>
        BY <1>0, <1>1, <2>1, <3>3 DEF recoverReplacement, Unlink, File, DirInv
      <4>. QED BY <4>1, SoundEmpty, SoundRecoverable
    <3>. QED BY <3>1, <3>2, <3>3
  <2>. QED BY <1>0, <2>1, <2>2 DEF LogInv, CompactInv, Running, Compacting
<1>2. CASE OpenFile
  <2>1. /\ phase = "opening" /\ phase' = "recovering" /\ corrupt' = corrupt /\ mem' = EmptyMemory
        /\ cursor' = 0 /\ log'["main"] = log["main"]
    BY <1>0, <1>2 DEF OpenFile, ghosts, InflightInv, File
  <2>2. Keep(cursor)' = <<>>
    <3>1. SubSeq(log["main"], 1, 0) = <<>>
      BY <1>0, PrefixEnds DEF Logs
    <3>. QED BY <2>1, <3>1 DEF Keep
  <2>3. Recoverable(log'["main"]) /\ cursor' <= Len(log'["main"])
    BY <1>0, <2>1 DEF LogInv
  <2>4. Mirrors(mem', <<>>) /\ mem'.seen = CommittedIn(<<>>) /\ <<>> \in Seq(Record)
    BY <2>1, EmptyMemoryHolds, EmptySeq
  <2>. QED BY <1>0, <2>1, <2>2, <2>3, <2>4 DEF LogInv, CompactInv, Running, Compacting
<1>3. ASSUME phase = "recovering"
      PROVE  /\ Recoverable(log["main"]) /\ cursor <= Len(log["main"]) /\ Keep(cursor) \in Seq(Record)
             /\ Mirrors(mem, Keep(cursor)) /\ mem.seen = CommittedIn(Keep(cursor))
             /\ cursor \in 0..Len(log["main"]) /\ "main" \in dir
  BY <1>0, <1>3 DEF LogInv, DirInv
<1>4. CASE RecoverRecord
  <2>. DEFINE r == log["main"][cursor + 1]
  <2>1. /\ phase = "recovering" /\ cursor < Len(log["main"]) /\ Acceptable(mem, r)
        /\ mem' = Apply(mem, r) /\ cursor' = cursor + 1
        /\ log' = log /\ phase' = phase /\ corrupt' = corrupt
    BY <1>4 DEF RecoverRecord, disk, ghosts
  <2>2. Sound(Keep(cursor)) /\ ((r \in Record /\ Follows(Keep(cursor), r)) \/ r = Torn)
    BY <1>0, <1>3, <2>1, RecoverableSplit DEF Keep
  <2>. HIDE DEF r
  <2>3. r \in Record /\ Follows(Keep(cursor), r)
    <3>1. ~Acceptable(mem, Torn)
      BY DEF Acceptable, Torn
    <3>. QED BY <2>1, <2>2, <3>1
  <2>4. SubSeq(log["main"], 1, cursor + 1) = Append(Keep(cursor), r)
    BY <1>0, <2>1, PrefixGrows DEF Keep, Logs, r
  <2>5. Keep(cursor)' = Append(Keep(cursor), r) /\ Append(Keep(cursor), r) \in Seq(Record)
    <3>1. Append(Keep(cursor), r) \in Seq(Record)
      BY <1>3, <2>1, <2>3, AppendProperties
    <3>2. Keep(cursor)' = SubSeq(log["main"], 1, cursor + 1)
      BY <2>1 DEF Keep
    <3>. QED BY <2>4, <3>1, <3>2
  <2>6. Mirrors(mem', Append(Keep(cursor), r))
    BY <1>0, <1>3, <2>1, <2>2, <2>3, ApplyMirrors
  <2>7. mem'.seen = CommittedIn(Append(Keep(cursor), r))
    <3>0. Keep(cursor) \in Logs /\ mem.seen = CommittedIn(Keep(cursor))
      BY <1>3, <2>1, RecordsAreALog
    <3>1. ASSUME NEW b \in Batch, r = CommitRec(b)
          PROVE  mem'.seen = CommittedIn(Append(Keep(cursor), r))
      <4>1. Apply(mem, CommitRec(b)).seen = mem.seen \cup {b}
        BY <1>0, ApplyChanges, ZenonT(60)
      <4>2. CommittedIn(Append(Keep(cursor), CommitRec(b))) = CommittedIn(Keep(cursor)) \cup {b}
        BY <3>0, IdsOfAppends
      <4>. QED BY <2>1, <3>0, <3>1, <4>1, <4>2
    <3>2. ASSUME NEW b \in Batch, r = AckRec(b)
          PROVE  mem'.seen = CommittedIn(Append(Keep(cursor), r))
      <4>1. Apply(mem, AckRec(b)).seen = mem.seen
        BY <1>0, ApplyChanges
      <4>2. CommittedIn(Append(Keep(cursor), AckRec(b))) = CommittedIn(Keep(cursor))
        BY <3>0, IdsOfAppends
      <4>. QED BY <2>1, <3>0, <3>2, <4>1, <4>2
    <3>3. ASSUME NEW b \in Batch, r = QuarantineRec(b)
          PROVE  mem'.seen = CommittedIn(Append(Keep(cursor), r))
      <4>1. Apply(mem, QuarantineRec(b)).seen = mem.seen
        BY <1>0, ApplyChanges
      <4>2. CommittedIn(Append(Keep(cursor), QuarantineRec(b))) = CommittedIn(Keep(cursor))
        BY <3>0, IdsOfAppends
      <4>. QED BY <2>1, <3>0, <3>3, <4>1, <4>2
    <3>4. ASSUME NEW k \in Source, NEW p \in Pos, r = CheckpointRec(k, p)
          PROVE  mem'.seen = CommittedIn(Append(Keep(cursor), r))
      <4>1. Apply(mem, CheckpointRec(k, p)).seen = mem.seen
        BY <1>0 DEF Apply, CheckpointRec, applyCheckpoint, Memory
      <4>2. CommittedIn(Append(Keep(cursor), CheckpointRec(k, p))) = CommittedIn(Keep(cursor))
        BY <3>0, IdsOfAppends
      <4>. QED BY <2>1, <3>0, <3>4, <4>1, <4>2
    <3>. QED BY <2>3, <3>1, <3>2, <3>3, <3>4, RecordKinds
  <2>8. cursor' <= Len(log'["main"]) /\ Recoverable(log'["main"])
    BY <1>0, <1>3, <2>1
  <2>. QED BY <1>0, <2>1, <2>5, <2>6, <2>7, <2>8 DEF LogInv, CompactInv, Running, Compacting
<1>5. CASE truncateTail
  <2>1. /\ phase = "recovering" /\ cursor < Len(log["main"]) /\ log["main"][cursor + 1] = Torn
        /\ log'["main"] = Keep(cursor) /\ phase' = "ready" /\ dir' = dir /\ mem' = mem /\ corrupt' = corrupt
    BY <1>0, <1>5 DEF truncateTail, SetMain, File, ghosts
  <2>2. Sound(Keep(cursor))
    BY <1>0, <1>3, <2>1, RecoverableSplit DEF Keep
  <2>3. DurableLog' = Keep(cursor)
    BY <1>3, <2>1 DEF DurableLog
  <2>. QED BY <1>0, <1>3, <2>1, <2>2, <2>3 DEF LogInv, CompactInv, Running, Compacting
<1>6. CASE RecoverCorrupt
  <2>. DEFINE r == log["main"][cursor + 1]
  <2>1. /\ phase = "recovering" /\ cursor < Len(log["main"])
        /\ IF r = Torn THEN cursor + 1 < Len(log["main"]) ELSE ~Acceptable(mem, r)
    BY <1>6 DEF RecoverCorrupt
  <2>2. /\ Sound(Keep(cursor))
        /\ \/ r \in Record /\ Follows(Keep(cursor), r)
           \/ r = Torn /\ cursor + 1 = Len(log["main"])
    BY <1>0, <1>3, <2>1, RecoverableSplit DEF Keep
  <2>. HIDE DEF r
  <2>3. CASE r = Torn
    BY <1>0, <2>1, <2>2, <2>3, TornIsNoRecord
  <2>4. CASE r # Torn
    <3>1. Acceptable(mem, r)
      BY <1>3, <2>1, <2>2, <2>4, FollowsAccepted
    <3>. QED BY <2>1, <2>4, <3>1
  <2>. QED BY <2>3, <2>4
<1>7. CASE RecoverDone
  <2>1. /\ phase = "recovering" /\ cursor = Len(log["main"]) /\ phase' = "ready"
        /\ dir' = dir /\ log' = log /\ mem' = mem /\ corrupt' = corrupt
    BY <1>7 DEF RecoverDone, disk, ghosts
  <2>2. Keep(cursor) = log["main"]
    BY <1>0, <2>1, PrefixEnds DEF Keep, Logs
  <2>3. Sound(log["main"])
    BY <1>0, <1>3, <2>1, <2>2, RecoverableSplit
  <2>4. DurableLog' = log["main"]
    BY <1>3, <2>1 DEF DurableLog
  <2>. QED BY <1>0, <1>3, <2>1, <2>2, <2>3, <2>4 DEF LogInv, CompactInv, Running, Compacting
<1>. QED BY <1>1, <1>2, <1>4, <1>5, <1>6, <1>7 DEF Open

\* An operation starts: nothing is written yet.
LEMMA BeginLogStep ==
  ASSUME SpoolInv, ~tainted, NEW r, NEW expected, Begin(r, expected)
  PROVE  LogInv'
<1>0. DirInv /\ LogInv /\ ~corrupt
  BY Unfolded
<1>1. /\ phase = "ready" /\ phase' = "append" /\ dir' = dir /\ log' = log /\ mem' = mem /\ corrupt' = corrupt
  BY DEF Begin, disk, ghosts
<1>2. DurableLog' = DurableLog /\ Sound(DurableLog) /\ Mirrors(mem, DurableLog)
  BY <1>0, <1>1 DEF DurableLog, LogInv, Running
<1>. QED BY <1>0, <1>1, <1>2 DEF LogInv, CompactInv, Running, Compacting

\* The record in flight may stand behind the durable log.
LEMMA InflightFollows ==
  ASSUME SpoolInv, ~tainted, phase \in Appending
  PROVE  /\ inflight \in Record /\ Acceptable(mem, inflight) /\ "main" \in dir
         /\ Sound(DurableLog) /\ Mirrors(mem, DurableLog) /\ Follows(DurableLog, inflight)
         /\ Sound(Append(DurableLog, inflight))
         /\ Mirrors(Apply(mem, inflight), Append(DurableLog, inflight))
         /\ phase = "append" => DurableLog = log["main"] /\ start = Len(log["main"])
         /\ phase \in {"written", "rollback"} => DurableLog = Keep(start) /\ Len(Keep(start)) = start
<1>0. /\ AppendInv /\ DirInv /\ InflightInv /\ LogInv /\ log["main"] \in Logs
      /\ mem \in Memory /\ MemoryInv(mem) /\ start \in Nat
  BY Unfolded
<1>1. /\ inflight \in Record /\ Acceptable(mem, inflight) /\ "main" \in dir /\ start <= Len(log["main"])
      /\ inflight.kind = "commit" => mem.usedBytes + Size[inflight.id] <= MaxBytes
  BY <1>0 DEF AppendInv, InflightInv, DirInv, Appending
<1>2. Sound(DurableLog) /\ Mirrors(mem, DurableLog)
  BY <1>0 DEF LogInv, Running, Appending
<1>3. Follows(DurableLog, inflight)
  BY <1>0, <1>1, <1>2, AcceptedFollows
<1>4. Sound(Append(DurableLog, inflight))
  BY <1>1, <1>2, <1>3, SoundAppend DEF Sound
<1>5. Mirrors(Apply(mem, inflight), Append(DurableLog, inflight))
  BY <1>0, <1>1, <1>2, <1>3, ApplyMirrors
<1>6. phase = "append" => DurableLog = log["main"] /\ start = Len(log["main"])
  BY <1>0, <1>1 DEF DurableLog, InflightInv
<1>7. phase \in {"written", "rollback"} => DurableLog = Keep(start) /\ Len(Keep(start)) = start
  <2>1. start \in 0..Len(log["main"]) /\ log["main"] \in Seq(Record \cup {Torn})
    BY <1>0, <1>1 DEF Logs
  <2>2. Len(SubSeq(log["main"], 1, start)) = start
    BY <2>1, PrefixOfPrefix
  <2>. QED BY <2>2 DEF DurableLog, Keep
<1>. QED BY <1>1, <1>2, <1>3, <1>4, <1>5, <1>6, <1>7

\* A compaction starts from an empty file.
LEMMA CompactionStarts ==
  ASSUME NEW m \in Memory
  PROVE  ReplacementInv(<<>>, m) /\ NoSnapshot(<<>>) /\ PendingWritten(<<>>, m, 0)
<1>1. PendingIn(<<>>) = {} /\ QuarantinedIn(<<>>) = {}
  BY EmptyLog DEF PendingIn, QuarantinedIn
<1>2. ReplacementInv(<<>>, m)
  BY <1>1, EmptyLog, SoundEmpty DEF ReplacementInv
<1>3. NoSnapshot(<<>>)
  BY DEF NoSnapshot
<1>4. m.order \in Seq(Batch)
  BY MemoryFields
<1>5. SubSeq(m.order, 1, 0) = <<>> /\ 0 <= Len(m.order)
  BY <1>4, PrefixEnds
<1>6. PendingWritten(<<>>, m, 0)
  BY <1>1, <1>5, EmptyLog, EmptyIsDistinct, KeptOfEmpty DEF PendingWritten
<1>. QED BY <1>2, <1>3, <1>6

\* The append of a record, and its rollback.
LEMMA AppendLogStep ==
  ASSUME SpoolInv, ~tainted, ~tainted', appendRecord
  PROVE  LogInv'
<1>0. /\ DirInv /\ InflightInv /\ LogInv /\ ~corrupt /\ log["main"] \in Logs
      /\ mem \in Memory /\ MemoryInv(mem) /\ log \in [File -> Logs]
  BY Unfolded
<1>1. phase \in Appending
  BY DEF appendRecord, Write, WriteFails, Sync, SyncFails, rollbackAppend, Appending
<1>2. /\ inflight \in Record /\ "main" \in dir
      /\ Sound(DurableLog) /\ Mirrors(mem, DurableLog)
      /\ Sound(Append(DurableLog, inflight))
      /\ Mirrors(Apply(mem, inflight), Append(DurableLog, inflight))
      /\ phase = "append" => DurableLog = log["main"] /\ start = Len(log["main"])
      /\ phase \in {"written", "rollback"} => DurableLog = Keep(start) /\ Len(Keep(start)) = start
  BY <1>1, InflightFollows
<1>3. CASE Write \/ WriteFails
  <2>1. /\ phase = "append" /\ phase' \in {"written", "rollback"} /\ start' = start /\ mem' = mem
        /\ corrupt' = corrupt
        /\ \/ log'["main"] = Append(log["main"], inflight)
           \/ log'["main"] = log["main"] \/ log'["main"] = Append(log["main"], Torn)
    BY <1>0, <1>3 DEF Write, WriteFails, SetMain, File, ghosts
  <2>2. SubSeq(log'["main"], 1, start) = log["main"]
    BY <1>0, <1>2, <2>1, KeepOfAppend
  <2>3. DurableLog' = DurableLog
    BY <1>2, <2>1, <2>2 DEF DurableLog, Keep
  <2>. QED BY <1>0, <1>2, <2>1, <2>3 DEF LogInv, CompactInv, Running, Compacting
<1>4. CASE SyncFails
  <2>1. /\ phase = "written" /\ phase' = "rollback" /\ start' = start /\ mem' = mem
        /\ corrupt' = corrupt /\ log' = log
    BY <1>4 DEF SyncFails, disk, ghosts
  <2>2. DurableLog' = DurableLog
    BY <2>1 DEF DurableLog, Keep
  <2>. QED BY <1>0, <1>2, <2>1, <2>2 DEF LogInv, CompactInv, Running, Compacting
<1>5. CASE Sync
  <2>1. /\ phase = "written" /\ mem' = Apply(mem, inflight) /\ corrupt' = corrupt /\ cursor' = 0
        /\ log["main"] = Append(Keep(start), inflight)
        /\ \/ phase' = "ready" /\ dir' = dir /\ log' = log
           \/ phase' = "compactPending" /\ dir' = dir \cup {"compact"} /\ log' = [log EXCEPT !["compact"] = <<>>]
    BY <1>0, <1>5 DEF Sync, Rest, disk, InflightInv
  <2>2. log'["main"] = Append(DurableLog, inflight) /\ "main" \in dir'
    BY <1>0, <1>2, <2>1 DEF File
  <2>3. DurableLog' = Append(DurableLog, inflight)
    BY <2>1, <2>2 DEF DurableLog
  <2>4. mem' \in Memory
    BY <1>0, <1>2, <2>1, ApplyTyped
  <2>5. phase' = "compactPending" =>
          ReplacementInv(log'["compact"], mem') /\ NoSnapshot(log'["compact"]) /\ PendingWritten(log'["compact"], mem', cursor')
    BY <1>0, <2>1, <2>4, CompactionStarts DEF File
  <2>. QED BY <1>0, <1>2, <2>1, <2>3, <2>5 DEF LogInv, CompactInv, Running, Compacting
<1>6. CASE rollbackAppend
  <2>1. /\ phase = "rollback" /\ phase' = "ready" /\ dir' = dir /\ mem' = mem /\ corrupt' = corrupt
        /\ log["main"] \in {Keep(start), Append(Keep(start), inflight), Append(Keep(start), Torn)}
        /\ \/ log'["main"] = Keep(start)
           \/ log' = log /\ ~(Len(log["main"]) > start)
    BY <1>0, <1>6 DEF rollbackAppend, SetMain, File, InflightInv
  <2>2. DurableLog = Keep(start) /\ Len(Keep(start)) = start /\ Keep(start) \in Logs
    BY <1>2, <2>1, SoundViews
  <2>3. log'["main"] = Keep(start)
    <3>1. CASE log' = log /\ ~(Len(log["main"]) > start)
      <4>1. ASSUME NEW r \in Record \cup {Torn}
            PROVE  log["main"] # Append(Keep(start), r)
        <5>1. Len(Append(Keep(start), r)) = Len(Keep(start)) + 1 /\ Len(Keep(start)) \in Nat
          BY <2>2, KeepOfAppend
        <5>. QED BY <2>2, <3>1, <5>1
      <4>. QED BY <1>2, <2>1, <3>1, <4>1
    <3>. QED BY <2>1, <3>1
  <2>4. DurableLog' = DurableLog
    BY <1>2, <2>1, <2>2, <2>3 DEF DurableLog
  <2>. QED BY <1>0, <1>2, <2>1, <2>4 DEF LogInv, CompactInv, Running, Compacting
<1>. QED BY <1>3, <1>4, <1>5, <1>6 DEF appendRecord

\* The compaction: until the second rename nothing depends on what it writes,
\* and by then it says the same as the log it replaces.
LEMMA CompactLogStep ==
  ASSUME SpoolInv, ~tainted, compactLocked
  PROVE  LogInv'
<1>0. /\ DirInv /\ LogInv /\ CompactInv /\ ~corrupt /\ cursor \in Nat /\ dir \subseteq File
      /\ mem \in Memory /\ MemoryInv(mem) /\ log \in [File -> Logs] /\ log["compact"] \in Logs
  BY Unfolded
<1>1. /\ phase \in Compacting \cup {"renameOld", "renameNew", "reopen"} /\ mem' = mem /\ corrupt' = corrupt
  BY DEF compactLocked, CompactPending, CompactQuarantined, CompactCheckpoint, CompactFails,
         CompactSync, RenameOld, RenameNew, Reopen, Compacting, ghosts
<1>2. /\ Sound(DurableLog) /\ Mirrors(mem, DurableLog)
      /\ phase # "renameNew" => "main" \in dir /\ DurableLog = log["main"]
      /\ phase = "renameNew" => "main" \notin dir /\ DurableLog = log["bak"]
  BY <1>0, <1>1 DEF LogInv, Running, Compacting, DirInv, DurableLog
<1>3. mem.usedBytes <= MaxBytes
  BY <1>0, <1>2, MirroredBytes
<1>4. ASSUME phase' \notin {"down", "opening", "recovering", "written", "rollback"},
             \/ log'["main"] = DurableLog /\ "main" \in dir'
             \/ log'["bak"] = DurableLog /\ "main" \notin dir',
             CompactInv'
      PROVE  LogInv'
  <2>1. DurableLog' = DurableLog
    BY <1>4 DEF DurableLog
  <2>. QED BY <1>0, <1>1, <1>2, <1>4, <2>1 DEF LogInv, Running
<1>. USE DEF Compacting
<1>5. CASE CompactPending
  <2>1. /\ phase = "compactPending" /\ dir' = dir /\ ReplacementInv(log["compact"], mem)
        /\ NoSnapshot(log["compact"]) /\ PendingWritten(log["compact"], mem, cursor)
    BY <1>0, <1>5 DEF CompactPending, CompactInv
  <2>2. CASE cursor < Len(mem.order)
    <3>. DEFINE b == mem.order[cursor + 1]
                t == IF b \in mem.pending THEN Append(log["compact"], CommitRec(b)) ELSE log["compact"]
    <3>1. ReplacementInv(t, mem) /\ NoSnapshot(t) /\ PendingWritten(t, mem, cursor + 1)
      BY <1>0, <1>3, <2>1, <2>2, PendingWrittenStep
    <3>2. b \in Batch
      BY <1>0, <2>2, MemoryFields, ElementOfSeq
    <3>3. phase' = phase /\ cursor' = cursor + 1
          /\ log' = [log EXCEPT !["compact"] = @ \o (IF b \in mem.pending THEN <<CommitRec(b)>> ELSE <<>>)]
      BY <1>5, <2>2 DEF CompactPending, AppendCompact, CompactedNext
    <3>4. log["compact"] \o (IF b \in mem.pending THEN <<CommitRec(b)>> ELSE <<>>) = t
      <4>1. CommitRec(b) \in Record
        BY <3>2 DEF Record
      <4>2. log["compact"] \o <<CommitRec(b)>> = Append(log["compact"], CommitRec(b)) /\ log["compact"] \o <<>> = log["compact"]
        BY <1>0, <4>1, AppendedRecords
      <4>. QED BY <4>2
    <3>. HIDE DEF b, t
    <3>5. log'["compact"] = t /\ log'["main"] = log["main"]
      BY <1>0, <3>3, <3>4 DEF File
    <3>6. CompactInv'
      BY <1>1, <2>1, <3>1, <3>3, <3>5 DEF CompactInv
    <3>. QED BY <1>2, <1>4, <2>1, <3>3, <3>5, <3>6
  <2>3. CASE ~(cursor < Len(mem.order))
    <3>1. phase' = "compactQuarantined" /\ cursor' = 0 /\ log' = log
      BY <1>5, <2>3 DEF CompactPending
    <3>2. cursor = Len(mem.order)
      <4>1. Len(mem.order) \in Nat /\ cursor <= Len(mem.order)
        BY <1>0, <2>1, MemoryFields DEF PendingWritten
      <4>. QED BY <1>0, <2>3, <4>1
    <3>3. QuarantinedWritten(log["compact"], mem, 0)
      BY <1>0, <2>1, <3>2, PendingWrittenDone
    <3>4. CompactInv'
      BY <1>1, <2>1, <3>1, <3>3 DEF CompactInv
    <3>. QED BY <1>2, <1>4, <2>1, <3>1, <3>4
  <2>. QED BY <2>2, <2>3
<1>6. CASE CompactQuarantined
  <2>1. /\ phase = "compactQuarantined" /\ dir' = dir /\ ReplacementInv(log["compact"], mem)
        /\ NoSnapshot(log["compact"]) /\ QuarantinedWritten(log["compact"], mem, cursor)
    BY <1>0, <1>6 DEF CompactQuarantined, CompactInv
  <2>2. CASE cursor < Len(mem.quarantineOrder)
    <3>. DEFINE b == mem.quarantineOrder[cursor + 1]
                t == IF b \in mem.quarantined
                     THEN Append(Append(log["compact"], CommitRec(b)), QuarantineRec(b)) ELSE log["compact"]
    <3>1. ReplacementInv(t, mem) /\ NoSnapshot(t) /\ QuarantinedWritten(t, mem, cursor + 1)
      BY <1>0, <1>3, <2>1, <2>2, QuarantinedWrittenStep
    <3>2. b \in Batch
      BY <1>0, <2>2, MemoryFields, ElementOfSeq
    <3>3. phase' = phase /\ cursor' = cursor + 1
          /\ log' = [log EXCEPT !["compact"] = @ \o (IF b \in mem.quarantined THEN DeadLetter(b) ELSE <<>>)]
      BY <1>6, <2>2 DEF CompactQuarantined, AppendCompact
    <3>4. log["compact"] \o (IF b \in mem.quarantined THEN DeadLetter(b) ELSE <<>>) = t
      <4>1. CommitRec(b) \in Record /\ QuarantineRec(b) \in Record
        BY <3>2 DEF Record
      <4>2. /\ log["compact"] \o <<CommitRec(b), QuarantineRec(b)>>
                = Append(Append(log["compact"], CommitRec(b)), QuarantineRec(b))
            /\ log["compact"] \o <<>> = log["compact"]
        BY <1>0, <4>1, AppendedRecords
      <4>. QED BY <4>2 DEF DeadLetter
    <3>. HIDE DEF b, t
    <3>5. log'["compact"] = t /\ log'["main"] = log["main"]
      BY <1>0, <3>3, <3>4 DEF File
    <3>6. CompactInv'
      BY <1>1, <2>1, <3>1, <3>3, <3>5 DEF CompactInv
    <3>. QED BY <1>2, <1>4, <2>1, <3>3, <3>5, <3>6
  <2>3. CASE ~(cursor < Len(mem.quarantineOrder))
    <3>1. phase' = "compactCheckpoints" /\ cursor' = 0 /\ log' = log
      BY <1>6, <2>3 DEF CompactQuarantined
    <3>2. cursor = Len(mem.quarantineOrder)
      <4>1. Len(mem.quarantineOrder) \in Nat /\ cursor <= Len(mem.quarantineOrder)
        BY <1>0, <2>1, MemoryFields DEF QuarantinedWritten
      <4>. QED BY <1>0, <2>3, <4>1
    <3>3. SnapshotsWritten(log["compact"], mem)
      BY <1>0, <2>1, <3>2, QuarantinedWrittenDone
    <3>4. CompactInv'
      BY <1>1, <2>1, <3>1, <3>3 DEF CompactInv
    <3>. QED BY <1>2, <1>4, <2>1, <3>1, <3>4
  <2>. QED BY <2>2, <2>3
<1>7. ASSUME NEW k \in Source, CompactCheckpoint(k)
      PROVE  LogInv'
  <2>. DEFINE r == CheckpointRec(k, mem.checkpoints[k])
              t == Append(log["compact"], r)
  <2>1. /\ phase = "compactCheckpoints" /\ phase' = phase /\ dir' = dir /\ mem.checkpoints[k] # NoPos
        /\ ReplacementInv(log["compact"], mem) /\ SnapshotsWritten(log["compact"], mem)
        /\ log' = [log EXCEPT !["compact"] = @ \o <<r>>]
    BY <1>0, <1>7 DEF CompactCheckpoint, KeysLeft, AppendCompact, CompactInv
  <2>2. ReplacementInv(t, mem) /\ SnapshotsWritten(t, mem)
    BY <1>0, <2>1, SnapshotsWrittenStep
  <2>3. log["compact"] \o <<r>> = t
    <3>1. mem.checkpoints[k] \in Pos
      BY <1>0, <2>1, MemoryFields
    <3>2. r \in Record
      BY <3>1 DEF Record
    <3>. QED BY <1>0, <3>2, AppendedRecords
  <2>. HIDE DEF t, r
  <2>4. log'["compact"] = t /\ log'["main"] = log["main"]
    BY <1>0, <2>1, <2>3 DEF File
  <2>5. CompactInv'
    BY <1>1, <2>1, <2>2, <2>4 DEF CompactInv
  <2>. QED BY <1>2, <1>4, <2>1, <2>4, <2>5
<1>8. CASE CompactFails
  <2>1. phase' = "ready" /\ dir' = dir \ {"compact"} /\ log'["main"] = log["main"] /\ phase \in Compacting
    BY <1>0, <1>8 DEF CompactFails, Unlink, File
  <2>2. CompactInv'
    BY <2>1 DEF CompactInv
  <2>. QED BY <1>2, <1>4, <2>1, <2>2
<1>9. CASE CompactSync
  <2>1. /\ phase = "compactCheckpoints" /\ ReplacementInv(log["compact"], mem)
        /\ SnapshotsWritten(log["compact"], mem) /\ KeysLeft = {}
    BY <1>0, <1>9 DEF CompactSync, CompactInv
  <2>2. Sound(log["compact"]) /\ Mirrors(mem, log["compact"])
    <3>1. \A k \in Source : mem.checkpoints[k] # NoPos => SnapshotIn(log["compact"], mem, k)
      BY <2>1 DEF KeysLeft, SnapshotIn
    <3>. QED BY <1>0, <2>1, <3>1, ReplacementDone
  <2>3. CASE phase' = "renameOld"
    <3>1. dir' = dir /\ log' = log
      BY <1>9, <2>3 DEF CompactSync, disk
    <3>2. CompactInv'
      BY <1>1, <2>2, <2>3, <3>1 DEF CompactInv
    <3>. QED BY <1>2, <1>4, <2>1, <2>3, <3>1, <3>2
  <2>4. CASE phase' = "dead"
    <3>1. dir' = dir \ {"compact"} /\ log'["main"] = log["main"]
      BY <1>0, <1>9, <2>4 DEF CompactSync, Unlink, File
    <3>2. CompactInv'
      BY <2>4 DEF CompactInv
    <3>. QED BY <1>2, <1>4, <2>1, <2>4, <3>1, <3>2
  <2>. QED BY <1>9, <2>3, <2>4 DEF CompactSync
<1>10. CASE RenameOld
  <2>1. phase = "renameOld" /\ Sound(log["compact"]) /\ Mirrors(mem, log["compact"])
    BY <1>0, <1>10 DEF RenameOld, CompactInv
  <2>2. CASE Rename("main", "bak") /\ phase' = "renameNew"
    <3>1. "main" \notin dir' /\ log'["bak"] = log["main"] /\ log'["compact"] = log["compact"]
      BY <1>0, <2>2 DEF Rename, File
    <3>2. CompactInv'
      BY <1>1, <2>1, <2>2, <3>1 DEF CompactInv
    <3>. QED BY <1>2, <1>4, <2>1, <2>2, <3>1, <3>2
  <2>3. CASE /\ dir' = dir \ {"bak", "compact"} /\ phase' \in {"ready", "dead"}
             /\ log' = [log EXCEPT !["bak"] = <<>>, !["compact"] = <<>>]
    <3>1. log'["main"] = log["main"]
      BY <1>0, <2>3 DEF File
    <3>2. CompactInv'
      BY <2>3 DEF CompactInv
    <3>. QED BY <1>2, <1>4, <2>1, <2>3, <3>1, <3>2
  <2>. QED BY <1>10, <2>2, <2>3 DEF RenameOld
<1>11. CASE RenameNew
  <2>1. phase = "renameNew" /\ Sound(log["compact"]) /\ Mirrors(mem, log["compact"])
    BY <1>0, <1>11 DEF RenameNew, CompactInv
  <2>2. CASE Rename("compact", "main") /\ phase' = "reopen"
    <3>1. "main" \in dir' /\ log'["main"] = log["compact"]
      BY <1>0, <2>2 DEF Rename, File
    <3>2. DurableLog' = log["compact"]
      BY <2>2, <3>1 DEF DurableLog
    <3>3. CompactInv'
      BY <2>2 DEF CompactInv
    <3>. QED BY <1>0, <1>1, <2>1, <2>2, <3>2, <3>3 DEF LogInv, Running
  <2>3. CASE Rename("bak", "main") /\ phase' \in {"ready", "dead"}
    <3>1. "main" \in dir' /\ log'["main"] = log["bak"]
      BY <1>0, <2>3 DEF Rename, File
    <3>2. CompactInv'
      BY <2>3 DEF CompactInv
    <3>. QED BY <1>2, <1>4, <2>1, <2>3, <3>1, <3>2
  <2>4. CASE phase' = "dead" /\ UNCHANGED disk
    <3>1. dir' = dir /\ log' = log
      BY <2>4 DEF disk
    <3>2. CompactInv'
      BY <2>4 DEF CompactInv
    <3>. QED BY <1>2, <1>4, <2>1, <2>4, <3>1, <3>2
  <2>. QED BY <1>11, <2>2, <2>3, <2>4 DEF RenameNew
<1>12. CASE Reopen
  <2>1. /\ phase = "reopen" /\ phase' \in {"ready", "dead"} /\ log'["main"] = log["main"]
        /\ dir' = dir \/ dir' = dir \ {"bak"}
    BY <1>0, <1>12 DEF Reopen, Unlink, disk, File
  <2>2. CompactInv'
    BY <2>1 DEF CompactInv
  <2>. QED BY <1>2, <1>4, <2>1, <2>2
<1>. QED BY <1>5, <1>6, <1>7, <1>8, <1>9, <1>10, <1>11, <1>12 DEF compactLocked

\* The process stops: what it leaves can be recovered.
LEMMA StopLogStep ==
  ASSUME SpoolInv, ~tainted, Close \/ Crash
  PROVE  LogInv'
<1>0. /\ DirInv /\ InflightInv /\ LogInv /\ ~corrupt /\ phase \in Phase /\ log \in [File -> Logs]
  BY Unfolded
<1>1. ASSUME phase' = "down", Recoverable(DurableLog'), corrupt' = corrupt
      PROVE  LogInv'
  BY <1>0, <1>1 DEF LogInv, CompactInv, Running, Compacting
<1>2. CASE Close
  <2>1. /\ phase \in {"ready", "dead"} /\ phase' = "down" /\ dir' = dir /\ log' = log /\ corrupt' = corrupt
    BY <1>2 DEF Close, disk, ghosts
  <2>2. DurableLog' = DurableLog /\ Sound(DurableLog)
    BY <1>0, <2>1 DEF DurableLog, LogInv, Running
  <2>. QED BY <1>1, <2>1, <2>2, SoundRecoverable
<1>3. CASE Crash
  <2>1. /\ phase # "down" /\ phase' = "down" /\ dir' = dir /\ corrupt' = corrupt
        /\ \/ log' = log
           \/ /\ phase \in {"written", "rollback"}
              /\ log'["main"] = Keep(start) \/ log'["main"] = Append(Keep(start), Torn)
    BY <1>0, <1>3 DEF Crash, SetMain, File
  <2>2. CASE phase \in {"written", "rollback"}
    <3>1. /\ "main" \in dir /\ DurableLog = Keep(start) /\ Sound(Keep(start))
          /\ Sound(Append(Keep(start), inflight))
      BY <2>2, InflightFollows DEF Appending
    <3>2. log'["main"] \in {Keep(start), Append(Keep(start), inflight), Append(Keep(start), Torn)}
      BY <1>0, <2>1, <2>2 DEF InflightInv
    <3>3. Recoverable(log'["main"])
      BY <3>1, <3>2, SoundRecoverable, TornRecoverable
    <3>4. DurableLog' = log'["main"]
      BY <2>1, <3>1 DEF DurableLog
    <3>. QED BY <1>1, <2>1, <3>3, <3>4
  <2>3. CASE phase \in {"opening", "recovering"}
    <3>1. log' = log /\ Recoverable(log["main"])
      BY <1>0, <2>1, <2>3 DEF LogInv
    <3>2. DurableLog' = log["main"] \/ DurableLog' = <<>>
      BY <1>0, <2>1, <2>3, <3>1 DEF DurableLog, DirInv, File
    <3>. QED BY <1>1, <2>1, <3>1, <3>2, SoundEmpty, SoundRecoverable
  <2>4. CASE phase \notin {"written", "rollback", "opening", "recovering"}
    <3>1. DurableLog' = DurableLog /\ Sound(DurableLog)
      BY <1>0, <2>1, <2>4 DEF DurableLog, LogInv, Running
    <3>. QED BY <1>1, <2>1, <3>1, SoundRecoverable
  <2>. QED BY <2>2, <2>3, <2>4
<1>. QED BY <1>2, <1>3

-----------------------------------------------------------------------------
(* The theorems.                                                           *)

\* SpoolInv holds initially.
LEMMA SpoolInvInit ==
  ASSUME Init
  PROVE  SpoolInv
<1>1. /\ dir = {} /\ log = [f \in File |-> <<>>] /\ mem = EmptyMemory /\ phase = "down"
      /\ cursor = 0 /\ tainted = FALSE /\ corrupt = FALSE
  BY DEF Init
<1>2. DirInv
  BY <1>1 DEF DirInv, Compacting
<1>3. InflightInv
  BY <1>1 DEF InflightInv, Appending
<1>4. MemoryInv(mem)
  BY <1>1, EmptyMemoryHolds
<1>5. DurableLog = <<>>
  BY <1>1 DEF DurableLog, File
<1>6. LogInv
  BY <1>1, <1>5, SoundEmpty, SoundRecoverable DEF LogInv, CompactInv, Running, Compacting
<1>. QED BY <1>2, <1>3, <1>4, <1>6, WalInvInit DEF SpoolInv, BaseInv

\* Every step keeps SpoolInv.
LEMMA SpoolInvStep ==
  ASSUME SpoolInv, [Next]_vars
  PROVE  SpoolInv'
<1>1. CASE Next
  <2>1. WalInv' /\ MemoryInv(mem') /\ DirInv' /\ InflightInv'
    BY <1>1, WalStep, MemoryStep, DirStep, InflightStep DEF SpoolInv, BaseInv
  <2>2. ASSUME ~tainted'
        PROVE  LogInv'
    <3>1. ~tainted
      BY <1>1, <2>2, TaintStays
    <3>2. CASE \/ \E b \in Batch : Commit(b) \/ Ack(b) \/ Quarantine(b)
               \/ \E k \in Source, e \in Pos \cup {NoPos}, p \in Anchors : Transition(k, e, p)
      BY <3>1, <3>2, BeginLogStep DEF Commit, Ack, Quarantine, Transition
    <3>. QED BY <1>1, <2>2, <3>1, <3>2, OpenLogStep, AppendLogStep, CompactLogStep, StopLogStep DEF Next
  <2>. QED BY <2>1, <2>2 DEF SpoolInv, BaseInv
<1>2. CASE UNCHANGED vars
  BY <1>2 DEF vars, SpoolInv, BaseInv, WalInv, TypeOK, AppendInv, DirInv, InflightInv, LogInv, CompactInv,
              Running, DurableLog, Keep
<1>. QED BY <1>1, <1>2

\* The inductive invariant holds always.
LEMMA AlwaysSpoolInv == Spec => []SpoolInv
BY SpoolInvInit, SpoolInvStep, PTL DEF Spec

\* No crash and no failed write, fsync, rename or removal leaves files Open
\* refuses: unless a rollback failed, recovery never meets a record it cannot
\* apply, nor a torn one with more behind it.
THEOREM SpoolNeverCorrupt == Spec => []OpenNeverCorrupt
<1>1. SpoolInv => OpenNeverCorrupt
  BY DEF SpoolInv, LogInv, OpenNeverCorrupt
<1>. QED BY <1>1, AlwaysSpoolInv, PTL

\* In every phase the maps of the process say what a restart would recover.
THEOREM SpoolMirrorsLog == Spec => []MemoryMirrorsLog
<1>1. SpoolInv => MemoryMirrorsLog
  BY DEF SpoolInv, LogInv, MemoryMirrorsLog, Mirrors, PendingQueue
<1>. QED BY <1>1, AlwaysSpoolInv, PTL

\* The byte counter is the size of what is held, within the capacity.
THEOREM SpoolCapacity == Spec => []CapacityAccounted
<1>1. ASSUME SpoolInv
      PROVE  CapacityAccounted
  <2>1. mem \in Memory /\ MemoryInv(mem) /\ phase \in Phase
    BY <1>1 DEF SpoolInv, BaseInv, WalInv, TypeOK
  <2>2. mem.usedBytes = Charged(mem.pending \cup mem.quarantined)
    BY <2>1 DEF MemoryInv
  <2>3. ASSUME ~tainted
        PROVE  mem.usedBytes <= MaxBytes
    <3>0. LogInv /\ InflightInv /\ cursor \in Nat /\ log["main"] \in Logs
      BY <1>1, <2>3, Unfolded
    <3>1. CASE Running
      BY <2>1, <3>0, <3>1, MirroredBytes DEF LogInv
    <3>2. CASE phase \in {"down", "opening"}
      <4>1. mem.usedBytes = 0
        BY <3>0, <3>2, EmptyMemoryHolds DEF InflightInv
      <4>. QED BY <4>1, DataAssumption
    <3>3. CASE phase = "recovering"
      <4>1. /\ Recoverable(log["main"]) /\ cursor \in 0..Len(log["main"]) /\ Keep(cursor) \in Seq(Record)
            /\ Mirrors(mem, Keep(cursor))
        BY <3>0, <3>3 DEF LogInv, Logs
      <4>2. Sound(Keep(cursor))
        <5>1. CASE cursor < Len(log["main"])
          BY <3>0, <4>1, <5>1, RecoverableSplit DEF Keep
        <5>2. CASE cursor = Len(log["main"])
          <6>1. Keep(cursor) = log["main"]
            BY <3>0, <5>2, PrefixEnds DEF Keep, Logs
          <6>. QED BY <3>0, <4>1, <6>1, RecoverableSplit
        <5>. QED BY <3>0, <4>1, <5>1, <5>2 DEF Logs
      <4>. QED BY <2>1, <4>1, <4>2, MirroredBytes
    <3>. QED BY <3>1, <3>2, <3>3 DEF Running
  <2>. QED BY <2>2, <2>3 DEF CapacityAccounted
<1>. QED BY <1>1, AlwaysSpoolInv, PTL

-----------------------------------------------------------------------------
(* The refinement.                                                         *)

\* Two logs that say the same to a user of the spool.
SameView(l, t) ==
  /\ QueueIn(t) = QueueIn(l) /\ QuarantinedIn(t) = QuarantinedIn(l)
  /\ \A k \in Source : CheckpointIn(t, k) = CheckpointIn(l, k)

\* The helpers of the abstract specification are the ones used here.
LEMMA SameHelpers ==
  /\ \A S : Abstract!Charged(S) = Charged(S)
  /\ \A s : Abstract!ToSet(s) = ToSet(s)
  /\ \A s, e : Abstract!RemoveFirst(s, e) = RemoveFirst(s, e)
<1>1. ASSUME NEW S
      PROVE  Abstract!Charged(S) = Charged(S)
  BY DEF Abstract!Charged, Abstract!SumFunctionOnSet, Abstract!FoldFunctionOnSet, Abstract!MapThenFoldSet,
         Charged, SumFunctionOnSet, FoldFunctionOnSet, MapThenFoldSet
<1>2. ASSUME NEW s
      PROVE  Abstract!ToSet(s) = ToSet(s)
  BY DEF Abstract!ToSet, ToSet
<1>3. ASSUME NEW s, NEW e
      PROVE  Abstract!RemoveFirst(s, e) = RemoveFirst(s, e)
  BY DEF Abstract!RemoveFirst, Abstract!RemoveAt, Abstract!SelectInSeq, Abstract!Min,
         RemoveFirst, RemoveAt, SelectInSeq, Min
<1>. QED BY <1>1, <1>2, <1>3

\* The calls of the abstract specification are the ones named here.
LEMMA SameCalls ==
  /\ Abstract!NoCall = NoCall
  /\ \A op, b : Abstract!BatchCall(op, b) = BatchCall(op, b) /\ BatchCall(op, b) = [op |-> op, id |-> b]
  /\ \A k, e, q : Abstract!TransitionCall(k, e, q) = TransitionCall(k, e, q)
BY DEF Abstract!NoCall, Abstract!BatchCall, Abstract!TransitionCall, NoCall, BatchCall, TransitionCall

\* The calls there are.
LEMMA CallsOf ==
  /\ \A b \in Batch, op \in {"commit", "ack", "quarantine"} :
       BatchCall(op, b) \in Abstract!Call /\ BatchCall(op, b) # NoCall
  /\ \A k \in Source, e \in Pos \cup {NoPos}, p \in Anchors :
       TransitionCall(k, e, p) \in Abstract!Call /\ TransitionCall(k, e, p) # NoCall
<1>1. ASSUME NEW b \in Batch, NEW op \in {"commit", "ack", "quarantine"}
      PROVE  BatchCall(op, b) \in Abstract!Call /\ BatchCall(op, b) # NoCall
  <2>1. BatchCall(op, b) \in Abstract!Call
    BY SameCalls DEF Abstract!Call
  <2>2. BatchCall(op, b) # NoCall
    BY DEF BatchCall, NoCall
  <2>. QED BY <2>1, <2>2
<1>2. ASSUME NEW k \in Source, NEW e \in Pos \cup {NoPos}, NEW p \in Anchors
      PROVE  TransitionCall(k, e, p) \in Abstract!Call /\ TransitionCall(k, e, p) # NoCall
  <2>1. TransitionCall(k, e, p) \in Abstract!Call
    BY SameCalls DEF Abstract!Call
  <2>2. TransitionCall(k, e, p) # NoCall
    BY DEF TransitionCall, NoCall
  <2>. QED BY <2>1, <2>2
<1>. QED BY <1>1, <1>2

\* A Transition in flight has found the position it expects, which stays
\* there until its record has been appended, and moves to an anchor.
CallInv ==
  phase \in Appending /\ inflight.kind = "checkpoint" =>
    inflight.pos \in Anchors /\ compared = mem.checkpoints[inflight.key]

\* Every step keeps CallInv.
LEMMA CallStep ==
  ASSUME CallInv, [Next]_vars
  PROVE  CallInv'
<1>. USE DEF CallInv, Appending
<1>1. ASSUME NEW b \in Batch, Commit(b) \/ Ack(b) \/ Quarantine(b)
      PROVE  CallInv'
  BY <1>1 DEF Commit, Ack, Quarantine, Begin, CommitRec, AckRec, QuarantineRec
<1>2. ASSUME NEW k \in Source, NEW e, NEW p \in Anchors, Transition(k, e, p)
      PROVE  CallInv'
  BY <1>2 DEF Transition, Begin, CheckpointRec
<1>3. CASE Write \/ WriteFails \/ SyncFails
  BY <1>3 DEF Write, WriteFails, SyncFails
<1>4. CASE Open \/ Sync \/ rollbackAppend \/ compactLocked \/ Close \/ Crash
  <2>1. phase' \notin {"append", "written", "rollback"}
    BY <1>4 DEF Open, recoverReplacement, OpenFile, RecoverRecord, truncateTail, RecoverCorrupt, RecoverDone,
                Sync, rollbackAppend, compactLocked, CompactPending, CompactQuarantined, CompactCheckpoint,
                CompactFails, Compacting, CompactSync, RenameOld, RenameNew, Reopen, Close, Crash
  <2>. QED BY <2>1
<1>5. CASE UNCHANGED vars
  BY <1>5 DEF vars
<1>. QED BY <1>1, <1>2, <1>3, <1>4, <1>5 DEF Next, appendRecord

\* Always, then.
LEMMA AlwaysCallInv == Spec => []CallInv
<1>1. Init => CallInv
  BY DEF Init, CallInv, Appending
<1>. QED BY <1>1, CallStep, PTL DEF Spec

\* While a record is appended, the call that appends it is in flight.
LEMMA AppendingACall ==
  ASSUME TypeOK, AppendInv, CallInv, phase \in Appending
  PROVE  /\ CallInFlight # NoCall
         /\ \A b : /\ inflight = CommitRec(b) => CallInFlight = BatchCall("commit", b)
                   /\ inflight = AckRec(b) => CallInFlight = BatchCall("ack", b)
                   /\ inflight = QuarantineRec(b) => CallInFlight = BatchCall("quarantine", b)
         /\ \A k, p : inflight = CheckpointRec(k, p) =>
              CallInFlight = TransitionCall(k, compared, p) /\ p \in Anchors
<1>0. inflight \in Record /\ compared \in Pos \cup {NoPos}
  BY DEF TypeOK, AppendInv
<1>1. \A b : /\ inflight = CommitRec(b) => CallInFlight = BatchCall("commit", b)
             /\ inflight = AckRec(b) => CallInFlight = BatchCall("ack", b)
             /\ inflight = QuarantineRec(b) => CallInFlight = BatchCall("quarantine", b)
  BY DEF CallInFlight, CommitRec, AckRec, QuarantineRec
<1>2. \A k, p : inflight = CheckpointRec(k, p) =>
        CallInFlight = TransitionCall(k, compared, p) /\ p \in Anchors
  BY DEF CallInFlight, CheckpointRec, CallInv
<1>3. CallInFlight # NoCall
  <2>1. ASSUME NEW b \in Batch, inflight \in {CommitRec(b), AckRec(b), QuarantineRec(b)}
        PROVE  CallInFlight # NoCall
    <3>1. CallInFlight \in {BatchCall("commit", b), BatchCall("ack", b), BatchCall("quarantine", b)}
      BY <1>1, <2>1
    <3>. QED BY <3>1, CallsOf
  <2>2. ASSUME NEW k \in Source, NEW p \in Pos, inflight = CheckpointRec(k, p)
        PROVE  CallInFlight # NoCall
    BY <1>0, <1>2, <2>2, CallsOf
  <2>. QED BY <1>0, <2>1, <2>2, RecordKinds
<1>. QED BY <1>1, <1>2, <1>3

\* A step that shows nothing and leaves the call as it is, or ends it, is one
\* of the abstract specification.
LEMMA Unseen ==
  ASSUME UNCHANGED Abstract!spoolVars,
         CallInFlight' = CallInFlight \/ (CallInFlight # NoCall /\ CallInFlight' = NoCall)
  PROVE  [Abstract!CallsNext]_(Abstract!callsVars)
BY SameCalls DEF Abstract!CallsNext, Abstract!ReturnUndone, Abstract!callsVars

\* A step after which the durable log says the same is invisible.
LEMMA Invisible ==
  ASSUME SameView(DurableLog, DurableLog'), acked' = acked
  PROVE  UNCHANGED Abstract!spoolVars
<1>1. /\ QueueIn(DurableLog)' = QueueIn(DurableLog)
      /\ QuarantinedIn(DurableLog)' = QuarantinedIn(DurableLog)
      /\ \A k \in Source : CheckpointIn(DurableLog, k)' = CheckpointIn(DurableLog, k)
  BY DEF SameView
<1>2. [k \in Source |-> CheckpointIn(DurableLog, k)]' = [k \in Source |-> CheckpointIn(DurableLog, k)]
  BY <1>1
<1>. QED BY <1>1, <1>2 DEF Abstract!spoolVars

\* One record more in the durable log is the effect of the call in flight.
LEMMA Visible ==
  ASSUME TypeOK, AppendInv, CallInv, phase \in Appending, phase' \notin Appending,
         Mirrors(mem, DurableLog), Sound(DurableLog), Follows(DurableLog, inflight),
         SameView(Append(DurableLog, inflight), DurableLog'),
         inflight.kind = "commit" => inflight.id \notin acked,
         acked' = IF inflight.kind = "ack" THEN acked \cup {inflight.id} ELSE acked
  PROVE  Abstract!CallsNext
<1>r. PICK r \in Record : r = inflight
  BY DEF AppendInv
<1>c. /\ \A b : /\ r = CommitRec(b) => CallInFlight = BatchCall("commit", b)
                /\ r = AckRec(b) => CallInFlight = BatchCall("ack", b)
                /\ r = QuarantineRec(b) => CallInFlight = BatchCall("quarantine", b)
      /\ \A k, p : r = CheckpointRec(k, p) => CallInFlight = TransitionCall(k, compared, p) /\ p \in Anchors
  BY <1>r, AppendingACall
<1>. DEFINE l == DurableLog
            q == QueueIn(l)
            cp == [k \in Source |-> CheckpointIn(l, k)]
<1>0. /\ LiveIn(l) = PendingIn(l) \cup QuarantinedIn(l) /\ q \in Seq(Batch)
      /\ ToSet(q) = PendingIn(l) /\ IsInjective(q) /\ LiveIn(l) \subseteq Batch
      /\ IsFiniteSet(LiveIn(l)) /\ Charged(LiveIn(l)) \in Int
  BY SoundViews
<1>1. /\ QueueIn(DurableLog)' = QueueIn(Append(l, r)) /\ QuarantinedIn(DurableLog)' = QuarantinedIn(Append(l, r))
      /\ cp' = [k \in Source |-> CheckpointIn(Append(l, r), k)]
  BY <1>r DEF SameView
<1>2. ASSUME NEW b \in Batch, r = CommitRec(b)
      PROVE  Abstract!SpoolCommit(b)
  <2>1. r.kind = "commit" /\ r.id = b
    BY <1>2 DEF CommitRec
  <2>2. b \notin CommittedIn(l) /\ Charged(LiveIn(Append(l, r))) <= MaxBytes /\ b \notin acked /\ acked' = acked
    BY <1>r, <2>1 DEF Follows
  <2>3. /\ LiveIn(Append(l, r)) = LiveIn(l) \cup {b} /\ QueueIn(Append(l, r)) = Append(q, b)
        /\ QuarantinedIn(Append(l, r)) = QuarantinedIn(l)
        /\ \A k \in Source : CheckpointIn(Append(l, r), k) = IF KeyOf[b] = k THEN PosOf[b] ELSE CheckpointIn(l, k)
    BY <1>2, <2>2, CommitChanges
  <2>4. b \notin LiveIn(l)
    BY <2>2 DEF LiveIn
  <2>5. Charged(LiveIn(l)) + Size[b] <= MaxBytes
    <3>1. \A x \in LiveIn(l) \cup {b} : Size[x] \in Int
      BY <1>0, DataAssumption
    <3>2. Charged(LiveIn(l) \cup {b}) = Size[b] + Charged(LiveIn(l))
      BY <1>0, <2>4, <3>1, SumWith DEF Charged
    <3>. QED BY <1>0, <2>2, <2>3, <3>1, <3>2
  <2>6. cp' = [cp EXCEPT ![KeyOf[b]] = PosOf[b]]
    BY <1>1, <2>3, DataAssumption
  <2>7. Abstract!Pending = PendingIn(l)
    BY <1>0, SameHelpers DEF Abstract!Pending
  <2>. QED BY <1>0, <1>1, <2>2, <2>3, <2>4, <2>5, <2>6, <2>7, SameHelpers DEF Abstract!SpoolCommit
<1>3. ASSUME NEW b \in Batch, r = AckRec(b)
      PROVE  Abstract!SpoolAck(b)
  <2>1. r.kind = "ack" /\ r.id = b
    BY <1>3 DEF AckRec
  <2>2. b \in LiveIn(l) /\ acked' = acked \cup {b}
    BY <1>r, <2>1 DEF Follows
  <2>3. /\ QueueIn(Append(l, r)) = Kept(q, PendingIn(l) \ {b})
        /\ QuarantinedIn(Append(l, r)) = QuarantinedIn(l) \ {b}
        /\ \A k \in Source : CheckpointIn(Append(l, r), k) = CheckpointIn(l, k)
    BY <1>3, <2>2, AckChanges
  <2>4. Kept(q, PendingIn(l) \ {b}) = RemoveFirst(q, b)
    BY <1>0, KeptWithout
  <2>5. cp' = cp
    BY <1>1, <2>3
  <2>6. Abstract!Pending = PendingIn(l)
    BY <1>0, SameHelpers DEF Abstract!Pending
  <2>. QED BY <1>0, <1>1, <2>2, <2>3, <2>4, <2>5, <2>6, SameHelpers DEF Abstract!SpoolAck
<1>4. ASSUME NEW b \in Batch, r = QuarantineRec(b)
      PROVE  Abstract!SpoolQuarantine(b)
  <2>1. r.kind = "quarantine" /\ r.id = b
    BY <1>4 DEF QuarantineRec
  <2>2. b \in PendingIn(l) /\ acked' = acked
    BY <1>r, <2>1 DEF Follows
  <2>3. /\ QueueIn(Append(l, r)) = Kept(q, PendingIn(l) \ {b})
        /\ QuarantinedIn(Append(l, r)) = QuarantinedIn(l) \cup {b}
        /\ \A k \in Source : CheckpointIn(Append(l, r), k) = CheckpointIn(l, k)
    BY <1>4, <2>2, QuarantineChanges
  <2>4. Kept(q, PendingIn(l) \ {b}) = RemoveFirst(q, b)
    BY <1>0, KeptWithout
  <2>5. cp' = cp
    BY <1>1, <2>3
  <2>6. Abstract!Pending = PendingIn(l)
    BY <1>0, SameHelpers DEF Abstract!Pending
  <2>. QED BY <1>0, <1>1, <2>2, <2>3, <2>4, <2>5, <2>6, SameHelpers DEF Abstract!SpoolQuarantine
<1>5. ASSUME NEW k \in Source, NEW p \in Pos, r = CheckpointRec(k, p)
      PROVE  Abstract!SpoolTransition(k, compared, p)
  <2>1. r.kind = "checkpoint"
    BY <1>5 DEF CheckpointRec
  <2>2. acked' = acked
    BY <1>r, <2>1
  <2>3. /\ QueueIn(Append(l, r)) = q /\ QuarantinedIn(Append(l, r)) = QuarantinedIn(l)
        /\ \A j \in Source : CheckpointIn(Append(l, r), j) = IF k = j THEN p ELSE CheckpointIn(l, j)
    BY <1>5, CheckpointChanges
  <2>4. cp' = [cp EXCEPT ![k] = p]
    BY <1>1, <2>3
  <2>5. cp[k] = compared
    <3>1. r.kind = "checkpoint" /\ r.key = k
      BY <1>5 DEF CheckpointRec
    <3>. QED BY <1>5, <1>r, <3>1 DEF CallInv, Mirrors, CheckpointRec
  <2>. QED BY <1>1, <2>2, <2>3, <2>4, <2>5 DEF Abstract!SpoolTransition
<1>6. \/ \E b \in Batch : r = CommitRec(b) \/ r = AckRec(b) \/ r = QuarantineRec(b)
      \/ \E k \in Source, p \in Pos : r = CheckpointRec(k, p)
  BY DEF Record
<1>7. Abstract!Effect(CallInFlight)
  <2>1. CASE \E b \in Batch : r = CommitRec(b)
    BY <1>c, <1>2, <2>1, SameCalls DEF Abstract!Effect
  <2>2. CASE \E b \in Batch : r = AckRec(b)
    BY <1>c, <1>3, <2>2, SameCalls DEF Abstract!Effect
  <2>3. CASE \E b \in Batch : r = QuarantineRec(b)
    BY <1>c, <1>4, <2>3, SameCalls DEF Abstract!Effect
  <2>4. ASSUME NEW k \in Source, NEW p \in Pos, r = CheckpointRec(k, p)
        PROVE  Abstract!Effect(CallInFlight)
    <3>1. compared \in Pos \cup {NoPos}
      BY DEF TypeOK
    <3>. QED BY <1>c, <1>5, <2>4, <3>1, SameCalls DEF Abstract!Effect
  <2>. QED BY <1>6, <2>1, <2>2, <2>3, <2>4
<1>8. CallInFlight' = Abstract!NoCall
  BY SameCalls DEF CallInFlight
<1>. QED BY <1>7, <1>8 DEF Abstract!TakeEffect, Abstract!CallsNext

\* Memory tells what two logs it mirrors have in common.
LEMMA MirrorsSame ==
  ASSUME NEW m, NEW l, NEW t, Mirrors(m, l), Mirrors(m, t)
  PROVE  SameView(l, t)
BY DEF Mirrors, SameView

\* A torn record at the end says nothing to a user of the spool.
LEMMA TornSame ==
  ASSUME NEW l, Sound(l)
  PROVE  SameView(l, Append(l, Torn)) /\ SameView(Append(l, Torn), l)
<1>1. l \in Logs /\ OrderIn(l) \in Seq(Batch)
  BY SoundViews, SoundCoherent DEF Coherent
<1>. QED BY <1>1, TornSaysNothing DEF SameView

\* Opening the files changes nothing that is durable.
LEMMA OpenRefines ==
  ASSUME SpoolInv, ~tainted, Open
  PROVE  SameView(DurableLog, DurableLog') /\ acked' = acked
<1>0. /\ DirInv /\ LogInv /\ InflightInv /\ log \in [File -> Logs] /\ log["main"] \in Logs
      /\ cursor \in Nat /\ Len(log["main"]) \in Nat
  BY Unfolded
<1>1. ASSUME DurableLog' = DurableLog
      PROVE  SameView(DurableLog, DurableLog')
  BY <1>1 DEF SameView
<1>2. acked' = acked
  BY DEF Open, recoverReplacement, OpenFile, RecoverRecord, truncateTail, RecoverCorrupt, RecoverDone, ghosts
<1>3. CASE recoverReplacement
  <2>1. phase = "down" /\ phase' = "opening"
    BY <1>3 DEF recoverReplacement
  <2>2. CASE "main" \notin dir /\ "bak" \in dir
    BY <1>0, <1>1, <1>2, <1>3, <2>1, <2>2 DEF recoverReplacement, Rename, File, DurableLog
  <2>3. CASE "main" \in dir
    BY <1>0, <1>1, <1>2, <1>3, <2>1, <2>3 DEF recoverReplacement, Unlink, File, DurableLog
  <2>4. CASE "main" \notin dir /\ "bak" \notin dir
    BY <1>0, <1>1, <1>2, <1>3, <2>1, <2>4 DEF recoverReplacement, Unlink, File, DirInv, DurableLog
  <2>. QED BY <2>2, <2>3, <2>4
<1>4. CASE OpenFile
  <2>1. /\ phase = "opening" /\ phase' = "recovering" /\ "main" \in dir' /\ log'["main"] = log["main"]
    BY <1>0, <1>4 DEF OpenFile, File
  <2>2. "main" \notin dir => log["main"] = <<>> /\ log["bak"] = <<>>
    BY <1>0, <2>1 DEF DirInv, File
  <2>. QED BY <1>1, <1>2, <2>1, <2>2 DEF DurableLog
<1>5. CASE RecoverRecord \/ RecoverCorrupt \/ RecoverDone
  <2>1. phase = "recovering" /\ phase' \notin {"written", "rollback"} /\ dir' = dir /\ log' = log
    BY <1>5 DEF RecoverRecord, RecoverCorrupt, RecoverDone, disk
  <2>. QED BY <1>1, <1>2, <2>1 DEF DurableLog
<1>6. CASE truncateTail
  <2>1. /\ phase = "recovering" /\ cursor < Len(log["main"]) /\ log["main"][cursor + 1] = Torn
        /\ log'["main"] = Keep(cursor) /\ phase' = "ready" /\ dir' = dir
    BY <1>0, <1>6 DEF truncateTail, SetMain, File
  <2>2. "main" \in dir /\ Recoverable(log["main"])
    BY <1>0, <2>1 DEF DirInv, LogInv
  <2>3. Sound(Keep(cursor)) /\ cursor + 1 = Len(log["main"])
    <3>1. cursor \in 0..Len(log["main"])
      BY <1>0, <2>1
    <3>. QED BY <1>0, <2>1, <2>2, <3>1, RecoverableSplit, TornIsNoRecord DEF Keep
  <2>4. log["main"] = Append(Keep(cursor), Torn)
    <3>1. SubSeq(log["main"], 1, cursor + 1) = Append(Keep(cursor), Torn)
      BY <1>0, <2>1, PrefixGrows DEF Keep, Logs
    <3>. QED BY <1>0, <2>3, <3>1, PrefixEnds DEF Logs
  <2>5. DurableLog = Append(Keep(cursor), Torn) /\ DurableLog' = Keep(cursor)
    BY <2>1, <2>2, <2>4 DEF DurableLog
  <2>. QED BY <1>2, <2>3, <2>5, TornSame
<1>. QED BY <1>3, <1>4, <1>5, <1>6 DEF Open

\* A step of a running process that leaves its memory alone is invisible.
LEMMA SameMemory ==
  ASSUME SpoolInv, ~tainted, SpoolInv', ~tainted', Running, Running', mem' = mem
  PROVE  SameView(DurableLog, DurableLog')
<1>1. LogInv /\ LogInv'
  BY DEF SpoolInv
<1>2. Mirrors(mem, DurableLog) /\ Mirrors(mem', DurableLog')
  BY <1>1 DEF LogInv
<1>. QED BY <1>2, MirrorsSame

\* A crash completes the append under way, or undoes it.
LEMMA StopRefines ==
  ASSUME SpoolInv, ~tainted, CallInv, Close \/ Crash
  PROVE  [Abstract!CallsNext]_(Abstract!callsVars)
<1>0. /\ TypeOK /\ AppendInv /\ DirInv /\ InflightInv /\ LogInv /\ phase \in Phase /\ log \in [File -> Logs]
  BY Unfolded
<1>1. phase' = "down" /\ CallInFlight' = NoCall
  BY DEF Close, Crash, CallInFlight, Appending
<1>2. ASSUME SameView(DurableLog, DurableLog'), acked' = acked
      PROVE  [Abstract!CallsNext]_(Abstract!callsVars)
  BY <1>1, <1>2, Invisible, Unseen
<1>3. CASE Close \/ phase \notin {"written", "rollback"}
  <2>1. dir' = dir /\ log' = log /\ acked' = acked /\ phase \notin {"written", "rollback"}
    BY <1>3 DEF Close, Crash, disk, ghosts
  <2>2. DurableLog' = DurableLog
    BY <1>1, <2>1 DEF DurableLog
  <2>3. SameView(DurableLog, DurableLog')
    BY <2>2 DEF SameView
  <2>. QED BY <1>2, <2>1, <2>3
<1>4. CASE Crash /\ phase \in {"written", "rollback"}
  <2>1. /\ inflight \in Record /\ "main" \in dir /\ DurableLog = Keep(start) /\ Sound(DurableLog)
        /\ Follows(DurableLog, inflight) /\ phase \in Appending /\ phase' \notin Appending
    BY <1>1, <1>4, InflightFollows DEF Appending
  <2>2. DurableLog' = log'["main"]
    BY <1>4, <2>1 DEF Crash, DurableLog
  <2>3. CASE log' = log /\ log["main"] = Append(Keep(start), inflight)
             /\ acked' = IF inflight.kind = "ack" THEN acked \cup {inflight.id} ELSE acked
    <3>1. DurableLog' = Append(DurableLog, inflight)
      BY <2>1, <2>2, <2>3
    <3>2. SameView(Append(DurableLog, inflight), DurableLog')
      BY <3>1 DEF SameView
    <3>3. inflight.kind = "commit" => inflight.id \notin acked
      BY <1>0, <1>4 DEF InflightInv, Appending
    <3>4. Mirrors(mem, DurableLog)
      BY <1>0, <1>4 DEF LogInv, Running
    <3>5. Abstract!CallsNext
      BY <1>0, <2>1, <2>3, <3>2, <3>3, <3>4, Visible
    <3>. QED BY <3>5
  <2>4. CASE log'["main"] \in {Keep(start), Append(Keep(start), Torn)} /\ acked' = acked
    <3>1. DurableLog' = DurableLog \/ DurableLog' = Append(DurableLog, Torn)
      BY <2>1, <2>2, <2>4
    <3>2. SameView(DurableLog, DurableLog)
      BY DEF SameView
    <3>. QED BY <1>2, <2>1, <2>4, <3>1, <3>2, TornSame
  <2>5. \/ /\ log' = log
           /\ acked' = IF /\ phase \in {"written", "rollback"}
                          /\ inflight.kind = "ack"
                          /\ log["main"] = Append(Keep(start), inflight)
                       THEN acked \cup {inflight.id} ELSE acked
        \/ log'["main"] \in {Keep(start), Append(Keep(start), Torn)} /\ acked' = acked
    BY <1>0, <1>4 DEF Crash, SetMain, File
  <2>6. log["main"] \in {Keep(start), Append(Keep(start), inflight), Append(Keep(start), Torn)}
    BY <1>0, <1>4 DEF InflightInv
  <2>. QED BY <1>4, <2>3, <2>4, <2>5, <2>6
<1>. QED BY <1>3, <1>4

\* Every step of the log is one step of the spool and its calls, or none.
LEMMA StepRefines ==
  ASSUME SpoolInv, ~tainted, CallInv, SpoolInv', ~tainted', CallInv', Next
  PROVE  [Abstract!CallsNext]_(Abstract!callsVars)
<1>0. TypeOK /\ AppendInv /\ InflightInv /\ LogInv /\ LogInv' /\ TypeOK' /\ AppendInv'
  BY Unfolded DEF SpoolInv, BaseInv, WalInv
<1>1. CASE Open
  <2>1. phase \notin Appending /\ phase' \notin Appending
    BY <1>1 DEF Open, recoverReplacement, OpenFile, RecoverRecord, truncateTail, RecoverCorrupt, RecoverDone, Appending
  <2>2. CallInFlight' = CallInFlight
    BY <2>1 DEF CallInFlight
  <2>. QED BY <1>1, <2>2, OpenRefines, Invisible, Unseen
<1>2. CASE \/ \E b \in Batch : Commit(b) \/ Ack(b) \/ Quarantine(b)
           \/ \E k \in Source, e \in Pos \cup {NoPos}, p \in Anchors : Transition(k, e, p)
  <2>1. Running /\ Running' /\ mem' = mem /\ acked' = acked /\ phase = "ready" /\ phase' = "append"
    BY <1>2 DEF Commit, Ack, Quarantine, Transition, Begin, Running, ghosts
  <2>2. UNCHANGED Abstract!spoolVars
    BY <2>1, SameMemory, Invisible
  <2>3. CallInFlight = Abstract!NoCall
    BY <2>1, SameCalls DEF CallInFlight, Appending
  <2>4. ASSUME NEW b \in Batch, Commit(b) \/ Ack(b) \/ Quarantine(b)
        PROVE  CallInFlight' \in Abstract!Call
    <3>1. inflight' \in {CommitRec(b), AckRec(b), QuarantineRec(b)}
      BY <2>4 DEF Commit, Ack, Quarantine, Begin
    <3>2. \E op \in {"commit", "ack", "quarantine"} : CallInFlight' = BatchCall(op, b)
      BY <2>1, <3>1 DEF CallInFlight, Appending, CommitRec, AckRec, QuarantineRec
    <3>. QED BY <3>2, CallsOf
  <2>5. ASSUME NEW k \in Source, NEW e \in Pos \cup {NoPos}, NEW p \in Anchors, Transition(k, e, p)
        PROVE  CallInFlight' \in Abstract!Call
    <3>1. inflight' = CheckpointRec(k, p) /\ compared' = e
      BY <2>5 DEF Transition, Begin
    <3>2. CallInFlight' = TransitionCall(k, e, p)
      BY <2>1, <3>1 DEF CallInFlight, Appending, CheckpointRec
    <3>. QED BY <3>2, CallsOf
  <2>6. CallInFlight' \in Abstract!Call
    BY <1>2, <2>4, <2>5
  <2>. QED BY <2>2, <2>3, <2>6 DEF Abstract!Invoke, Abstract!CallsNext
<1>3. CASE Write \/ WriteFails \/ SyncFails \/ rollbackAppend
  <2>1. /\ Running /\ Running' /\ mem' = mem /\ acked' = acked /\ phase \in Appending
        /\ \/ phase' \in Appending /\ inflight' = inflight /\ compared' = compared
           \/ phase' \notin Appending
    BY <1>3 DEF Write, WriteFails, SyncFails, rollbackAppend, Running, ghosts, Appending
  <2>2. CallInFlight' = CallInFlight \/ (CallInFlight # NoCall /\ CallInFlight' = NoCall)
    BY <1>0, <2>1, AppendingACall DEF CallInFlight
  <2>. QED BY <2>1, <2>2, SameMemory, Invisible, Unseen
<1>4. CASE Sync
  <2>1. /\ phase = "written" /\ mem' = Apply(mem, inflight) /\ phase' \in {"ready", "compactPending"}
        /\ acked' = IF inflight.kind = "ack" THEN acked \cup {inflight.id} ELSE acked
        /\ phase \in Appending /\ phase' \notin Appending
    BY <1>4 DEF Sync, Appending
  <2>2. /\ Sound(DurableLog) /\ Follows(DurableLog, inflight)
        /\ Mirrors(Apply(mem, inflight), Append(DurableLog, inflight))
    BY <2>1, InflightFollows
  <2>3. Mirrors(mem, DurableLog) /\ Mirrors(mem', DurableLog')
    BY <1>0, <2>1 DEF LogInv, Running
  <2>4. SameView(Append(DurableLog, inflight), DurableLog')
    BY <2>1, <2>2, <2>3, MirrorsSame
  <2>5. inflight.kind = "commit" => inflight.id \notin acked
    BY <1>0, <2>1 DEF InflightInv
  <2>6. Abstract!CallsNext
    BY <1>0, <2>1, <2>2, <2>3, <2>4, <2>5, Visible
  <2>. QED BY <2>6
<1>5. CASE compactLocked
  <2>1. /\ Running /\ Running' /\ mem' = mem /\ acked' = acked
        /\ phase \notin Appending /\ phase' \notin Appending
    BY <1>5 DEF compactLocked, CompactPending, CompactQuarantined, CompactCheckpoint, CompactFails,
                CompactSync, RenameOld, RenameNew, Reopen, Compacting, Running, ghosts, Appending
  <2>2. CallInFlight' = CallInFlight
    BY <2>1 DEF CallInFlight
  <2>. QED BY <2>1, <2>2, SameMemory, Invisible, Unseen
<1>6. CASE Close \/ Crash
  BY <1>6, StopRefines
<1>. QED BY <1>1, <1>2, <1>3, <1>4, <1>5, <1>6 DEF Next, appendRecord

\* Where the truncation of a rollback cannot fail, the files and the memory
\* implement the durable queue: what is durable changes only when the call in
\* flight takes effect, with its own batch or from the position it compared
\* with.  A crash, a failed write or fsync and a rollback finish or undo that
\* call; recovery and every step of a compaction change nothing.
THEOREM WalImplementsSpool ==
  ASSUME ~TruncateMayFail
  PROVE  Spec => ImplementsSpool
<1>1. Init => Abstract!CallsInit
  <2>1. ASSUME Init
        PROVE  DurableLog = <<>> /\ acked = {} /\ CallInFlight = NoCall
    BY <2>1 DEF Init, DurableLog, File, CallInFlight, Appending
  <2>2. /\ QuarantinedIn(<<>>) = {} /\ \A k \in Source : CheckpointIn(<<>>, k) = NoPos
        /\ QueueIn(<<>>) = <<>>
    BY EmptyLog, KeptOfEmpty DEF QuarantinedIn, QueueIn
  <2>. QED BY <2>1, <2>2, SameCalls DEF Abstract!CallsInit, Abstract!SpoolInit
<1>2. Init => ~tainted
  BY DEF Init
<1>3. ~tainted /\ [Next]_vars => ~tainted'
  BY DEF Next, Open, recoverReplacement, OpenFile, RecoverRecord, truncateTail, RecoverCorrupt, RecoverDone,
         Commit, Ack, Quarantine, Transition, Begin, appendRecord, Write, WriteFails, Sync, SyncFails,
         rollbackAppend, compactLocked, CompactPending, CompactQuarantined, CompactCheckpoint,
         CompactFails, CompactSync, RenameOld, RenameNew, Reopen, Close, Crash, ghosts, vars
<1>4. ASSUME SpoolInv, ~tainted, CallInv, SpoolInv', ~tainted', CallInv', [Next]_vars
      PROVE  [Abstract!CallsNext]_(Abstract!callsVars)
  <2>1. CASE UNCHANGED vars
    <3>1. DurableLog' = DurableLog /\ acked' = acked /\ CallInFlight' = CallInFlight
      BY <2>1 DEF vars, DurableLog, Keep, CallInFlight
    <3>2. SameView(DurableLog, DurableLog')
      BY <3>1 DEF SameView
    <3>. QED BY <3>1, <3>2, Invisible, Unseen
  <2>. QED BY <1>4, <2>1, StepRefines
<1>. QED BY <1>1, <1>2, <1>3, <1>4, AlwaysSpoolInv, AlwaysCallInv, PTL
     DEF Spec, ImplementsSpool, Abstract!CallsSpec

-----------------------------------------------------------------------------
(* What the durable queue guarantees, of the log.                          *)

\* b is ahead of c in queue q.
Ahead(q, b, c) == \E i, j \in DOMAIN q : i < j /\ q[i] = b /\ q[j] = c

\* One operation of the spool, or none, from queue q, dead-lettered batches z
\* and finished ones d.
SpoolMoves(q, z, d, q1, z1, d1) ==
  \/ \E b \in Batch : b \notin ToSet(q) \cup z \cup d /\ q1 = Append(q, b) /\ z1 = z /\ d1 = d
  \/ \E b \in Batch : b \in ToSet(q) \cup z /\ q1 = RemoveFirst(q, b) /\ z1 = z \ {b} /\ d1 = d \cup {b}
  \/ \E b \in Batch : b \in ToSet(q) /\ q1 = RemoveFirst(q, b) /\ z1 = z \cup {b} /\ d1 = d
  \/ q1 = q /\ z1 = z /\ d1 = d

\* A batch is in one place, once.
Apart(q, z, d) ==
  /\ q \in Seq(Batch) /\ IsInjective(q)
  /\ ToSet(q) \cap z = {} /\ ToSet(q) \cap d = {} /\ z \cap d = {}

\* Nothing held is lost, nothing finished or dead-lettered is queued again,
\* and the queue is first in, first out.
KeepsHeld(q, z, d, q1, z1, d1) ==
  /\ ToSet(q) \cup z \subseteq ToSet(q1) \cup z1 \cup d1 /\ d \subseteq d1
  /\ ToSet(q1) \cap (z \cup d) = {}
  /\ \A b, c \in ToSet(q1) : Ahead(q, b, c) => Ahead(q1, b, c)
  /\ \A b \in ToSet(q), c \in ToSet(q1) : b \in ToSet(q1) /\ c \notin ToSet(q) => Ahead(q1, b, c)

\* The queue without one batch keeps the order of the others.
LEMMA RemoveKeepsAhead ==
  ASSUME NEW S, NEW s \in Seq(S), NEW e, NEW b, NEW c, b # e, c # e, Ahead(s, b, c)
  PROVE  Ahead(RemoveFirst(s, e), b, c)
<1>1. CASE RemoveFirst(s, e) = s
  BY <1>1
<1>2. ASSUME NEW k \in 1..Len(s), s[k] = e, RemoveFirst(s, e) = RemoveAt(s, k)
      PROVE  Ahead(RemoveFirst(s, e), b, c)
  <2>. DEFINE t == RemoveAt(s, k)
  <2>1. /\ t \in Seq(S) /\ Len(t) = Len(s) - 1
        /\ \A j \in 1..(Len(s) - 1) : t[j] = IF j < k THEN s[j] ELSE s[j + 1]
    BY RemoveAtKeepsOthers
  <2>. HIDE DEF t
  <2>2. PICK i, j \in 1..Len(s) : i < j /\ s[i] = b /\ s[j] = c
    BY DEF Ahead
  <2>. DEFINE at(n) == IF n < k THEN n ELSE n - 1
  <2>3. i # k /\ j # k
    BY <1>2, <2>2
  <2>4. at(i) \in 1..(Len(s) - 1) /\ at(j) \in 1..(Len(s) - 1) /\ at(i) < at(j)
    BY <2>2, <2>3
  <2>8. ASSUME NEW n \in 1..Len(s), n # k, at(n) \in 1..(Len(s) - 1) PROVE t[at(n)] = s[n]
    <3>1. CASE n < k
      <4>1. at(n) = n
        BY <3>1
      <4>. QED BY <2>1, <2>8, <3>1, <4>1
    <3>2. CASE ~(n < k)
      <4>1. at(n) = n - 1 /\ ~(n - 1 < k) /\ (n - 1) + 1 = n
        BY <2>8, <3>2
      <4>. QED BY <2>1, <2>8, <4>1
    <3>. QED BY <3>1, <3>2
  <2>5. t[at(i)] = b
    BY <2>2, <2>3, <2>4, <2>8
  <2>6. t[at(j)] = c
    BY <2>2, <2>3, <2>4, <2>8
  <2>7. DOMAIN t = 1..(Len(s) - 1)
    BY <2>1
  <2>. HIDE DEF at
  <2>. QED BY <1>2, <2>4, <2>5, <2>6, <2>7 DEF Ahead, t
<1>. QED BY <1>1, <1>2, RemoveFirstIsRemoveAt

\* An operation keeps every batch in one place and the queue in order.
LEMMA MovesKeep ==
  ASSUME NEW q, NEW z, NEW d, NEW q1, NEW z1, NEW d1,
         Apart(q, z, d), SpoolMoves(q, z, d, q1, z1, d1)
  PROVE  Apart(q1, z1, d1) /\ KeepsHeld(q, z, d, q1, z1, d1)
<1>0. q \in Seq(Batch) /\ IsInjective(q) /\ ToSet(q) \cap z = {} /\ ToSet(q) \cap d = {} /\ z \cap d = {}
  BY DEF Apart
<1>1. ASSUME NEW b \in Batch, b \notin ToSet(q) \cup z \cup d, q1 = Append(q, b), z1 = z, d1 = d
      PROVE  Apart(q1, z1, d1) /\ KeepsHeld(q, z, d, q1, z1, d1)
  <2>1. q1 \in Seq(Batch) /\ IsInjective(q1) /\ ToSet(q1) = ToSet(q) \cup {b}
    BY <1>0, <1>1, AppendToDistinct
  <2>2. /\ Len(q) \in Nat /\ DOMAIN q = 1..Len(q) /\ DOMAIN q1 = 1..(Len(q) + 1)
        /\ q1[Len(q) + 1] = b /\ \A i \in 1..Len(q) : q1[i] = q[i]
    BY <1>0, <1>1
  <2>3. ASSUME NEW x, NEW y, Ahead(q, x, y) PROVE Ahead(q1, x, y)
    <3>1. PICK i, j \in 1..Len(q) : i < j /\ q[i] = x /\ q[j] = y
      BY <2>2, <2>3 DEF Ahead
    <3>2. i \in 1..(Len(q) + 1) /\ j \in 1..(Len(q) + 1) /\ q1[i] = x /\ q1[j] = y
      BY <2>2, <3>1
    <3>. QED BY <2>2, <3>1, <3>2 DEF Ahead
  <2>4. ASSUME NEW x \in ToSet(q) PROVE Ahead(q1, x, b)
    <3>1. PICK i \in 1..Len(q) : q[i] = x
      BY <2>2 DEF ToSet
    <3>2. i \in 1..(Len(q) + 1) /\ Len(q) + 1 \in 1..(Len(q) + 1) /\ i < Len(q) + 1 /\ q1[i] = x
      BY <2>2, <3>1
    <3>. QED BY <2>2, <3>2 DEF Ahead
  <2>. QED BY <1>0, <1>1, <2>1, <2>3, <2>4 DEF Apart, KeepsHeld
<1>2. ASSUME NEW b \in Batch, q1 = RemoveFirst(q, b)
      PROVE  /\ q1 \in Seq(Batch) /\ IsInjective(q1) /\ ToSet(q1) = ToSet(q) \ {b}
             /\ \A x, y \in ToSet(q1) : Ahead(q, x, y) => Ahead(q1, x, y)
  <2>1. q1 \in Seq(Batch) /\ IsInjective(q1) /\ ToSet(q1) = ToSet(q) \ {b}
    BY <1>0, <1>2, RemoveFirstOfDistinct
  <2>2. \A x, y \in ToSet(q1) : Ahead(q, x, y) => Ahead(q1, x, y)
    BY <1>0, <1>2, <2>1, RemoveKeepsAhead
  <2>. QED BY <2>1, <2>2
<1>3. ASSUME NEW b \in Batch, b \in ToSet(q) \cup z, q1 = RemoveFirst(q, b), z1 = z \ {b}, d1 = d \cup {b}
      PROVE  Apart(q1, z1, d1) /\ KeepsHeld(q, z, d, q1, z1, d1)
  <2>1. /\ q1 \in Seq(Batch) /\ IsInjective(q1) /\ ToSet(q1) = ToSet(q) \ {b}
        /\ \A x, y \in ToSet(q1) : Ahead(q, x, y) => Ahead(q1, x, y)
    BY <1>2, <1>3
  <2>. QED BY <1>0, <1>3, <2>1 DEF Apart, KeepsHeld
<1>4. ASSUME NEW b \in Batch, b \in ToSet(q), q1 = RemoveFirst(q, b), z1 = z \cup {b}, d1 = d
      PROVE  Apart(q1, z1, d1) /\ KeepsHeld(q, z, d, q1, z1, d1)
  <2>1. /\ q1 \in Seq(Batch) /\ IsInjective(q1) /\ ToSet(q1) = ToSet(q) \ {b}
        /\ \A x, y \in ToSet(q1) : Ahead(q, x, y) => Ahead(q1, x, y)
    BY <1>2, <1>4
  <2>. QED BY <1>0, <1>4, <2>1 DEF Apart, KeepsHeld
<1>5. CASE q1 = q /\ z1 = z /\ d1 = d
  BY <1>0, <1>5 DEF Apart, KeepsHeld
<1>. QED BY <1>1, <1>3, <1>4, <1>5 DEF SpoolMoves

\* The spool's operations, of the log.
LEMMA SpoolMovesLog ==
  ASSUME [Abstract!CallsNext]_(Abstract!callsVars)
  PROVE  SpoolMoves(QueueIn(DurableLog), QuarantinedIn(DurableLog), acked,
                    QueueIn(DurableLog)', QuarantinedIn(DurableLog)', acked')
<1>1. ASSUME NEW b \in Batch, Abstract!SpoolCommit(b) \/ Abstract!SpoolAck(b) \/ Abstract!SpoolQuarantine(b)
      PROVE  SpoolMoves(QueueIn(DurableLog), QuarantinedIn(DurableLog), acked,
                        QueueIn(DurableLog)', QuarantinedIn(DurableLog)', acked')
  BY <1>1, SameHelpers DEF Abstract!SpoolCommit, Abstract!SpoolAck, Abstract!SpoolQuarantine, Abstract!Pending, SpoolMoves
<1>2. ASSUME NEW k, NEW e, NEW p, Abstract!SpoolTransition(k, e, p)
      PROVE  SpoolMoves(QueueIn(DurableLog), QuarantinedIn(DurableLog), acked,
                        QueueIn(DurableLog)', QuarantinedIn(DurableLog)', acked')
  BY <1>2 DEF Abstract!SpoolTransition, SpoolMoves
<1>3. CASE UNCHANGED Abstract!spoolVars
  BY <1>3 DEF Abstract!spoolVars, SpoolMoves
<1>4. CASE Abstract!TakeEffect
  BY <1>1, <1>2, <1>4 DEF Abstract!TakeEffect, Abstract!Effect
<1>5. CASE Abstract!ReturnUndone \/ (\E c \in Abstract!Call : Abstract!Invoke(c)) \/ UNCHANGED Abstract!callsVars
  BY <1>3, <1>5 DEF Abstract!ReturnUndone, Abstract!Invoke, Abstract!callsVars
<1>. QED BY <1>4, <1>5 DEF Abstract!CallsNext

\* In what is durable, at every moment, a batch is queued, dead-lettered or
\* acknowledged, never two of these and never queued twice.
HeldOnce == Apart(QueueIn(DurableLog), QuarantinedIn(DurableLog), acked)

\* No step, of a crash, a rollback, a recovery or a compaction either, loses a
\* batch, queues an acknowledged or a dead-lettered one again, or lets one
\* overtake another.
HeldInOrder ==
  [][KeepsHeld(QueueIn(DurableLog), QuarantinedIn(DurableLog), acked,
            QueueIn(DurableLog)', QuarantinedIn(DurableLog)', acked')]_vars

\* The durable queue, as its users rely on it.
THEOREM SpoolHoldsOnceInOrder ==
  ASSUME ~TruncateMayFail
  PROVE  Spec => []HeldOnce /\ HeldInOrder
<1>. DEFINE Step == [Abstract!CallsNext]_(Abstract!callsVars)
            Keep1 == KeepsHeld(QueueIn(DurableLog), QuarantinedIn(DurableLog), acked,
                            QueueIn(DurableLog)', QuarantinedIn(DurableLog)', acked')
<1>1. Abstract!CallsInit => HeldOnce
  BY EmptyIsDistinct DEF Abstract!CallsInit, Abstract!SpoolInit, HeldOnce, Apart
<1>2. HeldOnce /\ Step => HeldOnce' /\ Keep1
  <2>. SUFFICES ASSUME HeldOnce, Step PROVE HeldOnce' /\ Keep1
    OBVIOUS
  <2>. QED BY SpoolMovesLog, MovesKeep DEF HeldOnce
<1>3. Spec => Abstract!CallsInit /\ [][Abstract!CallsNext]_(Abstract!callsVars)
  BY WalImplementsSpool DEF ImplementsSpool, Abstract!CallsSpec
<1>4. HeldOnce /\ Step => [Keep1]_vars
  BY <1>2
<1>. QED BY <1>1, <1>2, <1>3, <1>4, PTL DEF HeldInOrder
=============================================================================
