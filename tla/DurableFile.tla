------------------------------ MODULE DurableFile ------------------------------
(***************************************************************************)
(* The file source of a pipeline: internal/agent/source/durable_file.go,   *)
(* with the part of runPipeline that commits what it reads and rotates it, *)
(* and the anchoring of the source when the agent starts.                  *)
(*                                                                         *)
(* An application writes numbered lines, each as two bytes, the second of  *)
(* them the newline; logrotate renames and recreates the file, or copies   *)
(* and truncates it.  The spool is its durable checkpoint and the records  *)
(* committed with it.                                                      *)
(*                                                                         *)
(* External: files are appended to; an identity (device and inode) is      *)
(* reused only when its file is deleted and nobody holds it open.          *)
(***************************************************************************)
EXTENDS Naturals, Sequences, SequencesExt

CONSTANTS
  Identity,        \* file identities
  NoFile,          \* what the path names between a rename and a create
  NoRecord,
  BatchSize,       \* AgentOptions.BatchSize
  LateWriter,      \* does the application go on writing to a renamed file?
  MaxLines,        \* model bounds: lines written,
  MaxRotations,    \* renames,
  MaxTruncations,  \* copytruncates,
  MaxDeletions,    \* deletions of renamed files,
  MaxFaults        \* crashes and spool failures

ASSUME FileAssumption ==
  /\ NoFile \notin Identity
  /\ BatchSize \in Nat \ {0}
  /\ LateWriter \in BOOLEAN
  /\ {MaxLines, MaxRotations, MaxTruncations, MaxDeletions, MaxFaults} \subseteq Nat

VARIABLES
  \* the file system, the application and logrotate
  path,          \* file the configured path names
  exists,        \* files that exist
  content,       \* bytes of every file
  writer,        \* file the application has open
  half,          \* it is in the middle of a line
  lines,         \* lines it has begun
  budget,        \* renames, truncations, deletions and faults so far
  \* the source: its goroutine and its fields
  at,            \* down, read, eof, send, rotate or failed
  identity,      \* file it has open
  position,      \* read position of that handle
  buf,           \* bytes the bufio.Reader holds
  pending,       \* bytes of an unterminated line
  readOffset,    \* bytes consumed
  rotationSeen,  \* end-of-file polls in a row that saw another file at the path
  hand,          \* record on its way to the pipeline
  \* the pipeline and the spool
  entries,       \* records received, not committed
  checkpoint,    \* durable [id, off], <<>> before the first anchoring
  out            \* committed records

fileVars == <<path, exists, content, writer, half, lines>>
readVars == <<identity, position, buf, pending, readOffset, rotationSeen>>
spoolVars == <<checkpoint, out>>
vars == <<fileVars, budget, at, readVars, hand, entries, spoolVars>>

Byte == [line : 1..MaxLines, nl : BOOLEAN]
RawRecord == [bytes : Seq(Byte), id : Identity, end : Nat]
Checkpoint(i, n) == [id |-> i, off |-> n]

TypeOK ==
  /\ path \in Identity \cup {NoFile}
  /\ exists \subseteq Identity
  /\ content \in [Identity -> Seq(Byte)]
  /\ writer \in Identity /\ identity \in Identity
  /\ half \in BOOLEAN
  /\ lines \in 0..MaxLines
  /\ budget \in [{"rename", "truncate", "delete", "fault"} -> Nat]
  /\ at \in {"down", "read", "eof", "send", "rotate", "failed"}
  /\ position \in Nat /\ readOffset \in Nat
  /\ buf \in Seq(Byte) /\ pending \in Seq(Byte)
  /\ rotationSeen \in 0..2
  /\ hand \in RawRecord \cup {NoRecord}
  /\ entries \in Seq(RawRecord) /\ out \in Seq(RawRecord)
  /\ checkpoint \in [id : Identity, off : Nat] \cup {<<>>}

Spend(what, max) == budget[what] < max /\ budget' = [budget EXCEPT ![what] = @ + 1]

-----------------------------------------------------------------------------
(* The application and logrotate.                                          *)

\* The application writes the next byte.
WriteByte ==
  /\ \/ half /\ lines' = lines
     \/ ~half /\ lines < MaxLines /\ (writer = path \/ LateWriter) /\ lines' = lines + 1
  /\ half' = ~half
  /\ content' = [content EXCEPT ![writer] = Append(@, [line |-> lines', nl |-> half])]
  /\ UNCHANGED <<path, exists, writer, budget, at, readVars, hand, entries, spoolVars>>

\* The application opens the path again.
Reopen ==
  /\ ~half /\ path # NoFile /\ writer # path
  /\ writer' = path
  /\ UNCHANGED <<path, exists, content, half, lines, budget, at, readVars, hand, entries, spoolVars>>

Rename ==
  /\ path # NoFile
  /\ Spend("rename", MaxRotations)
  /\ path' = NoFile
  /\ UNCHANGED <<exists, content, writer, half, lines, at, readVars, hand, entries, spoolVars>>

Create(i) ==
  /\ path = NoFile /\ i \notin exists
  /\ path' = i
  /\ exists' = exists \cup {i}
  /\ UNCHANGED <<content, writer, half, lines, budget, at, readVars, hand, entries, spoolVars>>

\* The contents are copied away and the file emptied.
CopyTruncate ==
  /\ path # NoFile
  /\ Spend("truncate", MaxTruncations)
  /\ content' = [content EXCEPT ![path] = <<>>]
  /\ UNCHANGED <<path, exists, writer, half, lines, at, readVars, hand, entries, spoolVars>>

\* A renamed file nobody has open is deleted: its identity is free again.
Delete(i) ==
  /\ i \in exists \ {path, writer}
  /\ at = "down" \/ i # identity
  /\ Spend("delete", MaxDeletions)
  /\ exists' = exists \ {i}
  /\ content' = [content EXCEPT ![i] = <<>>]
  /\ UNCHANGED <<path, writer, half, lines, at, readVars, hand, entries, spoolVars>>

-----------------------------------------------------------------------------
(* Start of the agent.                                                     *)

\* The source stands at byte n of file i.
SeekTo(i, n) == identity' = i /\ position' = n /\ readOffset' = n /\ buf' = <<>>

\* Mutant: a file that has not grown is taken for a truncated one.
StartOffsetStrict(i) ==
  IF checkpoint # <<>> /\ checkpoint.id = i /\ Len(content[i]) > checkpoint.off
  THEN checkpoint.off ELSE 0

\* Where NewDurableFileSource starts in file i.
StartOffset(i) ==
  IF checkpoint # <<>> /\ checkpoint.id = i /\ Len(content[i]) >= checkpoint.off
  THEN checkpoint.off ELSE 0

\* A missing file keeps the agent from starting.
Start ==
  /\ at = "down" /\ path # NoFile
  /\ SeekTo(path, StartOffset(path))
  /\ checkpoint' = Checkpoint(path, StartOffset(path))
  /\ at' = "read"
  /\ pending' = <<>> /\ rotationSeen' = 0
  /\ UNCHANGED <<fileVars, budget, hand, entries, out>>

\* The process ends; a graceful stop is a Flush before it.
Crash ==
  /\ at # "down"
  /\ Spend("fault", MaxFaults)
  /\ at' = "down"
  /\ SeekTo(identity, 0) /\ pending' = <<>> /\ rotationSeen' = 0
  /\ hand' = NoRecord /\ entries' = <<>>
  /\ UNCHANGED <<fileVars, spoolVars>>

-----------------------------------------------------------------------------
(* NextRecord.                                                             *)

Newlines == {i \in DOMAIN buf : buf[i].nl}

\* ReadString finds a newline in the buffer.
ReadLine ==
  /\ at = "read" /\ Newlines # {}
  /\ LET n == CHOOSE i \in Newlines : \A j \in Newlines : i <= j
     IN  /\ hand' = [bytes |-> pending \o SubSeq(buf, 1, n), id |-> identity,
                     end |-> readOffset + n]
         /\ readOffset' = readOffset + n
         /\ buf' = SubSeq(buf, n + 1, Len(buf))
  /\ pending' = <<>> /\ rotationSeen' = 0
  /\ at' = "send"
  /\ UNCHANGED <<fileVars, budget, identity, position, entries, spoolVars>>

\* It does not, and the file has more.
Fill ==
  /\ at = "read" /\ Newlines = {}
  /\ position < Len(content[identity])
  /\ buf' = buf \o SubSeq(content[identity], position + 1, Len(content[identity]))
  /\ position' = Len(content[identity])
  /\ UNCHANGED <<fileVars, budget, at, identity, pending, readOffset, rotationSeen, hand, entries,
                 spoolVars>>

\* Mutant: a fragment replaces the one before it.
ReadFragmentFresh ==
  /\ at = "read" /\ Newlines = {}
  /\ position >= Len(content[identity])
  /\ pending' = buf
  /\ readOffset' = readOffset + Len(buf)
  /\ buf' = <<>>
  /\ at' = "eof"
  /\ UNCHANGED <<fileVars, budget, identity, position, rotationSeen, hand, entries, spoolVars>>

\* It does not, and the file ends: the fragment is kept for later.
ReadFragment ==
  /\ at = "read" /\ Newlines = {}
  /\ position >= Len(content[identity])
  /\ pending' = pending \o buf
  /\ readOffset' = readOffset + Len(buf)
  /\ buf' = <<>>
  /\ at' = "eof"
  /\ UNCHANGED <<fileVars, budget, identity, position, rotationSeen, hand, entries, spoolVars>>

\* Mutant: the first poll that sees another file is enough.
StableEOFOnce(n) == n >= 1

\* Polls that must have seen another file before the source gives this one up.
StableEOF(n) == n >= 2

\* detectRotation: the path is gone, or a line is cut off.
DetectFails ==
  /\ at = "eof"
  /\ path = NoFile \/ (path # identity /\ pending # <<>>)
  /\ at' = "failed"
  /\ UNCHANGED <<fileVars, budget, readVars, hand, entries, spoolVars>>

\* Mutant: the counter starts again with every poll.
DetectRenameAfresh ==
  /\ at = "eof"
  /\ path \notin {NoFile, identity} /\ pending = <<>>
  /\ rotationSeen' = 1
  /\ at' = IF StableEOF(rotationSeen') THEN "rotate" ELSE "read"
  /\ UNCHANGED <<fileVars, budget, identity, position, buf, pending, readOffset, hand, entries,
                 spoolVars>>

\* detectRotation: the path names another file.
DetectRename ==
  /\ at = "eof"
  /\ path \notin {NoFile, identity} /\ pending = <<>>
  /\ rotationSeen' = rotationSeen + 1
  /\ at' = IF StableEOF(rotationSeen') THEN "rotate" ELSE "read"
  /\ UNCHANGED <<fileVars, budget, identity, position, buf, pending, readOffset, hand, entries,
                 spoolVars>>

\* detectRotation: the same file, truncated when it ends before readOffset.
DetectSame ==
  /\ at = "eof" /\ path = identity
  /\ rotationSeen' = 0
  /\ IF Len(content[path]) >= readOffset
     THEN UNCHANGED <<identity, position, buf, pending, readOffset>>
     ELSE SeekTo(identity, 0) /\ pending' = <<>>
  /\ at' = "read"
  /\ UNCHANGED <<fileVars, budget, hand, entries, spoolVars>>

-----------------------------------------------------------------------------
(* runPipeline.                                                            *)

\* A record arrives; a full buffer is flushed first.
Receive ==
  /\ at = "send" /\ Len(entries) < BatchSize
  /\ entries' = Append(entries, hand)
  /\ hand' = NoRecord
  /\ at' = "read"
  /\ UNCHANGED <<fileVars, budget, readVars, spoolVars>>

\* Mutant: the checkpoint is where the source has got to by now.
FlushAhead ==
  /\ at # "down" /\ entries # <<>>
  /\ out' = out \o entries
  /\ checkpoint' = Checkpoint(identity, readOffset)
  /\ entries' = <<>>
  /\ UNCHANGED <<fileVars, budget, at, readVars, hand>>

\* flush, by size, by ticker, before a rotation, after a failure of the source
\* or at shutdown: records and checkpoint are committed together.
Flush ==
  /\ at # "down" /\ entries # <<>>
  /\ out' = out \o entries
  /\ checkpoint' = Checkpoint(Last(entries).id, Last(entries).end)
  /\ entries' = <<>>
  /\ UNCHANGED <<fileVars, budget, at, readVars, hand>>

\* The spool fails a Commit or a Transition: the pipeline ends.
SpoolFails ==
  /\ at # "down" /\ (entries # <<>> \/ at = "rotate")
  /\ Spend("fault", MaxFaults)
  /\ at' = "failed"
  /\ entries' = <<>> /\ hand' = NoRecord
  /\ UNCHANGED <<fileVars, readVars, spoolVars>>

\* Position Rotate expects to find in the spool.
Expected == Checkpoint(identity, readOffset)

\* Mutant: the polls are not counted afresh in the new file.
RotateCounting ==
  /\ at = "rotate" /\ entries = <<>>
  /\ path \notin {NoFile, identity} /\ checkpoint = Expected
  /\ checkpoint' = Checkpoint(path, 0)
  /\ SeekTo(path, 0)
  /\ at' = "read"
  /\ UNCHANGED <<fileVars, budget, pending, rotationSeen, hand, entries, out>>

\* Rotate: the switch is made durable by compare-and-set, then done.
Rotate ==
  /\ at = "rotate" /\ entries = <<>>
  /\ path \notin {NoFile, identity} /\ checkpoint = Expected
  /\ checkpoint' = Checkpoint(path, 0)
  /\ SeekTo(path, 0)
  /\ rotationSeen' = 0
  /\ at' = "read"
  /\ UNCHANGED <<fileVars, budget, pending, hand, entries, out>>

\* The new file is gone again, or the compare-and-set fails.
RotateFails ==
  /\ at = "rotate" /\ entries = <<>>
  /\ path \in {NoFile, identity} \/ checkpoint # Expected
  /\ at' = "failed"
  /\ UNCHANGED <<fileVars, budget, readVars, hand, entries, spoolVars>>

-----------------------------------------------------------------------------
Init ==
  /\ \E i \in Identity :
       /\ path = i /\ exists = {i} /\ writer = i /\ identity = i
  /\ content = [i \in Identity |-> <<>>]
  /\ half = FALSE /\ lines = 0
  /\ budget = [w \in {"rename", "truncate", "delete", "fault"} |-> 0]
  /\ at = "down"
  /\ position = 0 /\ readOffset = 0 /\ buf = <<>> /\ pending = <<>> /\ rotationSeen = 0
  /\ hand = NoRecord /\ entries = <<>>
  /\ checkpoint = <<>> /\ out = <<>>

Environment ==
  \/ WriteByte \/ Reopen \/ Rename \/ CopyTruncate
  \/ \E i \in Identity : Create(i) \/ Delete(i)

NextRecord == ReadLine \/ Fill \/ ReadFragment \/ DetectFails \/ DetectRename \/ DetectSame

runPipeline == Receive \/ Flush \/ Rotate \/ RotateFails

Next == Environment \/ Start \/ NextRecord \/ runPipeline \/ SpoolFails \/ Crash

Spec == Init /\ [][Next]_vars

\* The goroutines run, the ticker ticks and the agent is started again; a
\* created file is not kept back for ever.
FairSpec ==
  /\ Spec
  /\ WF_vars(Start) /\ WF_vars(NextRecord)
  /\ WF_vars(Receive) /\ WF_vars(Flush) /\ WF_vars(Rotate \/ RotateFails)
  /\ WF_vars(\E i \in Identity : Create(i))

-----------------------------------------------------------------------------
\* Lines that end in file i at or before byte n, and lines records hold whole.
LinesOf(i, n) == {content[i][j].line : j \in {k \in DOMAIN content[i] : k <= n /\ content[i][k].nl}}
Delivered == {Last(out[k].bytes).line : k \in DOMAIN out}
DeliveredFrom(i) == {Last(out[k].bytes).line : k \in {j \in DOMAIN out : out[j].id = i}}

\* Lines in the file at the path or in the one the checkpoint is about.
Reachable ==
  UNION {LinesOf(i, Len(content[i])) :
           i \in {f \in Identity : f = path \/ (checkpoint # <<>> /\ f = checkpoint.id)}}

(***************************************************************************)
(* Properties.                                                             *)
(***************************************************************************)

\* No line is committed twice, through crashes, rotations of either kind,
\* deletions and reused identities.
DeliveredOnce ==
  \A j, k \in DOMAIN out : Last(out[j].bytes).line = Last(out[k].bytes).line => j = k

\* A record is one line, in one piece, however its bytes arrived.
RecordsWhole ==
  \A k \in DOMAIN out :
    \E n \in 1..lines : out[k].bytes = <<[line |-> n, nl |-> FALSE], [line |-> n, nl |-> TRUE]>>

\* The durable checkpoint is exactly behind the last committed line of its
\* file: a restart from it neither skips nor repeats one.
CheckpointExact ==
  checkpoint # <<>> =>
    LinesOf(checkpoint.id, checkpoint.off) = DeliveredFrom(checkpoint.id)

\* A running source leaves a renamed file only when everything written to it
\* has been committed.
RotationDrains ==
  [][(at = "rotate" /\ identity' # identity) =>
       LinesOf(identity, Len(content[identity])) \subseteq Delivered]_vars

\* A line the application has finished is committed in the end, unless the
\* pipeline failed or its file was renamed and left while the agent was down.
EventuallyDelivered ==
  \A n \in 1..MaxLines :
    (path # NoFile /\ n \in LinesOf(path, Len(content[path]))) ~>
      (n \in Delivered \/ at = "failed" \/ n \notin Reachable)
=============================================================================
