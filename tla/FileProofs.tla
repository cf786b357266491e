----------------------------- MODULE FileProofs -----------------------------
(***************************************************************************)
(* Theorems about DurableFile, for any identities, batch size and bounds.  *)
(***************************************************************************)
EXTENDS DurableFile, DataLemmas

\* A record has at least the byte that ended it.
Rec == {m \in RawRecord : m.bytes # <<>>}
Places == {"down", "read", "eof", "send", "rotate", "failed"}

\* The files, and who has them open.
FilesTyped ==
  /\ path \in Identity \cup {NoFile} /\ exists \in SUBSET Identity /\ content \in [Identity -> Seq(Byte)]
  /\ writer \in Identity /\ half \in BOOLEAN /\ lines \in 0..MaxLines
  /\ budget \in [{"rename", "truncate", "delete", "fault"} -> Nat]
  /\ half => lines > 0
  /\ writer \in exists /\ (path # NoFile => path \in exists)

\* The source's fields, its goroutine and the pipeline's.
SourceTyped ==
  /\ at \in Places /\ identity \in Identity /\ position \in Nat /\ readOffset \in Nat
  /\ buf \in Seq(Byte) /\ pending \in Seq(Byte) /\ rotationSeen \in 0..2
  /\ hand \in RawRecord \cup {NoRecord} /\ entries \in Seq(Rec) /\ out \in Seq(Rec)
  /\ checkpoint \in [id : Identity, off : Nat] \cup {<<>>}
  /\ at \in {"read", "eof", "send"} => rotationSeen <= 1
  /\ at = "send" => hand \in Rec /\ hand.id = identity
  /\ at = "down" => entries = <<>> /\ rotationSeen = 0
  /\ at \in {"down", "eof", "rotate"} => buf = <<>>
  /\ at = "rotate" => pending = <<>>
  /\ position = readOffset + Len(buf)
  /\ \A k \in DOMAIN entries : entries[k].id = identity

\* A file the source has open exists.
ProcessInv == FilesTyped /\ SourceTyped /\ (at # "down" => identity \in exists)

-----------------------------------------------------------------------------
(* Bytes and records.                                                      *)

\* The constants, in the form the proofs use them.
LEMMA FileTyped ==
  /\ NoFile \notin Identity /\ BatchSize \in Nat \ {0} /\ LateWriter \in BOOLEAN
  /\ MaxLines \in Nat /\ MaxTruncations \in Nat /\ MaxDeletions \in Nat
BY FileAssumption

\* The elements of a concatenation.
LEMMA ConcatElements ==
  ASSUME NEW S, NEW s \in Seq(S), NEW t \in Seq(S)
  PROVE  /\ s \o t \in Seq(S) /\ Len(s \o t) = Len(s) + Len(t) /\ DOMAIN (s \o t) = 1..(Len(s) + Len(t))
         /\ \A k \in 1..Len(s) : (s \o t)[k] = s[k]
         /\ \A k \in 1..Len(t) : (s \o t)[Len(s) + k] = t[k]
         /\ \A k \in 1..(Len(s) + Len(t)) : k > Len(s) => k - Len(s) \in 1..Len(t) /\ (s \o t)[k] = t[k - Len(s)]
<1>1. Len(s) \in Nat /\ Len(t) \in Nat
  OBVIOUS
<1>2. /\ s \o t \in Seq(S) /\ Len(s \o t) = Len(s) + Len(t)
      /\ \A i \in 1..(Len(s) + Len(t)) : (s \o t)[i] = IF i <= Len(s) THEN s[i] ELSE t[i - Len(s)]
  BY ConcatProperties
<1>3. DOMAIN (s \o t) = 1..(Len(s) + Len(t))
  BY <1>2
<1>4. \A k \in 1..Len(s) : (s \o t)[k] = s[k]
  BY <1>1, <1>2
<1>5. \A k \in 1..Len(t) : (s \o t)[Len(s) + k] = t[k]
  <2>. TAKE k \in 1..Len(t)
  <2>1. Len(s) + k \in 1..(Len(s) + Len(t)) /\ ~(Len(s) + k <= Len(s)) /\ (Len(s) + k) - Len(s) = k
    BY <1>1
  <2>. QED BY <1>2, <2>1
<1>6. \A k \in 1..(Len(s) + Len(t)) : k > Len(s) => k - Len(s) \in 1..Len(t) /\ (s \o t)[k] = t[k - Len(s)]
  BY <1>1, <1>2
<1>. QED BY <1>2, <1>3, <1>4, <1>5, <1>6

\* The elements behind position p.
LEMMA RestElements ==
  ASSUME NEW S, NEW s \in Seq(S), NEW p \in Nat, p <= Len(s)
  PROVE  LET t == SubSeq(s, p + 1, Len(s))
         IN /\ t \in Seq(S) /\ Len(t) = Len(s) - p /\ DOMAIN t = 1..(Len(s) - p)
            /\ \A k \in 1..(Len(s) - p) : t[k] = s[p + k]
<1>. DEFINE t == SubSeq(s, p + 1, Len(s))
<1>1. Len(s) \in Nat /\ \A k \in (p + 1)..Len(s) : s[k] \in S
  OBVIOUS
<1>2. /\ t \in Seq(S)
      /\ Len(t) = IF p + 1 <= Len(s) THEN Len(s) - (p + 1) + 1 ELSE 0
      /\ \A i \in 1..(Len(s) - (p + 1) + 1) : t[i] = s[(p + 1) + i - 1]
  BY <1>1, SubSeqProperties
<1>. HIDE DEF t
<1>3. Len(t) = Len(s) - p
  BY <1>1, <1>2
<1>4. \A k \in 1..(Len(s) - p) : t[k] = s[p + k]
  <2>. TAKE k \in 1..(Len(s) - p)
  <2>1. k \in 1..(Len(s) - (p + 1) + 1) /\ (p + 1) + k - 1 = p + k
    BY <1>1
  <2>. QED BY <1>2, <2>1
<1>. QED BY <1>2, <1>3, <1>4 DEF t

\* The first n elements.
LEMMA FrontElements ==
  ASSUME NEW S, NEW s \in Seq(S), NEW n \in 0..Len(s)
  PROVE  /\ SubSeq(s, 1, n) \in Seq(S) /\ Len(SubSeq(s, 1, n)) = n
         /\ \A k \in 1..n : SubSeq(s, 1, n)[k] = s[k]
BY SubSeqProperties

\* ReadString takes the bytes up to the first newline.
LEMMA FirstNewline ==
  ASSUME buf \in Seq(Byte), Newlines # {}
  PROVE  LET n == CHOOSE i \in Newlines : \A j \in Newlines : i <= j
         IN n \in 1..Len(buf) /\ buf[n].nl /\ \A j \in 1..Len(buf) : buf[j].nl => n <= j
<1>1. Newlines \in SUBSET Nat
  BY DEF Newlines
<1>2. Min(Newlines) \in Newlines /\ \A y \in Newlines : Min(Newlines) <= y
  BY <1>1, MinIsLeast
<1>. DEFINE n == CHOOSE i \in Newlines : \A j \in Newlines : i <= j
<1>3. n \in Newlines /\ \A j \in Newlines : n <= j
  BY <1>2
<1>. HIDE DEF n
<1>4. n \in 1..Len(buf) /\ buf[n].nl /\ \A j \in 1..Len(buf) : buf[j].nl => n <= j
  BY <1>3 DEF Newlines
<1>. QED BY <1>4 DEF n

\* What ReadLine takes from the buffer, and what it leaves.
ReadsTo(n) ==
  /\ n \in 1..Len(buf) /\ buf[n].nl /\ \A j \in 1..Len(buf) : buf[j].nl => n <= j
  /\ hand' \in Rec /\ hand'.id = identity /\ hand'.end = readOffset + n /\ Last(hand'.bytes) = buf[n]
  /\ hand'.bytes = pending \o SubSeq(buf, 1, n)
  /\ readOffset' = readOffset + n
  /\ buf' \in Seq(Byte) /\ Len(buf') = Len(buf) - n /\ \A k \in 1..(Len(buf) - n) : buf'[k] = buf[n + k]

\* A line is read.
LEMMA ReadLineTakes ==
  ASSUME SourceTyped, ReadLine
  PROVE  \E n \in Nat : ReadsTo(n)
<1>. DEFINE n == CHOOSE i \in Newlines : \A j \in Newlines : i <= j
            front == SubSeq(buf, 1, n)
<1>0. buf \in Seq(Byte) /\ pending \in Seq(Byte) /\ identity \in Identity /\ readOffset \in Nat
  BY DEF SourceTyped
<1>1. n \in 1..Len(buf) /\ buf[n].nl /\ \A j \in 1..Len(buf) : buf[j].nl => n <= j
  BY <1>0, FirstNewline DEF ReadLine
<1>2. /\ hand' = [bytes |-> pending \o front, id |-> identity, end |-> readOffset + n]
      /\ readOffset' = readOffset + n /\ buf' = SubSeq(buf, n + 1, Len(buf))
  BY DEF ReadLine
<1>. HIDE DEF n
<1>3. front \in Seq(Byte) /\ Len(front) = n /\ front[n] = buf[n]
  BY <1>0, <1>1, FrontElements
<1>. HIDE DEF front
<1>4. /\ pending \o front \in Seq(Byte) /\ Len(pending \o front) = Len(pending) + n
      /\ (pending \o front)[Len(pending) + n] = buf[n]
  BY <1>0, <1>1, <1>3, ConcatElements
<1>5. pending \o front # <<>> /\ Last(pending \o front) = buf[n]
  BY <1>0, <1>1, <1>4 DEF Last
<1>6. readOffset + n \in Nat
  BY <1>0, <1>1
<1>7. hand' \in Rec /\ hand'.id = identity /\ hand'.end = readOffset + n /\ hand'.bytes = pending \o front
  BY <1>0, <1>2, <1>4, <1>5, <1>6 DEF Rec, RawRecord
<1>8. buf' \in Seq(Byte) /\ Len(buf') = Len(buf) - n /\ \A k \in 1..(Len(buf) - n) : buf'[k] = buf[n + k]
  BY <1>0, <1>1, <1>2, RestElements
<1>9. hand'.bytes = pending \o SubSeq(buf, 1, n) /\ Last(hand'.bytes) = buf[n]
  BY <1>5, <1>7 DEF front
<1>10. ReadsTo(n)
  BY <1>1, <1>2, <1>7, <1>8, <1>9 DEF ReadsTo
<1>11. n \in Nat
  BY <1>1
<1>. QED BY <1>10, <1>11

\* What Fill reads.
LEMMA FillReads ==
  ASSUME FilesTyped, SourceTyped, Fill
  PROVE  LET c == content[identity]
         IN /\ position \in Nat /\ c \in Seq(Byte) /\ position < Len(c) /\ position' = Len(c)
            /\ buf' \in Seq(Byte) /\ Len(buf') = Len(buf) + (Len(c) - position)
            /\ \A k \in 1..Len(buf) : buf'[k] = buf[k]
            /\ \A k \in 1..Len(buf') : k > Len(buf) =>
                 /\ position + (k - Len(buf)) \in 1..Len(c) /\ position + (k - Len(buf)) > position
                 /\ buf'[k] = c[position + (k - Len(buf))]
<1>. DEFINE c == content[identity]
            t == SubSeq(c, position + 1, Len(c))
<1>0. buf \in Seq(Byte) /\ c \in Seq(Byte) /\ position \in Nat /\ Len(c) \in Nat /\ Len(buf) \in Nat
  BY SMTT(30) DEF FilesTyped, SourceTyped
<1>1. position < Len(c) /\ position' = Len(c) /\ buf' = buf \o t
  BY DEF Fill
<1>. HIDE DEF c
<1>2. t \in Seq(Byte) /\ Len(t) = Len(c) - position /\ \A k \in 1..(Len(c) - position) : t[k] = c[position + k]
  BY <1>0, <1>1, RestElements
<1>. HIDE DEF t
<1>3. /\ buf' \in Seq(Byte) /\ Len(buf') = Len(buf) + Len(t)
      /\ \A k \in 1..Len(buf) : buf'[k] = buf[k]
      /\ \A k \in 1..(Len(buf) + Len(t)) : k > Len(buf) => k - Len(buf) \in 1..Len(t) /\ buf'[k] = t[k - Len(buf)]
  <2>1. /\ buf \o t \in Seq(Byte) /\ Len(buf \o t) = Len(buf) + Len(t)
        /\ \A k \in 1..Len(buf) : (buf \o t)[k] = buf[k]
        /\ \A k \in 1..(Len(buf) + Len(t)) : k > Len(buf) => k - Len(buf) \in 1..Len(t) /\ (buf \o t)[k] = t[k - Len(buf)]
    <3>1. buf \in Seq(Byte) /\ t \in Seq(Byte)
      BY <1>0, <1>2
    <3>. QED BY <3>1, ConcatElements, ZenonT(60)
  <2>. QED BY <1>1, <2>1, Zenon
<1>4. ASSUME NEW k \in 1..Len(buf'), k > Len(buf)
      PROVE  /\ position + (k - Len(buf)) \in 1..Len(c) /\ position + (k - Len(buf)) > position
             /\ buf'[k] = c[position + (k - Len(buf))]
  <2>1. k - Len(buf) \in 1..(Len(c) - position) /\ buf'[k] = t[k - Len(buf)]
    BY <1>2, <1>3, <1>4
  <2>2. t[k - Len(buf)] = c[position + (k - Len(buf))]
    BY <1>2, <2>1
  <2>. QED BY <1>0, <1>1, <2>1, <2>2
<1>. QED BY <1>0, <1>1, <1>2, <1>3, <1>4 DEF c

\* What WriteByte writes.
LEMMA WriteByteWrites ==
  ASSUME FilesTyped, WriteByte
  PROVE  LET b == [line |-> lines', nl |-> half]
         IN /\ b \in Byte /\ content' = [content EXCEPT ![writer] = Append(content[writer], b)]
            /\ content[writer] \in Seq(Byte) /\ content' \in [Identity -> Seq(Byte)]
            /\ lines' \in 0..MaxLines /\ lines' > 0 /\ half' = ~half /\ half' \in BOOLEAN
            /\ lines' = IF half THEN lines ELSE lines + 1
<1>0. /\ content \in [Identity -> Seq(Byte)] /\ writer \in Identity /\ lines \in 0..MaxLines /\ half \in BOOLEAN
      /\ MaxLines \in Nat
  BY FileTyped DEF FilesTyped
<1>1. lines' = (IF half THEN lines ELSE lines + 1) /\ lines' \in 1..MaxLines /\ half' = ~half
  BY <1>0 DEF WriteByte, FilesTyped
<1>2. [line |-> lines', nl |-> half] \in Byte
  BY <1>0, <1>1 DEF Byte
<1>3. content' = [content EXCEPT ![writer] = Append(content[writer], [line |-> lines', nl |-> half])]
  BY DEF WriteByte
<1>. QED BY <1>0, <1>1, <1>2, <1>3

\* Records are raw records.
LEMMA ProcessTyped == ProcessInv => TypeOK
<1>1. \A s \in Seq(Rec) : s \in Seq(RawRecord)
  <2>1. Rec \in SUBSET RawRecord
    BY DEF Rec
  <2>. QED BY <2>1
<1>. QED BY <1>1 DEF ProcessInv, FilesTyped, SourceTyped, TypeOK, Places

\* The first file is there and nothing has been read.
LEMMA ProcessInit == Init => ProcessInv
<1>. SUFFICES ASSUME Init PROVE ProcessInv
  OBVIOUS
<1>1. FilesTyped
  <2>1. 0 \in 0..MaxLines
    BY FileTyped
  <2>2. content \in [Identity -> Seq(Byte)]
    BY DEF Init
  <2>3. budget \in [{"rename", "truncate", "delete", "fault"} -> Nat]
    BY DEF Init
  <2>4. path \in Identity /\ writer \in Identity /\ exists \in SUBSET Identity /\ writer \in exists /\ path \in exists
    BY DEF Init
  <2>. QED BY <2>1, <2>2, <2>3, <2>4 DEF Init, FilesTyped
<1>2. SourceTyped
  BY DEF Init, SourceTyped, Places
<1>. QED BY <1>1, <1>2 DEF Init, ProcessInv

\* The application and logrotate.
LEMMA EnvironmentTyped ==
  ASSUME ProcessInv, Environment
  PROVE  ProcessInv'
<1>0. FilesTyped /\ SourceTyped /\ (at # "down" => identity \in exists) /\ NoFile \notin Identity
  BY FileTyped DEF ProcessInv
<1>1. UNCHANGED <<at, identity, position, buf, pending, readOffset, rotationSeen, hand, entries, checkpoint, out>>
  BY DEF Environment, WriteByte, Reopen, Rename, Create, CopyTruncate, Delete, readVars, spoolVars
<1>2. SourceTyped'
  BY <1>0, <1>1 DEF SourceTyped
<1>3. ASSUME NEW what \in {"rename", "truncate", "delete", "fault"}, NEW max, Spend(what, max)
      PROVE  budget' \in [{"rename", "truncate", "delete", "fault"} -> Nat]
  <2>1. budget[what] + 1 \in Nat
    BY <1>0, <1>3 DEF FilesTyped
  <2>. QED BY <1>0, <1>3, <2>1 DEF FilesTyped, Spend
<1>4. CASE WriteByte
  <2>1. /\ content' \in [Identity -> Seq(Byte)] /\ lines' \in 0..MaxLines /\ lines' > 0 /\ half' \in BOOLEAN
        /\ UNCHANGED <<path, exists, writer, budget>>
    BY <1>0, <1>4, WriteByteWrites DEF WriteByte
  <2>. QED BY <1>0, <1>1, <1>2, <2>1 DEF FilesTyped, ProcessInv
<1>5. CASE Reopen
  BY <1>0, <1>1, <1>2, <1>5 DEF Reopen, FilesTyped, ProcessInv
<1>6. CASE Rename
  <2>1. budget' \in [{"rename", "truncate", "delete", "fault"} -> Nat]
    BY <1>3, <1>6 DEF Rename
  <2>. QED BY <1>0, <1>1, <1>2, <1>6, <2>1 DEF Rename, FilesTyped, ProcessInv
<1>7. CASE CopyTruncate
  <2>1. budget' \in [{"rename", "truncate", "delete", "fault"} -> Nat]
    BY <1>3, <1>7 DEF CopyTruncate
  <2>2. content' \in [Identity -> Seq(Byte)]
    BY <1>0, <1>7 DEF CopyTruncate, FilesTyped
  <2>3. UNCHANGED <<path, exists, writer, half, lines>>
    BY <1>7 DEF CopyTruncate
  <2>. QED BY <1>0, <1>1, <1>2, <2>1, <2>2, <2>3 DEF FilesTyped, ProcessInv
<1>8. ASSUME NEW i \in Identity, Create(i)
      PROVE  ProcessInv'
  BY <1>0, <1>1, <1>2, <1>8 DEF Create, FilesTyped, ProcessInv
<1>9. ASSUME NEW i \in Identity, Delete(i)
      PROVE  ProcessInv'
  <2>1. budget' \in [{"rename", "truncate", "delete", "fault"} -> Nat]
    BY <1>3, <1>9 DEF Delete
  <2>2. content' \in [Identity -> Seq(Byte)]
    BY <1>0, <1>9 DEF Delete, FilesTyped
  <2>3. /\ UNCHANGED <<path, writer, half, lines>> /\ exists' = exists \ {i} /\ i \notin {path, writer}
        /\ at = "down" \/ i # identity
    BY <1>9 DEF Delete
  <2>. QED BY <1>0, <1>1, <1>2, <2>1, <2>2, <2>3 DEF FilesTyped, ProcessInv
<1>. QED BY <1>4, <1>5, <1>6, <1>7, <1>8, <1>9 DEF Environment

\* Start, NextRecord, the pipeline and the faults.
LEMMA SourceStepTyped ==
  ASSUME ProcessInv, Start \/ NextRecord \/ runPipeline \/ SpoolFails \/ Crash
  PROVE  ProcessInv'
<1>0. FilesTyped /\ SourceTyped /\ (at # "down" => identity \in exists) /\ NoFile \notin Identity
  BY FileTyped DEF ProcessInv
<1>00. <<>> \in Seq(Byte) /\ <<>> \in Seq(Rec) /\ Len(<<>>) = 0 /\ DOMAIN <<>> = {}
  OBVIOUS
<1>1. UNCHANGED <<path, exists, content, writer, half, lines>>
  BY DEF Start, NextRecord, ReadLine, Fill, ReadFragment, DetectFails, DetectRename, DetectSame,
         runPipeline, Receive, Flush, Rotate, RotateFails, SpoolFails, Crash, fileVars
<1>2. budget' \in [{"rename", "truncate", "delete", "fault"} -> Nat]
  <2>1. budget' = budget \/ Spend("fault", MaxFaults)
    BY DEF Start, NextRecord, ReadLine, Fill, ReadFragment, DetectFails, DetectRename, DetectSame,
           runPipeline, Receive, Flush, Rotate, RotateFails, SpoolFails, Crash
  <2>2. budget["fault"] + 1 \in Nat
    BY <1>0 DEF FilesTyped
  <2>. QED BY <1>0, <2>1, <2>2 DEF FilesTyped, Spend
<1>3. FilesTyped'
  BY <1>0, <1>1, <1>2 DEF FilesTyped
<1>4. CASE Start
  <2>1. path \in Identity /\ path \in exists
    BY <1>0, <1>4 DEF Start, FilesTyped
  <2>2. StartOffset(path) \in Nat
    BY <1>0 DEF StartOffset, SourceTyped
  <2>3. Checkpoint(path, StartOffset(path)) \in [id : Identity, off : Nat]
    BY <2>1, <2>2 DEF Checkpoint
  <2>. HIDE DEF StartOffset
  <2>4. /\ at' = "read" /\ identity' = path /\ position' = StartOffset(path) /\ readOffset' = StartOffset(path)
        /\ buf' = <<>> /\ pending' = <<>> /\ rotationSeen' = 0 /\ UNCHANGED <<hand, entries, out>>
        /\ checkpoint' = Checkpoint(path, StartOffset(path)) /\ entries = <<>>
    BY <1>0, <1>4 DEF Start, SeekTo, SourceTyped
  <2>5. SourceTyped'
    BY <1>0, <1>00, <2>1, <2>2, <2>3, <2>4 DEF SourceTyped, Places
  <2>. QED BY <1>1, <1>3, <2>1, <2>4, <2>5 DEF ProcessInv
<1>5. CASE Crash
  <2>1. /\ at' = "down" /\ identity' = identity /\ position' = 0 /\ readOffset' = 0 /\ buf' = <<>>
        /\ pending' = <<>> /\ rotationSeen' = 0 /\ hand' = NoRecord /\ entries' = <<>> /\ UNCHANGED <<checkpoint, out>>
    BY <1>5 DEF Crash, SeekTo, spoolVars
  <2>2. SourceTyped'
    BY <1>0, <1>00, <2>1 DEF SourceTyped, Places
  <2>. QED BY <1>3, <2>1, <2>2 DEF ProcessInv
<1>6. CASE ReadLine
  <2>1. PICK n \in Nat : ReadsTo(n)
    BY <1>0, <1>6, ReadLineTakes
  <2>2. /\ at = "read" /\ at' = "send" /\ pending' = <<>> /\ rotationSeen' = 0
        /\ UNCHANGED <<identity, position, entries, checkpoint, out>>
    BY <1>6 DEF ReadLine, spoolVars
  <2>3. position' = readOffset' + Len(buf') /\ readOffset' \in Nat
    <3>1. position = readOffset + Len(buf) /\ readOffset \in Nat /\ Len(buf) \in Nat
      BY <1>0 DEF SourceTyped
    <3>2. readOffset' = readOffset + n /\ Len(buf') = Len(buf) - n
      BY <2>1 DEF ReadsTo
    <3>. QED BY <2>2, <3>1, <3>2
  <2>4. buf' \in Seq(Byte) /\ hand' \in Rec /\ hand' \in RawRecord /\ hand'.id = identity'
    BY <2>1, <2>2 DEF ReadsTo, Rec
  <2>5. SourceTyped'
    BY <1>0, <1>00, <2>2, <2>3, <2>4 DEF SourceTyped, Places
  <2>. QED BY <1>0, <1>1, <1>3, <2>2, <2>5 DEF ProcessInv
<1>7. CASE Fill
  <2>1. /\ at = "read" /\ UNCHANGED <<at, identity, pending, readOffset, rotationSeen, hand, entries, checkpoint, out>>
    BY <1>7 DEF Fill, spoolVars
  <2>2. /\ position \in Nat /\ content[identity] \in Seq(Byte) /\ position < Len(content[identity])
        /\ position' = Len(content[identity]) /\ buf' \in Seq(Byte)
        /\ Len(buf') = Len(buf) + (Len(content[identity]) - position)
    BY <1>0, <1>7, FillReads
  <2>3. position' = readOffset' + Len(buf') /\ position' \in Nat
    <3>1. position = readOffset + Len(buf) /\ readOffset \in Nat /\ Len(buf) \in Nat /\ Len(content[identity]) \in Nat
      BY <1>0, <2>2 DEF SourceTyped
    <3>. QED BY <2>1, <2>2, <3>1
  <2>4. SourceTyped'
    BY <1>0, <2>1, <2>2, <2>3 DEF SourceTyped, Places
  <2>. QED BY <1>0, <1>1, <1>3, <2>1, <2>4 DEF ProcessInv
<1>8. CASE ReadFragment
  <2>1. /\ at = "read" /\ at' = "eof" /\ pending' = pending \o buf /\ readOffset' = readOffset + Len(buf)
        /\ buf' = <<>> /\ UNCHANGED <<identity, position, rotationSeen, hand, entries, checkpoint, out>>
    BY <1>8 DEF ReadFragment, spoolVars
  <2>2. pending' \in Seq(Byte)
    BY <1>0, <2>1 DEF SourceTyped
  <2>3. position' = readOffset' + 0 /\ readOffset' \in Nat
    BY <1>0, <2>1 DEF SourceTyped
  <2>4. SourceTyped'
    BY <1>0, <1>00, <2>1, <2>2, <2>3 DEF SourceTyped, Places
  <2>. QED BY <1>0, <1>1, <1>3, <2>1, <2>4 DEF ProcessInv
<1>9. CASE DetectFails \/ RotateFails
  <2>1. /\ at \in {"eof", "rotate"} /\ at' = "failed"
        /\ UNCHANGED <<identity, position, buf, pending, readOffset, rotationSeen, hand, entries, checkpoint, out>>
    BY <1>9 DEF DetectFails, RotateFails, readVars, spoolVars
  <2>2. SourceTyped'
    BY <1>0, <2>1 DEF SourceTyped, Places
  <2>. QED BY <1>0, <1>1, <1>3, <2>1, <2>2 DEF ProcessInv
<1>10. CASE DetectRename
  <2>1. /\ at = "eof" /\ pending = <<>> /\ rotationSeen' = rotationSeen + 1
        /\ at' = IF rotationSeen' >= 2 THEN "rotate" ELSE "read"
        /\ UNCHANGED <<identity, position, buf, pending, readOffset, hand, entries, checkpoint, out>>
    BY <1>10 DEF DetectRename, StableEOF, spoolVars
  <2>2. rotationSeen' \in 0..2 /\ (at' = "read" => rotationSeen' <= 1) /\ at' \in {"read", "rotate"}
    BY <1>0, <2>1 DEF SourceTyped
  <2>3. SourceTyped'
    BY <1>0, <2>1, <2>2 DEF SourceTyped, Places
  <2>. QED BY <1>0, <1>1, <1>3, <2>1, <2>3 DEF ProcessInv
<1>11. CASE DetectSame
  <2>1. /\ at = "eof" /\ at' = "read" /\ rotationSeen' = 0 /\ UNCHANGED <<identity, hand, entries, checkpoint, out>>
        /\ \/ UNCHANGED <<position, buf, pending, readOffset>>
           \/ position' = 0 /\ readOffset' = 0 /\ buf' = <<>> /\ pending' = <<>>
    BY <1>11 DEF DetectSame, SeekTo, spoolVars
  <2>4. SourceTyped'
    <3>1. CASE UNCHANGED <<position, buf, pending, readOffset>>
      BY <1>0, <2>1, <3>1 DEF SourceTyped, Places
    <3>2. CASE position' = 0 /\ readOffset' = 0 /\ buf' = <<>> /\ pending' = <<>>
      BY <1>0, <1>00, <2>1, <3>2 DEF SourceTyped, Places
    <3>. QED BY <2>1, <3>1, <3>2
  <2>. QED BY <1>0, <1>1, <1>3, <2>1, <2>4 DEF ProcessInv
<1>12. CASE Receive
  <2>1. /\ at = "send" /\ at' = "read" /\ entries' = Append(entries, hand) /\ hand' = NoRecord
        /\ UNCHANGED <<identity, position, buf, pending, readOffset, rotationSeen, checkpoint, out>>
    BY <1>12 DEF Receive, readVars, spoolVars
  <2>2. entries \in Seq(Rec) /\ hand \in Rec /\ hand.id = identity
    BY <1>0, <2>1 DEF SourceTyped
  <2>3. entries' \in Seq(Rec) /\ \A k \in DOMAIN entries' : entries'[k].id = identity
    <3>1. /\ Append(entries, hand) \in Seq(Rec) /\ DOMAIN Append(entries, hand) = 1..(Len(entries) + 1)
          /\ \A k \in 1..Len(entries) : Append(entries, hand)[k] = entries[k]
          /\ Append(entries, hand)[Len(entries) + 1] = hand
      BY <2>2, AppendProperties
    <3>2. Len(entries) \in Nat /\ \A k \in 1..Len(entries) : entries[k].id = identity
      BY <1>0, <2>2 DEF SourceTyped
    <3>3. \A k \in 1..(Len(entries) + 1) : k \in 1..Len(entries) \/ k = Len(entries) + 1
      BY <3>2
    <3>. QED BY <2>1, <2>2, <3>1, <3>2, <3>3
  <2>4. SourceTyped'
    BY <1>0, <2>1, <2>3 DEF SourceTyped, Places
  <2>. QED BY <1>0, <1>1, <1>3, <2>1, <2>4 DEF ProcessInv
<1>13. CASE Flush
  <2>1. /\ at # "down" /\ entries # <<>> /\ out' = out \o entries /\ entries' = <<>>
        /\ checkpoint' = Checkpoint(Last(entries).id, Last(entries).end)
        /\ UNCHANGED <<at, identity, position, buf, pending, readOffset, rotationSeen, hand>>
    BY <1>13 DEF Flush, readVars
  <2>2. entries \in Seq(Rec) /\ out \in Seq(Rec)
    BY <1>0 DEF SourceTyped
  <2>3. Last(entries) \in Rec
    BY <2>1, <2>2 DEF Last
  <2>4. checkpoint' \in [id : Identity, off : Nat]
    BY <2>1, <2>3 DEF Checkpoint, Rec, RawRecord
  <2>5. out' \in Seq(Rec)
    BY <2>1, <2>2
  <2>6. SourceTyped'
    BY <1>0, <1>00, <2>1, <2>4, <2>5 DEF SourceTyped, Places
  <2>. QED BY <1>0, <1>1, <1>3, <2>1, <2>6 DEF ProcessInv
<1>14. CASE SpoolFails
  <2>1. /\ at # "down" /\ at' = "failed" /\ entries' = <<>> /\ hand' = NoRecord
        /\ UNCHANGED <<identity, position, buf, pending, readOffset, rotationSeen, checkpoint, out>>
    BY <1>14 DEF SpoolFails, readVars, spoolVars
  <2>2. SourceTyped'
    BY <1>0, <1>00, <2>1 DEF SourceTyped, Places
  <2>. QED BY <1>0, <1>1, <1>3, <2>1, <2>2 DEF ProcessInv
<1>15. CASE Rotate
  <2>1. /\ at = "rotate" /\ entries = <<>> /\ path # NoFile /\ checkpoint' = Checkpoint(path, 0)
        /\ identity' = path /\ position' = 0 /\ readOffset' = 0 /\ buf' = <<>> /\ rotationSeen' = 0 /\ at' = "read"
        /\ UNCHANGED <<pending, hand, entries, out>>
    BY <1>15 DEF Rotate, SeekTo
  <2>2. path \in Identity /\ path \in exists
    BY <1>0, <2>1 DEF FilesTyped
  <2>3. checkpoint' \in [id : Identity, off : Nat]
    BY <2>1, <2>2 DEF Checkpoint
  <2>4. SourceTyped'
    BY <1>0, <1>00, <2>1, <2>2, <2>3 DEF SourceTyped, Places
  <2>. QED BY <1>1, <1>3, <2>1, <2>2, <2>4 DEF ProcessInv
<1>. QED BY <1>4, <1>5, <1>6, <1>7, <1>8, <1>9, <1>10, <1>11, <1>12, <1>13, <1>14, <1>15 DEF NextRecord, runPipeline

\* Every step keeps the source and the pipeline what they are.
LEMMA ProcessStep ==
  ASSUME ProcessInv, [Next]_vars
  PROVE  ProcessInv'
<1>1. CASE UNCHANGED vars
  BY <1>1, SMTT(30) DEF ProcessInv, FilesTyped, SourceTyped, vars, fileVars, readVars, spoolVars
<1>. QED BY <1>1, EnvironmentTyped, SourceStepTyped DEF Next

-----------------------------------------------------------------------------
(* No line twice: whatever is truncated, deleted or reused.                *)

\* The line a record ends; the lines of some records, and records in order.
Line(m) == Last(m.bytes).line
LinesIn(s) == {Line(s[k]) : k \in DOMAIN s}
Increasing(s) == \A j, k \in DOMAIN s : j < k => Line(s[j]) < Line(s[k])

\* The lines that end in some bytes, and bytes in which they end in order.
EndedIn(c) == {c[k].line : k \in {j \in DOMAIN c : c[j].nl}}
Ordered(c) == \A j, k \in DOMAIN c : c[j].nl /\ c[k].nl /\ j < k => c[j].line < c[k].line

\* Line n was read at offset e of a file that now has the bytes c: lines that
\* end behind e come after n, and all do if the file is shorter than that.
Behind(c, e, n) == \A k \in DOMAIN c : c[k].nl /\ (k > e \/ Len(c) < e) => c[k].line > n

\* A line that has ended.
Past(n) == n <= lines /\ (half => n < lines)

\* One application writes the lines in order, each once; a file at the path it
\* has not opened is empty.
FilesInv ==
  /\ \A i \in Identity \ exists : content[i] = <<>>
  /\ path \notin {NoFile, writer} => content[path] = <<>>
  /\ \A i \in Identity : Ordered(content[i]) /\ \A n \in EndedIn(content[i]) : Past(n)
  /\ \A i \in Identity \ {writer} : \A m \in EndedIn(content[i]), n \in EndedIn(content[writer]) : m < n

\* Lines that have been read: committed or received, at hand, buffered.
HandLines == IF at = "send" THEN {Line(hand)} ELSE {}
Taken == LinesIn(out) \cup LinesIn(entries) \cup HandLines
ReadSoFar == Taken \cup EndedIn(buf)

\* They are in order, and what the source has still to read comes after them.
StreamInv ==
  /\ \A n \in ReadSoFar : Past(n)
  /\ Increasing(out) /\ Increasing(entries) /\ Ordered(buf)
  /\ \A m \in LinesIn(out), n \in LinesIn(entries) : m < n
  /\ \A m \in LinesIn(out) \cup LinesIn(entries), n \in HandLines : m < n
  /\ \A m \in Taken, n \in EndedIn(buf) : m < n
  /\ at # "down" => \A n \in ReadSoFar : Behind(content[identity], position, n)
  /\ at # "down" /\ path \notin {NoFile, identity} => \A n \in ReadSoFar : Behind(content[path], 0, n)
  /\ \A k \in DOMAIN entries : Behind(content[identity], entries[k].end, Line(entries[k]))
  /\ at = "send" => Behind(content[identity], hand.end, Line(hand))
  /\ \A k \in DOMAIN buf : buf[k].nl => Behind(content[identity], readOffset + k, buf[k].line)

\* Wherever the agent starts again, what it reads comes after what is out.
RestartInv ==
  /\ checkpoint # <<>> => \A n \in LinesIn(out) : Behind(content[checkpoint.id], checkpoint.off, n)
  /\ path # NoFile /\ (checkpoint = <<>> \/ path # checkpoint.id) =>
       \A n \in LinesIn(out) : Behind(content[path], 0, n)

OrderInv == FilesInv /\ StreamInv /\ RestartInv

\* Nothing ends in an empty file or buffer.
LEMMA EmptyEnds ==
  /\ EndedIn(<<>>) = {} /\ Ordered(<<>>) /\ LinesIn(<<>>) = {} /\ Increasing(<<>>)
  /\ \A e, n : Behind(<<>>, e, n)
<1>1. DOMAIN <<>> = {}
  OBVIOUS
<1>. QED BY <1>1 DEF EndedIn, Ordered, LinesIn, Increasing, Behind

\* Lines are numbers.
LEMMA LineTyped ==
  /\ \A m \in Rec : Line(m) \in Nat
  /\ \A s \in Seq(Rec) : LinesIn(s) \in SUBSET Nat
  /\ \A c \in Seq(Byte) : EndedIn(c) \in SUBSET Nat
<1>0. MaxLines \in Nat
  BY FileTyped
<1>1. ASSUME NEW m \in Rec
      PROVE  Line(m) \in Nat
  <2>1. m.bytes \in Seq(Byte) /\ m.bytes # <<>>
    BY DEF Rec, RawRecord
  <2>2. Last(m.bytes) \in Byte
    BY <2>1 DEF Last
  <2>. QED BY <1>0, <2>2 DEF Line, Byte
<1>2. ASSUME NEW s \in Seq(Rec)
      PROVE  LinesIn(s) \in SUBSET Nat
  <2>1. \A k \in DOMAIN s : s[k] \in Rec
    OBVIOUS
  <2>. QED BY <1>1, <2>1 DEF LinesIn
<1>3. ASSUME NEW c \in Seq(Byte)
      PROVE  EndedIn(c) \in SUBSET Nat
  <2>1. \A k \in DOMAIN c : c[k] \in Byte
    OBVIOUS
  <2>. QED BY <1>0, <2>1 DEF EndedIn, Byte
<1>. QED BY <1>1, <1>2, <1>3

\* A byte is written at the end of a file.
LEMMA AppendByte ==
  ASSUME NEW c \in Seq(Byte), NEW b \in Byte
  PROVE  /\ EndedIn(Append(c, b)) = EndedIn(c) \cup (IF b.nl THEN {b.line} ELSE {})
         /\ Ordered(c) /\ (b.nl => \A n \in EndedIn(c) : n < b.line) => Ordered(Append(c, b))
         /\ \A n : \A e \in Nat : Behind(c, e, n) /\ (b.nl => b.line > n) => Behind(Append(c, b), e, n)
<1>. DEFINE d == Append(c, b)
            l == Len(c)
<1>0. l \in Nat /\ DOMAIN c = 1..l
  OBVIOUS
<1>1. DOMAIN d = 1..(l + 1) /\ Len(d) = l + 1 /\ d[l + 1] = b /\ \A k \in 1..l : d[k] = c[k]
  BY AppendProperties
<1>2. \A k \in 1..(l + 1) : k \in 1..l \/ k = l + 1
  BY <1>0
<1>3. \A k \in 1..l : k \in 1..(l + 1) /\ k < l + 1
  BY <1>0
<1>4. l + 1 \in 1..(l + 1)
  BY <1>0
<1>. HIDE DEF d, l
<1>5. EndedIn(d) = EndedIn(c) \cup (IF b.nl THEN {b.line} ELSE {})
  <2>1. ASSUME NEW n \in EndedIn(d)
        PROVE  n \in EndedIn(c) \cup (IF b.nl THEN {b.line} ELSE {})
    <3>1. PICK k \in 1..(l + 1) : d[k].nl /\ d[k].line = n
      BY <1>1 DEF EndedIn
    <3>. QED BY <1>0, <1>1, <1>2, <3>1 DEF EndedIn
  <2>2. ASSUME NEW n \in EndedIn(c)
        PROVE  n \in EndedIn(d)
    <3>1. PICK k \in 1..l : c[k].nl /\ c[k].line = n
      BY <1>0 DEF EndedIn
    <3>. QED BY <1>1, <1>3, <3>1 DEF EndedIn
  <2>3. b.nl => b.line \in EndedIn(d)
    BY <1>1, <1>4 DEF EndedIn
  <2>. QED BY <2>1, <2>2, <2>3
<1>6. ASSUME Ordered(c), b.nl => \A n \in EndedIn(c) : n < b.line
      PROVE  Ordered(d)
  <2>. SUFFICES ASSUME NEW j \in 1..(l + 1), NEW k \in 1..(l + 1), d[j].nl, d[k].nl, j < k
                PROVE  d[j].line < d[k].line
    BY <1>1 DEF Ordered
  <2>1. j \in 1..l
    BY <1>0
  <2>2. CASE k \in 1..l
    BY <1>0, <1>1, <1>6, <2>1, <2>2 DEF Ordered
  <2>3. CASE k = l + 1
    <3>1. c[j].line \in EndedIn(c)
      BY <1>0, <1>1, <2>1 DEF EndedIn
    <3>. QED BY <1>1, <1>6, <2>1, <2>3, <3>1
  <2>. QED BY <1>2, <2>2, <2>3
<1>7. ASSUME NEW e \in Nat, NEW n, Behind(c, e, n), b.nl => b.line > n
      PROVE  Behind(d, e, n)
  <2>. SUFFICES ASSUME NEW k \in 1..(l + 1), d[k].nl, k > e \/ l + 1 < e
                PROVE  d[k].line > n
    BY <1>1 DEF Behind
  <2>1. CASE k = l + 1
    BY <1>1, <1>7, <2>1
  <2>2. CASE k \in 1..l
    <3>1. k > e \/ l < e
      BY <1>0
    <3>. QED BY <1>0, <1>1, <1>7, <2>2, <3>1 DEF Behind, l
  <2>. QED BY <1>2, <2>1, <2>2
<1>. QED BY <1>5, <1>6, <1>7 DEF d

\* What comes after a line comes after the lines before it.
LEMMA BehindEarlier ==
  ASSUME NEW c \in Seq(Byte), NEW e \in Nat, NEW m \in Nat, NEW n \in Nat, m <= n, Behind(c, e, n)
  PROVE  Behind(c, e, m)
<1>1. \A k \in DOMAIN c : c[k].nl => c[k].line \in Nat
  BY LineTyped DEF EndedIn
<1>. QED BY <1>1 DEF Behind

\* A record is added to others.
LEMMA AppendRecord ==
  ASSUME NEW s \in Seq(Rec), NEW m \in Rec
  PROVE  /\ LinesIn(Append(s, m)) = LinesIn(s) \cup {Line(m)}
         /\ Increasing(s) /\ (\A n \in LinesIn(s) : n < Line(m)) => Increasing(Append(s, m))
<1>. DEFINE d == Append(s, m)
            l == Len(s)
<1>0. l \in Nat /\ DOMAIN s = 1..l
  OBVIOUS
<1>1. DOMAIN d = 1..(l + 1) /\ d[l + 1] = m /\ \A k \in 1..l : d[k] = s[k]
  BY AppendProperties
<1>2. \A k \in 1..(l + 1) : k \in 1..l \/ k = l + 1
  BY <1>0
<1>3. l + 1 \in 1..(l + 1) /\ \A k \in 1..l : k \in 1..(l + 1)
  BY <1>0
<1>. HIDE DEF d, l
<1>4. LinesIn(d) = LinesIn(s) \cup {Line(m)}
  <2>1. ASSUME NEW n \in LinesIn(d)
        PROVE  n \in LinesIn(s) \cup {Line(m)}
    <3>1. PICK k \in 1..(l + 1) : Line(d[k]) = n
      BY <1>1 DEF LinesIn
    <3>. QED BY <1>0, <1>1, <1>2, <3>1 DEF LinesIn
  <2>2. ASSUME NEW n \in LinesIn(s)
        PROVE  n \in LinesIn(d)
    <3>1. PICK k \in 1..l : Line(s[k]) = n
      BY <1>0 DEF LinesIn
    <3>. QED BY <1>1, <1>3, <3>1 DEF LinesIn
  <2>3. Line(m) \in LinesIn(d)
    BY <1>1, <1>3 DEF LinesIn
  <2>. QED BY <2>1, <2>2, <2>3
<1>5. ASSUME Increasing(s), \A n \in LinesIn(s) : n < Line(m)
      PROVE  Increasing(d)
  <2>. SUFFICES ASSUME NEW j \in 1..(l + 1), NEW k \in 1..(l + 1), j < k
                PROVE  Line(d[j]) < Line(d[k])
    BY <1>1 DEF Increasing
  <2>1. j \in 1..l
    BY <1>0
  <2>2. CASE k \in 1..l
    BY <1>0, <1>1, <1>5, <2>1, <2>2 DEF Increasing
  <2>3. CASE k = l + 1
    <3>1. Line(s[j]) \in LinesIn(s)
      BY <1>0, <2>1 DEF LinesIn
    <3>. QED BY <1>1, <1>5, <2>1, <2>3, <3>1
  <2>. QED BY <1>2, <2>2, <2>3
<1>. QED BY <1>4, <1>5 DEF d

\* Records are added to others in a batch.
LEMMA ConcatRecords ==
  ASSUME NEW s \in Seq(Rec), NEW t \in Seq(Rec)
  PROVE  /\ LinesIn(s \o t) = LinesIn(s) \cup LinesIn(t)
         /\ Increasing(s) /\ Increasing(t) /\ (\A m \in LinesIn(s), n \in LinesIn(t) : m < n) => Increasing(s \o t)
<1>. DEFINE d == s \o t
            a == Len(s)
            b == Len(t)
<1>0. a \in Nat /\ b \in Nat /\ DOMAIN s = 1..a /\ DOMAIN t = 1..b
  OBVIOUS
<1>1. /\ DOMAIN d = 1..(a + b)
      /\ \A k \in 1..a : d[k] = s[k]
      /\ \A k \in 1..b : d[a + k] = t[k]
      /\ \A k \in 1..(a + b) : k > a => k - a \in 1..b /\ d[k] = t[k - a]
  <2>1. s \in Seq(Rec) /\ t \in Seq(Rec)
    OBVIOUS
  <2>2. /\ DOMAIN (s \o t) = 1..(Len(s) + Len(t))
        /\ \A k \in 1..Len(s) : (s \o t)[k] = s[k]
        /\ \A k \in 1..Len(t) : (s \o t)[Len(s) + k] = t[k]
        /\ \A k \in 1..(Len(s) + Len(t)) : k > Len(s) => k - Len(s) \in 1..Len(t) /\ (s \o t)[k] = t[k - Len(s)]
    BY <2>1, ConcatElements
  <2>. QED BY <2>2
<1>2. /\ \A k \in 1..(a + b) : k \in 1..a \/ k > a
      /\ \A k \in 1..a : k \in 1..(a + b)
      /\ \A k \in 1..b : a + k \in 1..(a + b)
  BY <1>0
<1>. HIDE DEF d, a, b
<1>3. LinesIn(d) = LinesIn(s) \cup LinesIn(t)
  <2>1. ASSUME NEW n \in LinesIn(d)
        PROVE  n \in LinesIn(s) \cup LinesIn(t)
    <3>1. PICK k \in 1..(a + b) : Line(d[k]) = n
      BY <1>1 DEF LinesIn
    <3>2. CASE k \in 1..a
      BY <1>0, <1>1, <3>1, <3>2 DEF LinesIn
    <3>3. CASE k > a
      BY <1>0, <1>1, <3>1, <3>3 DEF LinesIn
    <3>. QED BY <1>2, <3>2, <3>3
  <2>2. ASSUME NEW n \in LinesIn(s)
        PROVE  n \in LinesIn(d)
    <3>1. PICK k \in 1..a : Line(s[k]) = n
      BY <1>0 DEF LinesIn
    <3>. QED BY <1>1, <1>2, <3>1 DEF LinesIn
  <2>3. ASSUME NEW n \in LinesIn(t)
        PROVE  n \in LinesIn(d)
    <3>1. PICK k \in 1..b : Line(t[k]) = n
      BY <1>0 DEF LinesIn
    <3>. QED BY <1>1, <1>2, <3>1 DEF LinesIn
  <2>. QED BY <2>1, <2>2, <2>3
<1>4. ASSUME Increasing(s), Increasing(t), \A m \in LinesIn(s), n \in LinesIn(t) : m < n
      PROVE  Increasing(d)
  <2>. SUFFICES ASSUME NEW j \in 1..(a + b), NEW k \in 1..(a + b), j < k
                PROVE  Line(d[j]) < Line(d[k])
    BY <1>1 DEF Increasing
  <2>1. CASE k \in 1..a
    <3>1. j \in 1..a
      BY <1>0, <2>1
    <3>. QED BY <1>0, <1>1, <1>4, <2>1, <3>1 DEF Increasing
  <2>2. CASE j > a
    <3>1. k > a /\ j - a \in 1..b /\ k - a \in 1..b /\ j - a < k - a
      BY <1>0, <1>1, <2>2
    <3>2. d[j] = t[j - a] /\ d[k] = t[k - a]
      BY <1>1, <2>2, <3>1
    <3>. QED BY <1>0, <1>4, <3>1, <3>2 DEF Increasing
  <2>3. CASE j \in 1..a /\ k > a
    <3>1. d[j] = s[j] /\ d[k] = t[k - a] /\ k - a \in 1..b
      BY <1>1, <2>3
    <3>2. Line(s[j]) \in LinesIn(s) /\ Line(t[k - a]) \in LinesIn(t)
      BY <1>0, <2>3, <3>1 DEF LinesIn
    <3>. QED BY <1>4, <3>1, <3>2
  <2>. QED BY <1>2, <2>1, <2>2, <2>3
<1>. QED BY <1>3, <1>4 DEF d

\* What the application and logrotate do to a file: nothing, empty it, or
\* write the next byte to it.
LEMMA FileChanges ==
  ASSUME ProcessInv, FilesInv, Environment, NEW i \in Identity
  PROVE  /\ content[i] \in Seq(Byte)
         /\ \/ content'[i] = content[i]
            \/ content'[i] = <<>>
            \/ /\ WriteByte /\ i = writer
               /\ \E b \in Byte : /\ content'[i] = Append(content[i], b) /\ b.nl = half /\ b.line = lines'
                                  /\ b.nl => b.line = lines
<1>0. FilesTyped
  BY DEF ProcessInv
<1>1. content \in [Identity -> Seq(Byte)] /\ writer \in Identity /\ path \in Identity \cup {NoFile}
  BY <1>0 DEF FilesTyped
<1>2. CASE WriteByte
  <2>. DEFINE b == [line |-> lines', nl |-> half]
  <2>1. b \in Byte /\ content' = [content EXCEPT ![writer] = Append(content[writer], b)] /\ (half => lines' = lines)
    BY <1>0, <1>2, WriteByteWrites
  <2>2. b.nl = half /\ b.line = lines'
    OBVIOUS
  <2>. HIDE DEF b
  <2>3. CASE i = writer
    BY <1>1, <1>2, <2>1, <2>2, <2>3
  <2>4. CASE i # writer
    BY <1>1, <2>1, <2>4
  <2>. QED BY <2>3, <2>4
<1>3. CASE CopyTruncate
  BY <1>1, <1>3 DEF CopyTruncate
<1>4. CASE \E j \in Identity : Delete(j)
  BY <1>1, <1>4 DEF Delete
<1>5. CASE Reopen \/ Rename \/ \E j \in Identity : Create(j)
  BY <1>1, <1>5 DEF Reopen, Rename, Create
<1>. QED BY <1>2, <1>3, <1>4, <1>5 DEF Environment

\* Lines read stay before what their file has behind them, whatever happens
\* to it: what is written has a new line.
LEMMA BehindKept ==
  ASSUME ProcessInv, FilesInv, Environment, NEW i \in Identity, NEW e \in Nat, NEW n \in Nat, Past(n),
         Behind(content[i], e, n)
  PROVE  Behind(content'[i], e, n)
<1>0. lines \in Nat
  BY FileTyped DEF ProcessInv, FilesTyped
<1>1. content[i] \in Seq(Byte)
  BY FileChanges
<1>2. CASE content'[i] = content[i] \/ content'[i] = <<>>
  BY <1>2, EmptyEnds
<1>3. ASSUME NEW b \in Byte, content'[i] = Append(content[i], b), b.nl = half, b.nl => b.line = lines
      PROVE  Behind(content'[i], e, n)
  <2>1. b.nl => b.line > n
    BY <1>0, <1>3 DEF Past
  <2>. QED BY <1>1, <1>3, <2>1, AppendByte
<1>. QED BY <1>2, <1>3, FileChanges

\* A line that has ended stays ended.
LEMMA PastKept ==
  ASSUME ProcessInv, Environment, NEW n \in Nat, Past(n)
  PROVE  Past(n)'
<1>0. lines \in Nat /\ half \in BOOLEAN
  BY FileTyped DEF ProcessInv, FilesTyped
<1>1. CASE WriteByte
  <2>1. half' = ~half /\ lines' = IF half THEN lines ELSE lines + 1
    BY <1>1, WriteByteWrites DEF ProcessInv
  <2>. QED BY <1>0, <2>1 DEF Past
<1>2. CASE UNCHANGED <<lines, half>>
  BY <1>2 DEF Past
<1>. QED BY <1>1, <1>2 DEF Environment, Reopen, Rename, Create, CopyTruncate, Delete

\* The application writes in order, whatever logrotate does.
LEMMA FilesStep ==
  ASSUME ProcessInv, FilesInv, Environment
  PROVE  FilesInv'
<1>0. FilesTyped
  BY DEF ProcessInv
<1>00. /\ content \in [Identity -> Seq(Byte)] /\ writer \in Identity /\ lines \in Nat /\ half \in BOOLEAN
       /\ writer \in exists /\ path \in Identity \cup {NoFile} /\ exists \in SUBSET Identity /\ NoFile \notin Identity
       /\ path # NoFile => path \in exists
  BY <1>0, FileTyped DEF FilesTyped
<1>1. \A i \in Identity : EndedIn(content[i]) \in SUBSET Nat
  BY <1>00, LineTyped
<1>2. CASE WriteByte
  <2>. DEFINE b == [line |-> lines', nl |-> half]
              c == content[writer]
  <2>1. /\ b \in Byte /\ content' = [content EXCEPT ![writer] = Append(c, b)] /\ (half => lines' = lines)
        /\ c \in Seq(Byte)
    BY <1>0, <1>2, WriteByteWrites
  <2>2. b.nl = half /\ b.line = lines'
    OBVIOUS
  <2>. HIDE DEF b, c
  <2>3. content'[writer] = Append(c, b) /\ \A i \in Identity : i # writer => content'[i] = content[i]
    BY <1>00, <2>1
  <2>4. UNCHANGED <<path, exists, writer>>
    BY <1>2 DEF WriteByte
  <2>5. \A i \in Identity : \A n \in EndedIn(content[i]) : b.nl => n < b.line
    BY <1>00, <1>1, <2>1, <2>2 DEF FilesInv, Past
  <2>6. EndedIn(Append(c, b)) = EndedIn(c) \cup (IF b.nl THEN {b.line} ELSE {})
    BY <2>1, AppendByte
  <2>7. Ordered(Append(c, b))
    BY <1>00, <2>1, <2>5, AppendByte DEF FilesInv, c
  <2>8. b.nl => b.line <= lines' /\ ~half'
    <3>1. half => half' = FALSE
      BY <1>2, <1>00 DEF WriteByte
    <3>. QED BY <1>00, <2>1, <2>2, <3>1
  <2>9. ASSUME NEW i \in Identity
        PROVE  Ordered(content'[i]) /\ \A n \in EndedIn(content'[i]) : Past(n)'
    <3>1. \A n \in EndedIn(content[i]) : Past(n)'
      <4>. TAKE n \in EndedIn(content[i])
      <4>1. n \in Nat /\ Past(n)
        BY <1>1 DEF FilesInv
      <4>. QED BY <1>2, <4>1, PastKept DEF Environment
    <3>2. CASE i = writer
      <4>1. \A n \in EndedIn(Append(c, b)) : n \in EndedIn(content[i]) \/ (b.nl /\ n = b.line)
        BY <2>6, <3>2 DEF c
      <4>2. \A n \in EndedIn(Append(c, b)) : n <= lines' /\ (half' => n < lines')
        BY <2>8, <3>1, <4>1 DEF Past
      <4>. QED BY <2>3, <2>7, <3>2, <4>2 DEF Past
    <3>3. CASE i # writer
      BY <2>3, <3>1, <3>3 DEF FilesInv
    <3>. QED BY <3>2, <3>3
  <2>10. ASSUME NEW i \in Identity \ {writer}, NEW m \in EndedIn(content[i]), NEW n \in EndedIn(content'[writer])
         PROVE  m < n
    <3>1. CASE n \in EndedIn(c)
      BY <3>1 DEF FilesInv, c
    <3>2. CASE b.nl /\ n = b.line
      BY <2>5, <3>2
    <3>. QED BY <2>3, <2>6, <3>1, <3>2
  <2>11. \A i \in Identity \ exists : content'[i] = <<>>
    BY <1>00, <2>3 DEF FilesInv
  <2>12. path \notin {NoFile, writer} => content'[path] = <<>>
    BY <1>00, <2>3 DEF FilesInv
  <2>. QED BY <2>3, <2>4, <2>9, <2>10, <2>11, <2>12 DEF FilesInv
<1>3. CASE Reopen
  <2>1. path # NoFile /\ writer # path /\ writer' = path /\ UNCHANGED <<path, exists, content, half, lines>>
    BY <1>3 DEF Reopen
  <2>2. content[path] = <<>> /\ EndedIn(content[path]) = {}
    BY <2>1, EmptyEnds DEF FilesInv
  <2>3. \A n : Past(n)' <=> Past(n)
    BY <2>1 DEF Past
  <2>. QED BY <2>1, <2>2, <2>3 DEF FilesInv
<1>4. ASSUME UNCHANGED <<writer, half, lines>>, exists' = exists \/ (\E j \in Identity : exists' = exists \cup {j}) \/ (\E j \in Identity : content'[j] = <<>> /\ exists' = exists \ {j}),
             \A i \in Identity : content'[i] = content[i] \/ content'[i] = <<>>,
             path' \notin {NoFile, writer} => content'[path'] = <<>>
      PROVE  FilesInv'
  <2>1. \A n : Past(n)' <=> Past(n)
    BY <1>4 DEF Past
  <2>2. \A i \in Identity : Ordered(content'[i]) /\ EndedIn(content'[i]) \in SUBSET EndedIn(content[i])
    BY <1>4, EmptyEnds DEF FilesInv
  <2>3. \A i \in Identity \ exists' : content'[i] = <<>>
    BY <1>4 DEF FilesInv
  <2>. QED BY <1>00, <1>4, <2>1, <2>2, <2>3 DEF FilesInv
<1>5. CASE Rename
  BY <1>4, <1>5 DEF Rename
<1>6. ASSUME NEW j \in Identity, Create(j)
      PROVE  FilesInv'
  <2>1. content[j] = <<>>
    BY <1>6 DEF Create, FilesInv
  <2>2. UNCHANGED <<writer, half, lines, content>> /\ exists' = exists \cup {j} /\ path' = j
    BY <1>6 DEF Create
  <2>. QED BY <1>4, <2>1, <2>2
<1>7. CASE CopyTruncate
  <2>1. path # NoFile /\ content' = [content EXCEPT ![path] = <<>>] /\ UNCHANGED <<path, exists, writer, half, lines>>
    BY <1>7 DEF CopyTruncate
  <2>2. \A i \in Identity : content'[i] = content[i] \/ content'[i] = <<>>
    BY <1>00, <2>1
  <2>3. content'[path] = <<>>
    BY <1>00, <2>1
  <2>. QED BY <1>4, <2>1, <2>2, <2>3
<1>8. ASSUME NEW j \in Identity, Delete(j)
      PROVE  FilesInv'
  <2>1. j # path /\ content' = [content EXCEPT ![j] = <<>>] /\ exists' = exists \ {j} /\ UNCHANGED <<path, writer, half, lines>>
    BY <1>8 DEF Delete
  <2>2. content'[j] = <<>> /\ \A i \in Identity : content'[i] = content[i] \/ content'[i] = <<>>
    BY <1>00, <2>1
  <2>3. path' \notin {NoFile, writer} => content'[path'] = <<>>
    BY <1>00, <2>1 DEF FilesInv
  <2>. QED BY <1>4, <2>1, <2>2, <2>3
<1>. QED BY <1>2, <1>3, <1>5, <1>6, <1>7, <1>8 DEF Environment

\* Lines read are numbers, and offsets are.
LEMMA ReadTyped ==
  ASSUME ProcessInv
  PROVE  /\ LinesIn(out) \in SUBSET Nat /\ LinesIn(entries) \in SUBSET Nat /\ HandLines \in SUBSET Nat
         /\ EndedIn(buf) \in SUBSET Nat /\ ReadSoFar \in SUBSET Nat
         /\ \A k \in DOMAIN entries : entries[k].end \in Nat /\ Line(entries[k]) \in LinesIn(entries)
         /\ at = "send" => hand.end \in Nat /\ Line(hand) \in HandLines
         /\ \A k \in DOMAIN buf : readOffset + k \in Nat /\ (buf[k].nl => buf[k].line \in EndedIn(buf))
<1>0. SourceTyped
  BY DEF ProcessInv
<1>1. /\ out \in Seq(Rec) /\ entries \in Seq(Rec) /\ buf \in Seq(Byte) /\ readOffset \in Nat
      /\ at = "send" => hand \in Rec
  BY <1>0 DEF SourceTyped
<1>2. LinesIn(out) \in SUBSET Nat /\ LinesIn(entries) \in SUBSET Nat /\ EndedIn(buf) \in SUBSET Nat /\ HandLines \in SUBSET Nat
  BY <1>1, LineTyped DEF HandLines
<1>3. \A m \in Rec : m.end \in Nat
  BY DEF Rec, RawRecord
<1>4. \A k \in DOMAIN entries : entries[k].end \in Nat /\ Line(entries[k]) \in LinesIn(entries)
  <2>1. \A k \in DOMAIN entries : entries[k] \in Rec
    BY <1>1
  <2>. QED BY <1>3, <2>1 DEF LinesIn
<1>5. \A k \in DOMAIN buf : readOffset + k \in Nat /\ (buf[k].nl => buf[k].line \in EndedIn(buf))
  BY <1>1 DEF EndedIn
<1>. QED BY <1>1, <1>2, <1>3, <1>4, <1>5 DEF HandLines, ReadSoFar, Taken

\* What the application and logrotate do leaves what is read in order.
LEMMA EnvironmentOrder ==
  ASSUME ProcessInv, OrderInv, Environment
  PROVE  OrderInv'
<1>0. FilesInv /\ StreamInv /\ RestartInv /\ FilesTyped /\ SourceTyped
  BY DEF OrderInv, ProcessInv
<1>1. UNCHANGED <<at, identity, position, buf, pending, readOffset, rotationSeen, hand, entries, checkpoint, out>>
  BY DEF Environment, WriteByte, Reopen, Rename, Create, CopyTruncate, Delete, readVars, spoolVars
<1>2. /\ HandLines' = HandLines /\ Taken' = Taken /\ ReadSoFar' = ReadSoFar
      /\ \A n \in LinesIn(out) \cup LinesIn(entries) \cup HandLines \cup EndedIn(buf) : n \in ReadSoFar /\ n \in Nat
      /\ ReadSoFar \in SUBSET Nat
  BY <1>1, ReadTyped DEF HandLines, Taken, ReadSoFar
<1>3. \A n \in ReadSoFar : Past(n)
  BY <1>0 DEF StreamInv
<1>4. ASSUME NEW i \in Identity, NEW e \in Nat, NEW n \in ReadSoFar, Behind(content[i], e, n)
      PROVE  Behind(content'[i], e, n)
  BY <1>0, <1>2, <1>3, <1>4, BehindKept
<1>5. identity \in Identity /\ position \in Nat /\ path \in Identity \cup {NoFile} /\ NoFile \notin Identity
  BY <1>0, FileTyped DEF FilesTyped, SourceTyped
<1>6. \A n \in ReadSoFar : Past(n)'
  BY <1>2, <1>3, PastKept
<1>7. \/ path' = path \/ path' = NoFile
      \/ path' \in Identity /\ content'[path'] = <<>>
  BY <1>0 DEF Environment, WriteByte, Reopen, Rename, Create, CopyTruncate, Delete, FilesInv
<1>8. StreamInv'
  <2>1. at # "down" => \A n \in ReadSoFar : Behind(content'[identity], position, n)
    BY <1>0, <1>4, <1>5 DEF StreamInv
  <2>2. at # "down" /\ path' \notin {NoFile, identity} => \A n \in ReadSoFar : Behind(content'[path'], 0, n)
    <3>1. CASE path' = path /\ path # NoFile
      BY <1>0, <1>4, <1>5, <3>1 DEF StreamInv
    <3>2. CASE content'[path'] = <<>>
      BY <3>2, EmptyEnds
    <3>. QED BY <1>7, <3>1, <3>2
  <2>3. \A k \in DOMAIN entries : Behind(content'[identity], entries[k].end, Line(entries[k]))
    BY <1>0, <1>2, <1>4, <1>5, ReadTyped DEF StreamInv
  <2>4. at = "send" => Behind(content'[identity], hand.end, Line(hand))
    BY <1>0, <1>2, <1>4, <1>5, ReadTyped DEF StreamInv
  <2>5. \A k \in DOMAIN buf : buf[k].nl => Behind(content'[identity], readOffset + k, buf[k].line)
    BY <1>0, <1>2, <1>4, <1>5, ReadTyped DEF StreamInv
  <2>. QED BY <1>0, <1>1, <1>2, <1>6, <2>1, <2>2, <2>3, <2>4, <2>5 DEF StreamInv
<1>9. RestartInv'
  <2>1. checkpoint # <<>> => checkpoint.id \in Identity /\ checkpoint.off \in Nat
    BY <1>0 DEF SourceTyped
  <2>2. checkpoint # <<>> => \A n \in LinesIn(out) : Behind(content'[checkpoint.id], checkpoint.off, n)
    BY <1>0, <1>2, <1>4, <2>1 DEF RestartInv
  <2>3. path' # NoFile /\ (checkpoint = <<>> \/ path' # checkpoint.id) => \A n \in LinesIn(out) : Behind(content'[path'], 0, n)
    <3>1. CASE path' = path /\ path # NoFile
      BY <1>0, <1>2, <1>4, <1>5, <3>1 DEF RestartInv
    <3>2. CASE content'[path'] = <<>>
      BY <3>2, EmptyEnds
    <3>. QED BY <1>7, <3>1, <3>2
  <2>. QED BY <1>1, <2>2, <2>3 DEF RestartInv
<1>10. FilesInv'
  BY <1>0, FilesStep
<1>. QED BY <1>8, <1>9, <1>10 DEF OrderInv

\* Fill: the bytes behind the ones read, in the order of the file.
LEMMA FillOrder ==
  ASSUME ProcessInv, OrderInv, Fill
  PROVE  StreamInv'
<1>. DEFINE c == content[identity]
<1>0. FilesInv /\ StreamInv /\ FilesTyped /\ SourceTyped
  BY DEF OrderInv, ProcessInv
<1>1. at = "read" /\ UNCHANGED <<at, identity, readOffset, hand, entries, out, path, content, lines, half>>
  BY DEF Fill, fileVars, spoolVars
<1>2. /\ position \in Nat /\ c \in Seq(Byte) /\ position < Len(c) /\ position' = Len(c)
      /\ buf' \in Seq(Byte) /\ Len(buf') = Len(buf) + (Len(c) - position)
      /\ \A k \in 1..Len(buf) : buf'[k] = buf[k]
      /\ \A k \in 1..Len(buf') : k > Len(buf) =>
           /\ position + (k - Len(buf)) \in 1..Len(c) /\ position + (k - Len(buf)) > position
           /\ buf'[k] = c[position + (k - Len(buf))]
  BY <1>0, FillReads
<1>3. /\ identity \in Identity /\ buf \in Seq(Byte) /\ position = readOffset + Len(buf) /\ readOffset \in Nat
      /\ Len(buf) \in Nat /\ Len(c) \in Nat
  BY <1>0, <1>2 DEF SourceTyped
<1>4. HandLines' = HandLines /\ Taken' = Taken /\ ReadSoFar \in SUBSET Nat /\ EndedIn(buf') \in SUBSET Nat
  BY <1>1, <1>2, ReadTyped, LineTyped DEF HandLines, Taken
<1>5. /\ Ordered(c) /\ (\A n \in EndedIn(c) : Past(n)) /\ (\A n \in ReadSoFar : Behind(c, position, n))
      /\ EndedIn(c) \in SUBSET Nat
  BY <1>0, <1>1, <1>2, <1>3, LineTyped DEF FilesInv, StreamInv
<1>51. \A k \in DOMAIN buf : buf[k].nl => Behind(c, readOffset + k, buf[k].line)
  BY <1>0 DEF StreamInv
<1>. HIDE DEF c
\* a line of the new bytes
<1>6. ASSUME NEW k \in 1..Len(buf'), k > Len(buf), buf'[k].nl
      PROVE  /\ buf'[k].line \in EndedIn(c)
             /\ \A n \in ReadSoFar : n < buf'[k].line
             /\ Behind(c, readOffset + k, buf'[k].line)
             /\ \A j \in 1..Len(buf') : j > k /\ buf'[j].nl => buf'[k].line < buf'[j].line
  <2>. DEFINE p == position + (k - Len(buf))
  <2>1. p \in 1..Len(c) /\ p > position /\ buf'[k] = c[p] /\ p = readOffset + k
    BY <1>2, <1>3, <1>6, SMTT(30)
  <2>. HIDE DEF p
  <2>2. buf'[k].line \in EndedIn(c)
    BY <1>2, <1>6, <2>1, SMTT(30) DEF EndedIn
  <2>3. \A n \in ReadSoFar : n < buf'[k].line
    BY <1>2, <1>4, <1>5, <1>6, <2>1, <2>2, SMTT(30) DEF Behind
  <2>4. Behind(c, p, c[p].line)
    <3>. SUFFICES ASSUME NEW q \in DOMAIN c, c[q].nl, q > p \/ Len(c) < p
                  PROVE  c[q].line > c[p].line
      BY DEF Behind
    <3>1. q \in 1..Len(c) /\ p < q
      BY <1>2, <1>3, <2>1
    <3>2. c[p].line < c[q].line
      BY <1>2, <1>5, <1>6, <2>1, <3>1, SMTT(30) DEF Ordered
    <3>3. c[q].line \in Nat /\ c[p].line \in Nat
      BY <1>2, <1>5, <1>6, <2>1, <3>1, SMTT(30) DEF EndedIn
    <3>. QED BY <3>2, <3>3
  <2>5. ASSUME NEW j \in 1..Len(buf'), j > k, buf'[j].nl
        PROVE  buf'[k].line < buf'[j].line
    <3>0. j > Len(buf) /\ p < position + (j - Len(buf))
      BY <1>2, <1>3, <1>6, <2>5, SMTT(30) DEF p
    <3>1. position + (j - Len(buf)) \in 1..Len(c) /\ buf'[j] = c[position + (j - Len(buf))] /\ p < position + (j - Len(buf))
      BY <1>2, <3>0, SMTT(30)
    <3>. DEFINE q == position + (j - Len(buf))
    <3>2. q \in DOMAIN c /\ p \in DOMAIN c /\ p < q /\ c[p].nl /\ c[q].nl /\ buf'[k] = c[p] /\ buf'[j] = c[q]
      BY <1>2, <1>6, <2>1, <2>5, <3>1, SMTT(30)
    <3>. HIDE DEF q
    <3>3. c[p].line < c[q].line
      BY <1>5, <3>2 DEF Ordered
    <3>. QED BY <3>2, <3>3
  <2>. QED BY <2>1, <2>2, <2>3, <2>4, <2>5
<1>7. \A k \in 1..Len(buf') : k \in 1..Len(buf) \/ k > Len(buf)
  BY <1>3
<1>8. ASSUME NEW n \in EndedIn(buf')
      PROVE  n \in EndedIn(buf) \/ (n \in EndedIn(c) /\ \A m \in ReadSoFar : m < n)
  <2>1. PICK k \in 1..Len(buf') : buf'[k].nl /\ buf'[k].line = n
    BY <1>2 DEF EndedIn
  <2>2. CASE k \in 1..Len(buf)
    BY <1>2, <1>3, <2>1, <2>2, SMTT(30) DEF EndedIn
  <2>3. CASE k > Len(buf)
    BY <1>6, <2>1, <2>3
  <2>. QED BY <1>7, <2>2, <2>3
<1>9. ReadSoFar' \in SUBSET (ReadSoFar \cup EndedIn(c))
  BY <1>4, <1>8 DEF ReadSoFar
<1>10. \A n \in ReadSoFar' : Past(n)'
  BY <1>0, <1>1, <1>5, <1>9 DEF StreamInv, Past
<1>11. Ordered(buf')
  <2>. SUFFICES ASSUME NEW j \in 1..Len(buf'), NEW k \in 1..Len(buf'), buf'[j].nl, buf'[k].nl, j < k
                PROVE  buf'[j].line < buf'[k].line
    BY <1>2, SMTT(30) DEF Ordered
  <2>1. CASE k \in 1..Len(buf)
    <3>1. j \in 1..Len(buf)
      BY <1>3, <2>1
    <3>2. /\ j \in DOMAIN buf /\ k \in DOMAIN buf /\ buf[j].nl /\ buf[k].nl
          /\ buf'[j] = buf[j] /\ buf'[k] = buf[k]
      BY <1>2, <1>3, <2>1, <3>1, SMTT(30)
    <3>3. Ordered(buf)
      BY <1>0 DEF StreamInv
    <3>4. buf[j].line < buf[k].line
      BY <3>2, <3>3 DEF Ordered
    <3>. QED BY <3>2, <3>4
  <2>2. CASE j > Len(buf)
    BY <1>3, <1>6, <2>2
  <2>3. CASE k > Len(buf) /\ j \in 1..Len(buf)
    <3>1. buf'[j].line \in EndedIn(buf)
      BY <1>2, <1>3, <2>3, SMTT(30) DEF EndedIn
    <3>. QED BY <1>6, <2>3, <3>1 DEF ReadSoFar
  <2>. QED BY <1>7, <2>1, <2>2, <2>3
<1>12. \A m \in Taken', n \in EndedIn(buf') : m < n
  BY <1>0, <1>4, <1>8 DEF StreamInv, ReadSoFar
<1>13. \A n : Behind(c, position', n)
  BY <1>2, <1>3, SMTT(30) DEF Behind
<1>14. ASSUME path \notin {NoFile, identity}, NEW n \in ReadSoFar'
       PROVE  Behind(content[path], 0, n)
  <2>1. CASE n \in ReadSoFar
    BY <1>0, <1>1, <1>14, <2>1 DEF StreamInv
  <2>2. CASE n \in EndedIn(c)
    <3>0. path \in Identity /\ content[path] \in Seq(Byte) /\ content[writer] \in Seq(Byte)
      BY <1>0, <1>14 DEF FilesTyped
    <3>1. CASE content[path] = <<>>
      BY <3>1, EmptyEnds
    <3>2. CASE content[path] # <<>>
      <4>1. path = writer
        BY <1>0, <1>14, <3>2 DEF FilesInv
      <4>2. \A m \in EndedIn(content[writer]) : n < m
        BY <1>0, <1>3, <1>14, <2>2, <4>1 DEF FilesInv, c
      <4>3. EndedIn(content[writer]) \in SUBSET Nat /\ n \in Nat
        BY <1>5, <2>2, <3>0, LineTyped
      <4>. QED BY <4>1, <4>2, <4>3 DEF Behind, EndedIn
    <3>. QED BY <3>1, <3>2
  <2>. QED BY <1>9, <1>14, <2>1, <2>2
<1>15. ASSUME NEW k \in DOMAIN buf', buf'[k].nl
       PROVE  Behind(c, readOffset + k, buf'[k].line)
  <2>1. CASE k \in 1..Len(buf)
    <3>1. k \in DOMAIN buf /\ buf'[k] = buf[k] /\ buf[k].nl
      BY <1>2, <1>3, <1>15, <2>1, SMTT(30)
    <3>2. Behind(c, readOffset + k, buf[k].line)
      BY <1>51, <3>1
    <3>. QED BY <3>1, <3>2
  <2>2. CASE k > Len(buf)
    BY <1>2, <1>6, <1>15, <2>2
  <2>. QED BY <1>2, <1>7, <2>1, <2>2
<1>. QED BY <1>0, <1>1, <1>4, <1>10, <1>11, <1>12, <1>13, <1>14, <1>15 DEF StreamInv, c

\* ReadLine: the first line of the buffer is the next one.
LEMMA ReadLineOrder ==
  ASSUME ProcessInv, OrderInv, ReadLine
  PROVE  StreamInv'
<1>0. FilesInv /\ StreamInv /\ FilesTyped /\ SourceTyped
  BY DEF OrderInv, ProcessInv
<1>1. at = "read" /\ at' = "send" /\ UNCHANGED <<identity, position, entries, out, path, content, lines, half>>
  BY DEF ReadLine, fileVars, spoolVars
<1>2. PICK n \in Nat : ReadsTo(n)
  BY <1>0, ReadLineTakes
<1>3. /\ n \in 1..Len(buf) /\ buf[n].nl /\ hand' \in Rec /\ hand'.end = readOffset + n /\ Line(hand') = buf[n].line
      /\ readOffset' = readOffset + n
      /\ buf' \in Seq(Byte) /\ Len(buf') = Len(buf) - n /\ \A k \in 1..(Len(buf) - n) : buf'[k] = buf[n + k]
  BY <1>2 DEF ReadsTo, Line
<1>4. buf \in Seq(Byte) /\ Len(buf) \in Nat /\ readOffset \in Nat /\ DOMAIN buf = 1..Len(buf) /\ DOMAIN buf' = 1..Len(buf')
  BY <1>0, <1>3 DEF SourceTyped
<1>5. HandLines = {} /\ HandLines' = {buf[n].line} /\ buf[n].line \in EndedIn(buf)
  BY <1>1, <1>3, <1>4 DEF HandLines, EndedIn
\* what is left of the buffer
<1>6. ASSUME NEW k \in DOMAIN buf'
      PROVE  n + k \in DOMAIN buf /\ n + k > n /\ buf'[k] = buf[n + k] /\ readOffset' + k = readOffset + (n + k)
  BY <1>3, <1>4, SMTT(30)
<1>7. \A m \in EndedIn(buf') : m \in EndedIn(buf) /\ buf[n].line < m
  <2>. TAKE m \in EndedIn(buf')
  <2>1. PICK k \in DOMAIN buf' : buf'[k].nl /\ buf'[k].line = m
    BY DEF EndedIn
  <2>2. n + k \in DOMAIN buf /\ n + k > n /\ buf[n + k].nl /\ buf[n + k].line = m
    BY <1>6, <2>1
  <2>3. buf[n].line < m
    BY <1>0, <1>3, <1>4, <2>2 DEF StreamInv, Ordered
  <2>. QED BY <2>2, <2>3 DEF EndedIn
<1>8. ReadSoFar' \in SUBSET ReadSoFar /\ Taken' = Taken \cup {buf[n].line}
  BY <1>1, <1>5, <1>7 DEF ReadSoFar, Taken
<1>9. \A m \in LinesIn(out) \cup LinesIn(entries) : m < buf[n].line
  BY <1>0, <1>5 DEF StreamInv, Taken
<1>10. Ordered(buf')
  <2>. SUFFICES ASSUME NEW j \in DOMAIN buf', NEW k \in DOMAIN buf', buf'[j].nl, buf'[k].nl, j < k
                PROVE  buf'[j].line < buf'[k].line
    BY DEF Ordered
  <2>1. n + j < n + k
    BY <1>4
  <2>. QED BY <1>0, <1>6, <2>1 DEF StreamInv, Ordered
<1>11. \A m \in Taken', q \in EndedIn(buf') : m < q
  BY <1>0, <1>7, <1>8 DEF StreamInv
<1>12. Behind(content[identity], hand'.end, Line(hand'))
  BY <1>0, <1>3, <1>4 DEF StreamInv
<1>13. \A k \in DOMAIN buf' : buf'[k].nl => Behind(content[identity], readOffset' + k, buf'[k].line)
  BY <1>0, <1>6 DEF StreamInv
<1>14. \A m \in ReadSoFar' : Past(m)'
  BY <1>0, <1>1, <1>8 DEF StreamInv, Past
<1>. QED BY <1>0, <1>1, <1>5, <1>8, <1>9, <1>10, <1>11, <1>12, <1>13, <1>14 DEF StreamInv

\* A step that reads nothing: what it drops is dropped, and where it reads on
\* is behind all that is left.
LEMMA DropOrder ==
  ASSUME ProcessInv, OrderInv, UNCHANGED <<path, content, lines, half, out>>, buf' = <<>>,
         at' # "send", entries' = <<>> \/ (entries' = entries /\ identity' = identity),
         at' # "down" => \A n \in ReadSoFar' : Behind(content[identity'], position', n),
         at' # "down" /\ path \notin {NoFile, identity'} => \A n \in ReadSoFar' : Behind(content[path], 0, n)
  PROVE  StreamInv'
<1>0. FilesInv /\ StreamInv
  BY DEF OrderInv
<1>1. HandLines' = {} /\ EndedIn(buf') = {} /\ LinesIn(entries') \in SUBSET LinesIn(entries) /\ Increasing(entries') /\ Ordered(buf')
  BY <1>0, EmptyEnds DEF HandLines, StreamInv
<1>2. ReadSoFar' \in SUBSET ReadSoFar
  BY <1>1 DEF ReadSoFar, Taken
<1>3. \A n \in ReadSoFar' : Past(n)'
  BY <1>0, <1>2 DEF StreamInv, Past
<1>4. \A k \in DOMAIN entries' : Behind(content[identity'], entries'[k].end, Line(entries'[k]))
  BY <1>0 DEF StreamInv
<1>5. DOMAIN buf' = {} /\ path' = path /\ content' = content /\ out' = out /\ Increasing(out)
  BY <1>0 DEF StreamInv
<1>6. \A m \in LinesIn(out), n \in LinesIn(entries) : m < n
  BY <1>0 DEF StreamInv
<1>7. /\ at' # "down" => \A n \in ReadSoFar' : Behind(content'[identity'], position', n)
      /\ at' # "down" /\ path' \notin {NoFile, identity'} => \A n \in ReadSoFar' : Behind(content'[path'], 0, n)
  BY <1>5
<1>8. \A m \in LinesIn(out'), n \in LinesIn(entries') : m < n
  BY <1>1, <1>5, <1>6
<1>9. at' # "send"
  OBVIOUS
<1>. QED BY <1>1, <1>3, <1>4, <1>5, <1>7, <1>8, <1>9 DEF StreamInv

\* What a step reads that drops the buffer.
LEMMA DropReads ==
  ASSUME ProcessInv, out' = out, buf' = <<>>, at' # "send", entries' = <<>> \/ entries' = entries
  PROVE  ReadSoFar' \in SUBSET ReadSoFar /\ (entries' = <<>> => ReadSoFar' = LinesIn(out))
<1>1. HandLines' = {} /\ EndedIn(buf') = {} /\ (entries' = <<>> => LinesIn(entries') = {})
  BY EmptyEnds DEF HandLines
<1>. QED BY <1>1 DEF ReadSoFar, Taken

\* Start: the source stands behind what the checkpoint covers, or at the
\* beginning of a file nothing of which is out.
LEMMA StartBehind ==
  ASSUME ProcessInv, OrderInv, path # NoFile, NEW n \in LinesIn(out)
  PROVE  Behind(content[path], StartOffset(path), n)
<1>0. RestartInv /\ path \in Identity /\ content[path] \in Seq(Byte)
  BY DEF OrderInv, ProcessInv, FilesTyped
<1>1. CASE checkpoint # <<>> /\ checkpoint.id = path
  <2>1. Behind(content[path], checkpoint.off, n)
    BY <1>0, <1>1 DEF RestartInv
  <2>2. checkpoint.off \in Nat /\ Len(content[path]) \in Nat
    BY <1>0, <1>1 DEF ProcessInv, SourceTyped
  <2>3. CASE Len(content[path]) >= checkpoint.off
    BY <1>1, <2>1, <2>3 DEF StartOffset
  <2>4. CASE ~(Len(content[path]) >= checkpoint.off)
    <3>1. StartOffset(path) = 0 /\ Len(content[path]) < checkpoint.off
      BY <1>1, <2>2, <2>4 DEF StartOffset
    <3>. QED BY <2>1, <3>1 DEF Behind
  <2>. QED BY <2>3, <2>4
<1>2. CASE checkpoint = <<>> \/ checkpoint.id # path
  <2>1. StartOffset(path) = 0
    BY <1>2 DEF StartOffset
  <2>. QED BY <1>0, <1>2, <2>1 DEF RestartInv
<1>. QED BY <1>1, <1>2

\* The steps that take nothing out of the buffer that had a line in it.
LEMMA QuietOrder ==
  ASSUME ProcessInv, OrderInv,
         Start \/ Crash \/ ReadFragment \/ DetectFails \/ DetectRename \/ DetectSame \/ Rotate \/ RotateFails
  PROVE  StreamInv'
<1>0. StreamInv /\ FilesTyped /\ SourceTyped
  BY DEF OrderInv, ProcessInv
<1>1. /\ at # "down" => \A n \in ReadSoFar : Behind(content[identity], position, n)
      /\ at # "down" /\ path \notin {NoFile, identity} => \A n \in ReadSoFar : Behind(content[path], 0, n)
  BY <1>0 DEF StreamInv
<1>2. CASE Start
  <2>1. /\ UNCHANGED <<path, content, lines, half, out>> /\ buf' = <<>> /\ at' = "read" /\ entries' = <<>>
        /\ path # NoFile /\ identity' = path /\ position' = StartOffset(path)
    BY <1>0, <1>2 DEF Start, SeekTo, fileVars, SourceTyped
  <2>2. ReadSoFar' = LinesIn(out)
    BY <2>1, DropReads
  <2>3. \A n \in ReadSoFar' : Behind(content[identity'], position', n)
    BY <2>1, <2>2, StartBehind
  <2>. QED BY <2>1, <2>3, DropOrder
<1>3. CASE Crash
  <2>1. UNCHANGED <<path, content, lines, half, out>> /\ buf' = <<>> /\ at' = "down" /\ entries' = <<>>
    BY <1>3 DEF Crash, SeekTo, fileVars, spoolVars
  <2>. QED BY <2>1, DropOrder
\* the same file, from the same place
<1>4. ASSUME UNCHANGED <<path, content, lines, half, out>>, buf' = <<>>, at # "down", at' # "send",
             entries' = entries, identity' = identity,
             position' = position \/ (position' = 0 /\ Len(content[identity]) < position)
      PROVE  StreamInv'
  <2>1. ReadSoFar' \in SUBSET ReadSoFar
    BY <1>4, DropReads
  <2>2. position \in Nat
    BY <1>0 DEF SourceTyped
  <2>3. \A n \in ReadSoFar' : Behind(content[identity'], position', n)
    <3>1. CASE position' = position
      BY <1>1, <1>4, <2>1, <3>1
    <3>2. CASE position' = 0 /\ Len(content[identity]) < position
      <4>. SUFFICES ASSUME NEW n \in ReadSoFar'
                    PROVE  Behind(content[identity], 0, n)
        BY <1>4, <3>2
      <4>1. Behind(content[identity], position, n)
        BY <1>1, <1>4, <2>1
      <4>. QED BY <3>2, <4>1 DEF Behind
    <3>. QED BY <1>4, <3>1, <3>2
  <2>4. path \notin {NoFile, identity'} => \A n \in ReadSoFar' : Behind(content[path], 0, n)
    BY <1>1, <1>4, <2>1
  <2>. QED BY <1>4, <2>3, <2>4, DropOrder
<1>5. CASE ReadFragment
  BY <1>4, <1>5 DEF ReadFragment, fileVars, spoolVars
<1>6. CASE DetectFails
  BY <1>0, <1>4, <1>6 DEF DetectFails, fileVars, spoolVars, readVars, SourceTyped
<1>7. CASE DetectRename
  <2>1. at' # "send"
    BY <1>7 DEF DetectRename
  <2>. QED BY <1>0, <1>4, <1>7, <2>1 DEF DetectRename, fileVars, spoolVars, SourceTyped
<1>8. CASE DetectSame
  <2>1. /\ at = "eof" /\ at' = "read" /\ path = identity /\ UNCHANGED <<path, content, lines, half, out, entries>>
        /\ \/ Len(content[path]) >= readOffset /\ UNCHANGED <<identity, position, buf>>
           \/ ~(Len(content[path]) >= readOffset) /\ identity' = identity /\ position' = 0 /\ buf' = <<>>
    BY <1>8 DEF DetectSame, SeekTo, fileVars, spoolVars
  <2>2. buf = <<>> /\ position = readOffset + Len(buf) /\ readOffset \in Nat /\ content[identity] \in Seq(Byte)
    BY <1>0, <2>1 DEF SourceTyped, FilesTyped
  <2>3. position = readOffset /\ Len(content[identity]) \in Nat
    BY <2>2
  <2>4. buf' = <<>> /\ identity' = identity /\ (position' = position \/ (position' = 0 /\ Len(content[identity]) < position))
    BY <2>1, <2>2, <2>3
  <2>. QED BY <1>4, <2>1, <2>4
<1>9. CASE RotateFails
  BY <1>0, <1>4, <1>9 DEF RotateFails, fileVars, spoolVars, readVars, SourceTyped
<1>10. CASE Rotate
  <2>1. /\ UNCHANGED <<path, content, lines, half, out>> /\ buf' = <<>> /\ at' = "read" /\ entries = <<>> /\ entries' = <<>>
        /\ path \notin {NoFile, identity} /\ identity' = path /\ position' = 0 /\ at = "rotate"
    BY <1>10 DEF Rotate, SeekTo, fileVars
  <2>2. ReadSoFar' \in SUBSET ReadSoFar
    BY <2>1, DropReads
  <2>3. \A n \in ReadSoFar' : Behind(content[identity'], position', n)
    BY <1>1, <2>1, <2>2
  <2>. QED BY <2>1, <2>3, DropOrder
<1>. QED BY <1>2, <1>3, <1>5, <1>6, <1>7, <1>8, <1>9, <1>10

\* Receive: the record at hand is the last of those received.
LEMMA ReceiveOrder ==
  ASSUME ProcessInv, OrderInv, Receive
  PROVE  StreamInv'
<1>0. StreamInv /\ SourceTyped
  BY DEF OrderInv, ProcessInv
<1>1. /\ at = "send" /\ at' = "read" /\ entries' = Append(entries, hand)
      /\ UNCHANGED <<path, content, lines, half, out, identity, position, buf, readOffset>>
  BY DEF Receive, fileVars, readVars, spoolVars
<1>2. entries \in Seq(Rec) /\ hand \in Rec
  BY <1>0, <1>1 DEF SourceTyped
<1>3. HandLines = {Line(hand)} /\ HandLines' = {}
  BY <1>1 DEF HandLines
<1>4. \A n \in LinesIn(entries) : n < Line(hand)
  BY <1>0, <1>3 DEF StreamInv
<1>5. LinesIn(entries') = LinesIn(entries) \cup {Line(hand)} /\ Increasing(entries')
  <2>1. Increasing(entries)
    BY <1>0 DEF StreamInv
  <2>. QED BY <1>1, <1>2, <1>4, <2>1, AppendRecord
<1>6. Taken' = Taken /\ ReadSoFar' = ReadSoFar
  BY <1>1, <1>3, <1>5 DEF Taken, ReadSoFar
<1>7. \A k \in DOMAIN entries' : Behind(content[identity], entries'[k].end, Line(entries'[k]))
  <2>1. /\ \A k \in DOMAIN entries : Behind(content[identity], entries[k].end, Line(entries[k]))
        /\ Behind(content[identity], hand.end, Line(hand))
    BY <1>0, <1>1 DEF StreamInv
  <2>2. \A k \in DOMAIN entries' : (k \in DOMAIN entries /\ entries'[k] = entries[k]) \/ entries'[k] = hand
    BY <1>1, <1>2
  <2>. QED BY <2>1, <2>2
<1>8. \A m \in LinesIn(out), n \in LinesIn(entries') : m < n
  BY <1>0, <1>3, <1>5 DEF StreamInv
<1>9. \A n \in ReadSoFar' : Past(n)'
  BY <1>0, <1>1, <1>6 DEF StreamInv, Past
<1>. QED BY <1>0, <1>1, <1>3, <1>5, <1>6, <1>7, <1>8, <1>9 DEF StreamInv

\* flush: the records received become the last of those out.
LEMMA FlushOrder ==
  ASSUME ProcessInv, OrderInv, Flush
  PROVE  StreamInv'
<1>0. StreamInv /\ SourceTyped
  BY DEF OrderInv, ProcessInv
<1>1. /\ out' = out \o entries /\ entries' = <<>> /\ at # "down"
      /\ UNCHANGED <<path, content, lines, half, at, hand, identity, position, buf, readOffset>>
  BY DEF Flush, fileVars, readVars
<1>2. entries \in Seq(Rec) /\ out \in Seq(Rec)
  BY <1>0 DEF SourceTyped
<1>3. Increasing(out) /\ Increasing(entries) /\ \A m \in LinesIn(out), n \in LinesIn(entries) : m < n
  BY <1>0 DEF StreamInv
<1>4. LinesIn(out') = LinesIn(out) \cup LinesIn(entries) /\ Increasing(out')
  BY <1>1, <1>2, <1>3, ConcatRecords
<1>5. LinesIn(entries') = {} /\ Increasing(entries') /\ DOMAIN entries' = {}
  BY <1>1, EmptyEnds
<1>6. HandLines' = HandLines /\ Taken' = Taken /\ ReadSoFar' = ReadSoFar
  BY <1>1, <1>4, <1>5 DEF HandLines, Taken, ReadSoFar
<1>7. \A n \in ReadSoFar' : Past(n)'
  BY <1>0, <1>1, <1>6 DEF StreamInv, Past
<1>. QED BY <1>0, <1>1, <1>4, <1>5, <1>6, <1>7 DEF StreamInv

\* SpoolFails: what was received and not committed is dropped.
LEMMA FailOrder ==
  ASSUME ProcessInv, OrderInv, SpoolFails
  PROVE  StreamInv'
<1>0. StreamInv /\ SourceTyped
  BY DEF OrderInv, ProcessInv
<1>1. /\ entries' = <<>> /\ at # "down" /\ at' = "failed"
      /\ UNCHANGED <<path, content, lines, half, identity, position, buf, readOffset, out>>
  BY DEF SpoolFails, fileVars, readVars, spoolVars
<1>2. LinesIn(entries') = {} /\ Increasing(entries') /\ DOMAIN entries' = {} /\ HandLines' = {}
  BY <1>1, EmptyEnds DEF HandLines
<1>3. Taken' \in SUBSET Taken /\ ReadSoFar' \in SUBSET ReadSoFar
  BY <1>1, <1>2 DEF Taken, ReadSoFar
<1>4. \A n \in ReadSoFar' : Past(n)'
  BY <1>0, <1>1, <1>3 DEF StreamInv, Past
<1>. QED BY <1>0, <1>1, <1>2, <1>3, <1>4 DEF StreamInv

\* Start, flush and Rotate move the checkpoint, behind all that is out then.
LEMMA RestartStep ==
  ASSUME ProcessInv, OrderInv, Start \/ NextRecord \/ runPipeline \/ SpoolFails \/ Crash
  PROVE  RestartInv'
<1>0. StreamInv /\ RestartInv /\ FilesTyped /\ SourceTyped
  BY DEF OrderInv, ProcessInv
<1>1. UNCHANGED <<path, content>>
  BY DEF NextRecord, runPipeline, Start, Crash, ReadLine, Fill, ReadFragment, DetectFails, DetectRename, DetectSame,
         Receive, Flush, SpoolFails, Rotate, RotateFails, fileVars
<1>2. CASE UNCHANGED spoolVars
  BY <1>0, <1>1, <1>2 DEF RestartInv, spoolVars
<1>3. CASE Start
  <2>1. path # NoFile /\ checkpoint' = [id |-> path, off |-> StartOffset(path)] /\ out' = out
    BY <1>3 DEF Start, Checkpoint
  <2>2. checkpoint' # <<>> /\ checkpoint'.id = path /\ checkpoint'.off = StartOffset(path)
    BY <2>1
  <2>3. \A n \in LinesIn(out) : Behind(content[path], StartOffset(path), n)
    BY <2>1, StartBehind
  <2>. QED BY <1>1, <2>1, <2>2, <2>3 DEF RestartInv
<1>4. CASE Rotate
  <2>1. path \notin {NoFile, identity} /\ at = "rotate" /\ checkpoint' = [id |-> path, off |-> 0] /\ out' = out
    BY <1>4 DEF Rotate, Checkpoint
  <2>2. checkpoint' # <<>> /\ checkpoint'.id = path /\ checkpoint'.off = 0
    BY <2>1
  <2>3. \A n \in LinesIn(out) : Behind(content[path], 0, n)
    BY <1>0, <2>1 DEF StreamInv, ReadSoFar, Taken
  <2>. QED BY <1>1, <2>1, <2>2, <2>3 DEF RestartInv
<1>5. CASE Flush
  <2>. DEFINE last == entries[Len(entries)]
  <2>1. entries \in Seq(Rec) /\ out \in Seq(Rec) /\ entries # <<>> /\ at # "down" /\ out' = out \o entries
    BY <1>0, <1>5 DEF Flush, SourceTyped
  <2>2. Len(entries) \in DOMAIN entries /\ DOMAIN entries = 1..Len(entries) /\ Len(entries) \in Nat
    BY <2>1
  <2>3. last \in Rec /\ last.id = identity /\ last.end \in Nat /\ Line(last) \in Nat /\ identity \in Identity
    <3>0. identity \in Identity /\ \A k \in DOMAIN entries : entries[k].id = identity
      BY <1>0, SMTT(30) DEF SourceTyped
    <3>1. last \in Rec /\ last.id = identity /\ identity \in Identity
      BY <2>1, <2>2, <3>0, ElementOfSeq
    <3>2. \A m \in Rec : m.end \in Nat
      BY DEF Rec, RawRecord
    <3>. QED BY <3>1, <3>2, LineTyped
  <2>4. checkpoint' = [id |-> last.id, off |-> last.end]
    BY <1>5 DEF Flush, Checkpoint, Last
  <2>. HIDE DEF last
  <2>5. checkpoint' # <<>> /\ checkpoint'.id = identity /\ checkpoint'.off = last.end
    BY <2>3, <2>4
  <2>6. LinesIn(out') = LinesIn(out) \cup LinesIn(entries)
    BY <2>1, ConcatRecords
  <2>7. \A n \in LinesIn(out') : n \in Nat /\ n <= Line(last)
    <3>1. LinesIn(out) \in SUBSET Nat /\ LinesIn(entries) \in SUBSET Nat
      BY ReadTyped
    <3>2. \A n \in LinesIn(out) : n < Line(last)
      <4>1. Line(last) \in LinesIn(entries)
        BY <2>2 DEF last, LinesIn
      <4>. QED BY <1>0, <4>1 DEF StreamInv
    <3>3. ASSUME NEW n \in LinesIn(entries)
          PROVE  n <= Line(last)
      <4>1. PICK k \in DOMAIN entries : n = Line(entries[k])
        BY DEF LinesIn
      <4>2. CASE k = Len(entries)
        BY <2>3, <4>1, <4>2 DEF last
      <4>3. CASE k # Len(entries)
        <5>1. k < Len(entries)
          BY <2>2, <4>3
        <5>2. n < Line(last)
          BY <1>0, <2>2, <4>1, <5>1 DEF StreamInv, Increasing, last
        <5>. QED BY <2>3, <3>1, <5>2
      <4>. QED BY <4>2, <4>3
    <3>. QED BY <2>3, <2>6, <3>1, <3>2, <3>3
  <2>8. \A n \in LinesIn(out') : Behind(content[identity], last.end, n)
    <3>1. Behind(content[identity], last.end, Line(last))
      BY <1>0, <2>2 DEF StreamInv, last
    <3>2. content[identity] \in Seq(Byte)
      BY <1>0, <2>3 DEF FilesTyped
    <3>. QED BY <2>3, <2>7, <3>1, <3>2, BehindEarlier
  <2>9. path \notin {NoFile, identity} => \A n \in LinesIn(out') : Behind(content[path], 0, n)
    BY <1>0, <2>1, <2>6 DEF StreamInv, ReadSoFar, Taken
  <2>. QED BY <1>1, <2>5, <2>8, <2>9 DEF RestartInv
<1>. QED BY <1>2, <1>3, <1>4, <1>5
     DEF NextRecord, runPipeline, Crash, ReadLine, Fill, ReadFragment, DetectFails, DetectRename, DetectSame,
         Receive, SpoolFails, RotateFails

\* At first nothing is committed or in hand.
LEMMA OrderInit == Init => OrderInv
<1>. SUFFICES ASSUME Init
              PROVE  OrderInv
  OBVIOUS
<1>1. /\ at = "down" /\ buf = <<>> /\ entries = <<>> /\ out = <<>> /\ checkpoint = <<>>
      /\ \A i \in Identity : content[i] = <<>>
      /\ path \in Identity /\ writer = path
  BY DEF Init
<1>2. HandLines = {} /\ Taken = {} /\ ReadSoFar = {} /\ LinesIn(out) = {} /\ LinesIn(entries) = {} /\ EndedIn(buf) = {}
  BY <1>1, EmptyEnds DEF HandLines, Taken, ReadSoFar
<1>3. FilesInv
  BY <1>1, EmptyEnds DEF FilesInv
<1>4. StreamInv
  BY <1>1, <1>2, EmptyEnds DEF StreamInv
<1>5. RestartInv
  BY <1>1, <1>2 DEF RestartInv
<1>. QED BY <1>3, <1>4, <1>5 DEF OrderInv

\* Every step keeps the order of lines.
LEMMA OrderStep == ProcessInv /\ OrderInv /\ [Next]_vars => OrderInv'
<1>. SUFFICES ASSUME ProcessInv, OrderInv, [Next]_vars
              PROVE  OrderInv'
  OBVIOUS
<1>1. CASE UNCHANGED vars
  BY <1>1 DEF OrderInv, FilesInv, StreamInv, RestartInv, ReadSoFar, Taken, HandLines, Past,
              vars, fileVars, readVars, spoolVars
<1>2. CASE Environment
  BY <1>2, EnvironmentOrder
<1>3. CASE Start \/ NextRecord \/ runPipeline \/ SpoolFails \/ Crash
  <2>1. UNCHANGED fileVars
    BY <1>3 DEF NextRecord, runPipeline, Start, Crash, ReadLine, Fill, ReadFragment, DetectFails, DetectRename,
                DetectSame, Receive, Flush, SpoolFails, Rotate, RotateFails
  <2>2. FilesInv'
    BY <2>1 DEF OrderInv, FilesInv, Past, fileVars
  <2>3. StreamInv'
    BY <1>3, QuietOrder, FillOrder, ReadLineOrder, ReceiveOrder, FlushOrder, FailOrder DEF NextRecord, runPipeline
  <2>. QED BY <1>3, <2>2, <2>3, RestartStep DEF OrderInv
<1>. QED BY <1>1, <1>2, <1>3 DEF Next

-----------------------------------------------------------------------------
\* The source's fields keep their types, and the lines that are committed,
\* received, at hand and buffered stay in the order in which they were written,
\* before all the source has still to read, whatever is truncated, deleted,
\* reused or crashes.
THEOREM FileInvariant == Spec => [](ProcessInv /\ OrderInv)
<1>1. Init => ProcessInv /\ OrderInv
  BY ProcessInit, OrderInit
<1>2. ProcessInv /\ OrderInv /\ [Next]_vars => (ProcessInv /\ OrderInv)'
  BY ProcessStep, OrderStep
<1>. QED BY <1>1, <1>2, PTL DEF Spec

\* TypeOK is an invariant of the durable file source (durable_file.go).
THEOREM FileTypeCorrect == Spec => []TypeOK
<1>1. ProcessInv /\ OrderInv => TypeOK
  BY ProcessTyped
<1>. QED BY <1>1, FileInvariant, PTL

\* The records out hold increasing lines: none is committed twice, whatever
\* NewDurableFileSource, detectRotation and Rotate meet at the path.
THEOREM FileDeliversOnce == Spec => []DeliveredOnce
<1>1. ASSUME ProcessInv, OrderInv
      PROVE  DeliveredOnce
  <2>. SUFFICES ASSUME NEW j \in DOMAIN out, NEW k \in DOMAIN out, Line(out[j]) = Line(out[k]), j # k
                PROVE  FALSE
    BY DEF DeliveredOnce, Line
  <2>1. out \in Seq(Rec) /\ Increasing(out)
    BY <1>1 DEF ProcessInv, SourceTyped, OrderInv, StreamInv
  <2>2. Line(out[j]) \in Nat /\ Line(out[k]) \in Nat /\ (j < k \/ k < j)
    BY <2>1, LineTyped
  <2>3. Line(out[j]) < Line(out[k]) \/ Line(out[k]) < Line(out[j])
    BY <2>1, <2>2 DEF Increasing
  <2>. QED BY <2>2, <2>3
<1>2. ProcessInv /\ OrderInv => DeliveredOnce
  BY <1>1
<1>. QED BY <1>2, FileInvariant, PTL

-----------------------------------------------------------------------------
(* Files that only grow: no copytruncate and no deletion.                  *)

OnlyGrow == MaxTruncations = 0 /\ MaxDeletions = 0

\* Every newline ends the byte before it, and every other byte is followed by
\* its newline.
Paired(c) ==
  /\ \A k \in DOMAIN c : c[k].nl => k > 1 /\ ~c[k - 1].nl /\ c[k - 1].line = c[k].line
  /\ \A k \in DOMAIN c : ~c[k].nl /\ k < Len(c) => c[k + 1].nl

\* Only the file the application is writing to may end in the middle of a line.
FormInv ==
  /\ \A i \in Identity : Paired(content[i]) /\ \A k \in DOMAIN content[i] : content[i][k].line <= lines
  /\ \A i \in Identity : content[i] # <<>> /\ ~(half /\ writer = i) => content[i][Len(content[i])].nl
  /\ half => LET c == content[writer] IN c # <<>> /\ ~c[Len(c)].nl /\ c[Len(c)].line = lines

\* Byte n of c ends a line, and record m is the line that ends at its offset.
AtBoundary(c, n) == n = 0 \/ (n \in DOMAIN c /\ c[n].nl)
Whole(c, m) == m.end \in DOMAIN c /\ c[m.end].nl /\ m.bytes = <<c[m.end - 1], c[m.end]>>

\* The buffer holds the bytes behind readOffset, and pending the unfinished
\* line before it.
ReadInv ==
  LET c == content[identity]
      start == readOffset - Len(pending)
  IN /\ position <= Len(c)
     /\ \A k \in DOMAIN buf : buf[k] = c[readOffset + k]
     /\ start >= 0 /\ AtBoundary(c, start)
     /\ \A k \in DOMAIN pending : ~pending[k].nl /\ pending[k] = c[start + k]
     /\ at = "send" => hand.end = readOffset /\ pending = <<>>

\* Records are whole lines, and the checkpoint is between two.
WholeInv ==
  /\ FormInv /\ ReadInv
  /\ \A k \in DOMAIN out : Whole(content[out[k].id], out[k])
  /\ \A k \in DOMAIN entries : Whole(content[entries[k].id], entries[k])
  /\ at = "send" => Whole(content[hand.id], hand)
  /\ checkpoint # <<>> => AtBoundary(content[checkpoint.id], checkpoint.off)

\* The lines of the checkpoint's file are out up to the checkpoint, and no
\* others of it.
CheckpointCover ==
  checkpoint # <<>> =>
    /\ \A j \in DOMAIN content[checkpoint.id] : content[checkpoint.id][j].nl /\ j <= checkpoint.off =>
         \E k \in DOMAIN out : out[k].id = checkpoint.id /\ out[k].end = j
    /\ \A k \in DOMAIN out : out[k].id = checkpoint.id => out[k].end <= checkpoint.off

\* Nothing is out of a file at the path that no checkpoint is about.
PathFresh ==
  path # NoFile /\ (checkpoint = <<>> \/ path # checkpoint.id) => \A k \in DOMAIN out : out[k].id # path

\* The lines received go on from the checkpoint.
EntriesCover ==
  at # "down" =>
    /\ checkpoint # <<>> /\ checkpoint.id = identity
    /\ \A k \in DOMAIN entries :
         /\ entries[k].end > checkpoint.off
         /\ \A j \in DOMAIN content[identity] :
              content[identity][j].nl /\ checkpoint.off < j /\ j <= entries[k].end =>
                \E m \in DOMAIN entries : entries[m].end = j
    /\ \A j, k \in DOMAIN entries : j < k => entries[j].end < entries[k].end

\* With the one at hand they reach to where the source has got to.
SourceCover ==
  at \notin {"down", "failed"} =>
    /\ checkpoint.off <= readOffset /\ \A k \in DOMAIN entries : entries[k].end <= readOffset
    /\ at = "send" => checkpoint.off < readOffset /\ \A k \in DOMAIN entries : entries[k].end < readOffset
    /\ \A j \in DOMAIN content[identity] :
         content[identity][j].nl /\ checkpoint.off < j /\ j <= readOffset =>
           (\E k \in DOMAIN entries : entries[k].end = j) \/ (at = "send" /\ j = readOffset)

CoverInv == CheckpointCover /\ PathFresh /\ EntriesCover /\ SourceCover

\* A source that has seen another file at the path gives up its own only when
\* it has read all of it, and nobody writes to it any more.
DrainInv ==
  /\ rotationSeen > 0 /\ at # "failed" => path # identity
  /\ at = "eof" /\ rotationSeen > 0 /\ pending = <<>> => readOffset = Len(content[identity])
  /\ at = "rotate" => readOffset = Len(content[identity]) /\ path # identity

\* d begins with c.
Extends(c, d) == Len(c) <= Len(d) /\ \A k \in DOMAIN c : k \in DOMAIN d /\ d[k] = c[k]

\* Nothing is truncated or deleted: a file stays as it is, or gets a byte.
LEMMA FilesGrow ==
  ASSUME OnlyGrow, ProcessInv, Environment, NEW i \in Identity
  PROVE  /\ content[i] \in Seq(Byte) /\ content'[i] \in Seq(Byte) /\ Extends(content[i], content'[i])
         /\ \/ content'[i] = content[i] /\ ~(WriteByte /\ i = writer)
            \/ /\ WriteByte /\ i = writer /\ [line |-> lines', nl |-> half] \in Byte
               /\ content'[i] = Append(content[i], [line |-> lines', nl |-> half])
<1>0. FilesTyped
  BY DEF ProcessInv
<1>1. /\ content \in [Identity -> Seq(Byte)] /\ writer \in Identity /\ content[i] \in Seq(Byte)
      /\ budget["truncate"] \in Nat /\ budget["delete"] \in Nat
  BY <1>0 DEF FilesTyped
<1>2. ~CopyTruncate /\ ~\E j \in Identity : Delete(j)
  BY <1>1 DEF CopyTruncate, Delete, Spend, OnlyGrow
<1>3. CASE WriteByte
  <2>. DEFINE b == [line |-> lines', nl |-> half]
              c == content[i]
  <2>1. b \in Byte /\ content' = [content EXCEPT ![writer] = Append(content[writer], b)]
    BY <1>0, <1>3, WriteByteWrites
  <2>. HIDE DEF b
  <2>2. CASE i = writer
    <3>1. content'[i] = Append(c, b)
      BY <1>1, <2>1, <2>2
    <3>2. Append(c, b) \in Seq(Byte) /\ Len(Append(c, b)) = Len(c) + 1 /\ \A k \in 1..Len(c) : Append(c, b)[k] = c[k]
      BY <1>1, <2>1, AppendProperties
    <3>3. Len(c) \in Nat
      BY <1>1
    <3>4. Extends(c, Append(c, b))
      BY <1>1, <3>2, <3>3 DEF Extends
    <3>. QED BY <1>1, <1>3, <2>1, <2>2, <3>1, <3>2, <3>4 DEF b
  <2>3. CASE i # writer
    <3>1. content'[i] = content[i]
      BY <1>1, <2>1, <2>3
    <3>. QED BY <1>1, <2>3, <3>1 DEF Extends
  <2>. QED BY <2>2, <2>3
<1>4. CASE Reopen \/ Rename \/ \E j \in Identity : Create(j)
  <2>1. content' = content
    BY <1>4 DEF Reopen, Rename, Create
  <2>2. ~WriteByte
    <3>1. WriteByte => Len(content'[writer]) = Len(content[writer]) + 1
      <4>. SUFFICES ASSUME WriteByte
                    PROVE  Len(content'[writer]) = Len(content[writer]) + 1
        OBVIOUS
      <4>1. /\ [line |-> lines', nl |-> half] \in Byte
            /\ content' = [content EXCEPT ![writer] = Append(content[writer], [line |-> lines', nl |-> half])]
        BY <1>0, WriteByteWrites
      <4>2. content'[writer] = Append(content[writer], [line |-> lines', nl |-> half])
        BY <1>1, <4>1
      <4>. QED BY <1>1, <4>1, <4>2, AppendProperties
    <3>2. Len(content[writer]) \in Nat
      BY <1>1
    <3>. QED BY <2>1, <3>1, <3>2
  <2>. QED BY <1>1, <2>1, <2>2 DEF Extends
<1>. QED BY <1>2, <1>3, <1>4 DEF Environment

\* The next byte of a line, or the first of a new one.
LEMMA PairedAppend ==
  ASSUME NEW c \in Seq(Byte), NEW b \in Byte, Paired(c),
         b.nl => c # <<>> /\ ~c[Len(c)].nl /\ c[Len(c)].line = b.line,
         ~b.nl /\ c # <<>> => c[Len(c)].nl
  PROVE  Paired(Append(c, b))
<1>. DEFINE d == Append(c, b)
            l == Len(c)
<1>0. l \in Nat /\ DOMAIN c = 1..l /\ (c # <<>> => l > 0) /\ (l > 0 => c # <<>>)
  OBVIOUS
<1>1. DOMAIN d = 1..(l + 1) /\ Len(d) = l + 1 /\ d[l + 1] = b /\ \A k \in 1..l : d[k] = c[k]
  BY AppendProperties
<1>2. /\ b.nl => c # <<>> /\ ~c[l].nl /\ c[l].line = b.line
      /\ ~b.nl /\ c # <<>> => c[l].nl
  OBVIOUS
<1>3. /\ \A k \in 1..l : c[k].nl => k > 1 /\ ~c[k - 1].nl /\ c[k - 1].line = c[k].line
      /\ \A k \in 1..l : ~c[k].nl /\ k < l => c[k + 1].nl
  BY <1>0 DEF Paired
<1>. HIDE DEF d, l
<1>4. ASSUME NEW k \in 1..(l + 1), d[k].nl
      PROVE  k > 1 /\ ~d[k - 1].nl /\ d[k - 1].line = d[k].line
  <2>1. CASE k = l + 1
    <3>1. k - 1 = l /\ l \in 1..l
      BY <1>0, <1>1, <1>2, <1>4, <2>1
    <3>2. k > 1
      BY <1>0, <3>1
    <3>. QED BY <1>1, <1>2, <1>4, <2>1, <3>1, <3>2
  <2>2. CASE k \in 1..l
    <3>1. k > 1 /\ ~c[k - 1].nl /\ c[k - 1].line = c[k].line
      BY <1>1, <1>3, <1>4, <2>2
    <3>2. k - 1 \in 1..l
      BY <1>0, <2>2, <3>1
    <3>. QED BY <1>1, <2>2, <3>1, <3>2
  <2>. QED BY <1>0, <2>1, <2>2
<1>5. ASSUME NEW k \in 1..(l + 1), ~d[k].nl, k < l + 1
      PROVE  d[k + 1].nl
  <2>0. k \in 1..l /\ d[k] = c[k]
    BY <1>0, <1>1, <1>5
  <2>1. CASE k = l
    BY <1>0, <1>1, <1>2, <1>5, <2>0, <2>1
  <2>2. CASE k < l
    <3>1. c[k + 1].nl /\ k + 1 \in 1..l
      BY <1>0, <1>3, <1>5, <2>0, <2>2
    <3>. QED BY <1>1, <3>1
  <2>. QED BY <1>0, <2>0, <2>1, <2>2
<1>6. Paired(d)
  BY <1>1, <1>4, <1>5 DEF Paired
<1>. QED BY <1>6 DEF d

\* A byte belongs to a line.
LEMMA ByteTyped ==
  ASSUME NEW c \in Seq(Byte), NEW k \in DOMAIN c
  PROVE  c[k] \in Byte /\ c[k].line \in Nat /\ c[k].nl \in BOOLEAN
<1>1. c[k] \in Byte
  OBVIOUS
<1>. QED BY <1>1, FileTyped DEF Byte

\* The application writes whole lines, and opens another file only between two.
LEMMA FormStep ==
  ASSUME OnlyGrow, ProcessInv, FormInv, Environment
  PROVE  FormInv'
<1>0. FilesTyped
  BY DEF ProcessInv
<1>1. content \in [Identity -> Seq(Byte)] /\ writer \in Identity /\ half \in BOOLEAN /\ lines \in Nat /\ writer' \in Identity
  BY <1>0, FileTyped DEF FilesTyped, Environment, WriteByte, Reopen, Rename, Create, CopyTruncate, Delete
<1>2. CASE WriteByte
  <2>. DEFINE b == [line |-> lines', nl |-> half]
              c == content[writer]
  <2>1. /\ lines' = (IF half THEN lines ELSE lines + 1) /\ half' = ~half /\ writer' = writer
    BY <1>0, <1>2, WriteByteWrites DEF WriteByte
  <2>2. b \in Byte /\ b.nl = half /\ b.line = lines'
    BY <1>0, <1>2, WriteByteWrites
  <2>3. content'[writer] = Append(c, b) /\ \A i \in Identity \ {writer} : content'[i] = content[i]
    BY <1>0, <1>1, <1>2, WriteByteWrites
  <2>. HIDE DEF b
  <2>4. c \in Seq(Byte) /\ Paired(c) /\ \A k \in DOMAIN c : c[k].line <= lines
    BY <1>1 DEF FormInv
  <2>5. /\ b.nl => c # <<>> /\ ~c[Len(c)].nl /\ c[Len(c)].line = b.line
        /\ ~b.nl /\ c # <<>> => c[Len(c)].nl
    BY <1>1, <2>1, <2>2 DEF FormInv
  <2>. HIDE DEF c
  <2>6. Paired(Append(c, b))
    BY <2>2, <2>4, <2>5, PairedAppend
  <2>7. /\ Len(Append(c, b)) = Len(c) + 1 /\ Append(c, b) # <<>> /\ Append(c, b)[Len(c) + 1] = b
        /\ DOMAIN Append(c, b) = 1..(Len(c) + 1) /\ \A k \in 1..Len(c) : Append(c, b)[k] = c[k]
    BY <2>2, <2>4, AppendProperties
  <2>8. \A k \in DOMAIN Append(c, b) : Append(c, b)[k].line <= lines'
    <3>. SUFFICES ASSUME NEW k \in 1..(Len(c) + 1)
                  PROVE  Append(c, b)[k].line <= lines'
      BY <2>7
    <3>0. lines' \in Nat
      BY <1>1, <2>1
    <3>1. CASE k = Len(c) + 1
      BY <2>2, <2>7, <3>0, <3>1
    <3>2. CASE k \in 1..Len(c)
      <4>1. c[k].line <= lines /\ c[k].line \in Nat
        BY <2>4, <3>2, ByteTyped
      <4>. QED BY <1>1, <2>1, <2>7, <3>2, <4>1
    <3>. QED BY <2>4, <3>1, <3>2
  <2>9. \A i \in Identity : Paired(content'[i]) /\ \A k \in DOMAIN content'[i] : content'[i][k].line <= lines'
    <3>1. ASSUME NEW i \in Identity \ {writer}
          PROVE  Paired(content'[i]) /\ \A k \in DOMAIN content'[i] : content'[i][k].line <= lines'
      <4>1. content'[i] = content[i] /\ Paired(content[i]) /\ content[i] \in Seq(Byte)
        BY <1>1, <2>3 DEF FormInv
      <4>2. \A k \in DOMAIN content[i] : content[i][k].line <= lines /\ content[i][k].line \in Nat
        BY <4>1, ByteTyped DEF FormInv
      <4>. QED BY <1>1, <2>1, <4>1, <4>2
    <3>. QED BY <2>3, <2>6, <2>8, <3>1
  <2>10. \A i \in Identity : content'[i] # <<>> /\ ~(half' /\ writer' = i) => content'[i][Len(content'[i])].nl
    <3>1. CASE half
      <4>1. content'[writer][Len(content'[writer])].nl
        BY <2>2, <2>3, <2>7, <3>1
      <4>2. \A i \in Identity \ {writer} : content'[i] # <<>> => content'[i][Len(content'[i])].nl
        BY <1>1, <2>3 DEF FormInv
      <4>. QED BY <4>1, <4>2
    <3>2. CASE ~half
      BY <1>1, <2>1, <2>3, <3>2 DEF FormInv
    <3>. QED BY <3>1, <3>2
  <2>11. half' => /\ content'[writer] # <<>> /\ ~content'[writer][Len(content'[writer])].nl
                  /\ content'[writer][Len(content'[writer])].line = lines'
    BY <2>1, <2>2, <2>3, <2>7
  <2>. QED BY <2>1, <2>9, <2>10, <2>11 DEF FormInv
<1>3. CASE Reopen
  <2>1. UNCHANGED <<content, lines, half>> /\ ~half
    BY <1>3 DEF Reopen
  <2>. QED BY <2>1 DEF FormInv
<1>4. CASE ~WriteByte /\ ~Reopen
  <2>1. UNCHANGED <<writer, lines, half>>
    BY <1>4 DEF Environment, Rename, Create, CopyTruncate, Delete
  <2>2. \A i \in Identity : content'[i] = content[i]
    BY <1>4, FilesGrow
  <2>. QED BY <1>1, <2>1, <2>2 DEF FormInv
<1>. QED BY <1>2, <1>3, <1>4

\* A file that grows keeps its lines where they were.
LEMMA ExtendsKeeps ==
  ASSUME NEW c \in Seq(Byte), NEW d \in Seq(Byte), Extends(c, d), Paired(c)
  PROVE  /\ \A n : AtBoundary(c, n) => AtBoundary(d, n)
         /\ \A m : Whole(c, m) => Whole(d, m)
<1>1. \A k \in DOMAIN c : k \in DOMAIN d /\ d[k] = c[k]
  BY DEF Extends
<1>2. \A n : AtBoundary(c, n) => AtBoundary(d, n)
  BY <1>1 DEF AtBoundary
<1>3. ASSUME NEW m, Whole(c, m)
      PROVE  Whole(d, m)
  <2>1. m.end \in DOMAIN c /\ c[m.end].nl /\ m.bytes = <<c[m.end - 1], c[m.end]>>
    BY <1>3 DEF Whole
  <2>2. m.end > 1
    BY <2>1 DEF Paired
  <2>3. m.end - 1 \in DOMAIN c
    BY <2>1, <2>2
  <2>. QED BY <1>1, <2>1, <2>3 DEF Whole
<1>. QED BY <1>2, <1>3

\* The source's offsets, and the bytes of its file they are about.
LEMMA ReadPlaces ==
  ASSUME ProcessInv, ReadInv
  PROVE  /\ content[identity] \in Seq(Byte) /\ DOMAIN content[identity] = 1..Len(content[identity])
         /\ Len(content[identity]) \in Nat /\ readOffset \in Nat /\ position \in Nat
         /\ buf \in Seq(Byte) /\ Len(buf) \in Nat /\ DOMAIN buf = 1..Len(buf)
         /\ pending \in Seq(Byte) /\ Len(pending) \in Nat /\ DOMAIN pending = 1..Len(pending)
         /\ readOffset - Len(pending) \in Nat /\ position = readOffset + Len(buf)
         /\ position <= Len(content[identity])
         /\ \A k \in DOMAIN buf : readOffset + k \in DOMAIN content[identity]
         /\ \A k \in DOMAIN pending : readOffset - Len(pending) + k \in DOMAIN content[identity]
<1>0. FilesTyped /\ SourceTyped
  BY DEF ProcessInv
<1>1. /\ content[identity] \in Seq(Byte) /\ readOffset \in Nat /\ position \in Nat /\ buf \in Seq(Byte)
      /\ pending \in Seq(Byte) /\ position = readOffset + Len(buf)
  BY <1>0 DEF FilesTyped, SourceTyped
<1>2. position <= Len(content[identity]) /\ readOffset - Len(pending) >= 0
  BY DEF ReadInv
<1>3. /\ Len(content[identity]) \in Nat /\ Len(buf) \in Nat /\ Len(pending) \in Nat
      /\ DOMAIN content[identity] = 1..Len(content[identity]) /\ DOMAIN buf = 1..Len(buf) /\ DOMAIN pending = 1..Len(pending)
  BY <1>1
<1>4. readOffset - Len(pending) \in Nat
  BY <1>1, <1>2, <1>3
<1>5. \A k \in DOMAIN buf : readOffset + k \in DOMAIN content[identity]
  BY <1>1, <1>2, <1>3
<1>6. \A k \in DOMAIN pending : readOffset - Len(pending) + k \in DOMAIN content[identity]
  BY <1>1, <1>2, <1>3
<1>. QED BY <1>1, <1>2, <1>3, <1>4, <1>5, <1>6

\* What the application and logrotate do leaves what is read where it was.
LEMMA EnvironmentWhole ==
  ASSUME OnlyGrow, ProcessInv, WholeInv, Environment
  PROVE  WholeInv'
<1>0. FormInv /\ ReadInv /\ SourceTyped
  BY DEF ProcessInv, WholeInv
<1>1. UNCHANGED <<at, identity, position, buf, pending, readOffset, hand, entries, checkpoint, out>>
  BY DEF Environment, WriteByte, Reopen, Rename, Create, CopyTruncate, Delete, readVars, spoolVars
<1>2. ASSUME NEW i \in Identity
      PROVE  /\ Extends(content[i], content'[i])
             /\ \A n : AtBoundary(content[i], n) => AtBoundary(content'[i], n)
             /\ \A m : Whole(content[i], m) => Whole(content'[i], m)
  <2>1. content[i] \in Seq(Byte) /\ content'[i] \in Seq(Byte) /\ Extends(content[i], content'[i]) /\ Paired(content[i])
    BY <1>0, FilesGrow DEF FormInv
  <2>. QED BY <2>1, ExtendsKeeps
<1>3. identity \in Identity /\ (checkpoint # <<>> => checkpoint.id \in Identity) /\ (at = "send" => hand.id \in Identity)
  BY <1>0 DEF SourceTyped
<1>4. \A m \in Rec : m.id \in Identity
  BY DEF Rec, RawRecord
<1>5. /\ \A k \in DOMAIN out : out[k].id \in Identity
      /\ \A k \in DOMAIN entries : entries[k].id \in Identity
  <2>1. out \in Seq(Rec) /\ entries \in Seq(Rec)
    BY <1>0 DEF SourceTyped
  <2>2. (\A k \in DOMAIN out : out[k] \in Rec) /\ \A k \in DOMAIN entries : entries[k] \in Rec
    BY <2>1
  <2>. QED BY <1>4, <2>2
<1>6. ReadInv'
  <2>. DEFINE c == content[identity]
              d == content'[identity]
              start == readOffset - Len(pending)
  <2>1. Len(c) <= Len(d) /\ \A k \in DOMAIN c : d[k] = c[k]
    BY <1>2, <1>3 DEF Extends
  <2>2. /\ \A k \in DOMAIN buf : readOffset + k \in DOMAIN c
        /\ \A k \in DOMAIN pending : start + k \in DOMAIN c
    BY <1>0, ReadPlaces
  <2>3. /\ \A k \in DOMAIN buf : buf[k] = c[readOffset + k]
        /\ start >= 0 /\ AtBoundary(c, start)
        /\ \A k \in DOMAIN pending : ~pending[k].nl /\ pending[k] = c[start + k]
        /\ at = "send" => hand.end = readOffset /\ pending = <<>>
    BY <1>0 DEF ReadInv
  <2>4. position <= Len(d)
    <3>1. d \in Seq(Byte)
      BY <1>3, FilesGrow
    <3>2. position \in Nat /\ Len(c) \in Nat /\ position <= Len(c)
      BY <1>0, ReadPlaces
    <3>3. Len(d) \in Nat
      BY <3>1
    <3>. QED BY <2>1, <3>2, <3>3
  <2>5. AtBoundary(d, start)
    BY <1>2, <1>3, <2>3
  <2>6. \A k \in DOMAIN buf : buf[k] = d[readOffset + k]
    BY <2>1, <2>2, <2>3
  <2>7. \A k \in DOMAIN pending : ~pending[k].nl /\ pending[k] = d[start + k]
    BY <2>1, <2>2, <2>3
  <2>. QED BY <1>1, <2>3, <2>4, <2>5, <2>6, <2>7 DEF ReadInv
<1>7. /\ \A k \in DOMAIN out : Whole(content'[out[k].id], out[k])
      /\ \A k \in DOMAIN entries : Whole(content'[entries[k].id], entries[k])
      /\ at = "send" => Whole(content'[hand.id], hand)
      /\ checkpoint # <<>> => AtBoundary(content'[checkpoint.id], checkpoint.off)
  BY <1>2, <1>3, <1>5 DEF WholeInv
<1>8. FormInv'
  BY <1>0, FormStep
<1>. QED BY <1>1, <1>6, <1>7, <1>8 DEF WholeInv

\* From one boundary to the next newline there are two bytes.
LEMMA LineIsTwo ==
  ASSUME NEW c \in Seq(Byte), Paired(c), NEW s \in Nat, AtBoundary(c, s), NEW l \in Nat \ {0},
         s + l \in DOMAIN c, c[s + l].nl, \A k \in 1..l : k < l => ~c[s + k].nl
  PROVE  l = 2
<1>0. Len(c) \in Nat /\ DOMAIN c = 1..Len(c)
  OBVIOUS
<1>1. s + 1 \in DOMAIN c
  BY <1>0
<1>2. ~c[s + 1].nl
  <2>. SUFFICES ASSUME c[s + 1].nl PROVE FALSE
    OBVIOUS
  <2>1. s + 1 > 1 /\ ~c[(s + 1) - 1].nl
    BY <1>1 DEF Paired
  <2>2. s # 0 /\ (s + 1) - 1 = s
    BY <2>1
  <2>. QED BY <2>1, <2>2 DEF AtBoundary
<1>3. l # 1
  BY <1>2
<1>4. s + 1 < Len(c)
  BY <1>0, <1>3
<1>5. c[(s + 1) + 1].nl
  BY <1>1, <1>2, <1>4 DEF Paired
<1>6. ASSUME l > 2 PROVE FALSE
  <2>1. 2 \in 1..l /\ 2 < l /\ (s + 1) + 1 = s + 2
    BY <1>6
  <2>. QED BY <1>5, <2>1
<1>. QED BY <1>3, <1>6

\* A sequence of two.
LEMMA PairIs ==
  ASSUME NEW S, NEW s \in Seq(S), Len(s) = 2
  PROVE  s = <<s[1], s[2]>>
<1>1. s[1] \in S /\ s[2] \in S
  BY ElementOfSeq
<1>2. <<s[1], s[2]>> \in Seq(S) /\ Len(<<s[1], s[2]>>) = 2
  BY <1>1
<1>3. \A i \in 1..Len(s) : s[i] = <<s[1], s[2]>>[i]
  <2>1. \A i \in 1..2 : i = 1 \/ i = 2
    OBVIOUS
  <2>. QED BY <2>1
<1>. QED BY <1>2, <1>3, SeqEqual

\* ReadLine takes a whole line.
LEMMA ReadLineWhole ==
  ASSUME ProcessInv, FormInv, ReadInv, ReadLine
  PROVE  ReadInv' /\ Whole(content[identity], hand') /\ hand'.id = identity
<1>. DEFINE c == content[identity]
            start == readOffset - Len(pending)
<1>1. UNCHANGED <<identity, position, content>> /\ pending' = <<>>
  BY DEF ReadLine, fileVars
<1>2. PICK n \in Nat : ReadsTo(n)
  BY ReadLineTakes DEF ProcessInv
<1>. DEFINE l == Len(pending) + n
            front == SubSeq(buf, 1, n)
<1>3. /\ n \in 1..Len(buf) /\ buf[n].nl /\ \A j \in 1..Len(buf) : buf[j].nl => n <= j
      /\ hand'.id = identity /\ hand'.end = readOffset + n /\ hand'.bytes = pending \o front
      /\ readOffset' = readOffset + n
      /\ buf' \in Seq(Byte) /\ Len(buf') = Len(buf) - n /\ \A k \in 1..(Len(buf) - n) : buf'[k] = buf[n + k]
  BY <1>2 DEF ReadsTo
<1>4. /\ c \in Seq(Byte) /\ DOMAIN c = 1..Len(c) /\ Len(c) \in Nat /\ readOffset \in Nat /\ position \in Nat
      /\ buf \in Seq(Byte) /\ Len(buf) \in Nat /\ DOMAIN buf = 1..Len(buf)
      /\ pending \in Seq(Byte) /\ Len(pending) \in Nat /\ DOMAIN pending = 1..Len(pending)
      /\ start \in Nat /\ position <= Len(c)
      /\ \A k \in DOMAIN buf : readOffset + k \in DOMAIN c
  BY ReadPlaces
<1>5. /\ \A k \in 1..Len(buf) : buf[k] = c[readOffset + k]
      /\ AtBoundary(c, start)
      /\ \A k \in 1..Len(pending) : ~pending[k].nl /\ pending[k] = c[start + k]
  BY <1>4 DEF ReadInv
<1>6. Paired(c)
  BY DEF FormInv, ProcessInv, SourceTyped
<1>. HIDE DEF c
<1>7. front \in Seq(Byte) /\ Len(front) = n /\ \A k \in 1..n : front[k] = buf[k]
  <2>1. buf \in Seq(Byte) /\ n \in 0..Len(buf)
    BY <1>3, <1>4
  <2>. QED BY <2>1, FrontElements
<1>. HIDE DEF front
<1>8. /\ pending \o front \in Seq(Byte) /\ Len(pending \o front) = l
      /\ \A k \in 1..Len(pending) : (pending \o front)[k] = pending[k]
      /\ \A k \in 1..l : k > Len(pending) => k - Len(pending) \in 1..n /\ (pending \o front)[k] = front[k - Len(pending)]
  <2>1. pending \in Seq(Byte) /\ front \in Seq(Byte)
    BY <1>4, <1>7
  <2>2. /\ pending \o front \in Seq(Byte) /\ Len(pending \o front) = Len(pending) + Len(front)
        /\ \A k \in 1..Len(pending) : (pending \o front)[k] = pending[k]
        /\ \A k \in 1..(Len(pending) + Len(front)) : k > Len(pending) =>
             k - Len(pending) \in 1..Len(front) /\ (pending \o front)[k] = front[k - Len(pending)]
    BY <2>1, ConcatElements, ZenonT(60)
  <2>. QED BY <1>7, <2>2
<1>9. l \in Nat \ {0} /\ start + l = readOffset + n /\ start + Len(pending) = readOffset
  BY <1>3, <1>4
\* the bytes of the record are the bytes of the file, and only the last is a newline
<1>10. ASSUME NEW k \in 1..l
       PROVE  (pending \o front)[k] = c[start + k] /\ (k < l => ~c[start + k].nl)
  <2>1. CASE k \in 1..Len(pending)
    BY <1>5, <1>8, <2>1
  <2>2. CASE k > Len(pending)
    <3>. DEFINE j == k - Len(pending)
    <3>1. j \in 1..n /\ (pending \o front)[k] = front[j] /\ readOffset + j = start + k
      BY <1>4, <1>8, <2>2
    <3>2. j \in 1..Len(buf) /\ (k < l => j < n)
      BY <1>3, <1>4, <3>1, SMTT(30)
    <3>. HIDE DEF j
    <3>3. front[j] = buf[j] /\ buf[j] = c[readOffset + j]
      BY <1>5, <1>7, <3>1, <3>2
    <3>4. k < l => ~buf[j].nl
      BY <1>3, <3>1, <3>2
    <3>. QED BY <3>1, <3>3, <3>4
  <2>3. Len(pending) \in Nat /\ l \in Nat
    BY <1>4, <1>9
  <2>4. k \in 1..Len(pending) \/ k > Len(pending)
    BY <2>3
  <2>. QED BY <2>1, <2>2, <2>4
<1>11. start + l \in DOMAIN c /\ c[start + l].nl
  BY <1>3, <1>4, <1>5, <1>9
<1>12. l = 2
  <2>1. \A k \in 1..l : k < l => ~c[start + k].nl
    BY <1>10
  <2>. HIDE DEF l, start
  <2>2. start \in Nat /\ AtBoundary(c, start) /\ l \in Nat \ {0}
    BY <1>4, <1>5, <1>9
  <2>. QED BY <1>4, <1>6, <1>11, <2>1, <2>2, LineIsTwo
<1>13. hand'.bytes = <<c[start + 1], c[start + 2]>>
  <2>1. pending \o front = <<(pending \o front)[1], (pending \o front)[2]>>
    <3>1. pending \o front \in Seq(Byte) /\ Len(pending \o front) = 2
      BY <1>8, <1>12
    <3>. QED BY <3>1, PairIs
  <2>2. (pending \o front)[1] = c[start + 1] /\ (pending \o front)[2] = c[start + 2]
    <3>1. 1 \in 1..l /\ 2 \in 1..l
      BY <1>12
    <3>. HIDE DEF l, start
    <3>. QED BY <1>10, <3>1
  <2>. QED BY <1>3, <2>1, <2>2
<1>14. hand'.end = start + 2 /\ hand'.end - 1 = start + 1
  BY <1>3, <1>4, <1>9, <1>12, SMTT(30)
<1>15. Whole(c, hand')
  BY <1>11, <1>12, <1>13, <1>14 DEF Whole
<1>16. ReadInv'
  <2>1. Len(pending') = 0 /\ readOffset' - Len(pending') = readOffset' /\ readOffset' >= 0 /\ DOMAIN pending' = {}
    BY <1>1, <1>3, <1>4
  <2>2. AtBoundary(c, readOffset')
    BY <1>3, <1>9, <1>11 DEF AtBoundary
  <2>3. \A k \in DOMAIN buf' : buf'[k] = c[readOffset' + k]
    <3>. SUFFICES ASSUME NEW k \in 1..(Len(buf) - n)
                  PROVE  buf'[k] = c[readOffset' + k]
      BY <1>3
    <3>1. n + k \in 1..Len(buf) /\ readOffset + (n + k) = readOffset' + k
      BY <1>3, <1>4
    <3>. QED BY <1>3, <1>5, <3>1
  <2>. QED BY <1>1, <1>3, <1>4, <2>1, <2>2, <2>3 DEF ReadInv, c
<1>. QED BY <1>3, <1>15, <1>16 DEF c

\* Fill and ReadFragment take the bytes of the file as they are.
LEMMA FillWhole ==
  ASSUME ProcessInv, ReadInv, Fill
  PROVE  ReadInv'
<1>. DEFINE c == content[identity]
<1>1. at = "read" /\ UNCHANGED <<at, identity, content, readOffset, pending>>
  BY DEF Fill, fileVars
<1>2. /\ position \in Nat /\ position' = Len(c)
      /\ buf' \in Seq(Byte)
      /\ \A k \in 1..Len(buf) : buf'[k] = buf[k]
      /\ \A k \in 1..Len(buf') : k > Len(buf) => buf'[k] = c[position + (k - Len(buf))]
  BY FillReads DEF ProcessInv
<1>3. /\ readOffset \in Nat /\ Len(buf) \in Nat /\ DOMAIN buf = 1..Len(buf) /\ position = readOffset + Len(buf) /\ Len(c) \in Nat
  BY ReadPlaces
<1>4. \A k \in 1..Len(buf) : buf[k] = c[readOffset + k]
  BY <1>3 DEF ReadInv
<1>. HIDE DEF c
<1>5. ASSUME NEW k \in DOMAIN buf'
      PROVE  buf'[k] = c[readOffset + k]
  <2>1. k \in 1..Len(buf') /\ k \in Nat
    BY <1>2
  <2>2. CASE k \in 1..Len(buf)
    BY <1>2, <1>4, <2>2
  <2>3. CASE k > Len(buf)
    <3>1. position + (k - Len(buf)) = readOffset + k
      BY <1>3, <2>1
    <3>. QED BY <1>2, <2>1, <2>3, <3>1
  <2>. QED BY <1>3, <2>1, <2>2, <2>3
<1>6. position' <= Len(c)
  BY <1>2, <1>3
<1>. QED BY <1>1, <1>5, <1>6 DEF ReadInv, c

\* A read without a newline adds a part of one line to the buffer.
LEMMA FragmentWhole ==
  ASSUME ProcessInv, ReadInv, ReadFragment
  PROVE  ReadInv'
<1>. DEFINE c == content[identity]
            start == readOffset - Len(pending)
<1>1. /\ UNCHANGED <<identity, position, content>> /\ at' = "eof" /\ Newlines = {}
      /\ pending' = pending \o buf /\ readOffset' = readOffset + Len(buf) /\ buf' = <<>>
  BY DEF ReadFragment, fileVars
<1>2. /\ readOffset \in Nat /\ position \in Nat /\ Len(c) \in Nat /\ position <= Len(c)
      /\ buf \in Seq(Byte) /\ Len(buf) \in Nat /\ DOMAIN buf = 1..Len(buf)
      /\ pending \in Seq(Byte) /\ Len(pending) \in Nat /\ DOMAIN pending = 1..Len(pending) /\ start \in Nat
  BY ReadPlaces
<1>3. /\ \A k \in 1..Len(buf) : buf[k] = c[readOffset + k]
      /\ AtBoundary(c, start)
      /\ \A k \in 1..Len(pending) : ~pending[k].nl /\ pending[k] = c[start + k]
  BY <1>2 DEF ReadInv
<1>. HIDE DEF c
<1>4. \A k \in 1..Len(buf) : ~buf[k].nl
  BY <1>1, <1>2 DEF Newlines
<1>5. /\ Len(pending') = Len(pending) + Len(buf) /\ DOMAIN pending' = 1..(Len(pending) + Len(buf))
      /\ \A k \in 1..Len(pending) : pending'[k] = pending[k]
      /\ \A k \in 1..(Len(pending) + Len(buf)) : k > Len(pending) =>
           k - Len(pending) \in 1..Len(buf) /\ pending'[k] = buf[k - Len(pending)]
  <2>1. buf \in Seq(Byte) /\ pending \in Seq(Byte)
    BY <1>2
  <2>. QED BY <1>1, <2>1, ConcatElements, ZenonT(60)
<1>6. readOffset' - Len(pending') = start
  BY <1>1, <1>2, <1>5
<1>7. ASSUME NEW k \in DOMAIN pending'
      PROVE  ~pending'[k].nl /\ pending'[k] = c[start + k]
  <2>0. k \in 1..(Len(pending) + Len(buf))
    BY <1>5
  <2>1. CASE k \in 1..Len(pending)
    BY <1>3, <1>5, <2>1
  <2>2. CASE k > Len(pending)
    <3>1. k - Len(pending) \in 1..Len(buf) /\ pending'[k] = buf[k - Len(pending)]
      BY <1>5, <2>0, <2>2
    <3>2. readOffset + (k - Len(pending)) = start + k
      BY <1>2, <2>0
    <3>. QED BY <1>3, <1>4, <3>1, <3>2
  <2>. QED BY <1>2, <2>0, <2>1, <2>2
<1>8. start >= 0 /\ DOMAIN buf' = {}
  BY <1>1, <1>2
<1>. QED BY <1>1, <1>2, <1>3, <1>6, <1>7, <1>8 DEF ReadInv, c

\* The other steps of the source stay where they are, or begin at a boundary.
LEMMA SourceReads ==
  ASSUME ProcessInv, WholeInv, Start \/ NextRecord \/ runPipeline \/ SpoolFails \/ Crash
  PROVE  ReadInv'
<1>0. FormInv /\ ReadInv /\ FilesTyped /\ SourceTyped
  BY DEF ProcessInv, WholeInv
<1>1. CASE ReadLine
  BY <1>0, <1>1, ReadLineWhole
<1>2. CASE Fill
  BY <1>0, <1>2, FillWhole
<1>3. CASE ReadFragment
  BY <1>0, <1>3, FragmentWhole
<1>4. CASE UNCHANGED <<content, readVars>> /\ (at' = "send" => at = "send" /\ hand' = hand)
  BY <1>0, <1>4 DEF ReadInv, readVars
<1>5. ASSUME content' = content, position' = readOffset', buf' = <<>>, pending' = <<>>, at' # "send",
             readOffset' \in Nat, readOffset' <= Len(content[identity']), AtBoundary(content[identity'], readOffset')
      PROVE  ReadInv'
  <2>1. Len(pending') = 0 /\ DOMAIN pending' = {} /\ DOMAIN buf' = {}
    BY <1>5
  <2>2. readOffset' - Len(pending') = readOffset' /\ readOffset' >= 0
    <3>1. readOffset' \in Nat
      BY <1>5
    <3>2. \A n \in Nat : n - 0 = n /\ n >= 0
      OBVIOUS
    <3>. QED BY <2>1, <3>1, <3>2
  <2>. QED BY <1>5, <2>1, <2>2 DEF ReadInv
\* a step to the beginning of a file
<1>6. ASSUME content' = content, identity' \in Identity, position' = 0, readOffset' = 0, buf' = <<>>, pending' = <<>>, at' # "send"
      PROVE  ReadInv'
  <2>1. 0 <= Len(content[identity']) /\ AtBoundary(content[identity'], 0)
    BY <1>0, <1>6 DEF FilesTyped, AtBoundary
  <2>. QED BY <1>5, <1>6, <2>1
<1>7. CASE Start
  <2>1. /\ content' = content /\ identity' = path /\ position' = StartOffset(path) /\ readOffset' = StartOffset(path)
        /\ buf' = <<>> /\ pending' = <<>> /\ at' # "send" /\ path # NoFile
    BY <1>7 DEF Start, SeekTo, fileVars
  <2>2. path \in Identity
    BY <1>0, <2>1 DEF FilesTyped
  <2>3. CASE StartOffset(path) = 0
    BY <1>6, <2>1, <2>2, <2>3
  <2>4. CASE StartOffset(path) # 0
    <3>1. checkpoint # <<>> /\ checkpoint.id = path /\ Len(content[path]) >= checkpoint.off /\ StartOffset(path) = checkpoint.off
      BY <2>4 DEF StartOffset
    <3>2. checkpoint.off \in Nat /\ Len(content[path]) \in Nat
      BY <1>0, <2>2, <3>1, SMTT(30) DEF SourceTyped, FilesTyped
    <3>3. AtBoundary(content[path], StartOffset(path))
      BY <3>1 DEF WholeInv
    <3>. QED BY <1>5, <2>1, <3>1, <3>2, <3>3
  <2>. QED BY <2>3, <2>4
<1>8. CASE Crash
  BY <1>0, <1>6, <1>8 DEF Crash, SeekTo, fileVars, SourceTyped
<1>9. CASE Rotate
  <2>1. /\ content' = content /\ identity' = path /\ position' = 0 /\ readOffset' = 0 /\ buf' = <<>> /\ at' # "send"
        /\ pending' = pending /\ at = "rotate" /\ path # NoFile
    BY <1>9 DEF Rotate, SeekTo, fileVars
  <2>2. pending = <<>> /\ path \in Identity
    BY <1>0, <2>1 DEF SourceTyped, FilesTyped
  <2>. QED BY <1>6, <2>1, <2>2
<1>10. CASE DetectSame
  <2>1. at = "eof" /\ path = identity /\ at' # "send" /\ content' = content
    BY <1>10 DEF DetectSame, fileVars
  <2>2. Len(content[path]) >= readOffset
    <3>1. position <= Len(content[identity]) /\ position \in Nat /\ readOffset \in Nat
          /\ Len(content[identity]) \in Nat /\ position = readOffset + Len(buf) /\ Len(buf) \in Nat
      BY <1>0, ReadPlaces
    <3>. QED BY <2>1, <3>1
  <2>3. UNCHANGED <<identity, position, buf, pending, readOffset>>
    BY <1>10, <2>2 DEF DetectSame
  <2>. QED BY <1>0, <2>1, <2>3 DEF ReadInv
<1>11. CASE DetectFails
  BY <1>4, <1>11 DEF DetectFails, fileVars
<1>12. CASE DetectRename
  <2>1. UNCHANGED <<content, identity, position, buf, pending, readOffset>> /\ at' # "send"
    BY <1>12 DEF DetectRename, fileVars
  <2>. QED BY <1>0, <2>1 DEF ReadInv
<1>13. CASE Receive
  BY <1>4, <1>13 DEF Receive, fileVars
<1>14. CASE Flush
  BY <1>4, <1>14 DEF Flush, fileVars
<1>15. CASE SpoolFails
  BY <1>4, <1>15 DEF SpoolFails, fileVars
<1>16. CASE RotateFails
  BY <1>4, <1>16 DEF RotateFails, fileVars
<1>. QED BY <1>1, <1>2, <1>3, <1>7, <1>8, <1>9, <1>10, <1>11, <1>12, <1>13, <1>14, <1>15, <1>16
     DEF NextRecord, runPipeline

\* Records stay whole on their way out, and so does the checkpoint.
LEMMA SourceWhole ==
  ASSUME ProcessInv, WholeInv, Start \/ NextRecord \/ runPipeline \/ SpoolFails \/ Crash
  PROVE  WholeInv'
<1>0. FormInv /\ ReadInv /\ FilesTyped /\ SourceTyped
  BY DEF ProcessInv, WholeInv
<1>1. UNCHANGED fileVars
  BY DEF NextRecord, runPipeline, Start, Crash, ReadLine, Fill, ReadFragment, DetectFails, DetectRename, DetectSame,
         Receive, Flush, SpoolFails, Rotate, RotateFails
<1>2. content' = content /\ FormInv'
  BY <1>0, <1>1 DEF FormInv, fileVars
<1>3. /\ \A k \in DOMAIN out : Whole(content[out[k].id], out[k])
      /\ \A k \in DOMAIN entries : Whole(content[entries[k].id], entries[k])
      /\ at = "send" => Whole(content[hand.id], hand)
      /\ checkpoint # <<>> => AtBoundary(content[checkpoint.id], checkpoint.off)
  BY DEF WholeInv
<1>4. ReadInv'
  BY SourceReads
<1>5. out \in Seq(Rec) /\ entries \in Seq(Rec)
  BY <1>0 DEF SourceTyped
<1>6. \A k \in DOMAIN out' : Whole(content[out'[k].id], out'[k])
  <2>1. CASE out' = out
    BY <1>3, <2>1
  <2>2. CASE Flush
    <3>1. out' = out \o entries
      BY <2>2 DEF Flush
    <3>2. \A k \in DOMAIN out' : (k \in DOMAIN out /\ out'[k] = out[k]) \/ \E j \in DOMAIN entries : out'[k] = entries[j]
      <4>1. DOMAIN out' = 1..(Len(out) + Len(entries)) /\ DOMAIN out = 1..Len(out) /\ DOMAIN entries = 1..Len(entries)
        BY <1>5, <3>1, ConcatElements
      <4>2. /\ \A k \in 1..Len(out) : out'[k] = out[k]
            /\ \A k \in 1..(Len(out) + Len(entries)) : k > Len(out) => k - Len(out) \in 1..Len(entries) /\ out'[k] = entries[k - Len(out)]
        BY <1>5, <3>1, ConcatElements
      <4>3. \A k \in 1..(Len(out) + Len(entries)) : k \in 1..Len(out) \/ k > Len(out)
        BY <1>5
      <4>. QED BY <4>1, <4>2, <4>3
    <3>. QED BY <1>3, <3>2
  <2>. QED BY <2>1, <2>2
       DEF NextRecord, runPipeline, Start, Crash, ReadLine, Fill, ReadFragment, DetectFails, DetectRename, DetectSame,
           Receive, SpoolFails, Rotate, RotateFails, spoolVars
<1>7. \A k \in DOMAIN entries' : Whole(content[entries'[k].id], entries'[k])
  <2>1. CASE entries' = entries
    BY <1>3, <2>1
  <2>2. CASE entries' = <<>>
    BY <2>2
  <2>3. CASE Receive
    <3>1. entries' = Append(entries, hand) /\ at = "send" /\ hand \in Rec
      BY <1>0, <2>3 DEF Receive, SourceTyped
    <3>2. \A k \in DOMAIN entries' : (k \in DOMAIN entries /\ entries'[k] = entries[k]) \/ entries'[k] = hand
      BY <1>5, <3>1
    <3>. QED BY <1>3, <3>1, <3>2
  <2>. QED BY <2>1, <2>2, <2>3
       DEF NextRecord, runPipeline, Start, Crash, ReadLine, Fill, ReadFragment, DetectFails, DetectRename, DetectSame,
           Flush, SpoolFails, Rotate, RotateFails
<1>8. at' = "send" => Whole(content[hand'.id], hand')
  <2>1. CASE ReadLine
    BY <1>0, <2>1, ReadLineWhole
  <2>2. CASE Flush
    BY <1>3, <2>2 DEF Flush
  <2>3. CASE at' # "send"
    BY <2>3
  <2>4. ASSUME ~ReadLine, ~Flush
        PROVE  at' # "send"
    BY <2>4 DEF NextRecord, runPipeline, Start, Crash, Fill, ReadFragment, DetectFails, DetectRename, DetectSame,
           Receive, SpoolFails, Rotate, RotateFails
  <2>. QED BY <2>1, <2>2, <2>3, <2>4
<1>9. checkpoint' # <<>> => AtBoundary(content[checkpoint'.id], checkpoint'.off)
  <2>1. CASE checkpoint' = checkpoint
    BY <1>3, <2>1
  <2>2. CASE Start
    <3>1. checkpoint' = [id |-> path, off |-> StartOffset(path)]
      BY <2>2 DEF Start, Checkpoint
    <3>2. AtBoundary(content[path], StartOffset(path))
      BY <1>3 DEF StartOffset, AtBoundary
    <3>. QED BY <3>1, <3>2
  <2>3. CASE Rotate
    <3>1. checkpoint' = [id |-> path, off |-> 0]
      BY <2>3 DEF Rotate, Checkpoint
    <3>. QED BY <3>1 DEF AtBoundary
  <2>4. CASE Flush
    <3>1. entries # <<>> /\ checkpoint' = [id |-> entries[Len(entries)].id, off |-> entries[Len(entries)].end]
      BY <2>4 DEF Flush, Checkpoint, Last
    <3>2. Len(entries) \in DOMAIN entries
      BY <1>5, <3>1
    <3>. QED BY <1>3, <3>1, <3>2 DEF Whole, AtBoundary
  <2>. QED BY <2>1, <2>2, <2>3, <2>4
       DEF NextRecord, runPipeline, Crash, ReadLine, Fill, ReadFragment, DetectFails, DetectRename, DetectSame,
           Receive, SpoolFails, RotateFails, spoolVars
<1>. QED BY <1>2, <1>4, <1>6, <1>7, <1>8, <1>9 DEF WholeInv

\* At first there is no part of a line in hand.
LEMMA WholeInit == Init => WholeInv
<1>. SUFFICES ASSUME Init
              PROVE  WholeInv
  OBVIOUS
<1>1. /\ at = "down" /\ position = 0 /\ readOffset = 0 /\ buf = <<>> /\ pending = <<>> /\ entries = <<>> /\ out = <<>>
      /\ checkpoint = <<>> /\ ~half /\ identity \in Identity /\ \A i \in Identity : content[i] = <<>>
  BY DEF Init
<1>2. DOMAIN <<>> = {} /\ Len(<<>>) = 0
  OBVIOUS
<1>3. FormInv
  BY <1>1, <1>2 DEF FormInv, Paired
<1>4. ReadInv
  <2>0. Len(content[identity]) = 0 /\ Len(pending) = 0 /\ 0 - 0 = 0
    <3>1. content[identity] = <<>>
      BY <1>1
    <3>. QED BY <1>1, <3>1
  <2>1. Len(content[identity]) = 0 /\ Len(pending) = 0 /\ readOffset - Len(pending) = 0
    BY <1>1, <2>0
  <2>2. position <= 0 /\ 0 >= 0
    BY <1>1
  <2>3. AtBoundary(content[identity], 0)
    BY DEF AtBoundary
  <2>. QED BY <1>1, <1>2, <2>1, <2>2, <2>3 DEF ReadInv
<1>. QED BY <1>1, <1>2, <1>3, <1>4 DEF WholeInv

\* Every step keeps lines whole when files only grow.
LEMMA WholeStep == OnlyGrow /\ ProcessInv /\ WholeInv /\ [Next]_vars => WholeInv'
<1>. SUFFICES ASSUME OnlyGrow, ProcessInv, WholeInv, [Next]_vars
              PROVE  WholeInv'
  OBVIOUS
<1>1. CASE UNCHANGED vars
  BY <1>1 DEF WholeInv, FormInv, ReadInv, vars, fileVars, readVars, spoolVars
<1>2. CASE Environment
  BY <1>2, EnvironmentWhole
<1>3. CASE Start \/ NextRecord \/ runPipeline \/ SpoolFails \/ Crash
  BY <1>3, SourceWhole
<1>. QED BY <1>1, <1>2, <1>3 DEF Next

-----------------------------------------------------------------------------
\* When files only grow, a committed record is one line in one piece, however
\* NextRecord got its bytes together: over several reads, polls and restarts,
\* and a writer that goes on in a renamed file.
THEOREM FileRecordsWhole == OnlyGrow => (Spec => []RecordsWhole)
<1>. SUFFICES ASSUME OnlyGrow
              PROVE  Spec => []RecordsWhole
  OBVIOUS
<1>1. Init => ProcessInv /\ WholeInv
  BY ProcessInit, WholeInit
<1>2. ProcessInv /\ WholeInv /\ [Next]_vars => (ProcessInv /\ WholeInv)'
  BY ProcessStep, WholeStep
<1>3. ASSUME ProcessInv, WholeInv
      PROVE  RecordsWhole
  <2>. SUFFICES ASSUME NEW k \in DOMAIN out
                PROVE  \E n \in 1..lines : out[k].bytes = <<[line |-> n, nl |-> FALSE], [line |-> n, nl |-> TRUE]>>
    BY DEF RecordsWhole
  <2>. DEFINE m == out[k]
              c == content[m.id]
  <2>1. m \in Rec
    BY <1>3 DEF ProcessInv, SourceTyped
  <2>2. m.id \in Identity /\ c \in Seq(Byte)
    BY <1>3, <2>1 DEF Rec, RawRecord, ProcessInv, FilesTyped
  <2>3. /\ m.end \in DOMAIN c /\ c[m.end].nl /\ m.bytes = <<c[m.end - 1], c[m.end]>>
        /\ Paired(c) /\ \A j \in DOMAIN c : c[j].line <= lines
    BY <1>3, <2>2 DEF WholeInv, FormInv, Whole
  <2>. HIDE DEF c, m
  <2>4. m.end > 1 /\ ~c[m.end - 1].nl /\ c[m.end - 1].line = c[m.end].line
    BY <2>3 DEF Paired
  <2>5. m.end - 1 \in DOMAIN c
    BY <2>2, <2>3, <2>4
  <2>6. c[m.end - 1] \in Byte /\ c[m.end] \in Byte /\ c[m.end].line <= lines
    BY <2>2, <2>3, <2>5, ByteTyped
  <2>7. c[m.end].line \in 1..lines
    BY <1>3, <2>6, FileTyped DEF Byte, ProcessInv, FilesTyped
  <2>8. c[m.end - 1] = [line |-> c[m.end].line, nl |-> FALSE] /\ c[m.end] = [line |-> c[m.end].line, nl |-> TRUE]
    BY <2>3, <2>4, <2>6 DEF Byte
  <2>. QED BY <2>3, <2>7, <2>8 DEF m
<1>4. ProcessInv /\ WholeInv => RecordsWhole
  BY <1>3
<1>. QED BY <1>1, <1>2, <1>4, PTL DEF Spec

-----------------------------------------------------------------------------
\* The numbers the covers are about.
LEMMA CoverTyped ==
  ASSUME ProcessInv, WholeInv
  PROVE  /\ content \in [Identity -> Seq(Byte)] /\ identity \in Identity /\ readOffset \in Nat /\ Len(content[identity]) \in Nat
         /\ readOffset <= Len(content[identity])
         /\ \A i \in Identity : Len(content[i]) \in Nat /\ DOMAIN content[i] = 1..Len(content[i])
         /\ checkpoint # <<>> => /\ checkpoint.id \in Identity /\ checkpoint.off \in Nat
                                 /\ checkpoint.off <= Len(content[checkpoint.id])
         /\ \A k \in DOMAIN entries : /\ entries[k].id = identity /\ entries[k].end \in Nat
                                      /\ entries[k].end \in DOMAIN content[identity]
         /\ \A k \in DOMAIN out : /\ out[k].id \in Identity /\ out[k].end \in Nat
                                  /\ out[k].end \in DOMAIN content[out[k].id]
         /\ out \in Seq(Rec) /\ entries \in Seq(Rec)
<1>0. FilesTyped /\ SourceTyped /\ ReadInv
  BY DEF ProcessInv, WholeInv
<1>1. /\ content \in [Identity -> Seq(Byte)] /\ identity \in Identity /\ out \in Seq(Rec) /\ entries \in Seq(Rec)
      /\ \A k \in DOMAIN entries : entries[k].id = identity
      /\ checkpoint # <<>> => checkpoint.id \in Identity /\ checkpoint.off \in Nat
  BY <1>0 DEF FilesTyped, SourceTyped
<1>2. /\ readOffset \in Nat /\ Len(content[identity]) \in Nat /\ readOffset <= Len(content[identity])
  <2>1. /\ readOffset \in Nat /\ Len(content[identity]) \in Nat /\ position = readOffset + Len(buf) /\ Len(buf) \in Nat
        /\ position <= Len(content[identity])
    BY <1>0, ReadPlaces
  <2>. QED BY <2>1
<1>3. \A i \in Identity : Len(content[i]) \in Nat /\ DOMAIN content[i] = 1..Len(content[i])
  BY <1>1
<1>4. \A m \in Rec : m.id \in Identity /\ m.end \in Nat
  BY DEF Rec, RawRecord
<1>5. checkpoint # <<>> => checkpoint.off <= Len(content[checkpoint.id])
  BY <1>1, <1>3 DEF WholeInv, AtBoundary
<1>6. \A k \in DOMAIN entries : entries[k].end \in Nat /\ entries[k].end \in DOMAIN content[identity]
  BY <1>1, <1>4, SMTT(30) DEF WholeInv, Whole
<1>7. \A k \in DOMAIN out : out[k].id \in Identity /\ out[k].end \in Nat /\ out[k].end \in DOMAIN content[out[k].id]
  BY <1>1, <1>4 DEF WholeInv, Whole
<1>. QED BY <1>1, <1>2, <1>3, <1>5, <1>6, <1>7

\* A file that grows does so behind what is covered.
LEMMA EnvironmentCover ==
  ASSUME OnlyGrow, ProcessInv, FilesInv, WholeInv, CoverInv, Environment
  PROVE  CoverInv'
<1>0. CheckpointCover /\ PathFresh /\ EntriesCover /\ SourceCover
  BY DEF CoverInv
<1>1. UNCHANGED <<at, identity, readOffset, entries, checkpoint, out>>
  BY DEF Environment, WriteByte, Reopen, Rename, Create, CopyTruncate, Delete, readVars, spoolVars
<1>2. ASSUME NEW i \in Identity, NEW e \in Nat, e <= Len(content[i]), NEW j \in DOMAIN content'[i], j <= e
      PROVE  j \in DOMAIN content[i] /\ content'[i][j] = content[i][j]
  <2>1. content[i] \in Seq(Byte) /\ content'[i] \in Seq(Byte) /\ Extends(content[i], content'[i])
    BY FilesGrow
  <2>2. j \in DOMAIN content[i]
    BY <1>2, <2>1
  <2>. QED BY <2>1, <2>2 DEF Extends
<1>3. CheckpointCover'
  BY <1>0, <1>1, <1>2, CoverTyped DEF CheckpointCover
<1>4. EntriesCover'
  <2>. SUFFICES ASSUME at # "down"
                PROVE  EntriesCover'
    BY <1>1 DEF EntriesCover
  <2>1. ASSUME NEW k \in DOMAIN entries, NEW j \in DOMAIN content'[identity],
               content'[identity][j].nl, checkpoint.off < j, j <= entries[k].end
        PROVE  \E m \in DOMAIN entries : entries[m].end = j
    <3>1. identity \in Identity /\ entries[k].end \in Nat /\ entries[k].end <= Len(content[identity])
      BY CoverTyped
    <3>2. j \in DOMAIN content[identity] /\ content'[identity][j] = content[identity][j]
      BY <1>2, <2>1, <3>1
    <3>. QED BY <1>0, <2>1, <3>2 DEF EntriesCover
  <2>. QED BY <1>0, <1>1, <2>1 DEF EntriesCover
<1>5. SourceCover'
  <2>. SUFFICES ASSUME at \notin {"down", "failed"}
                PROVE  SourceCover'
    BY <1>1 DEF SourceCover
  <2>1. ASSUME NEW j \in DOMAIN content'[identity], content'[identity][j].nl, checkpoint.off < j, j <= readOffset
        PROVE  (\E k \in DOMAIN entries : entries[k].end = j) \/ (at = "send" /\ j = readOffset)
    <3>1. identity \in Identity /\ readOffset \in Nat /\ readOffset <= Len(content[identity])
      BY CoverTyped
    <3>2. j \in DOMAIN content[identity] /\ content'[identity][j] = content[identity][j]
      BY <1>2, <2>1, <3>1
    <3>. QED BY <1>0, <2>1, <3>2 DEF SourceCover
  <2>. QED BY <1>0, <1>1, <2>1 DEF SourceCover
<1>6. PathFresh'
  <2>1. CASE path' = path \/ path' = NoFile
    BY <1>0, <1>1, <2>1 DEF PathFresh
  <2>2. ASSUME NEW i \in Identity, Create(i)
        PROVE  PathFresh'
    <3>1. path' = i /\ content[i] = <<>>
      BY <2>2 DEF Create, FilesInv
    <3>2. \A k \in DOMAIN out : out[k].id # i
      BY <3>1, CoverTyped
    <3>. QED BY <1>1, <3>1, <3>2 DEF PathFresh
  <2>. QED BY <2>1, <2>2 DEF Environment, WriteByte, Reopen, Rename, CopyTruncate, Delete
<1>. QED BY <1>3, <1>4, <1>5, <1>6 DEF CoverInv

\* Start: from the checkpoint of the file at the path, or from its beginning.
LEMMA StartCover ==
  ASSUME ProcessInv, WholeInv, CoverInv, Start
  PROVE  CoverInv'
<1>0. CheckpointCover /\ PathFresh /\ FilesTyped /\ SourceTyped
  BY DEF CoverInv, ProcessInv
<1>1. /\ UNCHANGED <<path, content, out>> /\ path # NoFile /\ at' = "read" /\ entries' = <<>>
      /\ identity' = path /\ readOffset' = StartOffset(path)
      /\ checkpoint' = [id |-> path, off |-> StartOffset(path)]
  BY <1>0 DEF Start, SeekTo, Checkpoint, SourceTyped, fileVars
<1>2. path \in Identity /\ DOMAIN entries' = {} /\ checkpoint' # <<>> /\ checkpoint'.id = path /\ checkpoint'.off = StartOffset(path)
  BY <1>0, <1>1 DEF FilesTyped
<1>3. CASE checkpoint # <<>> /\ checkpoint.id = path
  <2>1. checkpoint.off \in Nat /\ checkpoint.off <= Len(content[path]) /\ Len(content[path]) \in Nat
    BY <1>2, <1>3, CoverTyped
  <2>2. StartOffset(path) = checkpoint.off
    BY <1>3, <2>1 DEF StartOffset
  <2>3. CheckpointCover'
    BY <1>0, <1>1, <1>2, <1>3, <2>2 DEF CheckpointCover
  <2>4. checkpoint'.off <= readOffset' /\ \A j : ~(checkpoint'.off < j /\ j <= readOffset' /\ j \in Nat)
    BY <1>1, <1>2, <2>1, <2>2
  <2>5. \A j \in DOMAIN content[path] : j \in Nat
    BY <1>2, CoverTyped
  <2>. QED BY <1>1, <1>2, <2>3, <2>4, <2>5 DEF CoverInv, PathFresh, EntriesCover, SourceCover
<1>4. CASE checkpoint = <<>> \/ checkpoint.id # path
  <2>1. StartOffset(path) = 0
    BY <1>4 DEF StartOffset
  <2>2. \A k \in DOMAIN out : out[k].id # path
    BY <1>0, <1>1, <1>4 DEF PathFresh
  <2>3. \A j \in DOMAIN content[path] : j \in Nat /\ ~(j <= 0)
    BY <1>2, CoverTyped
  <2>4. CheckpointCover'
    BY <1>1, <1>2, <2>1, <2>2, <2>3 DEF CheckpointCover
  <2>5. 0 <= 0
    OBVIOUS
  <2>. QED BY <1>1, <1>2, <2>1, <2>3, <2>4, <2>5 DEF CoverInv, PathFresh, EntriesCover, SourceCover
<1>. QED BY <1>3, <1>4

\* ReadLine and ReadFragment move readOffset over the bytes of the buffer.
LEMMA ReadCover ==
  ASSUME ProcessInv, WholeInv, CoverInv, ReadLine \/ ReadFragment
  PROVE  CoverInv'
<1>. DEFINE c == content[identity]
<1>0. CheckpointCover /\ PathFresh /\ EntriesCover /\ SourceCover /\ ReadInv /\ SourceTyped
  BY DEF CoverInv, ProcessInv, WholeInv
<1>1. at = "read" /\ UNCHANGED <<path, content, identity, entries, checkpoint, out>>
  BY DEF ReadLine, ReadFragment, fileVars, spoolVars
<1>2. /\ c \in Seq(Byte) /\ DOMAIN c = 1..Len(c) /\ Len(c) \in Nat /\ readOffset \in Nat
      /\ buf \in Seq(Byte) /\ Len(buf) \in Nat /\ DOMAIN buf = 1..Len(buf)
  BY <1>0, ReadPlaces
<1>3. \A k \in 1..Len(buf) : buf[k] = c[readOffset + k]
  BY <1>0, <1>2 DEF ReadInv
\* bytes taken, and the only newline among them
<1>4. PICK n \in 0..Len(buf) :
         /\ readOffset' = readOffset + n
         /\ \/ at' = "send" /\ n > 0 /\ \A k \in 1..n : buf[k].nl => k = n
            \/ at' = "eof" /\ \A k \in 1..n : ~buf[k].nl
  <2>1. CASE ReadLine
    <3>1. PICK n \in Nat : ReadsTo(n)
      BY <1>0, <2>1, ReadLineTakes
    <3>2. n \in 0..Len(buf) /\ n > 0 /\ readOffset' = readOffset + n /\ \A k \in 1..n : buf[k].nl => k = n
      BY <1>2, <3>1 DEF ReadsTo
    <3>3. at' = "send"
      BY <2>1 DEF ReadLine
    <3>. QED BY <3>2, <3>3
  <2>2. CASE ReadFragment
    <3>1. readOffset' = readOffset + Len(buf) /\ at' = "eof" /\ Newlines = {}
      BY <2>2 DEF ReadFragment
    <3>2. Len(buf) \in 0..Len(buf) /\ \A k \in 1..Len(buf) : ~buf[k].nl
      BY <1>2, <3>1 DEF Newlines
    <3>. QED BY <3>1, <3>2
  <2>. QED BY <2>1, <2>2
<1>5. /\ checkpoint # <<>> /\ checkpoint.off \in Nat /\ checkpoint.off <= readOffset
      /\ \A k \in DOMAIN entries : entries[k].end <= readOffset /\ entries[k].end \in Nat
      /\ \A j \in DOMAIN c : c[j].nl /\ checkpoint.off < j /\ j <= readOffset => \E k \in DOMAIN entries : entries[k].end = j
  BY <1>0, <1>1, CoverTyped DEF EntriesCover, SourceCover
<1>6. /\ checkpoint.off <= readOffset' /\ \A k \in DOMAIN entries : entries[k].end <= readOffset'
      /\ at' = "send" => checkpoint.off < readOffset' /\ \A k \in DOMAIN entries : entries[k].end < readOffset'
  BY <1>2, <1>4, <1>5
<1>. HIDE DEF c
<1>7. ASSUME NEW j \in DOMAIN c, c[j].nl, checkpoint.off < j, j <= readOffset'
      PROVE  (\E k \in DOMAIN entries : entries[k].end = j) \/ (at' = "send" /\ j = readOffset')
  <2>1. CASE j <= readOffset
    BY <1>5, <1>7, <2>1
  <2>2. CASE j > readOffset
    <3>. DEFINE k == j - readOffset
    <3>1. k \in 1..n /\ readOffset + k = j /\ k \in 1..Len(buf)
      BY <1>2, <1>4, <1>7, <2>2
    <3>2. buf[k].nl
      BY <1>3, <1>7, <3>1
    <3>3. at' = "send" /\ k = n
      BY <1>4, <3>1, <3>2
    <3>. QED BY <1>4, <3>1, <3>3
  <2>. QED BY <1>2, <2>1, <2>2
<1>8. SourceCover'
  BY <1>1, <1>6, <1>7 DEF SourceCover, c
<1>9. EntriesCover'
  BY <1>0, <1>1 DEF EntriesCover
<1>10. CheckpointCover' /\ PathFresh'
  BY <1>0, <1>1 DEF CheckpointCover, PathFresh
<1>. QED BY <1>8, <1>9, <1>10 DEF CoverInv

\* The steps that leave what is covered alone.
LEMMA QuietCover ==
  ASSUME ProcessInv, WholeInv, CoverInv,
         Crash \/ Fill \/ DetectFails \/ DetectRename \/ DetectSame \/ SpoolFails \/ RotateFails
  PROVE  CoverInv'
<1>0. CheckpointCover /\ PathFresh /\ EntriesCover /\ SourceCover
  BY DEF CoverInv
<1>1. UNCHANGED <<path, content, checkpoint, out, identity>>
  BY DEF Crash, Fill, DetectFails, DetectRename, DetectSame, SpoolFails, RotateFails, SeekTo, fileVars, readVars, spoolVars
<1>2. CheckpointCover' /\ PathFresh'
  BY <1>0, <1>1 DEF CheckpointCover, PathFresh
<1>3. ASSUME at # "down", at' = "failed", entries' = entries \/ entries' = <<>>
      PROVE  CoverInv'
  <2>1. EntriesCover'
    <3>1. CASE entries' = entries
      BY <1>0, <1>1, <1>3, <3>1 DEF EntriesCover
    <3>2. CASE entries' = <<>>
      <4>1. DOMAIN entries' = {}
        BY <3>2
      <4>. QED BY <1>0, <1>1, <1>3, <4>1 DEF EntriesCover
    <3>. QED BY <1>3, <3>1, <3>2
  <2>. QED BY <1>2, <1>3, <2>1 DEF CoverInv, SourceCover
<1>4. ASSUME at \in {"read", "eof"}, at' \in {"read", "rotate"}, UNCHANGED <<entries, readOffset>>
      PROVE  CoverInv'
  BY <1>0, <1>1, <1>2, <1>4 DEF CoverInv, EntriesCover, SourceCover
<1>5. CASE Crash
  <2>1. at' = "down"
    BY <1>5 DEF Crash
  <2>. QED BY <1>2, <2>1 DEF CoverInv, EntriesCover, SourceCover
<1>6. CASE Fill
  BY <1>4, <1>6 DEF Fill
<1>7. CASE DetectFails
  BY <1>3, <1>7 DEF DetectFails
<1>8. CASE DetectRename
  BY <1>4, <1>8 DEF DetectRename
<1>9. CASE DetectSame
  <2>1. Len(content[path]) >= readOffset
    <3>1. path = identity
      BY <1>9 DEF DetectSame
    <3>2. readOffset \in Nat /\ Len(content[identity]) \in Nat /\ readOffset <= Len(content[identity])
      BY CoverTyped
    <3>. QED BY <3>1, <3>2
  <2>. QED BY <1>4, <1>9, <2>1 DEF DetectSame
<1>10. CASE SpoolFails
  BY <1>3, <1>10 DEF SpoolFails
<1>11. CASE RotateFails
  BY <1>3, <1>11 DEF RotateFails
<1>. QED BY <1>5, <1>6, <1>7, <1>8, <1>9, <1>10, <1>11

\* Receive: the record at hand reaches to where the source has got to.
LEMMA ReceiveCover ==
  ASSUME ProcessInv, WholeInv, CoverInv, Receive
  PROVE  CoverInv'
<1>. DEFINE c == content[identity]
            l == Len(entries)
<1>0. CheckpointCover /\ PathFresh /\ EntriesCover /\ SourceCover
  BY DEF CoverInv
<1>1. /\ at = "send" /\ at' = "read" /\ entries' = Append(entries, hand)
      /\ UNCHANGED <<path, content, checkpoint, out, identity, readOffset>>
  BY DEF Receive, fileVars, readVars, spoolVars
<1>2. entries \in Seq(Rec) /\ hand \in Rec /\ hand.end = readOffset /\ readOffset \in Nat /\ l \in Nat /\ DOMAIN entries = 1..l
  BY <1>1, CoverTyped DEF ProcessInv, SourceTyped, WholeInv, ReadInv
<1>3. DOMAIN entries' = 1..(l + 1) /\ entries'[l + 1] = hand /\ \A k \in 1..l : entries'[k] = entries[k]
  BY <1>1, <1>2, AppendProperties
<1>4. /\ checkpoint # <<>> /\ checkpoint.id = identity /\ checkpoint.off \in Nat /\ checkpoint.off < readOffset
      /\ \A k \in 1..l : entries[k].end < readOffset /\ entries[k].end > checkpoint.off /\ entries[k].end \in Nat
      /\ \A j, k \in 1..l : j < k => entries[j].end < entries[k].end
      /\ \A j \in DOMAIN c : c[j].nl /\ checkpoint.off < j /\ j <= readOffset =>
           (\E k \in 1..l : entries[k].end = j) \/ j = readOffset
      /\ \A j \in DOMAIN c : j \in Nat
  <2>1. checkpoint # <<>> /\ checkpoint.id = identity
    BY <1>0, <1>1 DEF EntriesCover
  <2>2. checkpoint.off \in Nat /\ (\A k \in 1..l : entries[k].end \in Nat) /\ \A j \in DOMAIN c : j \in Nat
    <3>1. checkpoint.off \in Nat
      BY <2>1, CoverTyped
    <3>2. \A k \in 1..l : entries[k].end \in Nat
      BY <1>2, CoverTyped
    <3>3. \A j \in DOMAIN c : j \in Nat
      BY CoverTyped
    <3>. QED BY <3>1, <3>2, <3>3
  <2>3. checkpoint.off < readOffset /\ \A k \in 1..l : entries[k].end < readOffset
    BY <1>0, <1>1, <1>2 DEF SourceCover
  <2>4. /\ \A k \in 1..l : entries[k].end > checkpoint.off
        /\ \A j, k \in 1..l : j < k => entries[j].end < entries[k].end
    BY <1>0, <1>1, <1>2 DEF EntriesCover
  <2>5. \A j \in DOMAIN c : c[j].nl /\ checkpoint.off < j /\ j <= readOffset =>
           (\E k \in 1..l : entries[k].end = j) \/ j = readOffset
    BY <1>0, <1>1, <1>2 DEF SourceCover
  <2>. QED BY <2>1, <2>2, <2>3, <2>4, <2>5
<1>. HIDE DEF c, l
<1>5. l + 1 \in 1..(l + 1) /\ \A k \in 1..l : k \in 1..(l + 1)
  BY <1>2
<1>6. \A k \in 1..(l + 1) : k \in 1..l \/ k = l + 1
  BY <1>2
<1>7. ASSUME NEW j \in DOMAIN c, c[j].nl, checkpoint.off < j, j <= readOffset
      PROVE  \E k \in DOMAIN entries' : entries'[k].end = j
  <2>1. CASE j = readOffset
    BY <1>2, <1>3, <1>5, <2>1
  <2>2. CASE \E k \in 1..l : entries[k].end = j
    BY <1>3, <1>5, <2>2
  <2>. QED BY <1>4, <1>7, <2>1, <2>2
<1>8. \A k \in DOMAIN entries' : entries'[k].end > checkpoint.off /\ entries'[k].end <= readOffset /\ entries'[k].end \in Nat
  <2>. SUFFICES ASSUME NEW k \in 1..(l + 1)
                PROVE  entries'[k].end > checkpoint.off /\ entries'[k].end <= readOffset /\ entries'[k].end \in Nat
    BY <1>3
  <2>1. CASE k = l + 1
    BY <1>2, <1>3, <1>4, <2>1
  <2>2. CASE k \in 1..l
    BY <1>2, <1>3, <1>4, <2>2
  <2>. QED BY <1>6, <2>1, <2>2
<1>9. \A j, k \in DOMAIN entries' : j < k => entries'[j].end < entries'[k].end
  <2>. SUFFICES ASSUME NEW j \in 1..(l + 1), NEW k \in 1..(l + 1), j < k
                PROVE  entries'[j].end < entries'[k].end
    BY <1>3
  <2>1. j \in 1..l
    BY <1>2
  <2>2. CASE k = l + 1
    BY <1>2, <1>3, <1>4, <2>1, <2>2
  <2>3. CASE k \in 1..l
    BY <1>3, <1>4, <2>1, <2>3
  <2>. QED BY <1>6, <2>2, <2>3
<1>10. ASSUME NEW k \in DOMAIN entries', NEW j \in DOMAIN c, j <= entries'[k].end
       PROVE  j <= readOffset
  BY <1>2, <1>4, <1>8, <1>10
<1>11. EntriesCover'
  BY <1>1, <1>4, <1>7, <1>8, <1>9, <1>10 DEF EntriesCover, c
<1>12. SourceCover'
  BY <1>1, <1>2, <1>4, <1>7, <1>8 DEF SourceCover, c
<1>13. CheckpointCover' /\ PathFresh'
  BY <1>0, <1>1 DEF CheckpointCover, PathFresh
<1>. QED BY <1>11, <1>12, <1>13 DEF CoverInv

\* flush: the checkpoint moves to the last of the records that go out with it.
LEMMA FlushCover ==
  ASSUME ProcessInv, WholeInv, CoverInv, Flush
  PROVE  CoverInv'
<1>. DEFINE c == content[identity]
            l == Len(entries)
            e == entries[l].end
<1>0. CheckpointCover /\ PathFresh /\ EntriesCover /\ SourceCover
  BY DEF CoverInv
<1>1. /\ at # "down" /\ entries # <<>> /\ entries' = <<>> /\ out' = out \o entries
      /\ UNCHANGED <<path, content, at, identity, readOffset>>
      /\ checkpoint' = [id |-> entries[l].id, off |-> e]
  BY DEF Flush, Checkpoint, Last, fileVars, readVars
<1>2. /\ entries \in Seq(Rec) /\ out \in Seq(Rec) /\ l \in Nat /\ DOMAIN entries = 1..l /\ l \in 1..l /\ readOffset \in Nat
      /\ \A k \in 1..l : entries[k].id = identity /\ entries[k].end \in Nat
      /\ \A j \in DOMAIN c : j \in Nat
      /\ \A k \in DOMAIN out : out[k].end \in Nat
  BY <1>1, CoverTyped
<1>3. /\ checkpoint # <<>> /\ checkpoint.id = identity /\ checkpoint.off \in Nat
      /\ \A k \in 1..l : entries[k].end > checkpoint.off
      /\ \A j \in DOMAIN c : c[j].nl /\ checkpoint.off < j /\ j <= e => \E m \in 1..l : entries[m].end = j
      /\ \A j, k \in 1..l : j < k => entries[j].end < entries[k].end
  BY <1>0, <1>1, <1>2, CoverTyped DEF EntriesCover
<1>4. checkpoint' # <<>> /\ checkpoint'.id = identity /\ checkpoint'.off = e /\ e \in Nat /\ checkpoint.off < e
  BY <1>1, <1>2, <1>3
<1>5. \A k \in 1..l : entries[k].end <= e
  <2>. TAKE k \in 1..l
  <2>1. CASE k = l
    BY <1>2, <2>1
  <2>2. CASE k < l
    <3>1. entries[k].end < entries[l].end
      BY <1>2, <1>3, <2>2
    <3>. QED BY <1>2, <3>1
  <2>3. l \in Nat /\ k \in 1..l
    BY <1>2
  <2>. HIDE DEF l
  <2>4. k = l \/ k < l
    BY <2>3
  <2>. QED BY <2>1, <2>2, <2>4
<1>. HIDE DEF c, l, e
\* what is out then
<1>6. /\ \A k \in DOMAIN out : k \in DOMAIN out' /\ out'[k] = out[k]
      /\ \A k \in 1..l : \E m \in DOMAIN out' : out'[m] = entries[k]
      /\ \A k \in DOMAIN out' : (k \in DOMAIN out /\ out'[k] = out[k]) \/ \E m \in 1..l : out'[k] = entries[m]
  <2>1. /\ DOMAIN out' = 1..(Len(out) + l) /\ DOMAIN out = 1..Len(out) /\ Len(out) \in Nat
        /\ \A k \in 1..Len(out) : out'[k] = out[k]
        /\ \A k \in 1..l : out'[Len(out) + k] = entries[k]
        /\ \A k \in 1..(Len(out) + l) : k > Len(out) => k - Len(out) \in 1..l /\ out'[k] = entries[k - Len(out)]
    BY <1>1, <1>2, ConcatElements DEF l
  <2>2. /\ \A k \in 1..(Len(out) + l) : k \in 1..Len(out) \/ k > Len(out)
        /\ \A k \in 1..Len(out) : k \in 1..(Len(out) + l)
        /\ \A k \in 1..l : Len(out) + k \in 1..(Len(out) + l)
    BY <1>2, <2>1
  <2>. QED BY <2>1, <2>2
<1>7. CheckpointCover'
  <2>1. ASSUME NEW j \in DOMAIN c, c[j].nl, j <= e
        PROVE  \E k \in DOMAIN out' : out'[k].id = identity /\ out'[k].end = j
    <3>1. CASE j <= checkpoint.off
      <4>1. PICK k \in DOMAIN out : out[k].id = identity /\ out[k].end = j
        BY <1>0, <1>3, <2>1, <3>1 DEF CheckpointCover, c
      <4>. QED BY <1>6, <4>1
    <3>2. CASE checkpoint.off < j
      <4>1. PICK m \in 1..l : entries[m].end = j
        BY <1>3, <2>1, <3>2
      <4>. QED BY <1>2, <1>6, <4>1
    <3>. QED BY <1>2, <1>3, <3>1, <3>2
  <2>2. ASSUME NEW k \in DOMAIN out', out'[k].id = identity
        PROVE  out'[k].end <= e
    <3>1. CASE k \in DOMAIN out /\ out'[k] = out[k]
      <4>1. out[k].end <= checkpoint.off /\ out[k].end \in Nat
        BY <1>0, <1>2, <1>3, <2>2, <3>1 DEF CheckpointCover
      <4>. QED BY <1>3, <1>4, <3>1, <4>1
    <3>2. CASE \E m \in 1..l : out'[k] = entries[m]
      BY <1>5, <3>2
    <3>. QED BY <1>6, <3>1, <3>2
  <2>. QED BY <1>1, <1>4, <2>1, <2>2 DEF CheckpointCover, c
<1>8. PathFresh'
  <2>. SUFFICES ASSUME path # NoFile, path # identity, NEW k \in DOMAIN out'
                PROVE  out'[k].id # path
    BY <1>1, <1>4 DEF PathFresh
  <2>1. CASE k \in DOMAIN out /\ out'[k] = out[k]
    BY <1>0, <1>3, <2>1 DEF PathFresh
  <2>2. CASE \E m \in 1..l : out'[k] = entries[m]
    BY <1>2, <2>2
  <2>. QED BY <1>6, <2>1, <2>2
<1>9. DOMAIN entries' = {}
  BY <1>1
<1>10. EntriesCover'
  BY <1>1, <1>4, <1>9 DEF EntriesCover
<1>11. SourceCover'
  <2>. SUFFICES ASSUME at \notin {"down", "failed"}
                PROVE  SourceCover'
    BY <1>1 DEF SourceCover
  <2>1. e <= readOffset /\ (at = "send" => e < readOffset)
    BY <1>0, <1>2 DEF SourceCover, e
  <2>2. ASSUME NEW j \in DOMAIN c, c[j].nl, e < j, j <= readOffset
        PROVE  at = "send" /\ j = readOffset
    <3>1. checkpoint.off < j
      BY <1>2, <1>3, <1>4, <2>2
    <3>2. (\E k \in 1..l : entries[k].end = j) \/ (at = "send" /\ j = readOffset)
      BY <1>0, <1>2, <2>2, <3>1 DEF SourceCover, c
    <3>3. ~\E k \in 1..l : entries[k].end = j
      BY <1>2, <1>4, <1>5, <2>2
    <3>. QED BY <3>2, <3>3
  <2>. QED BY <1>1, <1>4, <1>9, <2>1, <2>2 DEF SourceCover, c
<1>. QED BY <1>7, <1>8, <1>10, <1>11 DEF CoverInv

\* Rotate: nothing is out of the new file.
LEMMA RotateCover ==
  ASSUME ProcessInv, WholeInv, CoverInv, Rotate
  PROVE  CoverInv'
<1>0. PathFresh /\ EntriesCover /\ FilesTyped
  BY DEF CoverInv, ProcessInv
<1>1. /\ at = "rotate" /\ at' = "read" /\ path \notin {NoFile, identity} /\ entries' = <<>>
      /\ UNCHANGED <<path, content, out>> /\ identity' = path /\ readOffset' = 0
      /\ checkpoint' = [id |-> path, off |-> 0]
  BY DEF Rotate, SeekTo, Checkpoint, fileVars
<1>2. path \in Identity /\ checkpoint' # <<>> /\ checkpoint'.id = path /\ checkpoint'.off = 0 /\ DOMAIN entries' = {}
  BY <1>0, <1>1 DEF FilesTyped
<1>3. \A k \in DOMAIN out : out[k].id # path
  BY <1>0, <1>1 DEF PathFresh, EntriesCover
<1>4. (\A j \in DOMAIN content[path] : j \in Nat /\ ~(j <= 0)) /\ 0 <= 0
  BY <1>2, CoverTyped
<1>5. CheckpointCover'
  BY <1>1, <1>2, <1>3, <1>4 DEF CheckpointCover
<1>. QED BY <1>1, <1>2, <1>4, <1>5 DEF CoverInv, PathFresh, EntriesCover, SourceCover

\* At first there is no checkpoint, and nothing is in hand.
LEMMA CoverInit == Init => CoverInv
<1>. SUFFICES ASSUME Init
              PROVE  CoverInv
  OBVIOUS
<1>1. at = "down" /\ checkpoint = <<>> /\ DOMAIN out = {}
  BY DEF Init
<1>. QED BY <1>1 DEF CoverInv, CheckpointCover, PathFresh, EntriesCover, SourceCover

\* Every step keeps what lies before a position committed or in hand.
LEMMA CoverStep == OnlyGrow /\ ProcessInv /\ FilesInv /\ WholeInv /\ CoverInv /\ [Next]_vars => CoverInv'
<1>. SUFFICES ASSUME OnlyGrow, ProcessInv, FilesInv, WholeInv, CoverInv, [Next]_vars
              PROVE  CoverInv'
  OBVIOUS
<1>1. CASE UNCHANGED vars
  BY <1>1 DEF CoverInv, CheckpointCover, PathFresh, EntriesCover, SourceCover, vars, fileVars, readVars, spoolVars
<1>2. CASE Environment
  BY <1>2, EnvironmentCover
<1>3. CASE Start \/ NextRecord \/ runPipeline \/ SpoolFails \/ Crash
  BY <1>3, StartCover, ReadCover, QuietCover, ReceiveCover, FlushCover, RotateCover DEF NextRecord, runPipeline
<1>. QED BY <1>1, <1>2, <1>3 DEF Next

\* The line a whole record holds is the one that ends at its offset.
LEMMA WholeLine ==
  ASSUME NEW c, NEW m, Whole(c, m)
  PROVE  Last(m.bytes).line = c[m.end].line /\ m.end \in DOMAIN c /\ c[m.end].nl
<1>1. \A a, b : Last(<<a, b>>) = b
  BY DEF Last
<1>. QED BY <1>1 DEF Whole

GrowInv == ProcessInv /\ OrderInv /\ WholeInv /\ CoverInv

\* All of it together, of files that only grow.
LEMMA GrowInvariant == OnlyGrow => (Spec => []GrowInv)
<1>. SUFFICES ASSUME OnlyGrow
              PROVE  Spec => []GrowInv
  OBVIOUS
<1>1. Init => GrowInv
  BY ProcessInit, OrderInit, WholeInit, CoverInit DEF GrowInv
<1>2. GrowInv /\ [Next]_vars => GrowInv'
  BY ProcessStep, OrderStep, WholeStep, CoverStep DEF GrowInv, OrderInv
<1>. QED BY <1>1, <1>2, PTL DEF Spec

\* When files only grow, the durable checkpoint is exactly behind the last
\* committed line of its file, after every commit, rotation, failure and crash:
\* NewDurableFileSource neither skips nor repeats a line of it.
THEOREM FileCheckpointExact == OnlyGrow => (Spec => []CheckpointExact)
<1>. SUFFICES ASSUME OnlyGrow
              PROVE  Spec => []CheckpointExact
  OBVIOUS
<1>1. ASSUME GrowInv
      PROVE  CheckpointExact
  <2>. SUFFICES ASSUME checkpoint # <<>>
                PROVE  LinesOf(checkpoint.id, checkpoint.off) = DeliveredFrom(checkpoint.id)
    BY DEF CheckpointExact
  <2>. DEFINE i == checkpoint.id
              c == content[i]
  <2>0. WholeInv /\ CheckpointCover
    BY <1>1 DEF GrowInv, CoverInv
  <2>1. ASSUME NEW k \in DOMAIN out, out[k].id = i
        PROVE  /\ Last(out[k].bytes).line = c[out[k].end].line /\ out[k].end \in DOMAIN c /\ c[out[k].end].nl
               /\ out[k].end <= checkpoint.off
    <3>1. Whole(c, out[k])
      BY <2>0, <2>1 DEF WholeInv
    <3>2. out[k].end <= checkpoint.off
      BY <2>0, <2>1 DEF CheckpointCover
    <3>. QED BY <3>1, <3>2, WholeLine
  <2>2. ASSUME NEW j \in DOMAIN c, c[j].nl, j <= checkpoint.off
        PROVE  \E k \in DOMAIN out : out[k].id = i /\ out[k].end = j
    BY <2>0, <2>2 DEF CheckpointCover
  <2>. HIDE DEF c, i
  <2>3. ASSUME NEW n \in LinesOf(i, checkpoint.off)
        PROVE  n \in DeliveredFrom(i)
    <3>1. PICK j \in DOMAIN c : j <= checkpoint.off /\ c[j].nl /\ c[j].line = n
      BY DEF LinesOf, c
    <3>2. PICK k \in DOMAIN out : out[k].id = i /\ out[k].end = j
      BY <2>2, <3>1
    <3>3. Last(out[k].bytes).line = n
      BY <2>1, <3>1, <3>2
    <3>. QED BY <3>2, <3>3 DEF DeliveredFrom
  <2>4. ASSUME NEW n \in DeliveredFrom(i)
        PROVE  n \in LinesOf(i, checkpoint.off)
    <3>1. PICK k \in DOMAIN out : out[k].id = i /\ Last(out[k].bytes).line = n
      BY DEF DeliveredFrom
    <3>2. /\ n = c[out[k].end].line /\ out[k].end \in DOMAIN c /\ c[out[k].end].nl
          /\ out[k].end <= checkpoint.off
      BY <2>1, <3>1
    <3>. QED BY <3>2 DEF LinesOf, c
  <2>5. LinesOf(i, checkpoint.off) = DeliveredFrom(i)
    BY <2>3, <2>4
  <2>. QED BY <2>5 DEF i
<1>2. GrowInv => CheckpointExact
  BY <1>1
<1>. QED BY <1>2, GrowInvariant, PTL

-----------------------------------------------------------------------------
(* An application that, once a file is renamed, only finishes its line there. *)

\* Nobody writes to a file that is not at the path any more and ends with a line.
LEMMA NobodyWrites ==
  ASSUME OnlyGrow, ~LateWriter, ProcessInv, WholeInv, Environment, path # identity,
         pending = <<>>, readOffset = Len(content[identity])
  PROVE  content'[identity] = content[identity]
<1>. DEFINE c == content[identity]
<1>0. FormInv /\ ReadInv /\ identity \in Identity /\ half \in BOOLEAN
  BY DEF ProcessInv, FilesTyped, SourceTyped, WholeInv
<1>. SUFFICES ASSUME WriteByte, identity = writer
              PROVE  FALSE
  BY <1>0, FilesGrow
<1>1. half
  BY DEF WriteByte
<1>2. c # <<>> /\ ~c[Len(c)].nl
  BY <1>0, <1>1 DEF FormInv
<1>3. c \in Seq(Byte) /\ readOffset \in Nat
  BY <1>0, ReadPlaces
<1>4. readOffset - Len(pending) = readOffset
  BY <1>3
<1>5. AtBoundary(c, readOffset)
  BY <1>0, <1>4 DEF ReadInv
<1>6. readOffset # 0
  BY <1>2, <1>3
<1>. QED BY <1>2, <1>5, <1>6 DEF AtBoundary

\* A file that was left behind stays drained.
LEMMA DrainStep ==
  ASSUME OnlyGrow, ~LateWriter, ProcessInv, WholeInv, DrainInv, [Next]_vars
  PROVE  DrainInv'
<1>. DEFINE c == content[identity]
<1>0. SourceTyped /\ FilesTyped /\ ReadInv
  BY DEF ProcessInv, WholeInv
<1>1. /\ at = "down" => rotationSeen = 0
      /\ at = "rotate" => pending = <<>>
      /\ rotationSeen \in 0..2 /\ identity \in Identity /\ NoFile \notin Identity
  BY <1>0, FileTyped DEF SourceTyped
<1>2. CASE UNCHANGED vars
  BY <1>2 DEF DrainInv, vars, fileVars, readVars
<1>3. CASE Environment
  <2>1. UNCHANGED <<at, identity, pending, readOffset, rotationSeen>>
    BY <1>3 DEF Environment, WriteByte, Reopen, Rename, Create, CopyTruncate, Delete, readVars
  <2>2. at # "down" /\ path # identity => path' # identity
    <3>1. CASE path' = path \/ path' = NoFile
      BY <1>1, <3>1
    <3>2. ASSUME NEW i \in Identity, Create(i), at # "down"
          PROVE  path' # identity
      BY <3>2 DEF Create, ProcessInv
    <3>. QED BY <1>3, <3>1, <3>2 DEF Environment, WriteByte, Reopen, Rename, CopyTruncate, Delete
  <2>3. rotationSeen > 0 /\ at # "failed" => path' # identity
    BY <1>1, <2>2 DEF DrainInv
  <2>4. at = "eof" /\ rotationSeen > 0 /\ pending = <<>> => readOffset = Len(content'[identity])
    BY <1>3, NobodyWrites DEF DrainInv
  <2>5. at = "rotate" => readOffset = Len(content'[identity]) /\ path' # identity
    BY <1>1, <1>3, <2>2, NobodyWrites DEF DrainInv
  <2>. QED BY <2>1, <2>3, <2>4, <2>5 DEF DrainInv
<1>4. ASSUME at' \notin {"eof", "rotate"}, rotationSeen' = 0 \/ at' = "failed" \/ (at # "failed" /\ UNCHANGED <<path, identity, rotationSeen>>)
      PROVE  DrainInv'
  <2>1. at' # "eof" /\ at' # "rotate"
    BY <1>4
  <2>2. rotationSeen' > 0 /\ at' # "failed" => path' # identity'
    BY <1>4 DEF DrainInv
  <2>. QED BY <2>1, <2>2 DEF DrainInv
<1>5. CASE ReadFragment
  <2>1. /\ at' = "eof" /\ at = "read" /\ UNCHANGED <<path, content, identity, rotationSeen>> /\ readOffset' = readOffset + Len(buf)
        /\ position >= Len(c)
    BY <1>5 DEF ReadFragment, fileVars
  <2>2. position \in Nat /\ Len(c) \in Nat /\ position <= Len(c) /\ position = readOffset + Len(buf)
    BY <1>0, ReadPlaces
  <2>3. readOffset' = Len(c)
    BY <2>1, <2>2
  <2>. QED BY <2>1, <2>3 DEF DrainInv
<1>6. CASE DetectRename
  <2>1. /\ at = "eof" /\ path # identity /\ pending = <<>> /\ rotationSeen' = rotationSeen + 1
        /\ UNCHANGED <<path, content, identity, readOffset>>
        /\ at' = (IF rotationSeen + 1 >= 2 THEN "rotate" ELSE "read")
    BY <1>6 DEF DetectRename, StableEOF, fileVars
  <2>2. at' = "rotate" => rotationSeen > 0
    BY <1>1, <2>1
  <2>3. at' # "eof"
    BY <2>1
  <2>. QED BY <2>1, <2>2, <2>3 DEF DrainInv
<1>7. CASE Flush
  BY <1>7 DEF DrainInv, Flush, fileVars, readVars
<1>8. CASE Start \/ Crash \/ ReadLine \/ DetectSame \/ Rotate
  <2>1. rotationSeen' = 0 /\ at' \notin {"eof", "rotate"}
    BY <1>8 DEF Start, Crash, ReadLine, DetectSame, Rotate
  <2>. QED BY <1>4, <2>1
<1>9. CASE Fill \/ Receive
  <2>1. at' \notin {"eof", "rotate"} /\ at # "failed" /\ UNCHANGED <<path, identity, rotationSeen>>
    BY <1>9 DEF Fill, Receive, fileVars, readVars
  <2>. QED BY <1>4, <2>1
<1>10. CASE DetectFails \/ SpoolFails \/ RotateFails
  <2>1. at' = "failed"
    BY <1>10 DEF DetectFails, SpoolFails, RotateFails
  <2>. QED BY <1>4, <2>1
<1>. QED BY <1>2, <1>3, <1>5, <1>6, <1>7, <1>8, <1>9, <1>10 DEF Next, NextRecord, runPipeline

\* When files only grow and the application, once its file is renamed, only
\* finishes the line it was writing there, Rotate leaves a file when everything
\* in it is committed: the polls detectRotation counts are enough.
THEOREM FileRotationDrains == OnlyGrow /\ ~LateWriter => (Spec => RotationDrains)
<1>. SUFFICES ASSUME OnlyGrow, ~LateWriter
              PROVE  Spec => RotationDrains
  OBVIOUS
<1>1. Init => DrainInv
  <2>1. Init => rotationSeen = 0 /\ at = "down" /\ ~(0 > 0)
    BY DEF Init
  <2>. QED BY <2>1 DEF DrainInv
<1>2. GrowInv /\ DrainInv /\ [Next]_vars => DrainInv'
  BY DrainStep DEF GrowInv
<1>3. ASSUME GrowInv, DrainInv, [Next]_vars
      PROVE  [(at = "rotate" /\ identity' # identity) =>
                LinesOf(identity, Len(content[identity])) \subseteq Delivered]_vars
  <2>. SUFFICES ASSUME at = "rotate", identity' # identity, NEW n \in LinesOf(identity, Len(content[identity]))
                PROVE  n \in Delivered
    OBVIOUS
  <2>0. WholeInv /\ CheckpointCover
    BY <1>3 DEF GrowInv, CoverInv
  <2>1. Rotate
    BY <1>3 DEF Next, Environment, NextRecord, runPipeline, WriteByte, Reopen, Rename, Create, CopyTruncate, Delete,
                Start, Crash, ReadLine, Fill, ReadFragment, DetectFails, DetectRename, DetectSame,
                Receive, Flush, SpoolFails, RotateFails, SeekTo, vars, readVars
  <2>2. checkpoint = [id |-> identity, off |-> readOffset]
    BY <2>1 DEF Rotate, Expected, Checkpoint
  <2>3. checkpoint # <<>> /\ checkpoint.id = identity /\ checkpoint.off = readOffset /\ readOffset = Len(content[identity])
    BY <1>3, <2>2 DEF DrainInv
  <2>4. PICK j \in DOMAIN content[identity] : j <= Len(content[identity]) /\ content[identity][j].nl /\ content[identity][j].line = n
    BY DEF LinesOf
  <2>5. PICK k \in DOMAIN out : out[k].id = identity /\ out[k].end = j
    BY <2>0, <2>3, <2>4 DEF CheckpointCover
  <2>6. Whole(content[identity], out[k])
    BY <2>0, <2>5 DEF WholeInv
  <2>7. Last(out[k].bytes).line = n
    BY <2>4, <2>5, <2>6, WholeLine
  <2>. QED BY <2>7 DEF Delivered
<1>4. GrowInv /\ DrainInv /\ [Next]_vars =>
        [(at = "rotate" /\ identity' # identity) =>
           LinesOf(identity, Len(content[identity])) \subseteq Delivered]_vars
  BY <1>3
<1>5. Spec => []GrowInv
  BY GrowInvariant
<1>. QED BY <1>1, <1>2, <1>4, <1>5, PTL DEF Spec, RotationDrains
=============================================================================
