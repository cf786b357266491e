-------------------------------- MODULE Spool --------------------------------
(***************************************************************************)
(* What the agent's durable spool promises to the pipelines, the           *)
(* dispatcher and the operator (internal/agent/spool).                     *)
(*                                                                         *)
(* A batch enters the FIFO delivery queue together with the source         *)
(* checkpoint it was read up to; it leaves the queue to the local          *)
(* dead-letter set (Quarantine) or for good (Ack).  A checkpoint alone     *)
(* moves by a Transition, from the position its caller expects.  Here are  *)
(* the effects of the four calls; module SpoolCalls says when they happen, *)
(* and module Wal shows the files and the memory that implement them.      *)
(***************************************************************************)
EXTENDS SpoolData

VARIABLES
  queue,        \* pending batches, oldest first
  quarantined,  \* dead-lettered batches, still charged against MaxBytes
  done,         \* batches acknowledged or discarded: gone for good
  checkpoint    \* last durable position of every source

spoolVars == <<queue, quarantined, done, checkpoint>>

Pending == ToSet(queue)

SpoolTypeOK ==
  /\ queue \in Seq(Batch)
  /\ quarantined \subseteq Batch
  /\ done \subseteq Batch
  /\ checkpoint \in [Source -> Pos \cup {NoPos}]

SpoolInit ==
  /\ queue = <<>>
  /\ quarantined = {}
  /\ done = {}
  /\ checkpoint = [k \in Source |-> NoPos]

\* The batch and the checkpoint become durable together, or neither does.
SpoolCommit(b) ==
  /\ b \notin Pending \cup quarantined \cup done
  /\ Charged(Pending \cup quarantined) + Size[b] <= MaxBytes
  /\ queue' = Append(queue, b)
  /\ checkpoint' = [checkpoint EXCEPT ![KeyOf[b]] = PosOf[b]]
  /\ UNCHANGED <<quarantined, done>>

\* The only way a batch leaves the spool.
SpoolAck(b) ==
  /\ b \in Pending \cup quarantined
  /\ queue' = RemoveFirst(queue, b)
  /\ quarantined' = quarantined \ {b}
  /\ done' = done \cup {b}
  /\ UNCHANGED checkpoint

SpoolQuarantine(b) ==
  /\ b \in Pending
  /\ queue' = RemoveFirst(queue, b)
  /\ quarantined' = quarantined \cup {b}
  /\ UNCHANGED <<done, checkpoint>>

\* A checkpoint moves without a batch only from the position the caller expects.
SpoolTransition(k, expected, p) ==
  /\ checkpoint[k] = expected
  /\ checkpoint' = [checkpoint EXCEPT ![k] = p]
  /\ UNCHANGED <<queue, quarantined, done>>
=============================================================================
