------------------------------ MODULE SpoolData ------------------------------
(***************************************************************************)
(* The data the agent's spool stores, shared by its abstract specification *)
(* (Spool) and by the write-ahead log that implements it (Wal).            *)
(***************************************************************************)
EXTENDS Naturals, Sequences, SequencesExt, Functions

CONSTANTS
  Batch,     \* immutable batches: one stands for {BatchID, Payload, Checkpoint}
  Source,    \* source keys
  Pos,       \* checkpoint positions (file identity and offset)
  NoPos,     \* "this source has no durable checkpoint"
  KeyOf,     \* KeyOf[b]: Checkpoint.SourceKey of batch b
  PosOf,     \* PosOf[b]: position of the checkpoint of batch b
  Size,      \* Size[b]: bytes of b's framed commit record
  MaxBytes   \* Config.MaxBytes

ASSUME DataAssumption ==
  /\ KeyOf \in [Batch -> Source]
  /\ PosOf \in [Batch -> Pos]
  /\ Size \in [Batch -> Nat \ {0}]
  /\ MaxBytes \in Nat
  /\ NoPos \notin Pos

\* Bytes a set of batches is charged against MaxBytes.
Charged(S) == SumFunctionOnSet(Size, S)

\* The calls that change the spool: with a batch, or moving a source from the
\* position its caller expects to the next.
NoCall == [op |-> "none"]
BatchCall(op, b) == [op |-> op, id |-> b]
TransitionCall(k, expected, p) ==
  [op |-> "transition", key |-> k, expected |-> expected, next |-> p]
=============================================================================
