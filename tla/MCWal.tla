------------------------------- MODULE MCWal -------------------------------
(* Wal on two sources and up to four batches: three of one file, one of the other. *)
EXTENDS Wal, TLC

CONSTANTS b1, b2, b3, b4, s1, s2

MCKeyOf == [b \in Batch |-> IF b = b4 THEN s2 ELSE s1]
MCPosOf == [b \in Batch |-> CASE b = b2 -> 2 [] b = b3 -> 3 [] OTHER -> 1]
MCSize == [b \in Batch |-> IF b = b2 THEN 2 ELSE 1]
=============================================================================
