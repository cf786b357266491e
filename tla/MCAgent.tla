------------------------------ MODULE MCAgent ------------------------------
(* Agent with batches [src, lo, hi, n]: lines lo..hi of src, n-th identifier. *)
EXTENDS Agent, TLC

CONSTANTS
  MaxLine,    \* lines per source
  MaxMint,    \* identifiers per range of lines
  BadLines    \* lines that make a batch invalid

MCLines == [k \in Source |-> MaxLine]
MCBatch == {b \in [src : Source, lo : 1..MaxLine, hi : 1..MaxLine, n : 1..MaxMint] :
              b.lo <= b.hi /\ b.hi - b.lo < BatchSize}
MCKeyOf == [b \in MCBatch |-> b.src]
MCPosOf == [b \in MCBatch |-> b.hi]
MCLoOf == [b \in MCBatch |-> b.lo]
MCSize == [b \in MCBatch |-> b.hi - b.lo + 1]
MCInvalid == {b \in MCBatch : \E n \in BadLines : b.lo <= n /\ n <= b.hi}
=============================================================================
