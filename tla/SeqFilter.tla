----------------------------- MODULE SeqFilter -----------------------------
(***************************************************************************)
(* Filtering a sequence by a set, as SelectSeq does, written as a          *)
(* recursive function so that it can be reasoned about.                    *)
(***************************************************************************)
EXTENDS Integers, Sequences

\* The elements of s that are in T, in their order.
Kept(s, T) ==
  LET kept[i \in 0..Len(s)] ==
        IF i = 0 THEN <<>> ELSE IF s[i] \in T THEN Append(kept[i - 1], s[i]) ELSE kept[i - 1]
  IN  kept[Len(s)]
=============================================================================
