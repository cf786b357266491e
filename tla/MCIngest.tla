------------------------------ MODULE MCIngest ------------------------------
(* Ingest with two payloads for two batches of one key. *)
EXTENDS Ingest, TLC

CONSTANTS k1, b1, b2

Ten == Text(FALSE, <<1, 0>>, <<>>, 0)        \* 10
Two == Text(FALSE, <<2>>, <<>>, 0)           \* 2

Input(b, l) == [key |-> k1, batch |-> b, literal |-> l]
MCInputs == {Input(b1, Ten), Input(b1, Two), Input(b2, Ten)}
MCCostOf == [i \in MCInputs |-> [entries |-> 1, bytes |-> Len(i.literal.int)]]
MCCapacity == [requests |-> 3, entries |-> 2, bytes |-> 3]
MCExponents == {-8, -6, -5, -1, 0, 1, 19, 20, 22}
=============================================================================
