------------------------------ MODULE MCEntries ------------------------------
(* Two projects; three entries of the first, two of them of one instant, and  *)
(* one of the second; one client that follows cursors and one that does not.  *)
EXTENDS Entries, TLC

CONSTANTS p1, p2, a, b, r1, r2

MCProjectOf == [e \in Entry |-> IF e = 4 THEN p2 ELSE p1]
MCObservedOf == [e \in Entry |-> IF e = 1 THEN 2 ELSE 1]
MCServiceOf == [e \in Entry |-> IF e = 1 THEN b ELSE a]
MCFilter == {<<>>, <<a>>, <<a, a>>}
MCDefaultPolicy == [enabled |-> TRUE, maxAge |-> 1, maxBytes |-> NoLimit]
MCPolicy == {MCDefaultPolicy, [enabled |-> TRUE, maxAge |-> 2, maxBytes |-> 1],
             [enabled |-> FALSE, maxAge |-> 1, maxBytes |-> NoLimit]}
MCCreated == <<p1, p2>>
=============================================================================
