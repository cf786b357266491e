----------------------------- MODULE SpoolCalls -----------------------------
(***************************************************************************)
(* The spool as an object with calls.  One mutex serialises them, so at    *)
(* most one is in flight.  It takes effect once, as its own operation on   *)
(* its own arguments, or it returns without effect: refused, failed, or    *)
(* cut off by the death of the process.  While no call is in flight        *)
(* nothing changes: crashes, recovery, compaction, failed writes and       *)
(* failed renames are invisible.                                           *)
(***************************************************************************)
EXTENDS Spool

CONSTANT Anchors   \* positions a Transition moves a source to

VARIABLE call      \* the call in flight

callsVars == <<spoolVars, call>>

Call ==
  {BatchCall(op, b) : op \in {"commit", "ack", "quarantine"}, b \in Batch}
  \cup {TransitionCall(k, e, p) : k \in Source, e \in Pos \cup {NoPos}, p \in Anchors}

CallsInit == SpoolInit /\ call = NoCall

Invoke(c) ==
  /\ call = NoCall
  /\ call' = c
  /\ UNCHANGED spoolVars

\* What a call does when it succeeds.
Effect(c) ==
  \/ \E b \in Batch : \/ c = BatchCall("commit", b) /\ SpoolCommit(b)
                      \/ c = BatchCall("ack", b) /\ SpoolAck(b)
                      \/ c = BatchCall("quarantine", b) /\ SpoolQuarantine(b)
  \/ \E k \in Source, e \in Pos \cup {NoPos}, p \in Anchors :
       c = TransitionCall(k, e, p) /\ SpoolTransition(k, e, p)

TakeEffect ==
  /\ Effect(call)
  /\ call' = NoCall

ReturnUndone ==
  /\ call # NoCall
  /\ call' = NoCall
  /\ UNCHANGED spoolVars

CallsNext == (\E c \in Call : Invoke(c)) \/ TakeEffect \/ ReturnUndone

CallsSpec == CallsInit /\ [][CallsNext]_callsVars
=============================================================================
