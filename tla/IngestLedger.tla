---------------------------- MODULE IngestLedger ----------------------------
(***************************************************************************)
(* What ingest promises its callers: a ledger in which every batch is      *)
(* entered at most once, with its usage, and answers that say what the     *)
(* ledger holds.  Implemented by Ingest; the server half of Agent answers  *)
(* by the same rules.                                                      *)
(***************************************************************************)
CONSTANTS Request, Batch, Payload, Cost, Nothing

VARIABLES
  ledger,   \* ledger[b]: [payload, cost] of a stored batch, or Nothing
  asked,    \* asked[r]: [batch, payload, cost] request r is about, or Nothing
  told      \* told[r]: what request r has been answered so far

ledgerVars == <<ledger, asked, told>>

Question == [batch : Batch, payload : Payload, cost : Cost]

LedgerInit ==
  /\ ledger = [b \in Batch |-> Nothing]
  /\ asked = [r \in Request |-> Nothing]
  /\ told = [r \in Request |-> "none"]

\* A request arrives, possibly a repetition of an earlier one.
Ask(r) ==
  /\ asked[r] = Nothing
  /\ \E q \in Question : asked' = [asked EXCEPT ![r] = q]
  /\ told' = [told EXCEPT ![r] = "none"]
  /\ UNCHANGED ledger

Enter(r) ==
  /\ asked[r] # Nothing
  /\ ledger[asked[r].batch] = Nothing
  /\ ledger' = [ledger EXCEPT ![asked[r].batch] = [payload |-> asked[r].payload, cost |-> asked[r].cost]]

Answer(r, answer) ==
  /\ asked[r] # Nothing
  /\ told' = [told EXCEPT ![r] = answer]
  /\ UNCHANGED asked

Accept(r) == Enter(r) /\ Answer(r, "accepted")

\* The batch is entered and its sender does not hear of it.
EnterUnheard(r) == Enter(r) /\ Answer(r, "error")

Held(r, same) ==
  /\ asked[r] # Nothing
  /\ ledger[asked[r].batch] # Nothing
  /\ (ledger[asked[r].batch].payload = asked[r].payload) = same
  /\ UNCHANGED ledger

Duplicate(r) == Held(r, TRUE) /\ Answer(r, "duplicate")
Conflict(r) == Held(r, FALSE) /\ Answer(r, "conflict")

\* Any request may be refused; a refusal says nothing of the ledger.
Refuse(r) == \E a \in {"unavailable", "error"} : Answer(r, a) /\ UNCHANGED ledger

\* The answer is sent, or the request turned away without one of these.
Close(r) ==
  /\ asked' = [asked EXCEPT ![r] = Nothing]
  /\ told' = [told EXCEPT ![r] = "none"]
  /\ UNCHANGED ledger

\* Every exchange breaks off.
Lose ==
  /\ asked' = [r \in Request |-> Nothing]
  /\ told' = [r \in Request |-> "none"]
  /\ UNCHANGED ledger

LedgerNext ==
  \/ \E r \in Request :
       Ask(r) \/ Accept(r) \/ EnterUnheard(r) \/ Duplicate(r) \/ Conflict(r) \/ Refuse(r) \/ Close(r)
  \/ Lose

LedgerSpec == LedgerInit /\ [][LedgerNext]_ledgerVars
=============================================================================
