----------------------------- MODULE Quarantine -----------------------------
(***************************************************************************)
(* Quarantined batches on the server: operators replay or discard them,    *)
(* each call in several transactions, while maintenance takes back claims  *)
(* whose lease has expired and agents may deliver the same batches.        *)
(* internal/server/operations/service.go, internal/server/maintenance,     *)
(* internal/storage/postgres/quarantine.go.                                *)
(*                                                                         *)
(* Ingest is the ledger that module Ingest implements.  The age of a claim *)
(* is abstracted to whether its lease has expired.  RequeueExpired selects *)
(* rows and then updates them by identifier alone; what commits in between *)
(* is overwritten.                                                         *)
(***************************************************************************)
EXTENDS Integers, FiniteSets

CONSTANTS
  Row,          \* quarantined batches
  Caller,       \* replay requests the server serves at once
  Undecodable,  \* rows whose payload the protocol refuses
  MaxAttempts   \* model bound: claims of a row

ASSUME QuarantineAssumption ==
  /\ Undecodable \subseteq Row /\ IsFiniteSet(Caller)
  /\ MaxAttempts \in Nat \ {0}

VARIABLES
  row,       \* quarantine_batches: status, attempts, and whether claimed_at is older than the lease
  audit,     \* audit[q]: successful claims, resolutions, releases and discards recorded
  call,      \* call[c]: where a replay is and the row it claimed
  picked,    \* rows the worker's statement has selected
  worker,    \* the worker: idle or updating
  ledger,    \* ledger[q]: payload stored for the batch of q: none, own or other
  copies     \* copies[q]: times the entries of q's own payload were inserted

ingestVars == <<ledger, copies>>
workerVars == <<picked, worker>>
vars == <<row, audit, call, workerVars, ingestVars>>

Status == {"pending", "replaying", "resolved", "discarded"}
Terminal == {"resolved", "discarded"}
Idle == [pc |-> "idle", row |-> {}]
Replays == [pc : {"claimed", "accepted", "failed"}, row : {{q} : q \in Row}] \cup {Idle}
Records == {"claim", "resolve", "release", "discard"}

TypeOK ==
  /\ row \in [Row -> [status : Status, attempts : 0..MaxAttempts, expired : BOOLEAN]]
  /\ \A q \in Row : row[q].expired => row[q].status = "replaying"
  /\ audit \in [Row -> [Records -> 0..MaxAttempts]]
  /\ call \in [Caller -> Replays]
  /\ picked \subseteq Row
  /\ worker \in {"idle", "update"} /\ (worker = "idle" => picked = {})
  /\ ledger \in [Row -> {"none", "own", "other"}]
  /\ copies \in [Row -> Nat]

Init ==
  /\ row = [q \in Row |-> [status |-> "pending", attempts |-> 0, expired |-> FALSE]]
  /\ audit = [q \in Row |-> [a \in Records |-> 0]]
  /\ call = [c \in Caller |-> Idle]
  /\ picked = {} /\ worker = "idle"
  /\ ledger = [q \in Row |-> "none"]
  /\ copies = [q \in Row |-> 0]

\* Mutant: the old claim's time stays.
SetKeep(q, s) == row' = [row EXCEPT ![q].status = s]

Set(q, s) == row' = [row EXCEPT ![q].status = s, ![q].expired = FALSE]

appendAudit(q, a) == audit' = [audit EXCEPT ![q][a] = @ + 1]

-----------------------------------------------------------------------------
(* The ledger of ingest, for the batch of row q.                           *)

\* Accepted, or a duplicate of what is there.
Enter(q) ==
  /\ ledger[q] # "other"
  /\ ledger' = [ledger EXCEPT ![q] = "own"]
  /\ copies' = [copies EXCEPT ![q] = IF ledger[q] = "none" THEN @ + 1 ELSE @]

\* An agent delivers the batch, or another one under its identifier.
Deliver(q) ==
  /\ ledger[q] = "none"
  /\ \/ Enter(q)
     \/ /\ ledger' = [ledger EXCEPT ![q] = "other"]
        /\ UNCHANGED copies
  /\ UNCHANGED <<row, audit, call, workerVars>>

-----------------------------------------------------------------------------
(* ReplayQuarantine, transaction by transaction.                           *)

At(c, pc) == call[c].pc = pc
RowOf(c) == CHOOSE q \in Row : call[c].row = {q}
Step(c, pc) == call' = [call EXCEPT ![c].pc = pc]
Return(c) == call' = [call EXCEPT ![c] = Idle]

\* Repository Claim: a conditional update.
Claimable(q) == row[q].status = "pending" /\ row[q].attempts < MaxAttempts
Claimed(q, s) == row' = [row EXCEPT ![q].status = s, ![q].attempts = @ + 1, ![q].expired = FALSE]

\* Mutant: the audit record is written outside the transaction and lost.
claimUnaudited(c, q) ==
  /\ At(c, "idle")
  /\ Claimable(q)
  /\ Claimed(q, "replaying")
  /\ call' = [call EXCEPT ![c] = [pc |-> "claimed", row |-> {q}]]
  /\ UNCHANGED <<audit, workerVars, ingestVars>>

claim(c, q) ==
  /\ At(c, "idle")
  /\ Claimable(q)
  /\ Claimed(q, "replaying")
  /\ appendAudit(q, "claim")
  /\ call' = [call EXCEPT ![c] = [pc |-> "claimed", row |-> {q}]]
  /\ UNCHANGED <<workerVars, ingestVars>>

\* Mutant: every outcome of Accept counts as accepted.
AcceptBlind(c) ==
  /\ At(c, "claimed")
  /\ RowOf(c) \notin Undecodable
  /\ Step(c, "accepted")
  /\ Enter(RowOf(c)) \/ UNCHANGED ingestVars
  /\ UNCHANGED <<row, audit, workerVars>>

\* Decode, Normalize and Accept.  A batch may be stored and its caller told of
\* an error.
Accept(c) ==
  /\ At(c, "claimed")
  /\ \/ /\ RowOf(c) \notin Undecodable
        /\ Enter(RowOf(c))
        /\ Step(c, "accepted") \/ Step(c, "failed")
     \/ /\ Step(c, "failed")
        /\ UNCHANGED ingestVars
  /\ UNCHANGED <<row, audit, workerVars>>

\* MarkTerminal(resolved): conditional on replaying, whoever claimed the row.
Resolve(c) ==
  /\ At(c, "accepted")
  /\ LET q == RowOf(c)
     IN  IF row[q].status = "replaying"
         THEN Set(q, "resolved") /\ appendAudit(q, "resolve")
         ELSE UNCHANGED <<row, audit>>
  /\ Return(c)
  /\ UNCHANGED <<workerVars, ingestVars>>

release(c) ==
  /\ At(c, "failed")
  /\ LET q == RowOf(c)
     IN  IF row[q].status = "replaying"
         THEN Set(q, "pending") /\ appendAudit(q, "release")
         ELSE UNCHANGED <<row, audit>>
  /\ Return(c)
  /\ UNCHANGED <<workerVars, ingestVars>>

\* The request is cancelled, a transaction fails, or the process dies: the
\* row keeps its claim.
Abandon(c) ==
  /\ ~At(c, "idle")
  /\ Return(c)
  /\ UNCHANGED <<row, audit, workerVars, ingestVars>>

\* One transaction: claim and discard.
DiscardQuarantine(q) ==
  /\ Claimable(q)
  /\ Claimed(q, "discarded")
  /\ appendAudit(q, "discard")
  /\ UNCHANGED <<call, workerVars, ingestVars>>

-----------------------------------------------------------------------------
(* Maintenance.                                                            *)

LeaseExpires(q) ==
  /\ row[q].status = "replaying" /\ ~row[q].expired
  /\ row' = [row EXCEPT ![q].expired = TRUE]
  /\ UNCHANGED <<audit, call, workerVars, ingestVars>>

\* Bound: BatchSize, the statement's limit, exceeds the number of rows.
RequeueSelect ==
  /\ worker = "idle"
  /\ worker' = "update"
  /\ picked' = {q \in Row : row[q].status = "replaying" /\ row[q].expired}
  /\ picked' # {}
  /\ UNCHANGED <<row, audit, call, ingestVars>>

\* Mutant: the statement is rolled back when a row has changed meanwhile, and
\* the cycle ends there.
RequeueUpdateStuck ==
  /\ worker = "update"
  /\ \A q \in picked : row[q].status # "replaying"
  /\ worker' = "idle" /\ picked' = {}
  /\ UNCHANGED <<row, audit, call, ingestVars>>

RequeueUpdate ==
  /\ worker = "update"
  /\ row' = [q \in Row |-> IF q \in picked THEN [row[q] EXCEPT !.status = "pending", !.expired = FALSE] ELSE row[q]]
  /\ worker' = "idle" /\ picked' = {}
  /\ UNCHANGED <<audit, call, ingestVars>>

\* The worker's process dies or its statement fails: rolled back.
RequeueFails ==
  /\ worker = "update"
  /\ worker' = "idle" /\ picked' = {}
  /\ UNCHANGED <<row, audit, call, ingestVars>>

RequeueExpired == RequeueSelect \/ RequeueUpdate

ReplayQuarantine(c) == (\E q \in Row : claim(c, q)) \/ Accept(c) \/ Resolve(c) \/ release(c)

Next ==
  \/ \E c \in Caller : ReplayQuarantine(c) \/ Abandon(c)
  \/ \E q \in Row : DiscardQuarantine(q) \/ LeaseExpires(q) \/ Deliver(q)
  \/ RequeueExpired \/ RequeueFails

Spec == Init /\ [][Next]_vars

\* Time passes and the worker's ticker ticks; its statement is not cancelled
\* for ever.  Nothing is assumed of operators.
FairSpec ==
  /\ Spec
  /\ \A q \in Row : WF_vars(LeaseExpires(q))
  /\ WF_vars(RequeueSelect) /\ SF_vars(RequeueUpdate)

(***************************************************************************)
(* Properties.                                                             *)
(***************************************************************************)

\* A resolved row's own payload is in the ledger, once: callers that outlive
\* their lease, resolve each other's claims, fail after storing, or race with
\* an agent's delivery or with maintenance never resolve a row that is not
\* stored, and never store it again.
ResolvedStored ==
  \A q \in Row : row[q].status = "resolved" => ledger[q] = "own" /\ copies[q] = 1

\* Attempts are counted and audited together, and every claim is ended at most
\* once: no release or resolution is recorded of a claim that was not.
AuditMatches ==
  \A q \in Row :
    /\ row[q].attempts = audit[q].claim + audit[q].discard
    /\ audit[q].resolve + audit[q].release
         + Cardinality({c \in Caller : call[c].row = {q}}) <= audit[q].claim
    /\ row[q].status = "resolved" => audit[q].resolve > 0
    /\ row[q].status = "discarded" => audit[q].discard > 0

\* A claim whose caller has gone does not keep its row for ever.
ClaimsRecovered == \A q \in Row : row[q].status = "replaying" ~> row[q].status # "replaying"

\* "pending -> replaying -> resolved / discarded; replaying -> pending"
\* (docs/backend-tutorial/07, section 4): a terminal row stays as it is.
TerminalStable ==
  [][\A q \in Row : row[q].status \in Terminal => row'[q].status = row[q].status]_vars
=============================================================================
