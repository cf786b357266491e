------------------------------- MODULE Ingest -------------------------------
(***************************************************************************)
(* Concurrent ingest requests on the server: authentication, admission     *)
(* (module Admission), the canonical payload (module Canonical), and one   *)
(* READ COMMITTED transaction per request, statement by statement, while   *)
(* keys are revoked and projects and pipelines change status.              *)
(* internal/server/{auth,admission,ingest}, internal/storage/postgres.     *)
(*                                                                         *)
(* PostgreSQL is external: a statement sees what is committed when it      *)
(* starts, and an insert waits for an uncommitted insert of the same key.  *)
(***************************************************************************)
EXTENDS Admission, Canonical, FiniteSets, FiniteSetsExt

CONSTANTS
  Request,      \* request slots, numbers: a request takes the first that is free
  Batch,
  Inputs,       \* [key, batch, literal] a request may carry
  Statuses,     \* statuses of a pipeline: error is refused like disabled
  CostOf,       \* CostOf[i]: [entries, bytes] of input i
  Nothing,
  Steps,        \* ticks the clock may advance by
  MaxWait,      \* ticks between reading the clock and getting the limiter's lock
  MaxRequests,  \* model bound: requests in all
  MaxEvents     \* model bound: advances of the clock; a change or failure uses two

PayloadOf == [i \in Inputs |-> CanonicalPayload(i.literal)]
Row(i) == [payload |-> PayloadOf[i], cost |-> CostOf[i]]
\* What a request with input i asks the ledger for.
Question(i) == [batch |-> i.batch, payload |-> PayloadOf[i], cost |-> CostOf[i]]

\* The limiter's critical sections do no I/O: the wait for its lock is short
\* beside the time idle state is kept.
ASSUME IngestAssumption ==
  /\ Request \subseteq Nat /\ IsFiniteSet(Request) /\ IsFiniteSet(Batch)
  /\ \A i \in Inputs : i.key \in Key /\ i.batch \in Batch /\ i.literal \in Literal
  /\ {"enabled", "paused"} \subseteq Statuses /\ Statuses \subseteq {"enabled", "paused", "disabled", "error"}
  /\ DOMAIN CostOf = Inputs
  /\ \A i \in Inputs : CostOf[i].entries \in Nat \ {0} /\ CostOf[i].bytes \in Nat \ {0}
  /\ Nothing \notin Inputs \cup {Row(i) : i \in Inputs} \cup {Question(i) : i \in Inputs}
  /\ Steps \subseteq Nat
  /\ MaxWait \in Nat /\ Minute + 2 * MaxWait <= StateTTL
  /\ MaxRequests \in Nat /\ MaxEvents \in Nat

VARIABLES
  now,       \* the clock
  limiter,   \* the limiter's maps
  req,       \* req[r]: the request in slot r
  status,    \* committed status of the project and the pipeline
  revoked,   \* keys revoked
  stored,    \* ingest_batches, committed: [payload, cost] or Nothing
  rows,      \* rows[b]: times the entries of b are in log_entries, committed
  usage,     \* usage_buckets, committed, summed over the minutes
  spent,     \* history: cost of the reservations held or kept since the start
  began,     \* requests begun
  events

dbVars == <<stored, rows, usage>>
envVars == <<status, revoked>>
vars == <<now, limiter, req, dbVars, envVars, spent, began, events>>

Zero == [entries |-> 0, bytes |-> 0]
Plus(a, b) == [entries |-> a.entries + b.entries, bytes |-> a.bytes + b.bytes]
Minus(a, b) == [entries |-> a.entries - b.entries, bytes |-> a.bytes - b.bytes]

\* at: clock reading taken before the limiter's lock.  seen: history, the
\* boundaries that were open at some moment of the request.
Boundaries == {"key", "project", "pipeline"}
NoRequest == [pc |-> "idle", in |-> Nothing, at |-> 0, answer |-> "none", seen |-> {}]

InTx == {"project", "pipeline", "insert", "entries", "commit", "find", "found"}
Inserted == {"entries", "commit"}
Reserved == InTx \cup {"finish"}
Answers == {"none", "accepted", "duplicate", "conflict", "unavailable", "error"}

TypeOK ==
  /\ now \in Nat
  /\ limiter.keys \in [Key -> KeyState \cup {Absent}]
  /\ limiter.project \in ProjectState \cup {Absent}
  /\ limiter.lastCleanup \in -Minute..now
  /\ \A r \in Request :
       /\ req[r].pc \in {"idle", "admit"} \cup Reserved
       /\ req[r].in \in Inputs \cup {Nothing}
       /\ req[r].in = Nothing <=> req[r].pc = "idle"
       /\ req[r].at \in 0..now
       /\ req[r].answer \in Answers
       /\ req[r].seen \subseteq Boundaries
  /\ status \in [project : {"active", "disabled"}, pipeline : Statuses]
  /\ revoked \subseteq Key
  /\ \A b \in Batch : stored[b] = Nothing \/ \E i \in Inputs : i.batch = b /\ stored[b] = Row(i)
  /\ rows \in [Batch -> Nat]
  /\ usage.entries \in Nat /\ usage.bytes \in Nat
  /\ began \in 0..MaxRequests /\ events \in 0..MaxEvents

\* A project in use, or one that was disabled and its pipeline enabled since.
Init ==
  /\ now = 0
  /\ limiter = Empty
  /\ req = [r \in Request |-> NoRequest]
  /\ status \in [project : {"active", "disabled"}, pipeline : {"enabled"}]
  /\ revoked = {}
  /\ stored = [b \in Batch |-> Nothing]
  /\ rows = [b \in Batch |-> 0]
  /\ usage = Zero /\ spent = Zero
  /\ began = 0 /\ events = 0

-----------------------------------------------------------------------------
(* Boundaries and their checks.                                            *)

CanIngest(st) == st.project = "active"
\* Paused pipelines drain what is already durable.
PipelineUsable(st) == st.pipeline \in {"enabled", "paused"}

\* A key that has been revoked identifies nobody.
Authenticate(k, rev) == k \notin rev

Open(st, rev, k) ==
  {x \in Boundaries : \/ x = "key" /\ Authenticate(k, rev)
                      \/ x = "project" /\ CanIngest(st)
                      \/ x = "pipeline" /\ PipelineUsable(st)}

\* Every request in progress observes the boundaries at (st, rev).
Observe(st, rev) ==
  [r \in Request |->
     IF req[r].pc \in {"idle", "finish"} THEN req[r]
     ELSE [req[r] EXCEPT !.seen = @ \cup Open(st, rev, req[r].in.key)]]

\* Bound: the environment moves while a slot is free, and the last free slot
\* is taken only before it has moved.
Quiet == \E r \in Request : req[r].pc = "idle"

\* The environment uses n of its events.
Event(n) == Quiet /\ events + n <= MaxEvents /\ events' = events + n

-----------------------------------------------------------------------------
(* A request.                                                              *)

Goto(r, p) == req' = [req EXCEPT ![r].pc = p]

\* The end of the transaction: finish reads the clock before it locks.
End(r, answer) ==
  req' = [req EXCEPT ![r].pc = "finish", ![r].answer = answer, ![r].at = now, ![r].seen = {}]

\* The one check of the payload that is not about its other fields.
Normalize(i) == Valid(i.literal)

Unchanged == UNCHANGED <<now, limiter, dbVars, envVars, spent, began, events>>

\* The checks before admission; a request that fails one of them is refused
\* with nothing done.
Begin(r, i) ==
  /\ req[r].pc = "idle" /\ began < MaxRequests
  /\ \A q \in Request : q < r => req[q].pc # "idle"
  /\ events = 0 \/ \E q \in Request \ {r} : req[q].pc = "idle"
  /\ began' = began + 1
  /\ req' = [req EXCEPT ![r] =
       IF ~Authenticate(i.key, revoked) \/ ~Normalize(i) \/ Larger(CostOf[i])
       THEN NoRequest
       ELSE [pc |-> "admit", in |-> i, at |-> now, answer |-> "none", seen |-> Open(status, revoked, i.key)]]
  /\ UNCHANGED <<now, limiter, dbVars, envVars, spent, events>>

Admit(r) ==
  /\ req[r].pc = "admit"
  /\ LET i == req[r].in
         decision == AllowIngest(limiter, i.key, CostOf[i], req[r].at)
     IN  /\ limiter' = decision.limiter
         /\ IF decision.reason = "none"
            THEN /\ req' = [req EXCEPT ![r].pc = "project", ![r].at = 0]
                 /\ spent' = Plus(spent, CostOf[i])
            ELSE req' = [req EXCEPT ![r] = NoRequest] /\ UNCHANGED spent
  /\ UNCHANGED <<now, dbVars, envVars, began, events>>

GetProject(r) ==
  /\ req[r].pc = "project"
  /\ IF CanIngest(status) THEN Goto(r, "pipeline") ELSE End(r, "unavailable")
  /\ Unchanged

\* Mutant: the status of the pipeline is not looked at.
GetPipelineAny(r) == req[r].pc = "pipeline" /\ Goto(r, "insert") /\ Unchanged

\* No operation of the server disables an agent, so its check always passes
\* and shares the step of the pipeline's.
GetPipeline(r) ==
  /\ req[r].pc = "pipeline"
  /\ IF PipelineUsable(status) THEN Goto(r, "insert") ELSE End(r, "unavailable")
  /\ Unchanged

\* Another transaction holds an uncommitted row of the batch.
Waits(r) ==
  \E q \in Request \ {r} : req[q].pc \in Inserted /\ req[q].in.batch = req[r].in.batch

\* Mutant: an insert that finds a row is tried again.
InsertBatchRetry(r) ==
  /\ req[r].pc = "insert" /\ ~Waits(r)
  /\ IF stored[req[r].in.batch] = Nothing THEN Goto(r, "entries") ELSE Goto(r, "insert")
  /\ Unchanged

\* Mutant: the insert does not wait for the other transaction.
InsertBatchRace(r) ==
  /\ req[r].pc = "insert"
  /\ IF stored[req[r].in.batch] = Nothing THEN Goto(r, "entries") ELSE Goto(r, "find")
  /\ Unchanged

\* INSERT ... ON CONFLICT DO NOTHING.
InsertBatch(r) ==
  /\ req[r].pc = "insert" /\ ~Waits(r)
  /\ IF stored[req[r].in.batch] = Nothing THEN Goto(r, "entries") ELSE Goto(r, "find")
  /\ Unchanged

\* Mutant: any row of the batch makes the request a duplicate.
FindBatchUnverified(r) == req[r].pc = "find" /\ Goto(r, "found") /\ Unchanged

VerifyRetry(row, i) == row.payload = PayloadOf[i]

\* The row that won: its payload must be this one's.
FindBatch(r) ==
  /\ req[r].pc = "find"
  /\ IF VerifyRetry(stored[req[r].in.batch], req[r].in) THEN Goto(r, "found") ELSE End(r, "conflict")
  /\ Unchanged

\* The entries, and the upsert of the usage row of the request's minute.  It
\* waits for a transaction that has updated the same row; as the minute is left
\* out, any two transactions may be past it at once.
AddUsage(r) ==
  /\ req[r].pc = "entries"
  /\ Goto(r, "commit")
  /\ Unchanged

\* Mutant: the row is written without its cost.
StoreUnpriced(r) ==
  LET i == req[r].in
  IN  /\ stored' = [stored EXCEPT ![i.batch] = [payload |-> PayloadOf[i], cost |-> Zero]]
      /\ rows' = [rows EXCEPT ![i.batch] = @ + 1]
      /\ usage' = Plus(usage, CostOf[i])

\* What the commit of the inserting transaction makes visible at once.
Store(r) ==
  LET i == req[r].in
  IN  /\ stored' = [stored EXCEPT ![i.batch] = Row(i)]
      /\ rows' = [rows EXCEPT ![i.batch] = @ + 1]
      /\ usage' = Plus(usage, CostOf[i])

Commit(r) ==
  /\ \/ /\ req[r].pc = "commit"
        /\ Store(r)
        /\ End(r, "accepted")
     \/ /\ req[r].pc = "found"
        /\ End(r, "duplicate")
        /\ UNCHANGED dbVars
  /\ UNCHANGED <<now, limiter, envVars, spent, began, events>>

\* A statement fails, the request is cancelled or times out: rollback.
Fail(r) ==
  /\ Event(2)
  /\ req[r].pc \in InTx
  /\ End(r, "error")
  /\ UNCHANGED <<now, limiter, dbVars, envVars, spent, began>>

\* The commit takes effect and its acknowledgement is lost.
CommitUnheard(r) ==
  /\ Event(2)
  /\ req[r].pc = "commit"
  /\ Store(r)
  /\ End(r, "error")
  /\ UNCHANGED <<now, limiter, envVars, spent, began>>

\* reservation.Commit for an accepted batch, else Release; then the answer.
Finish(r) ==
  /\ req[r].pc = "finish"
  /\ LET refund == req[r].answer # "accepted"
     IN  /\ limiter' = finish(limiter, CostOf[req[r].in], refund, req[r].at)
         /\ spent' = IF refund THEN Minus(spent, CostOf[req[r].in]) ELSE spent
  /\ req' = [req EXCEPT ![r] = NoRequest]
  /\ UNCHANGED <<now, dbVars, envVars, began, events>>

-----------------------------------------------------------------------------
(* The environment.                                                        *)

\* Time passes, for a request between its clock reading and the lock at most
\* MaxWait.
Tick ==
  /\ Event(1)
  /\ \E d \in Steps : now' = now + d
  /\ \A r \in Request : req[r].pc \in {"admit", "finish"} => now' - req[r].at <= MaxWait
  /\ UNCHANGED <<limiter, req, dbVars, envVars, spent, began>>

Change(st, rev) ==
  /\ Event(2)
  /\ status' = st /\ revoked' = rev
  /\ req' = Observe(st, rev)
  /\ UNCHANGED <<now, limiter, dbVars, spent, began>>

\* Disabling a project pauses its pipelines.
SetProjectStatus ==
  \/ /\ status.project = "active"
     /\ Change([status EXCEPT !.project = "disabled",
                              !.pipeline = IF @ \in {"enabled", "error"} THEN "paused" ELSE @], revoked)
  \/ /\ status.project = "disabled"
     /\ Change([status EXCEPT !.project = "active"], revoked)

SetPipelineStatus ==
  \E s \in Statuses \ {status.pipeline} :
    Change([status EXCEPT !.pipeline = s], revoked)

RevokeKey == \E k \in Key \ revoked : Change(status, revoked \cup {k})

\* The process dies: PostgreSQL rolls its transactions back.
Crash ==
  /\ Event(2)
  /\ req' = [r \in Request |-> NoRequest]
  /\ limiter' = Empty /\ spent' = Zero
  /\ UNCHANGED <<now, dbVars, envVars, began>>

Accept(r) ==
  \/ Admit(r) \/ GetProject(r) \/ GetPipeline(r) \/ InsertBatch(r) \/ FindBatch(r)
  \/ AddUsage(r) \/ Commit(r) \/ Finish(r)

Next ==
  \/ \E r \in Request :
       \/ \E i \in Inputs : Begin(r, i)
       \/ Accept(r) \/ Fail(r) \/ CommitUnheard(r)
  \/ Tick \/ SetProjectStatus \/ SetPipelineStatus \/ RevokeKey \/ Crash

\* A request's goroutine runs until it has answered.
Spec == Init /\ [][Next]_vars /\ \A r \in Request : WF_vars(Accept(r))

(***************************************************************************)
(* Properties.                                                             *)
(***************************************************************************)

\* Entries and usage of a batch are committed once, together with its row:
\* whatever is retried, raced or lost, log_entries, usage_buckets and
\* ingest_batches describe the same set of batches.
StoredOnce ==
  /\ \A b \in Batch : rows[b] = IF stored[b] = Nothing THEN 0 ELSE 1
  /\ LET held == {b \in Batch : stored[b] # Nothing}
     IN  \A c \in {"entries", "bytes"} :
           usage[c] = SumFunctionOnSet([b \in held |-> stored[b].cost[c]], held)

\* The limiter's count of requests in flight is the number of reservations
\* held: no slot leaks and none is given back twice, through refusals,
\* failures and the clean-up of idle state.  And over any time since the start
\* a project is admitted at most its burst and its rate: dropping idle state,
\* refunds and clock readings taken before the lock never create budget.
AdmissionExact ==
  /\ Cardinality({r \in Request : req[r].pc \in Reserved})
       = IF limiter.project = Absent THEN 0 ELSE limiter.project.inflight
  /\ \A c \in {"entries", "bytes"} :
       LET tokens == IF limiter.project = Absent THEN 0 ELSE limiter.project[c].tokens
       IN  /\ 0 <= tokens /\ tokens <= Parts(c)
           /\ spent[c] * Minute + tokens <= Parts(c) + Capacity[c] * now

\* A batch is stored only by a request during which its key, project and
\* pipeline have each been open: one that begins after a boundary closed,
\* and ends before it opens again, stores nothing.
BoundariesHold ==
  [][\A r \in Request : (req[r].pc = "commit" /\ rows' # rows /\ req'[r].pc # "commit")
       => req[r].seen = Boundaries]_vars

Ledger == INSTANCE IngestLedger WITH
  Payload <- {PayloadOf[i] : i \in Inputs},
  Cost <- {CostOf[i] : i \in Inputs},
  ledger <- stored,
  asked <- [r \in Request |-> IF req[r].in = Nothing THEN Nothing ELSE Question(req[r].in)],
  told <- [r \in Request |-> req[r].answer]

\* A retry is told from other content by comparing hashes of the payload, and
\* canonicalNumber rewrites decimal text without converting it.  What a stored
\* batch is compared by is the one text of its value, whatever number a retry
\* brings and however it is spelled: an encoder that writes numbers differently
\* still sends a duplicate, and no two values agree.
CanonicalExact ==
  \A b \in Batch : stored[b] # Nothing =>
    /\ WritingExact
    /\ CanonicalPayload(stored[b].payload) = stored[b].payload

\* The transactions implement the ledger: concurrent requests for one batch
\* look as if they had been served one after the other, accepted or duplicate
\* is said only of a batch that is durably stored with this very payload, and
\* a conflict only of one stored with another.
ImplementsLedger == Ledger!LedgerSpec

\* Requests that wait for each other's rows all come to an end.
EventuallyAnswered == \A r \in Request : req[r].pc # "idle" ~> req[r].pc = "idle"
=============================================================================
