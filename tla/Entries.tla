------------------------------- MODULE Entries -------------------------------
(***************************************************************************)
(* Reading stored entries page by page while they are written and removed: *)
(* the query service with its signed cursor (server/query, EntryRepository), *)
(* the query limiter (server/bootstrap/limiter.go), and the maintenance    *)
(* worker's retention (server/maintenance, RetentionRepository).           *)
(*                                                                         *)
(* An entry's id is its bigserial; ids are taken before the insert commits, *)
(* so entries may appear in any order.  A statement sees one snapshot and  *)
(* is one step.                                                            *)
(***************************************************************************)
EXTENDS Integers, FiniteSets, Sequences, SeqFilter

CONSTANTS
  Project, Reader, Service,
  Walker,        \* readers that follow cursors; the others ask one page
  Entry,         \* ids, a set of positive integers
  ProjectOf, ObservedOf, ServiceOf,  \* the columns of every entry
  Filter,        \* filters asked for: sequences of services, <<>> for no filter
  Limit,         \* page size
  Capacity,      \* concurrent queries per project
  Policy,        \* retention policies operators set
  DefaultPolicy, \* the one CreateProject gives
  Created,       \* the projects in the order they were created
  Stored,        \* the entries there are to begin with
  NoLimit,       \* max_bytes is NULL
  NoSemaphore,   \* the project has no semaphore
  BatchSize,     \* rows one DELETE removes
  MaxBatches,    \* MaxBatchesPerProject
  MaxProjects,   \* MaxProjectsPerCycle
  MaxClock,      \* bound: time
  MaxEvents      \* bound: ticks, inserts, policy changes and first pages

\* Created has every project once.
ASSUME EntriesAssumption ==
  /\ IsFiniteSet(Project) /\ IsFiniteSet(Reader) /\ IsFiniteSet(Entry)
  /\ Created \in Seq(Project) /\ {Created[i] : i \in DOMAIN Created} = Project
  /\ \A i, j \in DOMAIN Created : Created[i] = Created[j] => i = j
  /\ NoLimit \notin Nat /\ NoSemaphore \notin Nat
  /\ Entry \subseteq Nat \ {0} /\ Walker \subseteq Reader
  /\ ProjectOf \in [Entry -> Project] /\ ObservedOf \in [Entry -> Nat]
  /\ ServiceOf \in [Entry -> Service] /\ Filter \subseteq Seq(Service)
  /\ Stored \subseteq Entry /\ DefaultPolicy \in Policy
  /\ {Limit, Capacity, BatchSize, MaxBatches, MaxProjects} \subseteq Nat \ {0}
  /\ {MaxClock, MaxEvents} \subseteq Nat \ {0}
  /\ \A q \in Policy : q.enabled \in BOOLEAN /\ q.maxAge \in Nat \ {0}
                       /\ q.maxBytes \in Nat \cup {NoLimit}

VARIABLES
  clock,
  ingested,   \* ingested_at of every entry; Absent before, Deleted after
  policy,     \* retention policy of every project
  order,      \* the projects by the policy's updated_at
  worker,     \* the maintenance worker: its stage, its now, the policies left
  inForce,    \* policies of every project since the worker's cycle began
  at,         \* where every reader's request is
  walk,       \* every reader's project, filter and cursor
  got,        \* entries the walk has returned
  repeated,   \* the walk has returned one twice
  since,      \* entries present all through the walk
  slot,       \* projectLimiter.projects
  users, tokens,  \* the semaphores
  holds,      \* the semaphore every request got from the map
  events

table == <<clock, ingested>>
retention == <<policy, order, worker, inForce>>
walks == <<walk, got, repeated, since>>
limiter == <<slot, users, tokens, holds>>
vars == <<table, retention, at, walks, limiter, events>>

Absent == -1
Deleted == -2
Semaphore == 1..Cardinality(Reader)
Present == {e \in Entry : ingested[e] >= 0}
Of(p) == {e \in Present : ProjectOf[e] = p}
NoWalk == [open |-> FALSE, complete |-> FALSE]
Resting == [stage |-> "idle"]

Init ==
  /\ clock = 1
  /\ ingested = [e \in Entry |-> IF e \in Stored THEN 0 ELSE Absent]
  /\ policy = [p \in Project |-> DefaultPolicy] /\ order = Created
  /\ worker = Resting /\ inForce = [p \in Project |-> {}]
  /\ at = [r \in Reader |-> "idle"] /\ walk = [r \in Reader |-> NoWalk]
  /\ got = [r \in Reader |-> {}] /\ repeated = [r \in Reader |-> FALSE]
  /\ since = [r \in Reader |-> {}]
  /\ slot = [p \in Project |-> NoSemaphore]
  /\ users = [s \in Semaphore |-> 0] /\ tokens = [s \in Semaphore |-> 0]
  /\ holds = [r \in Reader |-> NoSemaphore]
  /\ events = 0

Event == events < MaxEvents /\ events' = events + 1

Tick ==
  /\ clock < MaxClock /\ Event /\ clock' = clock + 1
  /\ UNCHANGED <<ingested, retention, at, walks, limiter>>

Insert(e) ==
  /\ ingested[e] = Absent /\ Event
  /\ ingested' = [ingested EXCEPT ![e] = clock]
  /\ UNCHANGED <<clock, retention, at, walks, limiter>>

\* UpsertPolicy and its audit row; updated_at moves the project to the end.
SetRetention(p, q) ==
  /\ policy[p] # q /\ Event
  /\ policy' = [policy EXCEPT ![p] = q]
  /\ order' = Append(Kept(order, Project \ {p}), p)
  /\ inForce' = [inForce EXCEPT ![p] = @ \cup {q}]
  /\ UNCHANGED <<table, worker, at, walks, limiter>>

-----------------------------------------------------------------------------
(***************************************************************************)
(* Retention: Worker.RunOnce, one DELETE a step.                           *)
(***************************************************************************)

\* ORDER BY ingested_at, id
Older(e, f) == ingested[e] < ingested[f] \/ (ingested[e] = ingested[f] /\ e < f)

\* ORDER BY ingested_at, id LIMIT BatchSize
FirstBatch(S) == {e \in S : Cardinality({f \in S : Older(f, e)}) < BatchSize}

\* By the time the client put on the entry.
DeleteObservedBefore(p, before) ==
  FirstBatch({e \in Of(p) : ObservedOf[e] < before})

DeleteEntriesBefore(p, before) == FirstBatch({e \in Of(p) : ingested[e] < before})

\* A row counts one byte.
DeleteOldestIfOverBytes(p, maxBytes) ==
  IF Cardinality(Of(p)) > maxBytes THEN FirstBatch(Of(p)) ELSE {}

ListEnabled ==
  LET enabled == Kept(order, {p \in Project : policy[p].enabled})
  IN SubSeq(enabled, 1, IF Len(enabled) < MaxProjects THEN Len(enabled) ELSE MaxProjects)

Erase(doomed) ==
  /\ ingested' = [e \in Entry |-> IF e \in doomed THEN Deleted ELSE ingested[e]]
  /\ since' = [r \in Reader |-> since[r] \ doomed]

unrelated == <<clock, policy, order, at, walk, got, repeated, limiter, events>>

StartCycle ==
  /\ worker = Resting
  /\ worker' = [stage |-> "age", now |-> clock, attempt |-> 1,
                todo |-> [i \in DOMAIN ListEnabled |->
                            [project |-> ListEnabled[i], policy |-> policy[ListEnabled[i]]]]]
  /\ inForce' = [p \in Project |-> {policy[p]}]
  /\ UNCHANGED <<ingested, since, unrelated>>

\* Without a byte limit the whole cycle returns instead of going on.
AfterAgeReturn(w) ==
  IF Head(w.todo).policy.maxBytes = NoLimit
  THEN [w EXCEPT !.todo = <<>>] ELSE [w EXCEPT !.stage = "bytes", !.attempt = 1]

AfterAge(w) ==
  IF Head(w.todo).policy.maxBytes = NoLimit
  THEN [w EXCEPT !.todo = Tail(@), !.attempt = 1] ELSE [w EXCEPT !.stage = "bytes", !.attempt = 1]

AgeRetention ==
  /\ worker.stage = "age" /\ worker.todo # <<>>
  /\ LET task == Head(worker.todo)
         doomed == DeleteEntriesBefore(task.project, worker.now - task.policy.maxAge)
     IN /\ Erase(doomed)
        /\ worker' = IF Cardinality(doomed) < BatchSize \/ worker.attempt = MaxBatches
                     THEN AfterAge(worker) ELSE [worker EXCEPT !.attempt = @ + 1]
  /\ UNCHANGED <<inForce, unrelated>>

ByteRetention ==
  /\ worker.stage = "bytes"
  /\ LET task == Head(worker.todo)
         doomed == DeleteOldestIfOverBytes(task.project, task.policy.maxBytes)
     IN /\ Erase(doomed)
        /\ worker' = IF doomed = {} \/ worker.attempt = MaxBatches
                     THEN [worker EXCEPT !.stage = "age", !.todo = Tail(@), !.attempt = 1]
                     ELSE [worker EXCEPT !.attempt = @ + 1]
  /\ UNCHANGED <<inForce, unrelated>>

EndCycle ==
  /\ worker.stage = "age" /\ worker.todo = <<>> /\ worker' = Resting
  /\ inForce' = [p \in Project |-> {}]
  /\ UNCHANGED <<ingested, since, unrelated>>

\* The first statement that fails ends the cycle; the ticker starts the next.
CycleFails ==
  /\ worker # Resting /\ worker' = Resting
  /\ inForce' = [p \in Project |-> {}]
  /\ UNCHANGED <<ingested, since, unrelated>>

-----------------------------------------------------------------------------
(***************************************************************************)
(* Search.  The cursor carries the project and the hash of the normalised  *)
(* filter under a MAC, so it is what Encode made or it is refused.         *)
(***************************************************************************)
\* Values once each, in no order.
normalizeFilter(f) == {f[i] : i \in DOMAIN f}

Matches(e, p, f) == ProjectOf[e] = p /\ (f = {} \/ ServiceOf[e] \in f)

\* (observed_at, id) < (cursor)
Below(e, c) == ObservedOf[e] < ObservedOf[c] \/ (ObservedOf[e] = ObservedOf[c] /\ e < c)

DecodeUnbound(r, p, f) == TRUE
Decode(r, p, f) == walk[r].project = p /\ walk[r].filter = normalizeFilter(f)

\* A first page: no cursor.
Search(r, p, f) ==
  /\ at[r] = "idle" /\ (r \in Walker \/ f = <<>>) /\ Event
  /\ at' = [at EXCEPT ![r] = "asked"]
  /\ walk' = [walk EXCEPT ![r] = [open |-> TRUE, complete |-> FALSE, project |-> p,
                                  filter |-> normalizeFilter(f), cursor |-> 0]]
  /\ got' = [got EXCEPT ![r] = {}] /\ repeated' = [repeated EXCEPT ![r] = FALSE]
  /\ since' = [since EXCEPT ![r] = Present]
  /\ UNCHANGED <<table, retention, limiter>>

\* The next page, or the same again after an error, asked with any filter.
SearchNext(r, p, f) ==
  /\ at[r] = "idle" /\ r \in Walker /\ walk[r].open /\ walk[r].cursor # 0
  /\ Decode(r, p, f)
  /\ at' = [at EXCEPT ![r] = "asked"]
  /\ walk' = [walk EXCEPT ![r].project = p, ![r].filter = normalizeFilter(f)]
  /\ UNCHANGED <<table, retention, got, repeated, since, limiter, events>>

\* Rows of the page, newest first, one more than the page when there are more.
Candidates(r) ==
  {e \in Present : Matches(e, walk[r].project, walk[r].filter)
                   /\ (walk[r].cursor = 0 \/ Below(e, walk[r].cursor))}

Page(r) == {e \in Candidates(r) : Cardinality({f \in Candidates(r) : Below(e, f)}) < Limit}
LastOf(S) == CHOOSE e \in S : \A f \in S : f = e \/ Below(e, f)

List(r) ==
  /\ at[r] = "running" /\ at' = [at EXCEPT ![r] = "served"]
  /\ got' = [got EXCEPT ![r] = @ \cup Page(r)]
  /\ repeated' = [repeated EXCEPT ![r] = @ \/ got[r] \cap Page(r) # {}]
  /\ walk' = IF Candidates(r) # Page(r)
             THEN [walk EXCEPT ![r].cursor = LastOf(Page(r))]
             ELSE [walk EXCEPT ![r].open = FALSE, ![r].complete = TRUE]
  /\ UNCHANGED <<table, retention, since, limiter, events>>

\* A database error, or the execution timeout.
ListFails(r) ==
  /\ at[r] = "running" /\ at' = [at EXCEPT ![r] = "served"]
  /\ UNCHANGED <<table, retention, walks, limiter, events>>

-----------------------------------------------------------------------------
(***************************************************************************)
(* projectLimiter: the map and the counts under its mutex, the tokens in a *)
(* channel that is filled and emptied outside it.                          *)
(***************************************************************************)
others == <<table, retention, walks, events>>

Unused == {s \in Semaphore : \A r \in Reader : holds[r] # s} \ {slot[p] : p \in Project}

Acquire(r) ==
  /\ at[r] = "asked" /\ at' = [at EXCEPT ![r] = "queued"]
  /\ \E s \in IF slot[walk[r].project] # NoSemaphore
              THEN {slot[walk[r].project]} ELSE {CHOOSE u \in Unused : TRUE} :
       /\ slot' = [slot EXCEPT ![walk[r].project] = s]
       /\ users' = [users EXCEPT ![s] = IF slot[walk[r].project] = s THEN @ + 1 ELSE 1]
       /\ tokens' = [tokens EXCEPT ![s] = IF slot[walk[r].project] = s THEN @ ELSE 0]
       /\ holds' = [holds EXCEPT ![r] = s]
  /\ UNCHANGED others

TakeToken(r) ==
  /\ at[r] = "queued" /\ tokens[holds[r]] < Capacity
  /\ at' = [at EXCEPT ![r] = "running"]
  /\ tokens' = [tokens EXCEPT ![holds[r]] = @ + 1]
  /\ UNCHANGED <<slot, users, holds, others>>

\* The refused request keeps its count in the semaphore.
RefuseKeepsUser(r) ==
  /\ at[r] = "queued" /\ at' = [at EXCEPT ![r] = "idle"]
  /\ holds' = [holds EXCEPT ![r] = NoSemaphore]
  /\ UNCHANGED <<slot, users, tokens, others>>

\* No token free (ErrCapacityLimited), or the request was cancelled.
Refuse(r) ==
  /\ at[r] = "queued" /\ at' = [at EXCEPT ![r] = "leaving"]
  /\ UNCHANGED <<limiter, others>>

ReturnToken(r) ==
  /\ at[r] = "served" /\ at' = [at EXCEPT ![r] = "leaving"]
  /\ tokens' = [tokens EXCEPT ![holds[r]] = @ - 1]
  /\ UNCHANGED <<slot, users, holds, others>>

\* The map forgets a semaphore nobody is in.
ForgetsUnheld(s) == tokens[s] = 0
Forgets(s) == users[s] = 1 /\ tokens[s] = 0

releaseUser(r) ==
  /\ at[r] = "leaving" /\ at' = [at EXCEPT ![r] = "idle"]
  /\ users' = [users EXCEPT ![holds[r]] = @ - 1]
  /\ slot' = IF Forgets(holds[r])
             THEN [slot EXCEPT ![walk[r].project] = NoSemaphore] ELSE slot
  /\ holds' = [holds EXCEPT ![r] = NoSemaphore]
  /\ UNCHANGED <<tokens, others>>

-----------------------------------------------------------------------------
Query(r) ==
  \/ Acquire(r) \/ TakeToken(r) \/ Refuse(r) \/ List(r) \/ ListFails(r)
  \/ ReturnToken(r) \/ releaseUser(r)

RunOnce == StartCycle \/ AgeRetention \/ ByteRetention \/ EndCycle

Next ==
  \/ Tick \/ RunOnce \/ CycleFails
  \/ \E e \in Entry : Insert(e)
  \/ \E p \in Project, q \in Policy : SetRetention(p, q)
  \/ \E r \in Reader :
       \/ Query(r)
       \/ \E p \in Project, f \in Filter : Search(r, p, f) \/ SearchNext(r, p, f)

\* The worker's ticker ticks and its statements end.
Spec == Init /\ [][Next]_vars /\ WF_vars(RunOnce)

-----------------------------------------------------------------------------
(***************************************************************************)
(* Properties.                                                             *)
(***************************************************************************)

\* Requests, semaphores and rows are where the code can have them.
TypeOK ==
  /\ clock \in 0..MaxClock /\ ingested \in [Entry -> {Absent, Deleted} \cup (0..MaxClock)]
  /\ policy \in [Project -> Policy] /\ Len(order) = Cardinality(Project)
  /\ at \in [Reader -> {"idle", "asked", "queued", "running", "served", "leaving"}]
  /\ slot \in [Project -> Semaphore \cup {NoSemaphore}]
  /\ users \in [Semaphore -> 0..Cardinality(Reader)] /\ tokens \in [Semaphore -> 0..Capacity]
  /\ \A r \in Reader : (holds[r] = NoSemaphore) = (at[r] \in {"idle", "asked"})

\* A client that follows the cursors to the end gets every matching entry that
\* was there all the time, and none twice, whatever is written and removed in
\* between, and whatever filter it passes along with its cursor.
WalkExact ==
  \A r \in Walker :
    /\ ~repeated[r]
    /\ \A e \in since[r] :
         (walk[r].open \/ walk[r].complete) /\ Matches(e, walk[r].project, walk[r].filter)
           /\ (walk[r].complete \/ (walk[r].cursor # 0 /\ ~Below(e, walk[r].cursor)))
         => e \in got[r]

\* No more queries of a project run than it has tokens, though its semaphore
\* is forgotten and made anew between queries; a project without a query
\* leaves nothing behind, and what is there counts exactly the requests in it.
ConcurrencyBounded ==
  \A p \in Project :
    /\ Cardinality({r \in Reader : at[r] \in {"running", "served"} /\ walk[r].project = p}) <= Capacity
    /\ slot[p] # NoSemaphore =>
         /\ users[slot[p]] = Cardinality({r \in Reader : holds[r] = slot[p]})
         /\ users[slot[p]] > 0

Removed(e) == ingested[e] >= 0 /\ ingested'[e] = Deleted

\* An entry is removed only under a policy of its project that was in force at
\* some time in this cycle: too long in the store, or its project too large.
\* Whatever the reason, it is not removed while one of its project that has
\* been in the store longer stays.
DeletionJustified ==
  [][\A e \in Entry : Removed(e) =>
       /\ \E q \in inForce[ProjectOf[e]] :
            q.enabled /\ \/ ingested[e] < worker.now - q.maxAge
                         \/ q.maxBytes # NoLimit /\ Cardinality(Of(ProjectOf[e])) > q.maxBytes
       /\ \A f \in Of(ProjectOf[e]) : ingested'[f] >= 0 => Older(e, f)]_vars

\* "Repeated bounded calls converge" (DeleteOldestIfOverBytes): while cycles
\* come to an end, every project with an enabled policy comes down to it.
Converges ==
  []<><<EndCycle>>_vars =>
    <>[](\A p \in Project : policy[p].enabled =>
           /\ \A e \in Of(p) : ingested[e] >= clock - policy[p].maxAge
           /\ policy[p].maxBytes # NoLimit => Cardinality(Of(p)) <= policy[p].maxBytes)
=============================================================================
