--------------------------- MODULE EntriesProofs ---------------------------
(***************************************************************************)
(* Theorems about Entries, for any projects, readers, entries, filters,    *)
(* policies, limits and bounds.                                            *)
(***************************************************************************)
EXTENDS Entries, DataLemmas

Places == {"idle", "asked", "queued", "running", "served", "leaving"}
Working == {"running", "served"}
WalkRec == [open : BOOLEAN, complete : BOOLEAN, project : Project, filter : SUBSET Service, cursor : Entry \cup {0}]

\* Rows, policies and requests.
RowsTyped ==
  /\ clock \in 0..MaxClock /\ ingested \in [Entry -> {Absent, Deleted} \cup (0..MaxClock)]
  /\ policy \in [Project -> Policy]
  /\ order \in Seq(Project) /\ IsInjective(order) /\ ToSet(order) = Project
  /\ at \in [Reader -> Places] /\ walk \in [Reader -> WalkRec \cup {NoWalk}]
  /\ got \in [Reader -> SUBSET Entry] /\ since \in [Reader -> SUBSET Entry] /\ repeated \in [Reader -> BOOLEAN]
  /\ \A r \in Reader : at[r] # "idle" => walk[r] \in WalkRec

\* Who is in semaphore s, and who of them has a token.
InIt(h, s) == {r \in Reader : h[r] = s}
WithToken(h, a, s) == {r \in Reader : h[r] = s /\ a[r] \in Working}

\* A request's semaphore is its project's, each project has its own, and the
\* counts of one that is in the map are those of the requests in it.
SemaphoresOK ==
  /\ slot \in [Project -> Semaphore \cup {NoSemaphore}]
  /\ users \in [Semaphore -> 0..Cardinality(Reader)] /\ tokens \in [Semaphore -> 0..Capacity]
  /\ holds \in [Reader -> Semaphore \cup {NoSemaphore}]
  /\ \A r \in Reader : (holds[r] = NoSemaphore) = (at[r] \in {"idle", "asked"})
  /\ \A r \in Reader : holds[r] # NoSemaphore => slot[walk[r].project] = holds[r]
  /\ \A p, q \in Project : slot[p] # NoSemaphore /\ slot[p] = slot[q] => p = q
  /\ \A p \in Project : slot[p] # NoSemaphore =>
       /\ users[slot[p]] = Cardinality(InIt(holds, slot[p])) /\ users[slot[p]] > 0
       /\ tokens[slot[p]] = Cardinality(WithToken(holds, at, slot[p]))

\* The constants, in the form the proofs use them.
LEMMA EntriesTyped ==
  /\ IsFiniteSet(Project) /\ IsFiniteSet(Reader) /\ IsFiniteSet(Entry) /\ Cardinality(Reader) \in Nat
  /\ Created \in Seq(Project) /\ IsInjective(Created) /\ ToSet(Created) = Project
  /\ NoLimit \notin Nat /\ NoSemaphore \notin Semaphore
  /\ Entry \in SUBSET (Nat \ {0}) /\ Walker \in SUBSET Reader
  /\ ProjectOf \in [Entry -> Project] /\ ObservedOf \in [Entry -> Nat]
  /\ Filter \in SUBSET Seq(Service)
  /\ Stored \in SUBSET Entry /\ DefaultPolicy \in Policy
  /\ Limit \in Nat \ {0} /\ Capacity \in Nat \ {0} /\ BatchSize \in Nat \ {0} /\ MaxBatches \in Nat \ {0}
  /\ MaxProjects \in Nat \ {0} /\ MaxClock \in Nat \ {0}
  /\ \A q \in Policy : q.enabled \in BOOLEAN /\ q.maxAge \in Nat /\ q.maxBytes \in Nat \cup {NoLimit}
<1>1. Cardinality(Reader) \in Nat
  BY EntriesAssumption, FS_CardinalityType
<1>2. NoSemaphore \notin Semaphore
  BY <1>1, EntriesAssumption DEF Semaphore
<1>3. IsInjective(Created) /\ ToSet(Created) = Project
  BY EntriesAssumption DEF IsInjective, ToSet
<1>. QED BY <1>1, <1>2, <1>3, EntriesAssumption

-----------------------------------------------------------------------------
(* The query limiter.                                                      *)

\* Sets of requests are finite.
LEMMA InItFinite ==
  ASSUME NEW h, NEW a, NEW s
  PROVE  /\ IsFiniteSet(InIt(h, s)) /\ Cardinality(InIt(h, s)) \in 0..Cardinality(Reader)
         /\ IsFiniteSet(WithToken(h, a, s)) /\ Cardinality(WithToken(h, a, s)) \in Nat
<1>1. InIt(h, s) \in SUBSET Reader /\ WithToken(h, a, s) \in SUBSET Reader
  BY DEF InIt, WithToken
<1>2. /\ IsFiniteSet(InIt(h, s)) /\ Cardinality(InIt(h, s)) <= Cardinality(Reader)
      /\ IsFiniteSet(WithToken(h, a, s))
  BY <1>1, EntriesTyped, FS_Subset
<1>. QED BY <1>2, EntriesTyped, FS_CardinalityType

\* A request that needs a new semaphore finds one: every one in use is held by
\* a request, and this request holds none.
LEMMA UnusedExists ==
  ASSUME SemaphoresOK, NEW r \in Reader, holds[r] = NoSemaphore
  PROVE  \E u \in Semaphore : u \in Unused
<1>. SUFFICES ASSUME \A u \in Semaphore : u \notin Unused PROVE FALSE
  OBVIOUS
<1>0. NoSemaphore \notin Semaphore /\ Cardinality(Reader) \in Nat /\ IsFiniteSet(Reader)
  BY EntriesTyped
<1>1. ASSUME NEW u \in Semaphore
      PROVE  \E x \in Reader \ {r} : holds[x] = u
  <2>1. CASE \E x \in Reader : holds[x] = u
    BY <1>0, <2>1
  <2>2. CASE \E p \in Project : slot[p] = u
    <3>1. PICK p \in Project : slot[p] = u
      BY <2>2
    <3>2. Cardinality(InIt(holds, u)) > 0
      BY <1>0, <3>1 DEF SemaphoresOK
    <3>3. InIt(holds, u) # {}
      <4>1. Cardinality({}) = 0
        BY FS_EmptySet
      <4>. QED BY <3>2, <4>1
    <3>. QED BY <1>0, <3>3 DEF InIt
  <2>. QED BY <2>1, <2>2 DEF Unused
<1>. DEFINE T == Reader \ {r}
            f == [u \in Semaphore |-> CHOOSE x \in T : holds[x] = u]
<1>2. \A u \in Semaphore : f[u] \in T /\ holds[f[u]] = u
  BY <1>1
<1>3. f \in [Semaphore -> T]
  BY <1>2
<1>4. IsFiniteSet(T) /\ Cardinality(T) = Cardinality(Reader) - 1
  BY <1>0, FS_RemoveElement
<1>5. IsFiniteSet(Semaphore) /\ Cardinality(Semaphore) = Cardinality(Reader)
  BY <1>0, FS_Interval DEF Semaphore
<1>6. Cardinality(T) < Cardinality(Semaphore)
  BY <1>0, <1>4, <1>5
<1>. HIDE DEF f, T
<1>7. \E u, v \in Semaphore : u # v /\ f[u] = f[v]
  BY <1>3, <1>4, <1>5, <1>6, FS_PigeonHole
<1>. QED BY <1>2, <1>7

\* Steps that leave the limiter alone and no request's place in it.
LEMMA LimiterSame ==
  ASSUME SemaphoresOK, UNCHANGED limiter,
         \A r \in Reader : /\ at'[r] \in {"idle", "asked"} <=> at[r] \in {"idle", "asked"}
                           /\ at'[r] \in Working <=> at[r] \in Working
                           /\ holds[r] # NoSemaphore => walk'[r].project = walk[r].project
  PROVE  SemaphoresOK'
<1>1. UNCHANGED <<slot, users, tokens, holds>>
  BY DEF limiter
<1>2. \A s : WithToken(holds, at', s) = WithToken(holds, at, s)
  BY DEF WithToken
<1>. QED BY <1>1, <1>2 DEF SemaphoresOK

\* acquire: the request is counted in its project's semaphore.
LEMMA AcquireCounts ==
  ASSUME RowsTyped, SemaphoresOK, NEW r \in Reader, Acquire(r)
  PROVE  SemaphoresOK'
<1>. DEFINE p == walk[r].project
<1>0. NoSemaphore \notin Semaphore /\ Cardinality(Reader) \in Nat /\ Capacity \in Nat \ {0}
  BY EntriesTyped
<1>1. /\ at[r] = "asked" /\ at \in [Reader -> Places] /\ at' = [at EXCEPT ![r] = "queued"] /\ walk' = walk
      /\ walk[r] \in WalkRec
  BY DEF Acquire, RowsTyped, others, walks
<1>2. p \in Project
  BY <1>1 DEF WalkRec
<1>3. /\ slot \in [Project -> Semaphore \cup {NoSemaphore}]
      /\ users \in [Semaphore -> 0..Cardinality(Reader)] /\ tokens \in [Semaphore -> 0..Capacity]
      /\ holds \in [Reader -> Semaphore \cup {NoSemaphore}]
      /\ \A x \in Reader : (holds[x] = NoSemaphore) = (at[x] \in {"idle", "asked"})
      /\ \A x \in Reader : holds[x] # NoSemaphore => slot[walk[x].project] = holds[x]
      /\ \A q1, q2 \in Project : slot[q1] # NoSemaphore /\ slot[q1] = slot[q2] => q1 = q2
      /\ \A q \in Project : slot[q] # NoSemaphore =>
           /\ users[slot[q]] = Cardinality(InIt(holds, slot[q])) /\ users[slot[q]] > 0
           /\ tokens[slot[q]] = Cardinality(WithToken(holds, at, slot[q]))
  BY DEF SemaphoresOK
<1>4. holds[r] = NoSemaphore
  BY <1>1, <1>3
<1>5. PICK s \in Semaphore :
        /\ s = slot[p] \/ (slot[p] = NoSemaphore /\ s \in Unused)
        /\ slot' = [slot EXCEPT ![p] = s]
        /\ users' = [users EXCEPT ![s] = IF slot[p] = s THEN @ + 1 ELSE 1]
        /\ tokens' = [tokens EXCEPT ![s] = IF slot[p] = s THEN @ ELSE 0]
        /\ holds' = [holds EXCEPT ![r] = s]
  <2>1. Unused \in SUBSET Semaphore /\ \E u : u \in Unused
    BY <1>4, UnusedExists DEF Unused
  <2>2. (CHOOSE u \in Unused : TRUE) \in Unused
    BY <2>1
  <2>3. slot[p] # NoSemaphore => slot[p] \in Semaphore
    BY <1>2, <1>3
  <2>. QED BY <2>1, <2>2, <2>3 DEF Acquire
<1>6. InIt(holds', s) = InIt(holds, s) \cup {r} /\ r \notin InIt(holds, s)
  BY <1>0, <1>3, <1>4, <1>5 DEF InIt
<1>7. \A t : t # s /\ t # NoSemaphore => InIt(holds', t) = InIt(holds, t) /\ WithToken(holds', at', t) = WithToken(holds, at, t)
  BY <1>0, <1>1, <1>3, <1>4, <1>5 DEF InIt, WithToken
<1>8. WithToken(holds', at', s) = WithToken(holds, at, s)
  BY <1>0, <1>1, <1>3, <1>4, <1>5 DEF WithToken, Working
<1>9. Cardinality(InIt(holds', s)) = Cardinality(InIt(holds, s)) + 1 /\ Cardinality(InIt(holds', s)) \in 0..Cardinality(Reader)
  BY <1>6, InItFinite, FS_AddElement
<1>10. CASE s = slot[p]
  <2>1. slot' = slot
    BY <1>2, <1>3, <1>5, <1>10
  <2>2. s # NoSemaphore /\ users[s] = Cardinality(InIt(holds, s)) /\ tokens[s] = Cardinality(WithToken(holds, at, s))
    BY <1>0, <1>2, <1>3, <1>10
  <2>3. users'[s] = users[s] + 1 /\ \A t \in Semaphore : t # s => users'[t] = users[t]
    BY <1>3, <1>5, <1>10
  <2>4. tokens' = tokens
    BY <1>3, <1>5, <1>10
  <2>5. users' \in [Semaphore -> 0..Cardinality(Reader)]
    <3>1. users[s] + 1 \in 0..Cardinality(Reader)
      BY <1>9, <2>2
    <3>. QED BY <1>3, <1>5, <1>10, <3>1
  <2>6. ASSUME NEW q \in Project, slot'[q] # NoSemaphore
        PROVE  /\ users'[slot'[q]] = Cardinality(InIt(holds', slot'[q])) /\ users'[slot'[q]] > 0
               /\ tokens'[slot'[q]] = Cardinality(WithToken(holds', at', slot'[q]))
    <3>1. CASE slot[q] = s
      <4>1. users[s] \in Nat
        BY <1>3
      <4>. QED BY <1>8, <1>9, <2>1, <2>2, <2>3, <2>4, <3>1, <4>1
    <3>2. CASE slot[q] # s
      BY <1>3, <1>7, <2>1, <2>3, <2>4, <2>6, <3>2
    <3>. QED BY <3>1, <3>2
  <2>7. holds' \in [Reader -> Semaphore \cup {NoSemaphore}]
    BY <1>3, <1>5
  <2>8. \A x \in Reader : (holds'[x] = NoSemaphore) = (at'[x] \in {"idle", "asked"})
    BY <1>0, <1>1, <1>3, <1>5
  <2>9. \A x \in Reader : holds'[x] # NoSemaphore => slot'[walk'[x].project] = holds'[x]
    BY <1>1, <1>3, <1>5, <1>10, <2>1
  <2>. QED BY <1>3, <2>1, <2>4, <2>5, <2>6, <2>7, <2>8, <2>9 DEF SemaphoresOK
<1>11. CASE slot[p] = NoSemaphore /\ s \in Unused
  <2>1. s # NoSemaphore /\ (\A x \in Reader : holds[x] # s) /\ (\A q \in Project : slot[q] # s)
    BY <1>0, <1>11 DEF Unused
  <2>2. slot'[p] = s /\ \A q \in Project : q # p => slot'[q] = slot[q]
    BY <1>2, <1>3, <1>5
  <2>3. InIt(holds, s) = {} /\ WithToken(holds, at, s) = {}
    BY <2>1 DEF InIt, WithToken
  <2>4. Cardinality({}) = 0
    BY FS_EmptySet
  <2>5. users'[s] = 1 /\ tokens'[s] = 0 /\ \A t \in Semaphore : t # s => users'[t] = users[t] /\ tokens'[t] = tokens[t]
    BY <1>2, <1>3, <1>5, <2>1
  <2>6. 1 \in 0..Cardinality(Reader)
    BY <1>9, <2>3, <2>4
  <2>7. users' \in [Semaphore -> 0..Cardinality(Reader)] /\ tokens' \in [Semaphore -> 0..Capacity]
    BY <1>0, <1>2, <1>3, <1>5, <2>1, <2>6
  <2>8. ASSUME NEW q \in Project, slot'[q] # NoSemaphore
        PROVE  /\ users'[slot'[q]] = Cardinality(InIt(holds', slot'[q])) /\ users'[slot'[q]] > 0
               /\ tokens'[slot'[q]] = Cardinality(WithToken(holds', at', slot'[q]))
    <3>1. CASE q = p
      <4>1. Cardinality(InIt(holds', s)) = 1 /\ Cardinality(WithToken(holds', at', s)) = 0
        BY <1>8, <1>9, <2>3, <2>4
      <4>. QED BY <2>2, <2>5, <3>1, <4>1
    <3>2. CASE q # p
      <4>1. slot'[q] = slot[q] /\ slot[q] # s /\ slot[q] \in Semaphore
        BY <1>3, <2>1, <2>2, <2>8, <3>2
      <4>. QED BY <1>3, <1>7, <2>5, <2>8, <4>1
    <3>. QED BY <3>1, <3>2
  <2>9. /\ holds' \in [Reader -> Semaphore \cup {NoSemaphore}]
        /\ slot' \in [Project -> Semaphore \cup {NoSemaphore}]
    BY <1>3, <1>5
  <2>10. \A x \in Reader : (holds'[x] = NoSemaphore) = (at'[x] \in {"idle", "asked"})
    BY <1>0, <1>1, <1>3, <1>5
  <2>11. ASSUME NEW x \in Reader, holds'[x] # NoSemaphore
         PROVE  slot'[walk'[x].project] = holds'[x]
    <3>1. CASE x = r
      BY <1>1, <1>3, <1>5, <2>2, <3>1
    <3>2. CASE x # r
      <4>1. holds'[x] = holds[x]
        BY <1>3, <1>5, <3>2
      <4>2. walk[x] \in WalkRec
        BY <1>3, <2>11, <4>1 DEF RowsTyped
      <4>3. walk[x].project \in Project /\ slot[walk[x].project] = holds[x] /\ walk'[x].project # p
        BY <1>1, <1>3, <1>11, <2>11, <4>1, <4>2 DEF WalkRec
      <4>. QED BY <1>1, <2>2, <4>1, <4>3
    <3>. QED BY <3>1, <3>2
  <2>12. \A q1, q2 \in Project : slot'[q1] # NoSemaphore /\ slot'[q1] = slot'[q2] => q1 = q2
    BY <1>3, <2>1, <2>2
  <2>. QED BY <2>7, <2>8, <2>9, <2>10, <2>11, <2>12 DEF SemaphoresOK
<1>. QED BY <1>5, <1>10, <1>11

\* The token is taken from the channel of the request's semaphore.
LEMMA TakeTokenCounts ==
  ASSUME RowsTyped, SemaphoresOK, NEW r \in Reader, TakeToken(r)
  PROVE  SemaphoresOK'
<1>. DEFINE s == holds[r]
<1>0. NoSemaphore \notin Semaphore /\ Cardinality(Reader) \in Nat /\ Capacity \in Nat \ {0}
  BY EntriesTyped
<1>1. /\ slot \in [Project -> Semaphore \cup {NoSemaphore}]
      /\ users \in [Semaphore -> 0..Cardinality(Reader)] /\ tokens \in [Semaphore -> 0..Capacity]
      /\ holds \in [Reader -> Semaphore \cup {NoSemaphore}] /\ at \in [Reader -> Places]
      /\ \A x \in Reader : (holds[x] = NoSemaphore) = (at[x] \in {"idle", "asked"})
      /\ \A x \in Reader : holds[x] # NoSemaphore => slot[walk[x].project] = holds[x]
      /\ \A q1, q2 \in Project : slot[q1] # NoSemaphore /\ slot[q1] = slot[q2] => q1 = q2
      /\ \A q \in Project : slot[q] # NoSemaphore =>
           /\ users[slot[q]] = Cardinality(InIt(holds, slot[q])) /\ users[slot[q]] > 0
           /\ tokens[slot[q]] = Cardinality(WithToken(holds, at, slot[q]))
  BY DEF SemaphoresOK, RowsTyped
<1>2. /\ at[r] = "queued" /\ tokens[s] < Capacity /\ at' = [at EXCEPT ![r] = "running"]
      /\ tokens' = [tokens EXCEPT ![s] = @ + 1] /\ UNCHANGED <<slot, users, holds, walk>>
  BY DEF TakeToken, others, walks
<1>3. s \in Semaphore /\ s # NoSemaphore
  BY <1>1, <1>2
<1>4. tokens' \in [Semaphore -> 0..Capacity] /\ tokens'[s] = tokens[s] + 1
  BY <1>0, <1>1, <1>2, <1>3
<1>5. WithToken(holds, at', s) = WithToken(holds, at, s) \cup {r} /\ r \notin WithToken(holds, at, s)
  BY <1>1, <1>2 DEF WithToken, Working
<1>6. Cardinality(WithToken(holds, at', s)) = Cardinality(WithToken(holds, at, s)) + 1
  BY <1>5, InItFinite, FS_AddElement
<1>7. \A t : t # s => WithToken(holds, at', t) = WithToken(holds, at, t)
  BY <1>1, <1>2 DEF WithToken
<1>8. ASSUME NEW q \in Project, slot[q] # NoSemaphore
      PROVE  tokens'[slot[q]] = Cardinality(WithToken(holds, at', slot[q]))
  <2>1. CASE slot[q] = s
    BY <1>1, <1>4, <1>6, <1>8, <2>1
  <2>2. CASE slot[q] # s
    BY <1>1, <1>2, <1>7, <1>8, <2>2
  <2>. QED BY <2>1, <2>2
<1>9. \A x \in Reader : (holds[x] = NoSemaphore) = (at'[x] \in {"idle", "asked"})
  BY <1>1, <1>2
<1>. QED BY <1>1, <1>2, <1>4, <1>8, <1>9 DEF SemaphoresOK

\* The token goes back when the query has run.
LEMMA ReturnTokenCounts ==
  ASSUME RowsTyped, SemaphoresOK, NEW r \in Reader, ReturnToken(r)
  PROVE  SemaphoresOK'
<1>. DEFINE s == holds[r]
<1>0. NoSemaphore \notin Semaphore /\ Cardinality(Reader) \in Nat /\ Capacity \in Nat \ {0}
  BY EntriesTyped
<1>1. /\ slot \in [Project -> Semaphore \cup {NoSemaphore}]
      /\ users \in [Semaphore -> 0..Cardinality(Reader)] /\ tokens \in [Semaphore -> 0..Capacity]
      /\ holds \in [Reader -> Semaphore \cup {NoSemaphore}] /\ at \in [Reader -> Places]
      /\ \A x \in Reader : (holds[x] = NoSemaphore) = (at[x] \in {"idle", "asked"})
      /\ \A x \in Reader : holds[x] # NoSemaphore => slot[walk[x].project] = holds[x]
      /\ \A q1, q2 \in Project : slot[q1] # NoSemaphore /\ slot[q1] = slot[q2] => q1 = q2
      /\ \A q \in Project : slot[q] # NoSemaphore =>
           /\ users[slot[q]] = Cardinality(InIt(holds, slot[q])) /\ users[slot[q]] > 0
           /\ tokens[slot[q]] = Cardinality(WithToken(holds, at, slot[q]))
  BY DEF SemaphoresOK, RowsTyped
<1>2. /\ at[r] = "served" /\ at' = [at EXCEPT ![r] = "leaving"]
      /\ tokens' = [tokens EXCEPT ![s] = @ - 1] /\ UNCHANGED <<slot, users, holds, walk>>
  BY DEF ReturnToken, others, walks
<1>3. s \in Semaphore /\ s # NoSemaphore /\ walk[r] \in WalkRec
  BY <1>1, <1>2 DEF RowsTyped
<1>4. WithToken(holds, at', s) = WithToken(holds, at, s) \ {r} /\ r \in WithToken(holds, at, s)
  BY <1>1, <1>2 DEF WithToken, Working
<1>5. Cardinality(WithToken(holds, at', s)) = Cardinality(WithToken(holds, at, s)) - 1
  <2>1. IsFiniteSet(WithToken(holds, at, s))
    BY InItFinite
  <2>. QED BY <1>4, <2>1, FS_RemoveElement
<1>6. walk[r].project \in Project /\ slot[walk[r].project] = s
  BY <1>1, <1>3 DEF WalkRec
<1>7. tokens[s] = Cardinality(WithToken(holds, at, s)) /\ Cardinality(WithToken(holds, at', s)) \in Nat
  BY <1>1, <1>3, <1>6, InItFinite
<1>8. tokens' \in [Semaphore -> 0..Capacity] /\ tokens'[s] = tokens[s] - 1
  <2>1. tokens[s] \in 0..Capacity /\ tokens[s] - 1 \in 0..Capacity
    BY <1>0, <1>1, <1>3, <1>5, <1>7
  <2>. QED BY <1>1, <1>2, <1>3, <2>1
<1>9. \A t : t # s => WithToken(holds, at', t) = WithToken(holds, at, t)
  BY <1>1, <1>2 DEF WithToken
<1>10. ASSUME NEW q \in Project, slot[q] # NoSemaphore
       PROVE  tokens'[slot[q]] = Cardinality(WithToken(holds, at', slot[q]))
  <2>1. CASE slot[q] = s
    BY <1>5, <1>7, <1>8, <2>1
  <2>2. CASE slot[q] # s
    BY <1>1, <1>2, <1>9, <1>10, <2>2
  <2>. QED BY <2>1, <2>2
<1>11. \A x \in Reader : (holds[x] = NoSemaphore) = (at'[x] \in {"idle", "asked"})
  BY <1>1, <1>2
<1>. QED BY <1>1, <1>2, <1>8, <1>10, <1>11 DEF SemaphoresOK

\* releaseUser: the last request out removes the semaphore from the map.
LEMMA releaseUserCounts ==
  ASSUME RowsTyped, SemaphoresOK, NEW r \in Reader, releaseUser(r)
  PROVE  SemaphoresOK'
<1>. DEFINE s == holds[r]
            p == walk[r].project
<1>0. NoSemaphore \notin Semaphore /\ Cardinality(Reader) \in Nat /\ Capacity \in Nat \ {0}
  BY EntriesTyped
<1>1. /\ slot \in [Project -> Semaphore \cup {NoSemaphore}]
      /\ users \in [Semaphore -> 0..Cardinality(Reader)] /\ tokens \in [Semaphore -> 0..Capacity]
      /\ holds \in [Reader -> Semaphore \cup {NoSemaphore}] /\ at \in [Reader -> Places]
      /\ \A x \in Reader : (holds[x] = NoSemaphore) = (at[x] \in {"idle", "asked"})
      /\ \A x \in Reader : holds[x] # NoSemaphore => slot[walk[x].project] = holds[x]
      /\ \A q1, q2 \in Project : slot[q1] # NoSemaphore /\ slot[q1] = slot[q2] => q1 = q2
      /\ \A q \in Project : slot[q] # NoSemaphore =>
           /\ users[slot[q]] = Cardinality(InIt(holds, slot[q])) /\ users[slot[q]] > 0
           /\ tokens[slot[q]] = Cardinality(WithToken(holds, at, slot[q]))
  BY DEF SemaphoresOK, RowsTyped
<1>2. /\ at[r] = "leaving" /\ at' = [at EXCEPT ![r] = "idle"]
      /\ users' = [users EXCEPT ![s] = @ - 1]
      /\ slot' = IF users[s] = 1 /\ tokens[s] = 0 THEN [slot EXCEPT ![p] = NoSemaphore] ELSE slot
      /\ holds' = [holds EXCEPT ![r] = NoSemaphore] /\ UNCHANGED <<tokens, walk>>
  BY DEF releaseUser, Forgets, others, walks
<1>3. s \in Semaphore /\ s # NoSemaphore /\ walk[r] \in WalkRec
  BY <1>1, <1>2 DEF RowsTyped
<1>4. p \in Project /\ slot[p] = s
  BY <1>1, <1>3 DEF WalkRec
<1>5. InIt(holds', s) = InIt(holds, s) \ {r} /\ r \in InIt(holds, s)
  BY <1>0, <1>1, <1>2, <1>3 DEF InIt
<1>6. /\ Cardinality(InIt(holds', s)) = Cardinality(InIt(holds, s)) - 1
      /\ Cardinality(InIt(holds', s)) \in 0..Cardinality(Reader)
  BY <1>5, InItFinite, FS_RemoveElement
<1>7. /\ users[s] = Cardinality(InIt(holds, s)) /\ users[s] > 0 /\ users[s] \in 0..Cardinality(Reader)
      /\ tokens[s] = Cardinality(WithToken(holds, at, s))
  BY <1>1, <1>3, <1>4
<1>8. /\ users' \in [Semaphore -> 0..Cardinality(Reader)] /\ users'[s] = users[s] - 1
      /\ \A t \in Semaphore : t # s => users'[t] = users[t]
  <2>1. users[s] - 1 \in 0..Cardinality(Reader)
    BY <1>6, <1>7
  <2>. QED BY <1>1, <1>2, <1>3, <2>1
<1>9. \A t : t # NoSemaphore => WithToken(holds', at', t) = WithToken(holds, at, t)
  BY <1>0, <1>1, <1>2 DEF WithToken, Working
<1>10. \A t : t # s /\ t # NoSemaphore => InIt(holds', t) = InIt(holds, t)
  BY <1>1, <1>2 DEF InIt
<1>11. /\ holds' \in [Reader -> Semaphore \cup {NoSemaphore}]
       /\ \A x \in Reader : (holds'[x] = NoSemaphore) = (at'[x] \in {"idle", "asked"})
  BY <1>0, <1>1, <1>2, <1>3
<1>12. \A q \in Project : q # p => slot[q] # s
  BY <1>1, <1>3, <1>4
<1>13. CASE users[s] = 1
  <2>1. InIt(holds', s) = {}
    <3>1. Cardinality(InIt(holds', s)) = 0 /\ IsFiniteSet(InIt(holds', s))
      BY <1>6, <1>7, <1>13, InItFinite
    <3>. QED BY <3>1, FS_EmptySet
  <2>2. WithToken(holds, at, s) = {}
    <3>1. \A x \in InIt(holds, s) : x = r
      BY <1>5, <2>1
    <3>. QED BY <1>2, <3>1 DEF WithToken, InIt, Working
  <2>3. tokens[s] = 0
    <3>1. Cardinality({}) = 0
      BY FS_EmptySet
    <3>. QED BY <1>7, <2>2, <3>1
  <2>4. slot' = [slot EXCEPT ![p] = NoSemaphore]
    BY <1>2, <1>13, <2>3
  <2>5. slot' \in [Project -> Semaphore \cup {NoSemaphore}] /\ slot'[p] = NoSemaphore /\ \A q \in Project : q # p => slot'[q] = slot[q]
    BY <1>1, <1>4, <2>4
  <2>6. ASSUME NEW q \in Project, slot'[q] # NoSemaphore
        PROVE  /\ users'[slot'[q]] = Cardinality(InIt(holds', slot'[q])) /\ users'[slot'[q]] > 0
               /\ tokens'[slot'[q]] = Cardinality(WithToken(holds', at', slot'[q]))
    <3>1. q # p /\ slot'[q] = slot[q] /\ slot[q] # s /\ slot[q] \in Semaphore
      BY <1>1, <1>12, <2>5, <2>6
    <3>2. /\ users[slot[q]] = Cardinality(InIt(holds, slot[q])) /\ users[slot[q]] > 0
          /\ tokens[slot[q]] = Cardinality(WithToken(holds, at, slot[q]))
      BY <1>1, <2>6, <3>1
    <3>3. users'[slot[q]] = users[slot[q]] /\ tokens'[slot[q]] = tokens[slot[q]]
      BY <1>2, <1>8, <3>1
    <3>4. /\ InIt(holds', slot[q]) = InIt(holds, slot[q])
          /\ WithToken(holds', at', slot[q]) = WithToken(holds, at, slot[q])
      BY <1>9, <1>10, <2>6, <3>1
    <3>. QED BY <3>1, <3>2, <3>3, <3>4
  <2>7. ASSUME NEW x \in Reader, holds'[x] # NoSemaphore
        PROVE  slot'[walk'[x].project] = holds'[x]
    <3>1. x # r /\ holds'[x] = holds[x] /\ holds[x] # s
      <4>1. x # r /\ holds'[x] = holds[x]
        BY <1>1, <1>2, <2>7
      <4>. QED BY <2>1, <4>1 DEF InIt
    <3>2. walk[x] \in WalkRec
      BY <1>1, <2>7, <3>1 DEF RowsTyped
    <3>3. walk[x].project \in Project /\ slot[walk[x].project] = holds[x]
      BY <1>1, <2>7, <3>1, <3>2 DEF WalkRec
    <3>. QED BY <1>2, <1>4, <2>5, <3>1, <3>3
  <2>8. \A q1, q2 \in Project : slot'[q1] # NoSemaphore /\ slot'[q1] = slot'[q2] => q1 = q2
    BY <1>1, <2>5
  <2>. QED BY <1>1, <1>2, <1>8, <1>11, <2>5, <2>6, <2>7, <2>8 DEF SemaphoresOK
<1>14. CASE users[s] # 1
  <2>1. slot' = slot
    BY <1>2, <1>14
  <2>2. ASSUME NEW q \in Project, slot[q] # NoSemaphore
        PROVE  /\ users'[slot[q]] = Cardinality(InIt(holds', slot[q])) /\ users'[slot[q]] > 0
               /\ tokens'[slot[q]] = Cardinality(WithToken(holds', at', slot[q]))
    <3>1. CASE slot[q] = s
      <4>1. users[s] - 1 > 0
        BY <1>7, <1>14
      <4>2. users'[s] = Cardinality(InIt(holds', s)) /\ users'[s] > 0
        BY <1>6, <1>7, <1>8, <4>1
      <4>3. tokens'[s] = Cardinality(WithToken(holds', at', s))
        BY <1>2, <1>3, <1>7, <1>9
      <4>. QED BY <3>1, <4>2, <4>3
    <3>2. CASE slot[q] # s
      <4>0. slot[q] \in Semaphore
        BY <1>1, <2>2
      <4>1. /\ users[slot[q]] = Cardinality(InIt(holds, slot[q])) /\ users[slot[q]] > 0
            /\ tokens[slot[q]] = Cardinality(WithToken(holds, at, slot[q]))
        BY <1>1, <2>2
      <4>2. users'[slot[q]] = users[slot[q]] /\ tokens'[slot[q]] = tokens[slot[q]]
        BY <1>2, <1>8, <3>2, <4>0
      <4>3. /\ InIt(holds', slot[q]) = InIt(holds, slot[q])
            /\ WithToken(holds', at', slot[q]) = WithToken(holds, at, slot[q])
        BY <1>9, <1>10, <2>2, <3>2
      <4>. QED BY <4>1, <4>2, <4>3
    <3>. QED BY <3>1, <3>2
  <2>3. \A x \in Reader : holds'[x] # NoSemaphore => slot'[walk'[x].project] = holds'[x]
    BY <1>1, <1>2, <2>1
  <2>4. \A q \in Project : slot'[q] # NoSemaphore =>
          /\ users'[slot'[q]] = Cardinality(InIt(holds', slot'[q])) /\ users'[slot'[q]] > 0
          /\ tokens'[slot'[q]] = Cardinality(WithToken(holds', at', slot'[q]))
    BY <2>1, <2>2
  <2>5. slot' \in [Project -> Semaphore \cup {NoSemaphore}] /\ tokens' \in [Semaphore -> 0..Capacity]
    BY <1>1, <1>2, <2>1
  <2>6. \A q1, q2 \in Project : slot'[q1] # NoSemaphore /\ slot'[q1] = slot'[q2] => q1 = q2
    BY <1>1, <2>1
  <2>. QED BY <1>8, <1>11, <2>3, <2>4, <2>5, <2>6 DEF SemaphoresOK
<1>. QED BY <1>13, <1>14

\* A request turned away keeps its place in its semaphore until it leaves, and
\* a step that is not the limiter's moves no request in or out of one.
LEMMA SemaphoresStep ==
  ASSUME RowsTyped, SemaphoresOK, [Next]_vars
  PROVE  SemaphoresOK'
<1>0. holds \in [Reader -> Semaphore \cup {NoSemaphore}] /\ at \in [Reader -> Places] /\ walk \in [Reader -> WalkRec \cup {NoWalk}]
      /\ \A r \in Reader : (holds[r] = NoSemaphore) = (at[r] \in {"idle", "asked"})
  BY DEF SemaphoresOK, RowsTyped
<1>1. CASE UNCHANGED <<at, walk, limiter>>
  BY <1>1, LimiterSame
<1>2. ASSUME NEW r \in Reader, List(r) \/ ListFails(r) \/ Refuse(r)
      PROVE  SemaphoresOK'
  <2>1. at[r] \in {"running", "queued"} /\ UNCHANGED limiter
    BY <1>2 DEF List, ListFails, Refuse
  <2>2. \/ at[r] = "running" /\ at' = [at EXCEPT ![r] = "served"]
        \/ at[r] = "queued" /\ at' = [at EXCEPT ![r] = "leaving"]
    BY <1>2 DEF List, ListFails, Refuse
  <2>3. \A x \in Reader : walk'[x].project = walk[x].project
    <3>1. CASE List(r)
      <4>1. \/ walk' = [walk EXCEPT ![r].cursor = LastOf(Page(r))]
            \/ walk' = [walk EXCEPT ![r].open = FALSE, ![r].complete = TRUE]
        BY <3>1 DEF List
      <4>2. walk[r] \in WalkRec
        BY <1>0, <2>2 DEF RowsTyped
      <4>. QED BY <1>0, <4>1, <4>2 DEF WalkRec
    <3>2. CASE ListFails(r) \/ Refuse(r)
      BY <3>2 DEF ListFails, Refuse, walks, others
    <3>. QED BY <1>2, <3>1, <3>2
  <2>. QED BY <1>0, <2>1, <2>2, <2>3, LimiterSame DEF Working
<1>3. ASSUME NEW r \in Reader, NEW p \in Project, NEW f \in Filter, Search(r, p, f) \/ SearchNext(r, p, f)
      PROVE  SemaphoresOK'
  <2>1. at[r] = "idle" /\ at' = [at EXCEPT ![r] = "asked"] /\ UNCHANGED limiter
    BY <1>3 DEF Search, SearchNext
  <2>2. \A x \in Reader : x # r => walk'[x] = walk[x]
    BY <1>0, <1>3 DEF Search, SearchNext
  <2>. QED BY <1>0, <2>1, <2>2, LimiterSame DEF Working
<1>4. ASSUME NEW r \in Reader, Query(r)
      PROVE  SemaphoresOK'
  BY <1>2, <1>4, AcquireCounts, TakeTokenCounts, ReturnTokenCounts, releaseUserCounts DEF Query
<1>5. CASE Tick \/ RunOnce \/ CycleFails \/ (\E e \in Entry : Insert(e)) \/ (\E p \in Project, q \in Policy : SetRetention(p, q))
  <2>1. UNCHANGED <<at, walk, limiter>>
    BY <1>5 DEF Tick, RunOnce, StartCycle, AgeRetention, ByteRetention, EndCycle, CycleFails, Insert, SetRetention, unrelated, walks
  <2>. QED BY <1>1, <2>1
<1>6. CASE UNCHANGED vars
  BY <1>1, <1>6 DEF vars, walks
<1>. QED BY <1>3, <1>4, <1>5, <1>6 DEF Next

-----------------------------------------------------------------------------
(* Orders on entries, and the first n of a set.                            *)

\* What the first n of a set by an order are: whoever comes before one of them
\* is one of them.
LEMMA FirstAreClosed ==
  ASSUME NEW S, IsFiniteSet(S), NEW R,
         \A x, y, z \in S : <<x, y>> \in R /\ <<y, z>> \in R => <<x, z>> \in R,
         \A x \in S : <<x, x>> \notin R,
         NEW e \in S, NEW f \in S, <<f, e>> \in R
  PROVE  Cardinality({g \in S : <<g, f>> \in R}) < Cardinality({g \in S : <<g, e>> \in R})
<1>. DEFINE F == {g \in S : <<g, f>> \in R}
            E == {g \in S : <<g, e>> \in R}
<1>1. F \in SUBSET E /\ f \in E /\ f \notin F /\ E \in SUBSET S
  OBVIOUS
<1>2. IsFiniteSet(E)
  BY <1>1, FS_Subset
<1>3. IsFiniteSet(F) /\ Cardinality(F) <= Cardinality(E) /\ (Cardinality(F) = Cardinality(E) => F = E)
  BY <1>1, <1>2, FS_Subset
<1>4. Cardinality(F) \in Nat /\ Cardinality(E) \in Nat
  BY <1>2, <1>3, FS_CardinalityType
<1>. QED BY <1>1, <1>3, <1>4

\* A finite set has an element that nothing comes before.
LEMMA FirstExists ==
  ASSUME NEW S, IsFiniteSet(S), S # {}, NEW R,
         \A x, y, z \in S : <<x, y>> \in R /\ <<y, z>> \in R => <<x, z>> \in R,
         \A x \in S : <<x, x>> \notin R
  PROVE  \E e \in S : Cardinality({g \in S : <<g, e>> \in R}) = 0
<1>. DEFINE c == [e \in S |-> Cardinality({g \in S : <<g, e>> \in R})]
            I == {c[e] : e \in S}
<1>1. \A e \in S : IsFiniteSet({g \in S : <<g, e>> \in R})
  BY FS_Subset
<1>2. \A e \in S : c[e] \in Nat /\ c[e] = Cardinality({g \in S : <<g, e>> \in R})
  BY <1>1, FS_CardinalityType
<1>. HIDE DEF c
<1>3. I \in SUBSET Nat /\ I # {}
  <2>0. \A e \in S : c[e] \in Nat
    BY <1>2
  <2>1. I \in SUBSET Nat
    BY <2>0
  <2>2. PICK x \in S : TRUE
    OBVIOUS
  <2>3. c[x] \in I
    OBVIOUS
  <2>. QED BY <2>1, <2>3
<1>4. Min(I) \in I /\ \A y \in I : Min(I) <= y
  BY <1>3, MinIsLeast
<1>5. PICK e \in S : c[e] = Min(I)
  BY <1>4
<1>6. {g \in S : <<g, e>> \in R} = {}
  <2>. SUFFICES ASSUME NEW f \in S, <<f, e>> \in R PROVE FALSE
    OBVIOUS
  <2>1. Cardinality({g \in S : <<g, f>> \in R}) < Cardinality({g \in S : <<g, e>> \in R})
    BY FirstAreClosed
  <2>2. c[e] <= c[f]
    BY <1>4, <1>5
  <2>. QED BY <1>2, <2>1, <2>2
<1>7. Cardinality({}) = 0
  BY FS_EmptySet
<1>. QED BY <1>6, <1>7

\* (observed_at, id) orders the entries.
LEMMA BelowOrders ==
  /\ \A x, y, z \in Entry : Below(x, y) /\ Below(y, z) => Below(x, z)
  /\ \A x \in Entry : ~Below(x, x)
  /\ \A x, y \in Entry : x = y \/ Below(x, y) \/ Below(y, x)
<1>1. \A e \in Entry : e \in Nat /\ ObservedOf[e] \in Nat
  BY EntriesTyped
<1>. QED BY <1>1 DEF Below

\* Every page but an empty one has a last row.
LEMMA LastOfPage ==
  ASSUME NEW S \in SUBSET Entry, S # {}
  PROVE  LastOf(S) \in S /\ \A f \in S : f = LastOf(S) \/ Below(LastOf(S), f)
<1>. DEFINE I == {ObservedOf[e] : e \in S}
            J == {e \in S : ObservedOf[e] = Min(I)}
<1>0. \A e \in S : e \in Nat /\ ObservedOf[e] \in Nat
  BY EntriesTyped
<1>1. I \in SUBSET Nat /\ I # {}
  BY <1>0
<1>2. Min(I) \in I /\ \A y \in I : Min(I) <= y
  BY <1>1, MinIsLeast
<1>3. J \in SUBSET Nat /\ J # {}
  BY <1>0, <1>2
<1>4. Min(J) \in J /\ \A y \in J : Min(J) <= y
  BY <1>3, MinIsLeast
<1>. DEFINE c == Min(J)
<1>5. c \in S /\ ObservedOf[c] = Min(I)
  BY <1>4
<1>6. ASSUME NEW f \in S
      PROVE  f = c \/ Below(c, f)
  <2>1. ObservedOf[c] <= ObservedOf[f] /\ (ObservedOf[f] = ObservedOf[c] => c <= f)
    BY <1>2, <1>4, <1>5
  <2>. QED BY <1>0, <1>5, <2>1 DEF Below
<1>. QED BY <1>5, <1>6 DEF LastOf

\* The rows of the page that come before one another by Below.
PageOrder == {w \in Entry \X Entry : Below(w[2], w[1])}

\* A page has the newest candidates: none only when there are none, and what
\* it leaves out is below its last row.
LEMMA PageIsFirst ==
  ASSUME NEW r \in Reader
  PROVE  /\ Page(r) \in SUBSET Candidates(r) /\ Candidates(r) \in SUBSET Entry
         /\ Candidates(r) # {} => Page(r) # {}
         /\ \A e \in Page(r), f \in Candidates(r) : Below(e, f) => f \in Page(r)
<1>. DEFINE C == Candidates(r)
            R == PageOrder
<1>0. Page(r) \in SUBSET C /\ C \in SUBSET Entry
  BY DEF Page, Candidates, Present
<1>1. IsFiniteSet(C)
  BY <1>0, EntriesTyped, FS_Subset
<1>2. \A x, y \in C : <<x, y>> \in R <=> Below(y, x)
  BY <1>0 DEF PageOrder
<1>3. /\ \A x, y, z \in C : <<x, y>> \in R /\ <<y, z>> \in R => <<x, z>> \in R
      /\ \A x \in C : <<x, x>> \notin R
  BY <1>0, <1>2, BelowOrders
<1>4. \A e \in C : {g \in C : <<g, e>> \in R} = {g \in C : Below(e, g)}
  BY <1>2
<1>5. \A e \in C : e \in Page(r) <=> Cardinality({g \in C : <<g, e>> \in R}) < Limit
  BY <1>4 DEF Page
<1>. HIDE DEF C, R
<1>6. ASSUME C # {}
      PROVE  Page(r) # {}
  <2>1. PICK e \in C : Cardinality({g \in C : <<g, e>> \in R}) = 0
    BY <1>1, <1>3, <1>6, FirstExists
  <2>2. 0 < Limit
    BY EntriesTyped
  <2>. QED BY <1>5, <2>1, <2>2
<1>7. ASSUME NEW e \in Page(r), NEW f \in C, Below(e, f)
      PROVE  f \in Page(r)
  <2>1. e \in C /\ <<f, e>> \in R
    BY <1>0, <1>2, <1>7
  <2>. DEFINE m == Cardinality({g \in C : <<g, f>> \in R})
              n == Cardinality({g \in C : <<g, e>> \in R})
  <2>2. m < n
    BY <1>1, <1>3, <2>1, FirstAreClosed
  <2>3. n < Limit
    BY <1>5, <2>1
  <2>4. IsFiniteSet({g \in C : <<g, f>> \in R}) /\ IsFiniteSet({g \in C : <<g, e>> \in R})
    BY <1>1, FS_Subset
  <2>5. m \in Nat /\ n \in Nat
    BY <2>4, FS_CardinalityType
  <2>6. m < Limit
    <3>. HIDE DEF m, n
    <3>. QED BY <2>2, <2>3, <2>5, EntriesTyped
  <2>. QED BY <1>5, <2>6
<1>. QED BY <1>0, <1>6, <1>7 DEF C

-----------------------------------------------------------------------------
(* Rows, policies and requests stay what they are.                         *)

\* The projects by updated_at: each of them once.
LEMMA OrderStep ==
  ASSUME RowsTyped, NEW p \in Project
  PROVE  LET o == Append(Kept(order, Project \ {p}), p)
         IN o \in Seq(Project) /\ IsInjective(o) /\ ToSet(o) = Project
<1>. DEFINE k == Kept(order, Project \ {p})
<1>1. order \in Seq(Project) /\ IsInjective(order) /\ ToSet(order) = Project
  BY DEF RowsTyped
<1>2. k \in Seq(Project) /\ ToSet(k) = Project \ {p} /\ IsInjective(k)
  BY <1>1, KeptTyped, KeptDistinct
<1>. HIDE DEF k
<1>3. p \notin ToSet(k)
  BY <1>2
<1>4. /\ Append(k, p) \in Seq(Project) /\ IsInjective(Append(k, p))
      /\ ToSet(Append(k, p)) = ToSet(k) \cup {p}
  BY <1>2, <1>3, AppendToDistinct
<1>. QED BY <1>2, <1>4 DEF k

\* The rows and the requests, at the start.
LEMMA RowsInit == Init => RowsTyped
<1>. SUFFICES ASSUME Init PROVE RowsTyped
  OBVIOUS
<1>1. clock \in 0..MaxClock
  BY EntriesTyped DEF Init
<1>2. ingested \in [Entry -> {Absent, Deleted} \cup (0..MaxClock)]
  <2>1. 0 \in 0..MaxClock
    BY EntriesTyped
  <2>. QED BY <2>1 DEF Init
<1>. QED BY <1>1, <1>2, EntriesTyped DEF Init, RowsTyped, Places

\* A row that appears, or rows that are removed.
LEMMA RowsStep ==
  ASSUME RowsTyped, [Next]_vars
  PROVE  RowsTyped'
<1>0. /\ clock \in 0..MaxClock /\ ingested \in [Entry -> {Absent, Deleted} \cup (0..MaxClock)]
      /\ policy \in [Project -> Policy]
      /\ order \in Seq(Project) /\ IsInjective(order) /\ ToSet(order) = Project
      /\ at \in [Reader -> Places] /\ walk \in [Reader -> WalkRec \cup {NoWalk}]
      /\ got \in [Reader -> SUBSET Entry] /\ since \in [Reader -> SUBSET Entry] /\ repeated \in [Reader -> BOOLEAN]
      /\ \A r \in Reader : at[r] # "idle" => walk[r] \in WalkRec
  BY DEF RowsTyped
<1>00. MaxClock \in Nat
  BY EntriesTyped
<1>1. CASE Tick
  <2>1. clock' \in 0..MaxClock
    BY <1>0, <1>00, <1>1 DEF Tick
  <2>2. UNCHANGED <<ingested, policy, order, at, walk, got, since, repeated>>
    BY <1>1 DEF Tick, retention, walks
  <2>. QED BY <1>0, <2>1, <2>2 DEF RowsTyped
<1>2. ASSUME NEW e \in Entry, Insert(e)
      PROVE  RowsTyped'
  <2>1. ingested' \in [Entry -> {Absent, Deleted} \cup (0..MaxClock)]
    BY <1>0, <1>2 DEF Insert
  <2>2. UNCHANGED <<clock, policy, order, at, walk, got, since, repeated>>
    BY <1>2 DEF Insert, retention, walks
  <2>. QED BY <1>0, <2>1, <2>2 DEF RowsTyped
<1>3. ASSUME NEW p \in Project, NEW q \in Policy, SetRetention(p, q)
      PROVE  RowsTyped'
  <2>1. policy' \in [Project -> Policy]
    BY <1>0, <1>3 DEF SetRetention
  <2>2. order' \in Seq(Project) /\ IsInjective(order') /\ ToSet(order') = Project
    BY <1>3, OrderStep DEF SetRetention
  <2>3. UNCHANGED <<clock, ingested, at, walk, got, since, repeated>>
    BY <1>3 DEF SetRetention, table, walks
  <2>. QED BY <1>0, <2>1, <2>2, <2>3 DEF RowsTyped
<1>4. CASE RunOnce \/ CycleFails
  <2>1. \/ UNCHANGED <<ingested, since>>
        \/ \E doomed : Erase(doomed)
    BY <1>4 DEF RunOnce, StartCycle, AgeRetention, ByteRetention, EndCycle, CycleFails
  <2>2. ingested' \in [Entry -> {Absent, Deleted} \cup (0..MaxClock)]
    BY <1>0, <2>1 DEF Erase
  <2>3. since' \in [Reader -> SUBSET Entry]
    BY <1>0, <2>1 DEF Erase
  <2>4. UNCHANGED <<clock, policy, order, at, walk, got, repeated>>
    BY <1>4 DEF RunOnce, StartCycle, AgeRetention, ByteRetention, EndCycle, CycleFails, unrelated
  <2>. QED BY <1>0, <2>2, <2>3, <2>4 DEF RowsTyped
<1>5. ASSUME NEW r \in Reader, NEW p \in Project, NEW f \in Filter, Search(r, p, f) \/ SearchNext(r, p, f)
      PROVE  RowsTyped'
  <2>1. normalizeFilter(f) \in SUBSET Service
    <3>1. f \in Seq(Service)
      BY EntriesTyped
    <3>. QED BY <3>1 DEF normalizeFilter
  <2>2. at' = [at EXCEPT ![r] = "asked"] /\ UNCHANGED <<clock, ingested, policy, order>>
    BY <1>5 DEF Search, SearchNext, table, retention
  <2>3. \E w \in WalkRec : walk' = [walk EXCEPT ![r] = w]
    <3>1. CASE Search(r, p, f)
      <4>. DEFINE w == [open |-> TRUE, complete |-> FALSE, project |-> p, filter |-> normalizeFilter(f), cursor |-> 0]
      <4>1. w \in WalkRec
        BY <2>1 DEF WalkRec
      <4>2. walk' = [walk EXCEPT ![r] = w]
        BY <3>1 DEF Search
      <4>. QED BY <4>1, <4>2
    <3>2. CASE SearchNext(r, p, f)
      <4>1. walk[r] \in WalkRec
        BY <1>0, <3>2 DEF SearchNext, NoWalk
      <4>. DEFINE w == [walk[r] EXCEPT !.project = p, !.filter = normalizeFilter(f)]
      <4>2. w \in WalkRec
        BY <2>1, <4>1 DEF WalkRec
      <4>3. walk' = [walk EXCEPT ![r] = w]
        BY <1>0, <3>2 DEF SearchNext
      <4>. QED BY <4>2, <4>3
    <3>. QED BY <1>5, <3>1, <3>2
  <2>4. got' \in [Reader -> SUBSET Entry] /\ since' \in [Reader -> SUBSET Entry] /\ repeated' \in [Reader -> BOOLEAN]
    <3>1. CASE Search(r, p, f)
      <4>1. Present \in SUBSET Entry
        BY DEF Present
      <4>. QED BY <1>0, <3>1, <4>1 DEF Search
    <3>2. CASE SearchNext(r, p, f)
      BY <1>0, <3>2 DEF SearchNext
    <3>. QED BY <1>5, <3>1, <3>2
  <2>. QED BY <1>0, <2>2, <2>3, <2>4 DEF RowsTyped, Places
<1>6. ASSUME NEW r \in Reader, List(r)
      PROVE  RowsTyped'
  <2>0. walk[r] \in WalkRec /\ at' = [at EXCEPT ![r] = "served"]
    BY <1>0, <1>6 DEF List
  <2>1. Page(r) \in SUBSET Entry /\ (Candidates(r) # Page(r) => LastOf(Page(r)) \in Entry)
    <3>1. Page(r) \in SUBSET Candidates(r) /\ Candidates(r) \in SUBSET Entry /\ (Candidates(r) # {} => Page(r) # {})
      BY PageIsFirst
    <3>. QED BY <3>1, LastOfPage
  <2>2. \E w \in WalkRec : walk' = [walk EXCEPT ![r] = w]
    <3>1. CASE Candidates(r) # Page(r)
      <4>. DEFINE w == [walk[r] EXCEPT !.cursor = LastOf(Page(r))]
      <4>1. w \in WalkRec
        BY <2>0, <2>1, <3>1 DEF WalkRec
      <4>2. walk' = [walk EXCEPT ![r] = w]
        BY <1>0, <1>6, <3>1 DEF List
      <4>. QED BY <4>1, <4>2
    <3>2. CASE Candidates(r) = Page(r)
      <4>. DEFINE w == [walk[r] EXCEPT !.open = FALSE, !.complete = TRUE]
      <4>1. w \in WalkRec
        BY <2>0 DEF WalkRec
      <4>2. walk' = [walk EXCEPT ![r] = w]
        BY <1>0, <1>6, <3>2 DEF List
      <4>. QED BY <4>1, <4>2
    <3>. QED BY <3>1, <3>2
  <2>3. got' \in [Reader -> SUBSET Entry] /\ repeated' \in [Reader -> BOOLEAN]
    BY <1>0, <1>6, <2>1 DEF List
  <2>4. UNCHANGED <<clock, ingested, policy, order, since>>
    BY <1>6 DEF List, table, retention
  <2>. QED BY <1>0, <2>0, <2>2, <2>3, <2>4 DEF RowsTyped, Places
<1>7. ASSUME NEW r \in Reader, Acquire(r) \/ TakeToken(r) \/ Refuse(r) \/ ListFails(r) \/ ReturnToken(r) \/ releaseUser(r)
      PROVE  RowsTyped'
  <2>1. /\ at[r] # "idle"
        /\ \E x \in {"queued", "running", "leaving", "served", "idle"} : at' = [at EXCEPT ![r] = x]
    BY <1>7 DEF Acquire, TakeToken, Refuse, ListFails, ReturnToken, releaseUser
  <2>2. UNCHANGED <<clock, ingested, policy, order, walk, got, since, repeated>>
    BY <1>7 DEF Acquire, TakeToken, Refuse, ListFails, ReturnToken, releaseUser, others, table, retention, walks
  <2>. QED BY <1>0, <2>1, <2>2 DEF RowsTyped, Places
<1>8. CASE UNCHANGED vars
  BY <1>0, <1>8 DEF vars, RowsTyped, table, retention, walks
<1>. QED BY <1>1, <1>2, <1>3, <1>4, <1>5, <1>6, <1>7, <1>8 DEF Next, Query

-----------------------------------------------------------------------------
(* The maintenance worker.                                                 *)

Task == [project : Project, policy : Policy]

\* What is left of the cycle was listed in it: enabled policies that were in
\* force at some time since it began.  A project whose bytes are looked at has
\* a byte limit.
WorkerOK ==
  /\ inForce \in [Project -> SUBSET Policy]
  /\ worker = Resting
     \/ /\ worker \in [stage : {"age", "bytes"}, now : Nat, attempt : Nat, todo : Seq(Task)]
        /\ \A i \in 1..Len(worker.todo) :
             worker.todo[i].policy.enabled /\ worker.todo[i].policy \in inForce[worker.todo[i].project]
        /\ worker.stage = "bytes" => worker.todo # <<>> /\ Head(worker.todo).policy.maxBytes # NoLimit

\* ListEnabled: projects with enabled policies.
LEMMA ListEnabledTyped ==
  ASSUME RowsTyped
  PROVE  /\ ListEnabled \in Seq(Project)
         /\ \A i \in DOMAIN ListEnabled : policy[ListEnabled[i]].enabled
<1>. DEFINE T == {p \in Project : policy[p].enabled}
            k == Kept(order, T)
            m == IF Len(k) < MaxProjects THEN Len(k) ELSE MaxProjects
<1>1. order \in Seq(Project)
  BY DEF RowsTyped
<1>2. k \in Seq(Project) /\ ToSet(k) = ToSet(order) \cap T
  BY <1>1, KeptTyped
<1>3. ListEnabled = SubSeq(k, 1, m)
  BY DEF ListEnabled
<1>. HIDE DEF k
<1>4. m \in Nat /\ m <= Len(k)
  BY <1>2, EntriesTyped
<1>5. \A i \in 1..Len(k) : k[i] \in T
  BY <1>2 DEF ToSet
<1>. HIDE DEF m, T
<1>6. /\ SubSeq(k, 1, m) \in Seq(Project) /\ DOMAIN SubSeq(k, 1, m) = 1..m
      /\ \A i \in 1..m : SubSeq(k, 1, m)[i] = k[i]
  BY <1>2, <1>4
<1>7. \A i \in 1..m : policy[k[i]].enabled
  BY <1>2, <1>4, <1>5 DEF T
<1>. QED BY <1>3, <1>6, <1>7

\* The worker after a step of its own.
LEMMA TasksLeft ==
  ASSUME WorkerOK, worker # Resting, inForce' = inForce,
         worker' \in {[worker EXCEPT !.attempt = @ + 1],
                      [worker EXCEPT !.todo = Tail(@), !.attempt = 1],
                      [worker EXCEPT !.stage = "age", !.todo = Tail(@), !.attempt = 1],
                      [worker EXCEPT !.stage = "bytes", !.attempt = 1]},
         worker.todo # <<>>,
         worker'.stage = "bytes" => worker'.todo # <<>> /\ Head(worker'.todo).policy.maxBytes # NoLimit
  PROVE  WorkerOK'
<1>1. worker \in [stage : {"age", "bytes"}, now : Nat, attempt : Nat, todo : Seq(Task)]
  BY DEF WorkerOK
<1>2. worker' \in [stage : {"age", "bytes"}, now : Nat, attempt : Nat, todo : Seq(Task)]
  <2>1. Tail(worker.todo) \in Seq(Task)
    BY <1>1
  <2>2. worker.attempt \in Nat /\ worker.attempt + 1 \in Nat
    BY <1>1
  <2>3. CASE worker' = [worker EXCEPT !.attempt = @ + 1]
    BY <1>1, <2>2, <2>3
  <2>4. CASE worker' = [worker EXCEPT !.todo = Tail(@), !.attempt = 1]
    BY <1>1, <2>1, <2>4
  <2>5. CASE worker' = [worker EXCEPT !.stage = "age", !.todo = Tail(@), !.attempt = 1]
    BY <1>1, <2>1, <2>5
  <2>6. CASE worker' = [worker EXCEPT !.stage = "bytes", !.attempt = 1]
    BY <1>1, <2>6
  <2>. QED BY <2>3, <2>4, <2>5, <2>6
<1>3. worker'.todo = worker.todo \/ worker'.todo = Tail(worker.todo)
  BY <1>1
<1>4. ASSUME NEW i \in 1..Len(worker'.todo)
      PROVE  \E j \in 1..Len(worker.todo) : worker'.todo[i] = worker.todo[j]
  <2>. DEFINE t == worker.todo
  <2>1. t \in Seq(Task) /\ t # <<>>
    BY <1>1
  <2>. HIDE DEF t
  <2>2. Len(Tail(t)) = Len(t) - 1 /\ \A k \in 1..Len(Tail(t)) : Tail(t)[k] = t[k + 1]
    BY <2>1
  <2>3. \A k \in 1..Len(Tail(t)) : k + 1 \in 1..Len(t)
    BY <2>1, <2>2
  <2>. QED BY <1>3, <1>4, <2>2, <2>3 DEF t
<1>. QED BY <1>2, <1>4 DEF WorkerOK

\* The worker's tasks stay justified.
LEMMA WorkerStep ==
  ASSUME RowsTyped, WorkerOK, [Next]_vars
  PROVE  WorkerOK'
<1>1. CASE UNCHANGED <<worker, inForce>>
  BY <1>1 DEF WorkerOK
<1>2. CASE worker' = Resting /\ inForce' = [p \in Project |-> {}]
  BY <1>2 DEF WorkerOK
<1>3. CASE StartCycle
  <2>. DEFINE l == ListEnabled
              t == [i \in DOMAIN l |-> [project |-> l[i], policy |-> policy[l[i]]]]
  <2>1. l \in Seq(Project) /\ \A i \in DOMAIN l : policy[l[i]].enabled
    BY ListEnabledTyped
  <2>2. /\ worker' = [stage |-> "age", now |-> clock, attempt |-> 1, todo |-> t]
        /\ inForce' = [p \in Project |-> {policy[p]}]
    BY <1>3 DEF StartCycle
  <2>. HIDE DEF l
  <2>3. policy \in [Project -> Policy] /\ clock \in Nat
    BY EntriesTyped DEF RowsTyped
  <2>4. \A i \in DOMAIN l : l[i] \in Project /\ t[i] \in Task
    BY <2>1, <2>3 DEF Task
  <2>5. t \in Seq(Task) /\ Len(t) = Len(l)
    <3>1. Len(l) \in Nat /\ DOMAIN l = 1..Len(l)
      BY <2>1
    <3>2. t \in [1..Len(l) -> Task]
      BY <2>4, <3>1
    <3>. QED BY <3>1, <3>2, SeqDef
  <2>6. \A i \in 1..Len(t) : t[i].policy.enabled /\ t[i].policy \in inForce'[t[i].project]
    BY <2>1, <2>2, <2>4, <2>5
  <2>7. inForce' \in [Project -> SUBSET Policy]
    BY <2>2, <2>3
  <2>. HIDE DEF t
  <2>8. /\ worker' \in [stage : {"age", "bytes"}, now : Nat, attempt : Nat, todo : Seq(Task)]
        /\ worker'.todo = t /\ worker'.stage = "age"
    BY <2>2, <2>3, <2>5
  <2>. QED BY <2>6, <2>7, <2>8 DEF WorkerOK
<1>4. CASE AgeRetention
  <2>1. worker # Resting /\ worker.todo # <<>> /\ worker.stage = "age" /\ inForce' = inForce
    BY <1>4 DEF AgeRetention, Resting
  <2>2. worker \in [stage : {"age", "bytes"}, now : Nat, attempt : Nat, todo : Seq(Task)]
    BY <2>1 DEF WorkerOK
  <2>3. \/ worker' = AfterAge(worker)
        \/ worker' = [worker EXCEPT !.attempt = @ + 1]
    BY <1>4 DEF AgeRetention
  <2>4. CASE worker' = [worker EXCEPT !.attempt = @ + 1]
    BY <2>1, <2>2, <2>4, TasksLeft
  <2>5. CASE worker' = AfterAge(worker)
    BY <2>1, <2>2, <2>5, TasksLeft DEF AfterAge
  <2>. QED BY <2>3, <2>4, <2>5
<1>5. CASE ByteRetention
  <2>1. worker # Resting /\ worker.stage = "bytes" /\ inForce' = inForce
    BY <1>5 DEF ByteRetention, Resting
  <2>2. worker \in [stage : {"age", "bytes"}, now : Nat, attempt : Nat, todo : Seq(Task)]
    BY <2>1 DEF WorkerOK
  <2>3. worker.todo # <<>> /\ Head(worker.todo).policy.maxBytes # NoLimit
    BY <2>1 DEF WorkerOK
  <2>4. \/ worker' = [worker EXCEPT !.stage = "age", !.todo = Tail(@), !.attempt = 1]
        \/ worker' = [worker EXCEPT !.attempt = @ + 1]
    BY <1>5 DEF ByteRetention
  <2>. QED BY <2>1, <2>2, <2>3, <2>4, TasksLeft
<1>6. ASSUME NEW p \in Project, NEW q \in Policy, SetRetention(p, q)
      PROVE  WorkerOK'
  <2>1. worker' = worker /\ inForce' = [inForce EXCEPT ![p] = @ \cup {q}]
    BY <1>6 DEF SetRetention
  <2>2. inForce' \in [Project -> SUBSET Policy] /\ \A x \in Project : inForce[x] \in SUBSET inForce'[x]
    BY <2>1 DEF WorkerOK
  <2>3. CASE worker = Resting
    BY <2>1, <2>2, <2>3 DEF WorkerOK
  <2>4. CASE worker # Resting
    <3>1. worker.todo \in Seq(Task)
      BY <2>4 DEF WorkerOK
    <3>2. \A i \in 1..Len(worker.todo) : worker.todo[i].project \in Project
      <4>1. \A i \in 1..Len(worker.todo) : worker.todo[i] \in Task
        BY <3>1
      <4>. QED BY <4>1 DEF Task
    <3>. QED BY <2>1, <2>2, <2>4, <3>2 DEF WorkerOK
  <2>. QED BY <2>3, <2>4
<1>7. CASE EndCycle \/ CycleFails
  BY <1>2, <1>7 DEF EndCycle, CycleFails
<1>8. CASE Tick \/ (\E e \in Entry : Insert(e)) \/ UNCHANGED vars
  BY <1>1, <1>8 DEF Tick, Insert, vars, retention
<1>9. ASSUME NEW r \in Reader, Query(r) \/ \E p \in Project, f \in Filter : Search(r, p, f) \/ SearchNext(r, p, f)
      PROVE  WorkerOK'
  <2>1. UNCHANGED <<worker, inForce>>
    BY <1>9 DEF Query, Acquire, TakeToken, Refuse, List, ListFails, ReturnToken, releaseUser, Search, SearchNext, others, retention
  <2>. QED BY <1>1, <2>1
<1>. QED BY <1>3, <1>4, <1>5, <1>6, <1>7, <1>8, <1>9 DEF Next, RunOnce

\* ORDER BY ingested_at, id
BatchOrder == {w \in Entry \X Entry : Older(w[1], w[2])}

\* Times, and the two marks of a row that is not there, are numbers.
LEMMA IngestedInt ==
  ASSUME RowsTyped
  PROVE  clock \in Nat /\ \A e \in Entry : ingested[e] \in Int
<1>1. MaxClock \in Nat
  BY EntriesTyped
<1>2. clock \in 0..MaxClock /\ ingested \in [Entry -> {Absent, Deleted} \cup (0..MaxClock)]
  BY DEF RowsTyped
<1>3. Absent \in Int /\ Deleted \in Int
  BY DEF Absent, Deleted
<1>. QED BY <1>1, <1>2, <1>3

\* A batch has the oldest: what it leaves out is younger than all it has.
LEMMA BatchIsFirst ==
  ASSUME RowsTyped, NEW S \in SUBSET Entry, NEW e \in FirstBatch(S), NEW f \in S, f \notin FirstBatch(S)
  PROVE  Older(e, f)
<1>. DEFINE R == BatchOrder
<1>0. \A x \in Entry : x \in Nat /\ ingested[x] \in Int
  BY EntriesTyped, IngestedInt
<1>1. IsFiniteSet(S) /\ e \in S
  BY EntriesTyped, FS_Subset DEF FirstBatch
<1>2. \A x, y \in S : <<x, y>> \in R <=> Older(x, y)
  BY DEF BatchOrder
<1>3. /\ \A x, y, z \in S : Older(x, y) /\ Older(y, z) => Older(x, z)
      /\ \A x \in S : ~Older(x, x)
      /\ \A x, y \in S : x = y \/ Older(x, y) \/ Older(y, x)
  BY <1>0 DEF Older
<1>4. /\ \A x, y, z \in S : <<x, y>> \in R /\ <<y, z>> \in R => <<x, z>> \in R
      /\ \A x \in S : <<x, x>> \notin R
  BY <1>2, <1>3
<1>5. \A x \in S : {g \in S : <<g, x>> \in R} = {g \in S : Older(g, x)}
  BY <1>2
<1>6. \A x \in S : x \in FirstBatch(S) <=> Cardinality({g \in S : <<g, x>> \in R}) < BatchSize
  BY <1>5 DEF FirstBatch
<1>. SUFFICES ASSUME Older(f, e) PROVE FALSE
  BY <1>1, <1>3
<1>. HIDE DEF R
<1>. DEFINE m == Cardinality({g \in S : <<g, f>> \in R})
            n == Cardinality({g \in S : <<g, e>> \in R})
<1>7. <<f, e>> \in R
  BY <1>1, <1>2
<1>8. m < n
  BY <1>1, <1>4, <1>7, FirstAreClosed
<1>9. n < BatchSize /\ ~(m < BatchSize)
  BY <1>1, <1>6
<1>10. IsFiniteSet({g \in S : <<g, f>> \in R}) /\ IsFiniteSet({g \in S : <<g, e>> \in R})
  BY <1>1, FS_Subset
<1>11. m \in Nat /\ n \in Nat
  BY <1>10, FS_CardinalityType
<1>. HIDE DEF m, n
<1>. QED BY <1>8, <1>9, <1>11, EntriesTyped

\* What DeletionJustified says of one step.
Justified ==
  \A e \in Entry : Removed(e) =>
    /\ \E q \in inForce[ProjectOf[e]] :
         q.enabled /\ \/ ingested[e] < worker.now - q.maxAge
                      \/ q.maxBytes # NoLimit /\ Cardinality(Of(ProjectOf[e])) > q.maxBytes
    /\ \A f \in Of(ProjectOf[e]) : ingested'[f] >= 0 => Older(e, f)

\* A step removes rows only in the worker's two statements.
LEMMA NothingRemoved ==
  ASSUME RowsTyped, \A e \in Entry : ingested'[e] = ingested[e] \/ ingested'[e] = clock
  PROVE  Justified
<1>1. clock \in Nat /\ \A e \in Entry : ingested[e] \in Int
  BY IngestedInt
<1>2. \A e \in Entry : ~Removed(e)
  BY <1>1 DEF Removed, Deleted
<1>. QED BY <1>2 DEF Justified

\* Every step that removes rows has a reason to, and takes the oldest.
LEMMA RemovalsJustified ==
  ASSUME RowsTyped, WorkerOK, [Next]_vars
  PROVE  Justified
<1>0. /\ ingested \in [Entry -> {Absent, Deleted} \cup (0..MaxClock)]
      /\ ProjectOf \in [Entry -> Project]
  BY EntriesTyped DEF RowsTyped
<1>00. \A x \in Entry : ingested[x] \in Int
  BY IngestedInt
<1>1. ASSUME NEW doomed, Erase(doomed)
      PROVE  \A e \in Entry : /\ Removed(e) => e \in doomed
                              /\ ingested'[e] >= 0 => e \notin doomed
  <2>1. \A e \in Entry : ingested'[e] = IF e \in doomed THEN Deleted ELSE ingested[e]
    BY <1>1 DEF Erase
  <2>. QED BY <1>00, <2>1 DEF Removed, Deleted
<1>2. ASSUME worker # Resting, worker.todo # <<>>
      PROVE  /\ Head(worker.todo).project \in Project /\ Head(worker.todo).policy \in Policy
             /\ Head(worker.todo).policy.enabled
             /\ Head(worker.todo).policy \in inForce[Head(worker.todo).project]
             /\ worker.now \in Nat
  <2>1. worker.todo \in Seq(Task) /\ worker.now \in Nat
    BY <1>2 DEF WorkerOK
  <2>2. 1 \in 1..Len(worker.todo) /\ Head(worker.todo) = worker.todo[1] /\ worker.todo[1] \in Task
    BY <1>2, <2>1
  <2>. QED BY <1>2, <2>1, <2>2 DEF WorkerOK, Task
<1>3. CASE AgeRetention
  <2>. DEFINE task == Head(worker.todo)
              p == task.project
              before == worker.now - task.policy.maxAge
              S == {e \in Of(p) : ingested[e] < before}
  <2>1. worker # Resting /\ worker.todo # <<>> /\ Erase(FirstBatch(S))
    BY <1>3 DEF AgeRetention, Resting, DeleteEntriesBefore
  <2>2. p \in Project /\ task.policy \in Policy /\ task.policy.enabled /\ task.policy \in inForce[p] /\ worker.now \in Nat
    BY <1>2, <2>1
  <2>3. before \in Int
    BY <2>2, EntriesTyped
  <2>4. S \in SUBSET Entry /\ \A e \in S : e \in Of(p) /\ ProjectOf[e] = p /\ ingested[e] < before
    BY DEF Of, Present
  <2>. HIDE DEF S
  <2>5. ASSUME NEW e \in Entry, Removed(e)
        PROVE  /\ \E q \in inForce[ProjectOf[e]] : q.enabled /\ ingested[e] < worker.now - q.maxAge
               /\ \A f \in Of(ProjectOf[e]) : ingested'[f] >= 0 => Older(e, f)
    <3>1. e \in FirstBatch(S) /\ e \in S
      BY <1>1, <2>1, <2>5 DEF FirstBatch
    <3>2. ProjectOf[e] = p /\ ingested[e] < before
      BY <2>4, <3>1
    <3>3. ASSUME NEW f \in Of(p), ingested'[f] >= 0
          PROVE  Older(e, f)
      <4>0. f \in Entry
        BY DEF Of, Present
      <4>1. f \notin FirstBatch(S)
        BY <1>1, <2>1, <3>3, <4>0
      <4>2. CASE f \in S
        BY <2>4, <3>1, <4>1, <4>2, BatchIsFirst
      <4>3. CASE f \notin S
        <5>1. ~(ingested[f] < before)
          BY <3>3, <4>3 DEF S
        <5>. QED BY <1>00, <2>3, <3>2, <4>0, <5>1 DEF Older
      <4>. QED BY <4>2, <4>3
    <3>. QED BY <2>2, <3>2, <3>3
  <2>. QED BY <2>5 DEF Justified
<1>4. CASE ByteRetention
  <2>. DEFINE task == Head(worker.todo)
              p == task.project
              S == Of(p)
              m == task.policy.maxBytes
  <2>1. worker # Resting /\ worker.stage = "bytes" /\ Erase(IF Cardinality(S) > m THEN FirstBatch(S) ELSE {})
    BY <1>4 DEF ByteRetention, Resting, DeleteOldestIfOverBytes
  <2>2. worker.todo # <<>> /\ m # NoLimit
    BY <2>1 DEF WorkerOK
  <2>3. p \in Project /\ task.policy.enabled /\ task.policy \in inForce[p]
    BY <1>2, <2>1, <2>2
  <2>4. S \in SUBSET Entry /\ \A e \in S : ProjectOf[e] = p
    BY DEF Of, Present
  <2>. HIDE DEF S
  <2>5. ASSUME NEW e \in Entry, Removed(e)
        PROVE  /\ \E q \in inForce[ProjectOf[e]] :
                     q.enabled /\ q.maxBytes # NoLimit /\ Cardinality(Of(ProjectOf[e])) > q.maxBytes
               /\ \A f \in Of(ProjectOf[e]) : ingested'[f] >= 0 => Older(e, f)
    <3>1. Cardinality(S) > m /\ e \in FirstBatch(S) /\ e \in S
      BY <1>1, <2>1, <2>5 DEF FirstBatch
    <3>2. ProjectOf[e] = p
      BY <2>4, <3>1
    <3>3. ASSUME NEW f \in S, ingested'[f] >= 0
          PROVE  Older(e, f)
      <4>1. f \notin FirstBatch(S)
        BY <1>1, <2>1, <2>4, <3>1, <3>3
      <4>. QED BY <2>4, <3>1, <4>1, BatchIsFirst
    <3>. QED BY <2>2, <2>3, <3>1, <3>2, <3>3 DEF S
  <2>. QED BY <2>5 DEF Justified
<1>5. ASSUME NEW e \in Entry, Insert(e)
      PROVE  Justified
  BY <1>0, <1>5, NothingRemoved DEF Insert
<1>6. CASE ingested' = ingested
  BY <1>6, NothingRemoved
<1>7. CASE Tick \/ StartCycle \/ EndCycle \/ CycleFails \/ (\E p \in Project, q \in Policy : SetRetention(p, q)) \/ UNCHANGED vars
  BY <1>6, <1>7 DEF Tick, StartCycle, EndCycle, CycleFails, SetRetention, vars, table
<1>8. ASSUME NEW r \in Reader, Query(r) \/ \E p \in Project, f \in Filter : Search(r, p, f) \/ SearchNext(r, p, f)
      PROVE  Justified
  <2>1. ingested' = ingested
    BY <1>8 DEF Query, Acquire, TakeToken, Refuse, List, ListFails, ReturnToken, releaseUser, Search, SearchNext, others, table
  <2>. QED BY <1>6, <2>1
<1>. QED BY <1>3, <1>4, <1>5, <1>7, <1>8 DEF Next, RunOnce

-----------------------------------------------------------------------------
(* Walks.                                                                  *)

\* A request that has not run yet has its walk open; a walk that ended is not.
\* Before the first page nothing has been returned; after it, nothing that the
\* cursor has still to reach, and everything it has passed that was there all
\* the time.
WalkOK(w, a, g, u, n) ==
  /\ ~u
  /\ a \in {"asked", "queued", "running"} => w.open
  /\ w.complete => ~w.open
  /\ w.open /\ w.cursor = 0 => g = {}
  /\ w.open /\ w.cursor # 0 => \A e \in g : ~Below(e, w.cursor)
  /\ \A e \in n : /\ ingested[e] >= 0
                  /\ (w.open \/ w.complete) /\ Matches(e, w.project, w.filter)
                       /\ (w.complete \/ (w.cursor # 0 /\ ~Below(e, w.cursor)))
                     => e \in g

WalksOK == \A r \in Reader : WalkOK(walk[r], at[r], got[r], repeated[r], since[r])

\* At the start nobody walks.
LEMMA WalksInit == Init => WalksOK
BY DEF Init, WalksOK, WalkOK, NoWalk

\* A step that does not move a request: rows may appear, and those removed are
\* no longer among the ones that were there all the time.
LEMMA WalksSame ==
  ASSUME RowsTyped, WalksOK, UNCHANGED <<walk, got, repeated>>,
         \A r \in Reader : /\ at'[r] \in {"asked", "queued", "running"} => at[r] \in {"asked", "queued", "running"}
                           /\ since'[r] \in SUBSET since[r]
                           /\ \A e \in since'[r] : ingested'[e] >= 0
  PROVE  WalksOK'
<1>. SUFFICES ASSUME NEW r \in Reader
              PROVE  WalkOK(walk[r], at[r], got[r], repeated[r], since[r])'
  BY DEF WalksOK
<1>1. WalkOK(walk[r], at[r], got[r], repeated[r], since[r])
  BY DEF WalksOK
<1>2. \A e, f : Below(e, f)' = Below(e, f)
  BY DEF Below
<1>3. \A e, p, f : Matches(e, p, f)' = Matches(e, p, f)
  BY DEF Matches
<1>. QED BY <1>1, <1>2, <1>3 DEF WalkOK

\* List: the page continues where the last one ended.
LEMMA ListExtends ==
  ASSUME RowsTyped, WalksOK, NEW r \in Reader, List(r)
  PROVE  WalkOK(walk'[r], at'[r], got'[r], repeated'[r], since[r])
<1>. DEFINE w == walk[r]
            P == Page(r)
            C == Candidates(r)
            c == LastOf(P)
<1>0. /\ w \in WalkRec /\ w.open /\ ~w.complete /\ ~repeated[r]
      /\ w.cursor = 0 => got[r] = {}
      /\ w.cursor # 0 => \A e \in got[r] : ~Below(e, w.cursor)
      /\ \A e \in since[r] : /\ ingested[e] >= 0
                             /\ Matches(e, w.project, w.filter) /\ w.cursor # 0 /\ ~Below(e, w.cursor) => e \in got[r]
  <2>1. at[r] = "running" /\ w \in WalkRec
    BY DEF List, RowsTyped
  <2>2. WalkOK(w, at[r], got[r], repeated[r], since[r])
    BY DEF WalksOK
  <2>. QED BY <2>1, <2>2 DEF WalkOK
<1>1. /\ at'[r] = "served" /\ got'[r] = got[r] \cup P
      /\ repeated'[r] = (repeated[r] \/ got[r] \cap P # {})
  BY DEF List, RowsTyped
<1>2. /\ P \in SUBSET C /\ C \in SUBSET Entry
      /\ C # {} => P # {}
      /\ \A e \in P, f \in C : Below(e, f) => f \in P
  BY PageIsFirst
<1>3. /\ \A e \in C : w.cursor = 0 \/ Below(e, w.cursor)
      /\ \A e \in Entry : ingested[e] >= 0 /\ Matches(e, w.project, w.filter) /\ (w.cursor = 0 \/ Below(e, w.cursor)) => e \in C
  BY DEF Candidates, Present
<1>4. got[r] \in SUBSET Entry /\ since[r] \in SUBSET Entry /\ w.cursor \in Entry \cup {0}
  BY <1>0 DEF RowsTyped, WalkRec
<1>5. ~repeated'[r]
  BY <1>0, <1>1, <1>2, <1>3
<1>6. ASSUME NEW e \in since[r], Matches(e, w.project, w.filter), e \notin got[r]
      PROVE  e \in C
  BY <1>0, <1>3, <1>4, <1>6
<1>7. CASE C # P
  <2>1. /\ walk'[r].cursor = c /\ walk'[r].open /\ ~walk'[r].complete
        /\ walk'[r].project = w.project /\ walk'[r].filter = w.filter
    <3>1. walk' = [walk EXCEPT ![r].cursor = c]
      BY <1>7 DEF List
    <3>2. walk \in [Reader -> WalkRec \cup {NoWalk}]
      BY DEF RowsTyped
    <3>. QED BY <1>0, <3>1, <3>2 DEF WalkRec
  <2>2. c \in P /\ \A f \in P : f = c \/ Below(c, f)
    BY <1>2, <1>7, LastOfPage
  <2>3. c \in Entry /\ c # 0
    BY <1>2, <2>2, EntriesTyped
  <2>. HIDE DEF c, C, P, w
  <2>4. ASSUME NEW e \in got'[r]
        PROVE  ~Below(e, c)
    <3>1. CASE e \in P
      BY <1>2, <2>2, <2>3, <3>1, BelowOrders
    <3>2. CASE e \in got[r]
      <4>1. w.cursor # 0 /\ w.cursor \in Entry /\ ~Below(e, w.cursor) /\ Below(c, w.cursor)
        BY <1>0, <1>2, <1>3, <1>4, <2>2, <3>2
      <4>. QED BY <1>4, <2>3, <3>2, <4>1, BelowOrders
    <3>. QED BY <1>1, <3>1, <3>2
  <2>5. ASSUME NEW e \in since[r], Matches(e, w.project, w.filter), ~Below(e, c)
        PROVE  e \in got'[r]
    <3>1. CASE e \in got[r]
      BY <1>1, <3>1
    <3>2. CASE e \notin got[r]
      <4>1. e \in C /\ e \in Entry
        BY <1>4, <1>6, <2>5, <3>2
      <4>2. e = c \/ Below(c, e)
        BY <2>3, <2>5, <4>1, BelowOrders
      <4>3. e \in P
        BY <1>2, <2>2, <4>1, <4>2
      <4>. QED BY <1>1, <4>3
    <3>. QED BY <3>1, <3>2
  <2>. QED BY <1>0, <1>1, <1>5, <2>1, <2>3, <2>4, <2>5 DEF WalkOK
<1>8. CASE C = P
  <2>1. /\ ~walk'[r].open /\ walk'[r].complete
        /\ walk'[r].project = w.project /\ walk'[r].filter = w.filter
    <3>1. walk' = [walk EXCEPT ![r].open = FALSE, ![r].complete = TRUE]
      BY <1>8 DEF List
    <3>2. walk \in [Reader -> WalkRec \cup {NoWalk}]
      BY DEF RowsTyped
    <3>. QED BY <1>0, <3>1, <3>2 DEF WalkRec
  <2>. HIDE DEF C, P, w
  <2>2. ASSUME NEW e \in since[r], Matches(e, w.project, w.filter)
        PROVE  e \in got'[r]
    BY <1>1, <1>6, <1>8, <2>2
  <2>. QED BY <1>0, <1>1, <1>5, <2>1, <2>2 DEF WalkOK
<1>. QED BY <1>7, <1>8

\* A step of one request leaves the walks of the others alone.
LEMMA OtherWalks ==
  ASSUME RowsTyped, WalksOK, NEW r \in Reader, ingested' = ingested,
         \A x \in Reader \ {r} : /\ walk'[x] = walk[x] /\ at'[x] = at[x] /\ got'[x] = got[x]
                                 /\ repeated'[x] = repeated[x] /\ since'[x] = since[x],
         WalkOK(walk'[r], at'[r], got'[r], repeated'[r], since'[r])
  PROVE  WalksOK'
<1>1. \A x \in Reader : WalkOK(walk'[x], at'[x], got'[x], repeated'[x], since'[x])
  BY DEF WalksOK
<1>. QED BY <1>1 DEF WalksOK, WalkOK, Below, Matches

\* Every step keeps every walk exact.
LEMMA WalksStep ==
  ASSUME RowsTyped, WalksOK, [Next]_vars
  PROVE  WalksOK'
<1>0. /\ at \in [Reader -> Places] /\ walk \in [Reader -> WalkRec \cup {NoWalk}]
      /\ got \in [Reader -> SUBSET Entry] /\ since \in [Reader -> SUBSET Entry] /\ repeated \in [Reader -> BOOLEAN]
      /\ ingested \in [Entry -> {Absent, Deleted} \cup (0..MaxClock)]
  BY DEF RowsTyped
<1>00. \A r \in Reader : \A e \in since[r] : ingested[e] >= 0
  BY DEF WalksOK, WalkOK
<1>1. CASE UNCHANGED <<ingested, at, walk, got, repeated, since>>
  BY <1>00, <1>1, WalksSame
<1>2. CASE Tick \/ StartCycle \/ EndCycle \/ CycleFails \/ (\E p \in Project, q \in Policy : SetRetention(p, q)) \/ UNCHANGED vars
  BY <1>1, <1>2 DEF Tick, StartCycle, EndCycle, CycleFails, SetRetention, unrelated, vars, table, walks
<1>3. ASSUME NEW e \in Entry, Insert(e)
      PROVE  WalksOK'
  <2>1. clock \in Nat
    BY IngestedInt
  <2>2. \A x \in Entry : ingested[x] >= 0 => ingested'[x] >= 0
    BY <1>0, <1>3, <2>1 DEF Insert
  <2>3. UNCHANGED <<at, walk, got, repeated, since>>
    BY <1>3 DEF Insert, walks
  <2>. QED BY <1>0, <1>00, <2>2, <2>3, WalksSame
<1>4. CASE AgeRetention \/ ByteRetention
  <2>1. PICK doomed : Erase(doomed)
    BY <1>4 DEF AgeRetention, ByteRetention
  <2>2. \A r \in Reader : since'[r] = since[r] \ doomed
    BY <2>1 DEF Erase
  <2>3. \A e \in Entry : e \notin doomed => ingested'[e] = ingested[e]
    BY <2>1 DEF Erase
  <2>4. UNCHANGED <<at, walk, got, repeated>>
    BY <1>4 DEF AgeRetention, ByteRetention, unrelated
  <2>. QED BY <1>0, <1>00, <2>2, <2>3, <2>4, WalksSame
<1>5. ASSUME NEW r \in Reader, Acquire(r) \/ TakeToken(r) \/ Refuse(r) \/ ListFails(r) \/ ReturnToken(r) \/ releaseUser(r)
      PROVE  WalksOK'
  <2>1. \/ at[r] = "asked" /\ at' = [at EXCEPT ![r] = "queued"]
        \/ at[r] = "queued" /\ at' = [at EXCEPT ![r] = "running"]
        \/ \E x \in {"leaving", "served", "idle"} : at' = [at EXCEPT ![r] = x]
    BY <1>5 DEF Acquire, TakeToken, Refuse, ListFails, ReturnToken, releaseUser
  <2>2. UNCHANGED <<ingested, walk, got, repeated, since>>
    BY <1>5 DEF Acquire, TakeToken, Refuse, ListFails, ReturnToken, releaseUser, others, table, walks
  <2>. QED BY <1>0, <1>00, <2>1, <2>2, WalksSame
<1>6. ASSUME NEW r \in Reader, List(r)
      PROVE  WalksOK'
  <2>1. UNCHANGED <<ingested, since>>
    BY <1>6 DEF List, table
  <2>2. \A x \in Reader \ {r} : walk'[x] = walk[x] /\ at'[x] = at[x] /\ got'[x] = got[x] /\ repeated'[x] = repeated[x]
    BY <1>0, <1>6 DEF List
  <2>3. WalkOK(walk'[r], at'[r], got'[r], repeated'[r], since'[r])
    BY <1>6, <2>1, ListExtends
  <2>. QED BY <2>1, <2>2, <2>3, OtherWalks
<1>7. ASSUME NEW r \in Reader, NEW p \in Project, NEW f \in Filter, Search(r, p, f)
      PROVE  WalksOK'
  <2>1. /\ at'[r] = "asked" /\ got'[r] = {} /\ ~repeated'[r] /\ since'[r] = Present
        /\ walk'[r] = [open |-> TRUE, complete |-> FALSE, project |-> p, filter |-> normalizeFilter(f), cursor |-> 0]
    BY <1>0, <1>7 DEF Search
  <2>2. \A x \in Reader \ {r} : /\ walk'[x] = walk[x] /\ at'[x] = at[x] /\ got'[x] = got[x]
                                /\ repeated'[x] = repeated[x] /\ since'[x] = since[x]
    BY <1>0, <1>7 DEF Search
  <2>3. ingested' = ingested
    BY <1>7 DEF Search, table
  <2>4. WalkOK(walk'[r], at'[r], got'[r], repeated'[r], since'[r])
    BY <2>1 DEF WalkOK, Present
  <2>. QED BY <2>2, <2>3, <2>4, OtherWalks
<1>8. ASSUME NEW r \in Reader, NEW p \in Project, NEW f \in Filter, SearchNext(r, p, f)
      PROVE  WalksOK'
  <2>1. walk[r] \in WalkRec /\ walk[r].open /\ walk[r].project = p /\ walk[r].filter = normalizeFilter(f)
    BY <1>0, <1>8 DEF SearchNext, Decode, NoWalk
  <2>2. walk' = walk
    BY <1>0, <1>8, <2>1 DEF SearchNext, WalkRec
  <2>3. at'[r] = "asked" /\ UNCHANGED <<ingested, got, repeated, since>>
    BY <1>0, <1>8 DEF SearchNext, table
  <2>4. \A x \in Reader \ {r} : at'[x] = at[x]
    BY <1>0, <1>8 DEF SearchNext
  <2>5. WalkOK(walk[r], at[r], got[r], repeated[r], since[r])
    BY DEF WalksOK
  <2>6. WalkOK(walk'[r], at'[r], got'[r], repeated'[r], since'[r])
    BY <2>1, <2>2, <2>3, <2>5 DEF WalkOK
  <2>. QED BY <2>2, <2>3, <2>4, <2>6, OtherWalks
<1>. QED BY <1>2, <1>3, <1>4, <1>5, <1>6, <1>7, <1>8 DEF Next, RunOnce, Query

-----------------------------------------------------------------------------
(* The theorems.                                                           *)

EntriesInv == RowsTyped /\ SemaphoresOK /\ WorkerOK /\ WalksOK

\* The limiter starts without semaphores and the worker at rest.
LEMMA EntriesInit == Init => EntriesInv
<1>. SUFFICES ASSUME Init PROVE EntriesInv
  OBVIOUS
<1>1. SemaphoresOK
  <2>1. 0 \in 0..Cardinality(Reader) /\ 0 \in 0..Capacity
    BY EntriesTyped
  <2>. QED BY <2>1 DEF Init, SemaphoresOK
<1>2. WorkerOK
  BY DEF Init, WorkerOK
<1>. QED BY <1>1, <1>2, RowsInit, WalksInit DEF EntriesInv

\* The inductive invariant: the rows and requests are typed, the limiter's
\* counts are those of the requests in it, the worker's tasks are of policies
\* in force, and every walk has all it has passed and nothing it has not.
THEOREM EntriesInvariant == Spec => []EntriesInv
<1>1. EntriesInv /\ [Next]_vars => EntriesInv'
  BY RowsStep, SemaphoresStep, WorkerStep, WalksStep DEF EntriesInv
<1>. QED BY <1>1, EntriesInit, PTL DEF Spec

\* Rows, policies, requests and semaphores are where the code can have them;
\* every project stays in the list ListEnabled reads, once.
THEOREM EntriesTypeCorrect == Spec => []TypeOK
<1>1. EntriesInv => TypeOK
  <2>. SUFFICES ASSUME EntriesInv PROVE TypeOK
    OBVIOUS
  <2>1. Len(order) = Cardinality(Project)
    BY LenOfDistinct DEF EntriesInv, RowsTyped
  <2>. QED BY <2>1 DEF EntriesInv, RowsTyped, SemaphoresOK, TypeOK, Places
<1>. QED BY <1>1, EntriesInvariant, PTL

\* A client that follows the cursors to the end gets every matching entry that
\* was there all the time, and none twice (EntryRepository.List, cursor.go),
\* whatever is inserted and removed between its pages.
THEOREM EntriesWalksExact == Spec => []WalkExact
<1>1. EntriesInv => WalkExact
  BY EntriesTyped DEF EntriesInv, WalksOK, WalkOK, WalkExact
<1>. QED BY <1>1, EntriesInvariant, PTL

\* No more queries of a project run than it has tokens, though its semaphore
\* is forgotten and made anew (projectLimiter.Acquire and releaseUser).
THEOREM EntriesConcurrencyBounded == Spec => []ConcurrencyBounded
<1>1. EntriesInv => ConcurrencyBounded
  <2>. SUFFICES ASSUME EntriesInv, NEW p \in Project
                PROVE  /\ Cardinality({r \in Reader : at[r] \in {"running", "served"} /\ walk[r].project = p}) <= Capacity
                       /\ slot[p] # NoSemaphore =>
                            users[slot[p]] = Cardinality({r \in Reader : holds[r] = slot[p]}) /\ users[slot[p]] > 0
    BY DEF ConcurrencyBounded
  <2>. DEFINE Q == {r \in Reader : at[r] \in {"running", "served"} /\ walk[r].project = p}
  <2>0. SemaphoresOK /\ Capacity \in Nat
    BY EntriesTyped DEF EntriesInv
  <2>1. Cardinality(Q) <= Capacity
    <3>1. CASE Q = {}
      <4>1. Cardinality({}) = 0
        BY FS_EmptySet
      <4>. QED BY <2>0, <3>1, <4>1
    <3>2. CASE Q # {}
      <4>1. \A r \in Q : holds[r] # NoSemaphore /\ slot[p] = holds[r]
        BY <2>0 DEF SemaphoresOK
      <4>2. slot[p] # NoSemaphore /\ slot[p] \in Semaphore
        BY <2>0, <3>2, <4>1 DEF SemaphoresOK
      <4>3. Q \in SUBSET WithToken(holds, at, slot[p])
        BY <4>1 DEF WithToken, Working
      <4>4. IsFiniteSet(WithToken(holds, at, slot[p])) /\ Cardinality(WithToken(holds, at, slot[p])) \in Nat
        BY InItFinite
      <4>5. IsFiniteSet(Q) /\ Cardinality(Q) <= Cardinality(WithToken(holds, at, slot[p]))
        BY <4>3, <4>4, FS_Subset
      <4>6. Cardinality(WithToken(holds, at, slot[p])) <= Capacity
        <5>1. tokens[slot[p]] \in 0..Capacity /\ tokens[slot[p]] = Cardinality(WithToken(holds, at, slot[p]))
          BY <2>0, <4>2 DEF SemaphoresOK
        <5>. QED BY <2>0, <5>1
      <4>7. Cardinality(Q) \in Nat
        BY <4>5, FS_CardinalityType
      <4>. HIDE DEF Q
      <4>. QED BY <2>0, <4>4, <4>5, <4>6, <4>7
    <3>. QED BY <3>1, <3>2
  <2>2. slot[p] # NoSemaphore =>
          users[slot[p]] = Cardinality({r \in Reader : holds[r] = slot[p]}) /\ users[slot[p]] > 0
    BY <2>0 DEF SemaphoresOK, InIt
  <2>. QED BY <2>1, <2>2
<1>. QED BY <1>1, EntriesInvariant, PTL

\* Retention removes an entry only under a policy of its project that was
\* enabled and in force in the cycle, and never before an older one
\* (Worker.enforceProject, RetentionRepository's two DELETEs).
THEOREM EntriesDeletionJustified == Spec => DeletionJustified
<1>1. EntriesInv /\ [Next]_vars => [Justified]_vars
  BY RemovalsJustified DEF EntriesInv
<1>. QED BY <1>1, EntriesInvariant, PTL DEF Spec, DeletionJustified, Justified
=============================================================================
