---------------------------- MODULE IngestProofs ----------------------------
(***************************************************************************)
(* Theorems about Ingest and Admission, for any requests, batches, costs,  *)
(* limits and bounds.                                                      *)
(***************************************************************************)
EXTENDS Ingest, DataLemmas

-----------------------------------------------------------------------------
(* The limiter.                                                            *)

Costs == {"entries", "bytes"}
Cost == [entries : Int, bytes : Int]

\* A bucket of kind c pays for s tokens spent since the start: what is left
\* and what was spent is the burst and the refill up to the last one.
Pays(b, c, s) ==
  /\ b \in Bucket
  /\ 0 <= b.tokens /\ b.tokens <= Parts(c) /\ 0 <= b.last
  /\ s * Minute + b.tokens <= Parts(c) + Capacity[c] * b.last

\* The same of a project at time n, whose buckets were refilled at most
\* MaxWait after it was last seen.
ProjectPays(p, sp, n) ==
  /\ p \in ProjectState
  /\ \A c \in Costs : Pays(p[c], c, sp[c]) /\ p[c].last <= n /\ p[c].last <= p.lastSeen + MaxWait

\* What a project that was dropped has spent, it would have been refilled with
\* before the earliest clock reading that may still come.
Settled(c, s, t) == s = 0 \/ s * Minute <= Capacity[c] * (t - MaxWait)

LimiterPays(l, sp, n) ==
  /\ l \in [keys : [Key -> KeyState \cup {Absent}], project : ProjectState \cup {Absent}, lastCleanup : Int]
  /\ -Minute <= l.lastCleanup /\ l.lastCleanup <= n
  /\ IF l.project = Absent THEN \A c \in Costs : Settled(c, sp[c], l.lastCleanup)
     ELSE ProjectPays(l.project, sp, n)

InFlight(l) == IF l.project = Absent THEN 0 ELSE l.project.inflight

\* The constants, in the form the proofs use them.
LEMMA LimitsTyped ==
  /\ Minute \in Nat \ {0} /\ StateTTL \in Nat /\ MaxWait \in Nat
  /\ Minute + 2 * MaxWait <= StateTTL
  /\ \A c \in Kinds : Capacity[c] \in Nat \ {0} /\ Parts(c) \in Nat \ {0}
  /\ "requests" \in Kinds /\ Costs \in SUBSET Kinds
  /\ Absent \notin KeyState /\ Absent \notin ProjectState
<1>1. /\ Minute \in Nat \ {0} /\ StateTTL \in Nat /\ MaxWait \in Nat
      /\ Minute + 2 * MaxWait <= StateTTL
      /\ Capacity \in [Kinds -> Nat \ {0}]
      /\ Absent \notin KeyState /\ Absent \notin ProjectState
  BY AdmissionAssumption, IngestAssumption
<1>2. \A c \in Kinds : Capacity[c] \in Nat \ {0}
  BY <1>1
<1>3. \A x, y \in Nat \ {0} : x * y \in Nat \ {0}
  OBVIOUS
<1>4. \A c \in Kinds : Parts(c) \in Nat \ {0}
  BY <1>1, <1>2, <1>3 DEF Parts
<1>. QED BY <1>1, <1>2, <1>4 DEF Kinds, Costs

\* Arithmetic the budget needs.
LEMMA Product == \A a, b \in Int : a * b \in Int
OBVIOUS

\* A factor distributes over a sum.
LEMMA Distributes == \A a, b, c \in Int : (a + b) * c = a * c + b * c /\ c * (a + b) = c * a + c * b
OBVIOUS

\* A factor that is not negative keeps the order.
LEMMA Monotone == \A a, b \in Int, c \in Nat : a <= b => c * a <= c * b
OBVIOUS

\* A refill pays for as much as before.
LEMMA RefillPays ==
  ASSUME NEW c \in Kinds, NEW b, NEW s \in Int, Pays(b, c, s), NEW t \in Nat
  PROVE  /\ Pays(refill(b, c, t), c, s)
         /\ refill(b, c, t).last = IF t > b.last THEN t ELSE b.last
<1>. DEFINE C == Capacity[c]
<1>1. C \in Nat /\ Parts(c) \in Nat /\ Minute \in Nat
  BY LimitsTyped
<1>2. /\ b.tokens \in Int /\ b.last \in Int /\ 0 <= b.tokens /\ b.tokens <= Parts(c) /\ 0 <= b.last
      /\ s * Minute + b.tokens <= Parts(c) + C * b.last
  BY DEF Pays, Bucket
<1>3. CASE t > b.last
  <2>. DEFINE d == t - b.last
              r == AtMost(b.tokens + d * C, Parts(c))
  <2>1. d \in Nat /\ d * C \in Nat /\ C * t = C * b.last + d * C
    BY <1>1, <1>2, <1>3
  <2>2. r \in Int /\ 0 <= r /\ r <= Parts(c) /\ r <= b.tokens + d * C
    BY <1>1, <1>2, <2>1 DEF AtMost
  <2>3. s * Minute \in Int /\ C * b.last \in Int /\ C * t \in Int
    BY <1>1, <1>2
  <2>4. refill(b, c, t) = [tokens |-> r, last |-> t]
    BY <1>3 DEF refill
  <2>5. s * Minute + r <= Parts(c) + C * t
    <3>. HIDE DEF C, d, r
    <3>. QED BY <1>1, <1>2, <2>1, <2>2, <2>3
  <2>. QED BY <1>3, <2>2, <2>4, <2>5 DEF Pays, Bucket
<1>4. CASE ~(t > b.last)
  BY <1>4 DEF refill
<1>. QED BY <1>3, <1>4

\* Taking n tokens that are there.
LEMMA SpendPays ==
  ASSUME NEW c \in Kinds, NEW b, NEW s \in Int, Pays(b, c, s), NEW n \in Nat, n * Minute <= b.tokens
  PROVE  Pays([b EXCEPT !.tokens = @ - n * Minute], c, s + n)
<1>1. Capacity[c] \in Nat /\ Parts(c) \in Nat /\ Minute \in Nat
  BY LimitsTyped
<1>2. /\ b \in [tokens : Int, last : Int] /\ 0 <= b.tokens /\ b.tokens <= Parts(c) /\ 0 <= b.last
      /\ s * Minute + b.tokens <= Parts(c) + Capacity[c] * b.last
  BY DEF Pays, Bucket
<1>3. /\ (s + n) * Minute = s * Minute + n * Minute
      /\ n * Minute \in Nat /\ s * Minute \in Int /\ Capacity[c] * b.last \in Int
  BY <1>1, <1>2
<1>. DEFINE e == [b EXCEPT !.tokens = @ - n * Minute]
<1>4. e.tokens = b.tokens - n * Minute /\ e.last = b.last /\ e \in Bucket
  BY <1>2, <1>3 DEF Bucket
<1>5. (s + n) * Minute + e.tokens <= Parts(c) + Capacity[c] * e.last
  BY <1>1, <1>2, <1>3, <1>4
<1>. QED BY <1>1, <1>2, <1>3, <1>4, <1>5 DEF Pays

\* Giving n tokens back.
LEMMA RefundPays ==
  ASSUME NEW c \in Kinds, NEW b, NEW s \in Int, Pays(b, c, s), NEW n \in Nat
  PROVE  Pays([b EXCEPT !.tokens = AtMost(@ + n * Minute, Parts(c))], c, s - n)
<1>1. Capacity[c] \in Nat /\ Parts(c) \in Nat /\ Minute \in Nat
  BY LimitsTyped
<1>2. /\ b \in [tokens : Int, last : Int] /\ 0 <= b.tokens /\ b.tokens <= Parts(c) /\ 0 <= b.last
      /\ s * Minute + b.tokens <= Parts(c) + Capacity[c] * b.last
  BY DEF Pays, Bucket
<1>3. /\ (s - n) * Minute = s * Minute - n * Minute
      /\ n * Minute \in Nat /\ s * Minute \in Int /\ Capacity[c] * b.last \in Int
  BY <1>1, <1>2
<1>. DEFINE r == AtMost(b.tokens + n * Minute, Parts(c))
            e == [b EXCEPT !.tokens = AtMost(@ + n * Minute, Parts(c))]
<1>4. r \in Int /\ 0 <= r /\ r <= Parts(c) /\ r <= b.tokens + n * Minute
  BY <1>1, <1>2, <1>3 DEF AtMost
<1>5. e.tokens = r /\ e.last = b.last /\ e \in Bucket
  BY <1>2, <1>4 DEF Bucket
<1>6. (s - n) * Minute + e.tokens <= Parts(c) + Capacity[c] * e.last
  <2>. HIDE DEF r, e
  <2>. QED BY <1>1, <1>2, <1>3, <1>4, <1>5
<1>. QED BY <1>2, <1>4, <1>5, <1>6 DEF Pays

\* A full bucket for a project that had none.
LEMMA FullPays ==
  ASSUME NEW c \in Kinds, NEW s \in Int, NEW x \in Int, Settled(c, s, x), NEW t \in Nat, x - MaxWait <= t
  PROVE  Pays(fullBucket(c, t), c, s)
<1>. DEFINE C == Capacity[c]
<1>1. C \in Nat /\ Parts(c) \in Nat /\ Minute \in Nat /\ MaxWait \in Nat
  BY LimitsTyped
<1>2. C * t \in Nat /\ C * (x - MaxWait) \in Int /\ C * (x - MaxWait) <= C * t
  BY <1>1, Monotone
<1>3. s * Minute \in Int /\ (s = 0 => s * Minute = 0)
  BY <1>1
<1>4. s * Minute <= C * t
  BY <1>1, <1>2, <1>3 DEF Settled
<1>. QED BY <1>1, <1>2, <1>3, <1>4 DEF Pays, fullBucket, Bucket

\* What a bucket idle for StateTTL has paid for is settled.
LEMMA IdleSettles ==
  ASSUME NEW c \in Kinds, NEW b, NEW s \in Int, Pays(b, c, s), NEW t \in Int, NEW seen \in Int,
         seen < t - StateTTL, b.last <= seen + MaxWait
  PROVE  Settled(c, s, t)
<1>. DEFINE C == Capacity[c]
<1>1. /\ C \in Nat /\ Minute \in Nat /\ MaxWait \in Nat /\ StateTTL \in Nat
      /\ Minute + 2 * MaxWait <= StateTTL /\ Parts(c) = C * Minute
  BY LimitsTyped DEF Parts
<1>2. b.last \in Int /\ b.tokens \in Nat /\ s * Minute + b.tokens <= Parts(c) + C * b.last
  BY DEF Pays, Bucket
<1>3. Minute + b.last \in Int /\ t - MaxWait \in Int /\ Minute + b.last <= t - MaxWait
  BY <1>1, <1>2
<1>4. C * (Minute + b.last) <= C * (t - MaxWait)
  BY <1>1, <1>3, Monotone
<1>5. C * (Minute + b.last) = C * Minute + C * b.last
  BY <1>1, <1>2, Distributes
<1>6. s * Minute \in Int /\ C * Minute \in Int /\ C * b.last \in Int /\ C * (t - MaxWait) \in Int
  BY <1>1, <1>2, <1>3, Product
<1>. HIDE DEF C
<1>7. s * Minute <= C * (t - MaxWait)
  BY <1>1, <1>2, <1>4, <1>5, <1>6
<1>. QED BY <1>7 DEF Settled, C

\* The clean-up creates no budget and drops no project in use.
LEMMA CleanPays ==
  ASSUME NEW l, NEW sp \in Cost, NEW n \in Nat, LimiterPays(l, sp, n), NEW t \in Nat, t <= n
  PROVE  /\ LimiterPays(cleanupLocked(l, t), sp, n)
         /\ InFlight(cleanupLocked(l, t)) = InFlight(l)
<1>. DEFINE m == cleanupLocked(l, t)
<1>1. CASE t - l.lastCleanup < Minute
  BY <1>1 DEF cleanupLocked
<1>2. CASE ~(t - l.lastCleanup < Minute)
  <2>0. /\ l.lastCleanup \in Int /\ l.keys \in [Key -> KeyState \cup {Absent}]
        /\ l.project \in ProjectState \cup {Absent} /\ Minute \in Nat \ {0}
    BY LimitsTyped DEF LimiterPays
  <2>1. m = [keys |-> [k \in Key |-> IF Idle(l.keys[k], t) THEN Absent ELSE l.keys[k]],
             project |-> IF Forgotten(l.project, t) THEN Absent ELSE l.project,
             lastCleanup |-> t]
    BY <1>2 DEF cleanupLocked
  <2>2. m.keys \in [Key -> KeyState \cup {Absent}]
    BY <2>0, <2>1
  <2>3. m \in [keys : [Key -> KeyState \cup {Absent}], project : ProjectState \cup {Absent}, lastCleanup : Int]
    BY <2>0, <2>1, <2>2
  <2>4. -Minute <= m.lastCleanup /\ m.lastCleanup <= n
    BY <2>0, <2>1
  <2>5. CASE l.project = Absent
    <3>1. m.project = Absent
      BY <2>1, <2>5 DEF Forgotten, Idle
    <3>2. ASSUME NEW c \in Costs
          PROVE  Settled(c, sp[c], t)
      <4>1. Settled(c, sp[c], l.lastCleanup)
        BY <2>5 DEF LimiterPays
      <4>2. Capacity[c] \in Nat /\ MaxWait \in Nat /\ sp[c] \in Int
        BY LimitsTyped DEF Costs, Cost
      <4>3. l.lastCleanup - MaxWait \in Int /\ t - MaxWait \in Int /\ l.lastCleanup - MaxWait <= t - MaxWait
        BY <1>2, <2>0, <4>2
      <4>4. Capacity[c] * (l.lastCleanup - MaxWait) <= Capacity[c] * (t - MaxWait)
        BY <4>2, <4>3, Monotone
      <4>5. /\ sp[c] * Minute \in Int /\ Capacity[c] * (l.lastCleanup - MaxWait) \in Int
            /\ Capacity[c] * (t - MaxWait) \in Int
        BY <2>0, <4>2, <4>3, Product
      <4>. QED BY <4>1, <4>4, <4>5 DEF Settled
    <3>. QED BY <2>1, <2>3, <2>4, <2>5, <3>1, <3>2 DEF LimiterPays, InFlight
  <2>6. CASE l.project # Absent
    <3>1. ProjectPays(l.project, sp, n)
      BY <2>6 DEF LimiterPays
    <3>2. CASE Forgotten(l.project, t)
      <4>1. m.project = Absent /\ InFlight(l) = 0
        BY <2>1, <2>6, <3>2 DEF Forgotten, InFlight
      <4>2. ASSUME NEW c \in Costs
            PROVE  Settled(c, sp[c], t)
        <5>1. Pays(l.project[c], c, sp[c]) /\ l.project[c].last <= l.project.lastSeen + MaxWait
          BY <3>1 DEF ProjectPays
        <5>2. l.project.lastSeen \in Int /\ l.project.lastSeen < t - StateTTL
          BY <2>6, <2>0, <3>2 DEF Forgotten, Idle, ProjectState
        <5>3. c \in Kinds /\ sp[c] \in Int
          BY LimitsTyped DEF Costs, Cost
        <5>. QED BY <5>1, <5>2, <5>3, IdleSettles
      <4>. QED BY <2>1, <2>3, <2>4, <4>1, <4>2 DEF LimiterPays, InFlight
    <3>3. CASE ~Forgotten(l.project, t)
      BY <2>1, <2>3, <2>4, <2>6, <3>1, <3>3 DEF LimiterPays, InFlight
    <3>. QED BY <3>2, <3>3
  <2>. QED BY <2>5, <2>6
<1>. QED BY <1>1, <1>2

\* The project an attempt finds, at a clock reading no older than MaxWait.
LEMMA ProjectAtPays ==
  ASSUME NEW l, NEW sp \in Cost, NEW n \in Nat, LimiterPays(l, sp, n), NEW t \in Nat, t <= n, n - MaxWait <= t
  PROVE  /\ ProjectPays(projectAt(l, t), sp, n)
         /\ projectAt(l, t).inflight = InFlight(l)
<1>. DEFINE s == IF l.project = Absent THEN newProject(t) ELSE l.project
            p == projectAt(l, t)
<1>0. MaxWait \in Nat /\ l.lastCleanup \in Int /\ l.lastCleanup <= n
  BY LimitsTyped DEF LimiterPays
<1>1. /\ s \in ProjectState /\ s.inflight = InFlight(l)
      /\ \A c \in Costs : Pays(s[c], c, sp[c]) /\ s[c].last <= n
  <2>1. CASE l.project = Absent
    <3>1. \A c \in Costs : s[c] = fullBucket(c, t)
      BY <2>1 DEF newProject, Costs
    <3>2. ASSUME NEW c \in Costs
          PROVE  Pays(s[c], c, sp[c]) /\ s[c].last <= n
      <4>1. Settled(c, sp[c], l.lastCleanup) /\ c \in Kinds /\ sp[c] \in Int
        BY <2>1, LimitsTyped DEF LimiterPays, Costs, Cost
      <4>2. l.lastCleanup - MaxWait <= t
        BY <1>0
      <4>3. Pays(fullBucket(c, t), c, sp[c])
        BY <1>0, <4>1, <4>2, FullPays
      <4>. QED BY <3>1, <4>3 DEF fullBucket
    <3>3. s \in ProjectState
      <4>1. s.entries \in Bucket /\ s.bytes \in Bucket
        BY <3>2 DEF Costs, Pays
      <4>. QED BY <2>1, <4>1 DEF newProject, ProjectState
    <3>. QED BY <2>1, <3>2, <3>3 DEF newProject, InFlight
  <2>2. CASE l.project # Absent
    BY <2>2 DEF LimiterPays, ProjectPays, InFlight
  <2>. QED BY <2>1, <2>2
<1>2. p = [s EXCEPT !.entries = refill(@, "entries", t), !.bytes = refill(@, "bytes", t), !.lastSeen = t]
  BY DEF projectAt
<1>. HIDE DEF s, p
<1>3. /\ p.lastSeen = t /\ p.inflight = s.inflight
      /\ \A c \in Costs : p[c] = refill(s[c], c, t)
  BY <1>1, <1>2 DEF ProjectState, Costs
<1>4. ASSUME NEW c \in Costs
      PROVE  Pays(p[c], c, sp[c]) /\ p[c].last <= n /\ p[c].last <= p.lastSeen + MaxWait
  <2>1. c \in Kinds /\ sp[c] \in Int /\ s[c].last \in Int /\ s[c].last <= n /\ Pays(s[c], c, sp[c])
    BY <1>1, LimitsTyped DEF Costs, Cost, Pays, Bucket
  <2>2. Pays(p[c], c, sp[c]) /\ p[c].last = IF t > s[c].last THEN t ELSE s[c].last
    <3>1. /\ Pays(refill(s[c], c, t), c, sp[c])
          /\ refill(s[c], c, t).last = IF t > s[c].last THEN t ELSE s[c].last
      BY <2>1, RefillPays
    <3>. QED BY <1>3, <3>1
  <2>. QED BY <1>0, <1>3, <2>1, <2>2
<1>5. p \in ProjectState
  <2>1. p.entries \in Bucket /\ p.bytes \in Bucket
    BY <1>4 DEF Costs, Pays
  <2>2. /\ refill(s.entries, "entries", t) \in Bucket /\ refill(s.bytes, "bytes", t) \in Bucket
        /\ t \in Int /\ s \in [entries : Bucket, bytes : Bucket, inflight : Int, lastSeen : Int]
    BY <1>1, <1>3, <2>1 DEF ProjectState, Costs
  <2>. QED BY <1>2, <2>2 DEF ProjectState
<1>. QED BY <1>1, <1>3, <1>4, <1>5 DEF ProjectPays, p

\* The key an attempt finds.
LEMMA KeyAtTyped ==
  ASSUME NEW l, l.keys \in [Key -> KeyState \cup {Absent}], NEW k \in Key, NEW t \in Nat
  PROVE  keyAt(l, k, t) \in KeyState
<1>. DEFINE s == IF l.keys[k] = Absent THEN newKey(t) ELSE l.keys[k]
<1>1. /\ Parts("requests") \in Nat /\ Capacity["requests"] \in Nat
  BY LimitsTyped
<1>2. s.requests \in Bucket
  BY <1>1 DEF newKey, fullBucket, KeyState, Bucket
<1>3. refill(s.requests, "requests", t) \in Bucket
  <2>. HIDE DEF s
  <2>1. s.requests.tokens \in Int /\ s.requests.last \in Int
    BY <1>2 DEF Bucket
  <2>2. (t - s.requests.last) * Capacity["requests"] \in Int
    BY <1>1, <2>1, Product
  <2>. QED BY <1>1, <1>2, <2>1, <2>2 DEF refill, AtMost, Bucket
<1>4. keyAt(l, k, t) = [requests |-> refill(s.requests, "requests", t), lastSeen |-> t]
  BY DEF keyAt
<1>. QED BY <1>3, <1>4 DEF KeyState

\* A limiter with another state of a key and of the project.
With(l, k, ks, p) == [l EXCEPT !.keys[k] = ks, !.project = p]

\* It pays as that project does.
LEMMA WithProject ==
  ASSUME NEW l, NEW sp, NEW sq, NEW n \in Nat, LimiterPays(l, sp, n),
         NEW k \in Key, NEW ks \in KeyState, NEW p, ProjectPays(p, sq, n)
  PROVE  LimiterPays(With(l, k, ks, p), sq, n) /\ InFlight(With(l, k, ks, p)) = p.inflight
<1>. DEFINE m == [l EXCEPT !.keys[k] = ks, !.project = p]
<1>1. l \in [keys : [Key -> KeyState \cup {Absent}], project : ProjectState \cup {Absent}, lastCleanup : Int]
  BY DEF LimiterPays
<1>2. p \in ProjectState /\ p # Absent
  BY LimitsTyped DEF ProjectPays
<1>3. m \in [keys : [Key -> KeyState \cup {Absent}], project : ProjectState \cup {Absent}, lastCleanup : Int]
  BY <1>1, <1>2
<1>4. m.project = p /\ m.lastCleanup = l.lastCleanup
  BY <1>1
<1>5. -Minute <= l.lastCleanup /\ l.lastCleanup <= n
  BY DEF LimiterPays
<1>. HIDE DEF m
<1>6. LimiterPays(m, sq, n) /\ InFlight(m) = p.inflight
  BY <1>2, <1>3, <1>4, <1>5 DEF LimiterPays, InFlight
<1>. QED BY <1>6 DEF m, With

\* An attempt at a clock reading no older than MaxWait.
LEMMA AllowPays ==
  ASSUME NEW l, NEW sp \in Cost, NEW n \in Nat, LimiterPays(l, sp, n), NEW k \in Key,
         NEW cost, cost.entries \in Nat, cost.bytes \in Nat,
         NEW t \in Nat, t <= n, n - MaxWait <= t
  PROVE  LET d == AllowIngest(l, k, cost, t)
         IN  IF d.reason = "none"
             THEN LimiterPays(d.limiter, Plus(sp, cost), n) /\ InFlight(d.limiter) = InFlight(l) + 1
             ELSE LimiterPays(d.limiter, sp, n) /\ InFlight(d.limiter) = InFlight(l)
<1>. DEFINE clean == cleanupLocked(l, t)
            key == keyAt(clean, k, t)
            paid == [key EXCEPT !.requests.tokens = @ - Minute]
            project == projectAt(clean, t)
            refused == With(clean, k, paid, project)
            charged == [project EXCEPT !.entries.tokens = @ - cost.entries * Minute,
                                       !.bytes.tokens = @ - cost.bytes * Minute,
                                       !.inflight = @ + 1]
            admitted == With(clean, k, paid, charged)
            unpaid == [clean EXCEPT !.keys[k] = key]
            d == AllowIngest(l, k, cost, t)
<1>1. LimiterPays(clean, sp, n) /\ InFlight(clean) = InFlight(l)
  BY CleanPays
<1>2. ProjectPays(project, sp, n) /\ project.inflight = InFlight(l)
  BY <1>1, ProjectAtPays
<1>3. clean \in [keys : [Key -> KeyState \cup {Absent}], project : ProjectState \cup {Absent}, lastCleanup : Int]
  BY <1>1 DEF LimiterPays
<1>4. key \in KeyState
  BY <1>3, KeyAtTyped
<1>5. paid \in KeyState
  <2>. HIDE DEF key
  <2>. QED BY <1>4, LimitsTyped DEF KeyState, Bucket
<1>6. \/ d = [limiter |-> unpaid, reason |-> "key_rate"]
      \/ \E reason \in {"project_inflight", "project_entries", "project_bytes"} :
           d = [limiter |-> refused, reason |-> reason]
      \/ /\ d = [limiter |-> admitted, reason |-> "none"]
         /\ ~(project.entries.tokens < cost.entries * Minute)
         /\ ~(project.bytes.tokens < cost.bytes * Minute)
  BY DEF AllowIngest, With
<1>. HIDE DEF clean, key, paid, project, d
<1>7. LimiterPays(unpaid, sp, n) /\ InFlight(unpaid) = InFlight(l)
  <2>1. /\ unpaid \in [keys : [Key -> KeyState \cup {Absent}], project : ProjectState \cup {Absent}, lastCleanup : Int]
        /\ unpaid.project = clean.project /\ unpaid.lastCleanup = clean.lastCleanup
    BY <1>3, <1>4
  <2>. HIDE DEF unpaid
  <2>. QED BY <1>1, <2>1 DEF LimiterPays, InFlight
<1>8. LimiterPays(refused, sp, n) /\ InFlight(refused) = InFlight(l)
  BY <1>1, <1>2, <1>5, WithProject
<1>9. ASSUME ~(project.entries.tokens < cost.entries * Minute), ~(project.bytes.tokens < cost.bytes * Minute)
      PROVE  LimiterPays(admitted, Plus(sp, cost), n) /\ InFlight(admitted) = InFlight(l) + 1
  <2>1. project \in [entries : [tokens : Int, last : Int], bytes : [tokens : Int, last : Int], inflight : Int, lastSeen : Int]
    BY <1>2 DEF ProjectPays, ProjectState, Bucket
  <2>2. /\ charged.entries = [project.entries EXCEPT !.tokens = @ - cost.entries * Minute]
        /\ charged.bytes = [project.bytes EXCEPT !.tokens = @ - cost.bytes * Minute]
        /\ charged.inflight = project.inflight + 1 /\ charged.lastSeen = project.lastSeen
    BY <2>1
  <2>3. /\ charged.entries.last = project.entries.last /\ charged.bytes.last = project.bytes.last
    BY <2>1, <2>2
  <2>4. Minute \in Nat /\ sp.entries \in Int /\ sp.bytes \in Int /\ "entries" \in Kinds /\ "bytes" \in Kinds
    BY LimitsTyped DEF Costs, Cost
  <2>5. /\ Pays(project.entries, "entries", sp.entries) /\ Pays(project.bytes, "bytes", sp.bytes)
        /\ project.entries.last <= n /\ project.entries.last <= project.lastSeen + MaxWait
        /\ project.bytes.last <= n /\ project.bytes.last <= project.lastSeen + MaxWait
    BY <1>2 DEF ProjectPays, Costs
  <2>6. cost.entries * Minute \in Int /\ cost.bytes * Minute \in Int
    BY <2>4
  <2>7. cost.entries * Minute <= project.entries.tokens /\ cost.bytes * Minute <= project.bytes.tokens
    BY <1>9, <2>1, <2>6
  <2>8. Pays(charged.entries, "entries", sp.entries + cost.entries)
    <3>1. Pays([project.entries EXCEPT !.tokens = @ - cost.entries * Minute], "entries", sp.entries + cost.entries)
      BY <2>4, <2>5, <2>7, SpendPays
    <3>. QED BY <2>2, <3>1
  <2>9. Pays(charged.bytes, "bytes", sp.bytes + cost.bytes)
    <3>1. Pays([project.bytes EXCEPT !.tokens = @ - cost.bytes * Minute], "bytes", sp.bytes + cost.bytes)
      BY <2>4, <2>5, <2>7, SpendPays
    <3>. QED BY <2>2, <3>1
  <2>10. charged \in ProjectState
    <3>. DEFINE E == [project.entries EXCEPT !.tokens = @ - cost.entries * Minute]
                F == [project.bytes EXCEPT !.tokens = @ - cost.bytes * Minute]
                G == project.inflight + 1
    <3>1. charged = [project EXCEPT !.entries = E, !.bytes = F, !.inflight = G]
      BY <2>1
    <3>2. E \in Bucket /\ F \in Bucket /\ G \in Int
      BY <2>1, <2>6 DEF Bucket
    <3>3. project \in [entries : Bucket, bytes : Bucket, inflight : Int, lastSeen : Int]
      BY <1>2 DEF ProjectPays, ProjectState
    <3>. HIDE DEF E, F, G, charged
    <3>. QED BY <3>1, <3>2, <3>3 DEF ProjectState
  <2>. HIDE DEF charged
  <2>11. ProjectPays(charged, Plus(sp, cost), n)
    <3>1. Plus(sp, cost)["entries"] = sp.entries + cost.entries /\ Plus(sp, cost)["bytes"] = sp.bytes + cost.bytes
      BY DEF Plus
    <3>2. ASSUME NEW c \in Costs
          PROVE  /\ Pays(charged[c], c, Plus(sp, cost)[c])
                 /\ charged[c].last <= n /\ charged[c].last <= charged.lastSeen + MaxWait
      BY <2>2, <2>3, <2>5, <2>8, <2>9, <3>1 DEF Costs
    <3>. QED BY <2>10, <3>2 DEF ProjectPays
  <2>12. LimiterPays(admitted, Plus(sp, cost), n) /\ InFlight(admitted) = charged.inflight
    BY <1>1, <1>5, <2>11, WithProject
  <2>. QED BY <1>2, <2>2, <2>12
<1>. HIDE DEF unpaid, refused, admitted
<1>10. IF d.reason = "none"
       THEN LimiterPays(d.limiter, Plus(sp, cost), n) /\ InFlight(d.limiter) = InFlight(l) + 1
       ELSE LimiterPays(d.limiter, sp, n) /\ InFlight(d.limiter) = InFlight(l)
  <2>1. CASE d = [limiter |-> unpaid, reason |-> "key_rate"]
    BY <1>7, <2>1
  <2>2. CASE \E reason \in {"project_inflight", "project_entries", "project_bytes"} :
               d = [limiter |-> refused, reason |-> reason]
    BY <1>8, <2>2
  <2>3. CASE /\ d = [limiter |-> admitted, reason |-> "none"]
             /\ ~(project.entries.tokens < cost.entries * Minute)
             /\ ~(project.bytes.tokens < cost.bytes * Minute)
    BY <1>9, <2>3
  <2>. QED BY <1>6, <2>1, <2>2, <2>3
<1>. QED BY <1>10 DEF d

\* The end of a reservation that is held.
LEMMA FinishPays ==
  ASSUME NEW l, NEW sp \in Cost, NEW n \in Nat, LimiterPays(l, sp, n), InFlight(l) > 0,
         NEW cost, cost.entries \in Nat, cost.bytes \in Nat, NEW refund \in BOOLEAN,
         NEW t \in Nat, t <= n, n - MaxWait <= t
  PROVE  /\ LimiterPays(finish(l, cost, refund, t), IF refund THEN Minus(sp, cost) ELSE sp, n)
         /\ InFlight(finish(l, cost, refund, t)) = InFlight(l) - 1
<1>. DEFINE back(b, c) == [refill(b, c, t) EXCEPT !.tokens = IF refund THEN AtMost(@ + cost[c] * Minute, Parts(c)) ELSE @]
            p == l.project
            q == [entries |-> back(p.entries, "entries"), bytes |-> back(p.bytes, "bytes"),
                  inflight |-> p.inflight - 1, lastSeen |-> t]
            m == [l EXCEPT !.project = q]
            sq == IF refund THEN Minus(sp, cost) ELSE sp
<1>1. p # Absent /\ ~(p.inflight <= 0) /\ InFlight(l) = p.inflight /\ ProjectPays(p, sp, n)
  BY DEF InFlight, LimiterPays, ProjectPays, ProjectState
<1>2. finish(l, cost, refund, t) = m
  BY <1>1 DEF finish
<1>3. /\ l \in [keys : [Key -> KeyState \cup {Absent}], project : ProjectState \cup {Absent}, lastCleanup : Int]
      /\ -Minute <= l.lastCleanup /\ l.lastCleanup <= n /\ p.inflight \in Int
  BY <1>1 DEF LimiterPays, ProjectPays, ProjectState
<1>4. ASSUME NEW c \in Costs
      PROVE  Pays(back(p[c], c), c, sq[c]) /\ back(p[c], c).last <= n /\ back(p[c], c).last <= t + MaxWait
  <2>1. c \in Kinds /\ sp[c] \in Int /\ cost[c] \in Nat /\ MaxWait \in Nat
    BY LimitsTyped DEF Costs, Cost
  <2>2. Pays(p[c], c, sp[c]) /\ p[c].last <= n /\ p[c].last \in Int
    BY <1>1 DEF ProjectPays, Pays, Bucket
  <2>. DEFINE b == refill(p[c], c, t)
  <2>3. Pays(b, c, sp[c]) /\ b.last = IF t > p[c].last THEN t ELSE p[c].last
    BY <2>1, <2>2, RefillPays
  <2>. HIDE DEF b
  <2>4. b \in [tokens : Int, last : Int]
    BY <2>3 DEF Pays, Bucket
  <2>5. CASE refund
    <3>1. back(p[c], c) = [b EXCEPT !.tokens = AtMost(@ + cost[c] * Minute, Parts(c))]
      BY <2>5 DEF b
    <3>2. Pays(back(p[c], c), c, sp[c] - cost[c])
      <4>1. Pays([b EXCEPT !.tokens = AtMost(@ + cost[c] * Minute, Parts(c))], c, sp[c] - cost[c])
        BY <2>1, <2>3, RefundPays
      <4>. HIDE DEF back
      <4>. QED BY <3>1, <4>1
    <3>3. sq[c] = sp[c] - cost[c]
      BY <2>5 DEF Minus, Costs
    <3>4. back(p[c], c).last = b.last
      BY <3>1, <2>4
    <3>. HIDE DEF back, sq
    <3>. QED BY <2>1, <2>2, <2>3, <3>2, <3>3, <3>4
  <2>6. CASE ~refund
    <3>1. back(p[c], c) = [b EXCEPT !.tokens = @]
      BY <2>6 DEF b
    <3>2. back(p[c], c) = b
      BY <3>1, <2>4
    <3>3. sq[c] = sp[c]
      BY <2>6
    <3>. HIDE DEF back, sq
    <3>. QED BY <2>1, <2>2, <2>3, <3>2, <3>3
  <2>. QED BY <2>5, <2>6
<1>5. ProjectPays(q, sq, n)
  <2>. HIDE DEF back, sq
  <2>1. back(p.entries, "entries") \in Bucket /\ back(p.bytes, "bytes") \in Bucket
    BY <1>4 DEF Costs, Pays
  <2>2. q \in ProjectState
    BY <1>3, <2>1 DEF ProjectState
  <2>3. \A c \in Costs : q[c] = back(p[c], c)
    BY DEF Costs
  <2>4. q.lastSeen = t
    OBVIOUS
  <2>. HIDE DEF q
  <2>. QED BY <1>4, <2>2, <2>3, <2>4 DEF ProjectPays
<1>6. q.inflight = InFlight(l) - 1
  BY <1>1
<1>. HIDE DEF q, sq
<1>7. q \in ProjectState /\ q # Absent
  BY <1>5, LimitsTyped DEF ProjectPays
<1>8. /\ m \in [keys : [Key -> KeyState \cup {Absent}], project : ProjectState \cup {Absent}, lastCleanup : Int]
      /\ m.project = q /\ m.lastCleanup = l.lastCleanup
  BY <1>3, <1>7
<1>. HIDE DEF m
<1>9. LimiterPays(m, sq, n) /\ InFlight(m) = InFlight(l) - 1
  BY <1>3, <1>5, <1>6, <1>7, <1>8 DEF LimiterPays, InFlight
<1>. QED BY <1>2, <1>9 DEF sq

-----------------------------------------------------------------------------
(* The inductive invariant, in four parts.                                 *)

Phases == {"idle", "admit"} \cup Reserved
Rec == [pc : Phases, in : Inputs \cup {Nothing}, at : Nat, answer : Answers, seen : SUBSET Boundaries]
RowsOf(b) == {Row(i) : i \in {j \in Inputs : j.batch = b}}

\* A request at time n: it is about an input, and its clock reading is recent
\* while it waits for the limiter.
RequestOK(q, n) ==
  /\ q \in Rec
  /\ q.in = Nothing <=> q.pc = "idle"
  /\ q.at <= n /\ (q.pc \in {"admit", "finish"} => n - MaxWait <= q.at)

RequestsOK ==
  /\ now \in Nat /\ spent \in Cost
  /\ req \in [Request -> Rec] /\ \A r \in Request : RequestOK(req[r], now)
  /\ status \in [project : {"active", "disabled"}, pipeline : Statuses]
  /\ revoked \in SUBSET Key
  /\ began \in 0..MaxRequests /\ events \in 0..MaxEvents

TablesTyped ==
  /\ stored \in [Batch -> {Row(i) : i \in Inputs} \cup {Nothing}]
  /\ \A b \in Batch : stored[b] \in RowsOf(b) \cup {Nothing}
  /\ rows \in [Batch -> Nat] /\ usage \in [entries : Nat, bytes : Nat]

\* The limiter pays for what is spent and counts the reservations held.
Holders(f) == {r \in Request : f[r].pc \in Reserved}
Admitted ==
  /\ LimiterPays(limiter, spent, now)
  /\ Cardinality(Holders(req)) = InFlight(limiter)

\* What a request has passed was open, and what is open while it is in
\* progress it has seen open.
SeenOK(q, st, rev) ==
  /\ q.pc \in {"admit"} \cup InTx => "key" \in q.seen /\ Open(st, rev, q.in.key) \in SUBSET q.seen
  /\ q.pc \in InTx \ {"project"} => "project" \in q.seen
  /\ q.pc \in InTx \ {"project", "pipeline"} => "pipeline" \in q.seen

Observed == \A r \in Request : SeenOK(req[r], status, revoked)

\* An inserted row is the only one of its batch; a row that was found is
\* there, with the payload it was compared with.
FoundOK(q) ==
  /\ q.pc \in Inserted => stored[q.in.batch] = Nothing
  /\ q.pc \in {"find", "found"} => stored[q.in.batch] # Nothing
  /\ q.pc = "found" => stored[q.in.batch].payload = PayloadOf[q.in]

InsertedOnce ==
  /\ \A r \in Request : FoundOK(req[r])
  /\ \A r, q \in Request : req[r].pc \in Inserted /\ req[q].pc \in Inserted /\ req[r].in.batch = req[q].in.batch => r = q

IngestInv == RequestsOK /\ TablesTyped /\ Admitted /\ Observed /\ InsertedOnce /\ StoredOnce

\* The other assumptions, in the form the proofs use them.
LEMMA InputsTyped ==
  /\ Request \in SUBSET Nat /\ IsFiniteSet(Request) /\ IsFiniteSet(Batch)
  /\ Nothing \notin Inputs /\ \A i \in Inputs : Row(i) # Nothing /\ Question(i) # Nothing
  /\ \A i \in Inputs : /\ i.key \in Key /\ i.batch \in Batch
                       /\ CostOf[i].entries \in Nat /\ CostOf[i].bytes \in Nat
  /\ {"enabled", "paused"} \in SUBSET Statuses
  /\ Steps \in SUBSET Nat /\ MaxRequests \in Nat /\ MaxEvents \in Nat
BY IngestAssumption

\* The phases, by their names.
LEMMA PhaseNames ==
  /\ Phases = {"idle", "admit", "project", "pipeline", "insert", "entries", "commit", "find", "found", "finish"}
  /\ Reserved = {"project", "pipeline", "insert", "entries", "commit", "find", "found", "finish"}
BY DEF Phases, Reserved, InTx

Moved(q, p) == [q EXCEPT !.pc = p]
Ended(q, a, n) == [q EXCEPT !.pc = "finish", !.answer = a, !.at = n, !.seen = {}]

\* A step of one request.
LEMMA OneRequest ==
  ASSUME req \in [Request -> Rec], NEW r \in Request, NEW q \in Rec, req' = [req EXCEPT ![r] = q]
  PROVE  /\ req' \in [Request -> Rec] /\ req'[r] = q
         /\ \A x \in Request : x # r => req'[x] = req[x]
OBVIOUS

\* To another phase.
LEMMA GotoStep ==
  ASSUME req \in [Request -> Rec], NEW r \in Request, NEW p \in Phases, Goto(r, p)
  PROVE  /\ req' \in [Request -> Rec] /\ req'[r] \in Rec
         /\ req'[r].pc = p /\ req'[r].in = req[r].in /\ req'[r].at = req[r].at
         /\ req'[r].answer = req[r].answer /\ req'[r].seen = req[r].seen
         /\ \A x \in Request : x # r => req'[x] = req[x]
<1>. DEFINE q == Moved(req[r], p)
<1>1. req' = [req EXCEPT ![r] = q]
  BY DEF Goto, Moved
<1>2. /\ q \in Rec /\ q.pc = p /\ q.in = req[r].in /\ q.at = req[r].at
      /\ q.answer = req[r].answer /\ q.seen = req[r].seen
  BY DEF Rec, Moved
<1>. HIDE DEF q
<1>. QED BY <1>1, <1>2, OneRequest

\* To the end of the transaction.
LEMMA EndStep ==
  ASSUME req \in [Request -> Rec], now \in Nat, NEW r \in Request, NEW a \in Answers, End(r, a)
  PROVE  /\ req' \in [Request -> Rec] /\ req'[r] \in Rec
         /\ req'[r].pc = "finish" /\ req'[r].in = req[r].in /\ req'[r].at = now
         /\ req'[r].answer = a /\ req'[r].seen = {}
         /\ \A x \in Request : x # r => req'[x] = req[x]
<1>. DEFINE q == Ended(req[r], a, now)
<1>1. req' = [req EXCEPT ![r] = q]
  BY DEF End, Ended
<1>2. /\ q \in Rec /\ q.pc = "finish" /\ q.in = req[r].in /\ q.at = now
      /\ q.answer = a /\ q.seen = {}
  BY PhaseNames DEF Rec, Ended
<1>. HIDE DEF q
<1>. QED BY <1>1, <1>2, OneRequest

\* Back to a free slot.
LEMMA NoRequestTyped ==
  /\ NoRequest \in Rec /\ NoRequest.pc = "idle" /\ NoRequest.in = Nothing /\ NoRequest.at = 0
  /\ NoRequest.answer = "none" /\ NoRequest.seen = {}
BY PhaseNames DEF NoRequest, Rec, Answers

-----------------------------------------------------------------------------
(* Requests and tables keep their types.                                   *)

\* A step of one request while the clock stands still.
LEMMA RequestMoves ==
  ASSUME RequestsOK, NEW r \in Request, req' \in [Request -> Rec], RequestOK(req'[r], now),
         \A x \in Request : x # r => req'[x] = req[x],
         now' = now, spent' \in Cost, UNCHANGED envVars, began' \in 0..MaxRequests, events' \in 0..MaxEvents
  PROVE  RequestsOK'
<1>1. \A x \in Request : RequestOK(req'[x], now)
  BY DEF RequestsOK
<1>. QED BY <1>1 DEF RequestsOK, envVars

\* A step to another phase of the transaction.
LEMMA Moves ==
  ASSUME RequestsOK, NEW r \in Request, req[r].pc # "idle",
         NEW p \in Phases \ {"idle", "admit", "finish"}, Goto(r, p), Unchanged
  PROVE  RequestsOK'
<1>1. /\ req \in [Request -> Rec] /\ RequestOK(req[r], now) /\ spent \in Cost
      /\ began \in 0..MaxRequests /\ events \in 0..MaxEvents
  BY DEF RequestsOK
<1>2. /\ req' \in [Request -> Rec] /\ RequestOK(req'[r], now)
      /\ \A x \in Request : x # r => req'[x] = req[x]
  BY <1>1, GotoStep DEF RequestOK
<1>. QED BY <1>1, <1>2, RequestMoves DEF Unchanged

\* A step to the end of the transaction.
LEMMA Ends ==
  ASSUME RequestsOK, NEW r \in Request, req[r].pc # "idle", NEW a \in Answers, End(r, a),
         UNCHANGED <<now, envVars, spent, began>>, events' \in 0..MaxEvents
  PROVE  RequestsOK'
<1>1. /\ req \in [Request -> Rec] /\ RequestOK(req[r], now) /\ spent \in Cost
      /\ began \in 0..MaxRequests /\ now \in Nat
  BY DEF RequestsOK
<1>2. /\ req' \in [Request -> Rec] /\ RequestOK(req'[r], now)
      /\ \A x \in Request : x # r => req'[x] = req[x]
  BY <1>1, EndStep, LimitsTyped DEF RequestOK
<1>. QED BY <1>1, <1>2, RequestMoves

\* The set of what is open is one of boundaries.
LEMMA OpenTyped == \A st, rev, k : Open(st, rev, k) \in SUBSET Boundaries
BY DEF Open

\* Nothing spent.
LEMMA ZeroTyped == Zero \in Cost /\ Zero.entries = 0 /\ Zero.bytes = 0
BY DEF Zero, Cost

\* All slots are free in the initial states.
LEMMA RequestsInit == ASSUME Init PROVE RequestsOK
<1>1. RequestOK(NoRequest, 0)
  BY NoRequestTyped DEF RequestOK
<1>2. req = [r \in Request |-> NoRequest] /\ now = 0 /\ spent = Zero /\ revoked = {} /\ began = 0 /\ events = 0
  BY DEF Init
<1>3. status \in [project : {"active", "disabled"}, pipeline : Statuses]
  BY InputsTyped DEF Init
<1>4. req \in [Request -> Rec]
  BY <1>2, NoRequestTyped
<1>. QED BY <1>1, <1>2, <1>3, <1>4, ZeroTyped, InputsTyped DEF RequestsOK

\* Every step keeps the requests, their clock readings and the statuses typed.
LEMMA RequestsStep == ASSUME RequestsOK, [Next]_vars PROVE RequestsOK'
<1>0. /\ now \in Nat /\ spent \in Cost
      /\ req \in [Request -> Rec] /\ \A r \in Request : RequestOK(req[r], now)
      /\ status \in [project : {"active", "disabled"}, pipeline : Statuses]
      /\ revoked \in SUBSET Key
      /\ began \in 0..MaxRequests /\ events \in 0..MaxEvents
  BY DEF RequestsOK
<1>1. ASSUME NEW n \in Nat, Event(n)
      PROVE  events' \in 0..MaxEvents
  BY <1>0, <1>1, InputsTyped DEF Event
<1>2. ASSUME NEW r \in Request, NEW i \in Inputs, Begin(r, i)
      PROVE  RequestsOK'
  <2>. DEFINE q == [pc |-> "admit", in |-> i, at |-> now, answer |-> "none", seen |-> Open(status, revoked, i.key)]
              q1 == IF ~Authenticate(i.key, revoked) \/ ~Normalize(i) \/ Larger(CostOf[i]) THEN NoRequest ELSE q
  <2>1. q \in Rec /\ q.pc = "admit" /\ q.in = i /\ q.at = now
    BY <1>0, PhaseNames, OpenTyped DEF Rec, Answers
  <2>2. req' = [req EXCEPT ![r] = q1]
    BY <1>2 DEF Begin
  <2>3. RequestOK(q, now) /\ RequestOK(NoRequest, now)
    BY <1>0, <2>1, NoRequestTyped, InputsTyped, LimitsTyped DEF RequestOK
  <2>4. q1 \in Rec /\ RequestOK(q1, now)
    BY <2>3 DEF RequestOK
  <2>. HIDE DEF q1
  <2>5. /\ req' \in [Request -> Rec] /\ RequestOK(req'[r], now)
        /\ \A x \in Request : x # r => req'[x] = req[x]
    BY <1>0, <2>2, <2>4, OneRequest
  <2>6. /\ began' \in 0..MaxRequests /\ UNCHANGED <<now, spent, events, envVars>>
    BY <1>0, <1>2, InputsTyped DEF Begin
  <2>. QED BY <1>0, <2>5, <2>6, RequestMoves
<1>3. ASSUME NEW r \in Request, Admit(r)
      PROVE  RequestsOK'
  <2>. DEFINE i == req[r].in
              q == [req[r] EXCEPT !.pc = "project", !.at = 0]
  <2>1. req[r].pc = "admit" /\ i \in Inputs /\ UNCHANGED <<now, envVars, began, events>>
    BY <1>0, <1>3 DEF Admit, RequestOK, Rec
  <2>2. \/ req' = [req EXCEPT ![r] = q] /\ spent' = Plus(spent, CostOf[i])
        \/ req' = [req EXCEPT ![r] = NoRequest] /\ spent' = spent
    BY <1>3 DEF Admit
  <2>3. /\ q \in Rec /\ q.pc = "project" /\ q.in = i /\ q.at = 0
    BY <1>0, PhaseNames DEF Rec
  <2>. HIDE DEF q
  <2>4. RequestOK(q, now) /\ RequestOK(NoRequest, now)
    BY <1>0, <2>1, <2>3, NoRequestTyped, InputsTyped DEF RequestOK
  <2>5. spent' \in Cost
    BY <1>0, <2>1, <2>2, InputsTyped DEF Cost, Plus
  <2>6. /\ req' \in [Request -> Rec] /\ RequestOK(req'[r], now)
        /\ \A x \in Request : x # r => req'[x] = req[x]
    BY <1>0, <2>2, <2>3, <2>4, NoRequestTyped, OneRequest
  <2>. QED BY <1>0, <2>1, <2>5, <2>6, RequestMoves
<1>4. ASSUME NEW r \in Request, GetProject(r) \/ GetPipeline(r)
      PROVE  RequestsOK'
  <2>1. /\ req[r].pc # "idle" /\ Unchanged
        /\ (\E p \in {"pipeline", "insert"} : Goto(r, p)) \/ End(r, "unavailable")
    BY <1>4 DEF GetProject, GetPipeline
  <2>2. "unavailable" \in Answers /\ {"pipeline", "insert"} \in SUBSET (Phases \ {"idle", "admit", "finish"})
    BY PhaseNames DEF Answers
  <2>3. UNCHANGED <<now, envVars, spent, began>> /\ events' \in 0..MaxEvents
    BY <1>0, <2>1 DEF Unchanged
  <2>. QED BY <2>1, <2>2, <2>3, Moves, Ends
<1>5. ASSUME NEW r \in Request, InsertBatch(r) \/ FindBatch(r) \/ AddUsage(r)
      PROVE  RequestsOK'
  <2>1. /\ req[r].pc # "idle" /\ Unchanged
        /\ (\E p \in {"entries", "find", "found", "commit"} : Goto(r, p)) \/ End(r, "conflict")
    BY <1>5 DEF InsertBatch, FindBatch, AddUsage
  <2>2. "conflict" \in Answers /\ {"entries", "find", "found", "commit"} \in SUBSET (Phases \ {"idle", "admit", "finish"})
    BY PhaseNames DEF Answers
  <2>3. UNCHANGED <<now, envVars, spent, began>> /\ events' \in 0..MaxEvents
    BY <1>0, <2>1 DEF Unchanged
  <2>. QED BY <2>1, <2>2, <2>3, Moves, Ends
<1>6. ASSUME NEW r \in Request, Commit(r) \/ Fail(r) \/ CommitUnheard(r)
      PROVE  RequestsOK'
  <2>1. /\ req[r].pc # "idle" /\ UNCHANGED <<now, envVars, spent, began>>
        /\ \E a \in {"accepted", "duplicate", "error"} : End(r, a)
    BY <1>6 DEF Commit, Fail, CommitUnheard, InTx
  <2>2. {"accepted", "duplicate", "error"} \in SUBSET Answers
    BY DEF Answers
  <2>3. events' \in 0..MaxEvents
    BY <1>0, <1>1, <1>6 DEF Commit, Fail, CommitUnheard
  <2>. QED BY <2>1, <2>2, <2>3, Ends
<1>7. ASSUME NEW r \in Request, Finish(r)
      PROVE  RequestsOK'
  <2>1. req[r].in \in Inputs /\ UNCHANGED <<now, envVars, began, events>>
    BY <1>0, <1>7 DEF Finish, RequestOK, Rec
  <2>2. req' = [req EXCEPT ![r] = NoRequest]
        /\ (spent' = Minus(spent, CostOf[req[r].in]) \/ spent' = spent)
    BY <1>7 DEF Finish
  <2>3. spent' \in Cost
    BY <1>0, <2>1, <2>2, InputsTyped DEF Cost, Minus
  <2>4. RequestOK(NoRequest, now)
    BY <1>0, NoRequestTyped DEF RequestOK
  <2>5. /\ req' \in [Request -> Rec] /\ RequestOK(req'[r], now)
        /\ \A x \in Request : x # r => req'[x] = req[x]
    BY <1>0, <2>2, <2>4, NoRequestTyped, OneRequest
  <2>. QED BY <1>0, <2>1, <2>3, <2>5, RequestMoves
<1>8. CASE Tick
  <2>1. events' \in 0..MaxEvents
    BY <1>1, <1>8 DEF Tick
  <2>2. /\ now' \in Nat /\ now <= now' /\ UNCHANGED <<req, envVars, spent, began>>
        /\ \A r \in Request : req[r].pc \in {"admit", "finish"} => now' - req[r].at <= MaxWait
    BY <1>0, <1>8, InputsTyped DEF Tick
  <2>3. ASSUME NEW r \in Request
        PROVE  RequestOK(req[r], now')
    <3>1. req[r].at \in Nat /\ RequestOK(req[r], now)
      BY <1>0 DEF Rec
    <3>. QED BY <1>0, <2>2, <3>1, LimitsTyped DEF RequestOK
  <2>. QED BY <1>0, <2>1, <2>2, <2>3 DEF RequestsOK, envVars
<1>9. ASSUME NEW st \in [project : {"active", "disabled"}, pipeline : Statuses], NEW rev \in SUBSET Key, Change(st, rev)
      PROVE  RequestsOK'
  <2>1. /\ events' \in 0..MaxEvents /\ status' = st /\ revoked' = rev /\ req' = Observe(st, rev)
        /\ UNCHANGED <<now, spent, began>>
    BY <1>1, <1>9 DEF Change
  <2>2. ASSUME NEW r \in Request
        PROVE  req'[r] \in Rec /\ RequestOK(req'[r], now)
    <3>1. RequestOK(req[r], now) /\ req[r] \in Rec
      BY <1>0
    <3>2. CASE req[r].pc \in {"idle", "finish"}
      BY <2>1, <3>1, <3>2 DEF Observe
    <3>3. CASE req[r].pc \notin {"idle", "finish"}
      <4>. DEFINE o == req[r].seen \cup Open(st, rev, req[r].in.key)
                  q == [req[r] EXCEPT !.seen = o]
      <4>1. req'[r] = q
        BY <2>1, <3>3 DEF Observe
      <4>2. o \in SUBSET Boundaries
        BY <3>1, OpenTyped DEF Rec
      <4>. HIDE DEF o
      <4>3. q \in Rec /\ q.pc = req[r].pc /\ q.in = req[r].in /\ q.at = req[r].at
        BY <3>1, <4>2 DEF Rec
      <4>. HIDE DEF q
      <4>. QED BY <3>1, <4>1, <4>3 DEF RequestOK
    <3>. QED BY <3>2, <3>3
  <2>3. req' \in [Request -> Rec]
    BY <2>1, <2>2 DEF Observe
  <2>. QED BY <1>0, <2>1, <2>2, <2>3 DEF RequestsOK
<1>10. CASE SetProjectStatus
  <2>1. /\ [status EXCEPT !.project = "disabled",
                          !.pipeline = IF @ \in {"enabled", "error"} THEN "paused" ELSE @]
             \in [project : {"active", "disabled"}, pipeline : Statuses]
        /\ [status EXCEPT !.project = "active"] \in [project : {"active", "disabled"}, pipeline : Statuses]
    BY <1>0, InputsTyped
  <2>. QED BY <1>0, <1>9, <1>10, <2>1 DEF SetProjectStatus
<1>11. CASE SetPipelineStatus
  <2>1. \A t \in Statuses : [status EXCEPT !.pipeline = t] \in [project : {"active", "disabled"}, pipeline : Statuses]
    BY <1>0
  <2>. QED BY <1>0, <1>9, <1>11, <2>1 DEF SetPipelineStatus
<1>12. CASE RevokeKey
  BY <1>0, <1>9, <1>12 DEF RevokeKey
<1>13. CASE Crash
  <2>1. /\ req' = [r \in Request |-> NoRequest] /\ spent' = Zero /\ events' \in 0..MaxEvents
        /\ UNCHANGED <<now, envVars, began>>
    BY <1>1, <1>13 DEF Crash
  <2>2. RequestOK(NoRequest, now)
    BY <1>0, NoRequestTyped DEF RequestOK
  <2>3. req' \in [Request -> Rec] /\ \A r \in Request : req'[r] = NoRequest
    BY <2>1, NoRequestTyped
  <2>. QED BY <1>0, <2>1, <2>2, <2>3, ZeroTyped DEF RequestsOK, envVars
<1>14. CASE UNCHANGED vars
  BY <1>0, <1>14 DEF RequestsOK, vars, envVars
<1>. QED BY <1>2, <1>3, <1>4, <1>5, <1>6, <1>7, <1>8, <1>10, <1>11, <1>12, <1>13, <1>14 DEF Next, Accept

-----------------------------------------------------------------------------
(* Admission.                                                              *)

\* Who holds a reservation is a finite set.
LEMMA HoldersFinite == \A f : IsFiniteSet(Holders(f)) /\ Cardinality(Holders(f)) \in Nat
<1>. TAKE f
<1>1. Holders(f) \subseteq Request
  BY DEF Holders
<1>. QED BY <1>1, InputsTyped, FS_Subset, FS_CardinalityType

\* The limiter pays at any later time for what it pays for now.
LEMMA LaterPays ==
  ASSUME NEW l, NEW sp, NEW n \in Nat, LimiterPays(l, sp, n), NEW m \in Nat, n <= m
  PROVE  LimiterPays(l, sp, m)
<1>1. l.lastCleanup \in Int /\ l.lastCleanup <= m /\ -Minute <= l.lastCleanup
  BY DEF LimiterPays
<1>2. l.project # Absent => ProjectPays(l.project, sp, m)
  <2>. SUFFICES ASSUME l.project # Absent PROVE ProjectPays(l.project, sp, m)
    OBVIOUS
  <2>1. ProjectPays(l.project, sp, n)
    BY DEF LimiterPays
  <2>2. \A c \in Costs : l.project[c].last \in Int
    BY <2>1 DEF ProjectPays, Pays, Bucket
  <2>. QED BY <2>1, <2>2 DEF ProjectPays
<1>. QED BY <1>1, <1>2 DEF LimiterPays

\* A limiter without state owes nothing.
LEMMA EmptyPays ==
  ASSUME NEW n \in Nat
  PROVE  LimiterPays(Empty, Zero, n) /\ InFlight(Empty) = 0
<1>1. /\ Empty.project = Absent /\ Empty.lastCleanup = -Minute
      /\ Empty \in [keys : [Key -> KeyState \cup {Absent}], project : ProjectState \cup {Absent}, lastCleanup : Int]
  BY LimitsTyped DEF Empty
<1>2. \A c \in Costs : Settled(c, Zero[c], -Minute)
  BY DEF Settled, Zero, Costs
<1>. QED BY <1>1, <1>2, LimitsTyped DEF LimiterPays, InFlight

\* Steps that keep who holds a reservation and leave the limiter alone.
LEMMA SameHolders ==
  ASSUME Admitted, \A r \in Request : req'[r].pc \in Reserved <=> req[r].pc \in Reserved,
         UNCHANGED <<limiter, spent, now>>
  PROVE  Admitted'
<1>1. Holders(req') = Holders(req)
  BY DEF Holders
<1>2. Cardinality(Holders(req')) = InFlight(limiter)
  BY <1>1 DEF Admitted
<1>. QED BY <1>2 DEF Admitted

\* The limiter counts the reservations in the initial states.
LEMMA AdmittedInit == ASSUME Init PROVE Admitted
<1>1. limiter = Empty /\ spent = Zero /\ now \in Nat /\ req = [r \in Request |-> NoRequest]
  BY DEF Init
<1>2. Holders(req) = {}
  BY <1>1, NoRequestTyped, PhaseNames DEF Holders
<1>. QED BY <1>1, <1>2, EmptyPays, FS_EmptySet DEF Admitted

\* Every step keeps the limiter's account of reservations and budget.
LEMMA AdmittedStep == ASSUME RequestsOK, Admitted, [Next]_vars PROVE Admitted'
<1>0. /\ now \in Nat /\ spent \in Cost
      /\ req \in [Request -> Rec] /\ \A r \in Request : RequestOK(req[r], now)
      /\ LimiterPays(limiter, spent, now)
  BY DEF RequestsOK, Admitted
<1>1. ASSUME NEW r \in Request, NEW i \in Inputs, Begin(r, i)
      PROVE  Admitted'
  <2>. DEFINE q == [pc |-> "admit", in |-> i, at |-> now, answer |-> "none", seen |-> Open(status, revoked, i.key)]
              q1 == IF ~Authenticate(i.key, revoked) \/ ~Normalize(i) \/ Larger(CostOf[i]) THEN NoRequest ELSE q
  <2>1. req[r].pc = "idle" /\ req' = [req EXCEPT ![r] = q1] /\ UNCHANGED <<limiter, spent, now>>
    BY <1>1 DEF Begin
  <2>2. q1.pc \in {"idle", "admit"}
    BY NoRequestTyped
  <2>. HIDE DEF q1
  <2>3. \A x \in Request : req'[x].pc \in Reserved <=> req[x].pc \in Reserved
    BY <1>0, <2>1, <2>2, PhaseNames
  <2>. QED BY <2>1, <2>3, SameHolders
<1>2. ASSUME NEW r \in Request, Admit(r)
      PROVE  Admitted'
  <2>. DEFINE i == req[r].in
              t == req[r].at
              d == AllowIngest(limiter, i.key, CostOf[i], t)
              q == [req[r] EXCEPT !.pc = "project", !.at = 0]
  <2>1. /\ req[r].pc = "admit" /\ limiter' = d.limiter /\ now' = now
        /\ IF d.reason = "none" THEN req' = [req EXCEPT ![r] = q] /\ spent' = Plus(spent, CostOf[i])
           ELSE req' = [req EXCEPT ![r] = NoRequest] /\ spent' = spent
    BY <1>2 DEF Admit
  <2>2. RequestOK(req[r], now) /\ i \in Inputs
    BY <1>0, <2>1 DEF RequestOK, Rec
  <2>3. /\ i.key \in Key /\ CostOf[i].entries \in Nat /\ CostOf[i].bytes \in Nat
        /\ t \in Nat /\ t <= now /\ now - MaxWait <= t
    BY <2>1, <2>2, InputsTyped DEF RequestOK, Rec
  <2>4. IF d.reason = "none"
        THEN LimiterPays(d.limiter, Plus(spent, CostOf[i]), now) /\ InFlight(d.limiter) = InFlight(limiter) + 1
        ELSE LimiterPays(d.limiter, spent, now) /\ InFlight(d.limiter) = InFlight(limiter)
    BY <1>0, <2>3, AllowPays
  <2>5. q.pc = "project"
    BY <1>0 DEF Rec
  <2>. HIDE DEF d, q
  <2>6. CASE d.reason = "none"
    <3>1. Holders(req') = Holders(req) \cup {r} /\ r \notin Holders(req)
      BY <1>0, <2>1, <2>5, <2>6, PhaseNames DEF Holders
    <3>2. Cardinality(Holders(req')) = Cardinality(Holders(req)) + 1
      BY <3>1, HoldersFinite, FS_AddElement
    <3>3. Cardinality(Holders(req)) = InFlight(limiter)
      BY DEF Admitted
    <3>. QED BY <2>1, <2>4, <2>6, <3>2, <3>3 DEF Admitted
  <2>7. CASE d.reason # "none"
    <3>1. Holders(req') = Holders(req)
      BY <1>0, <2>1, <2>7, NoRequestTyped, PhaseNames DEF Holders
    <3>2. Cardinality(Holders(req)) = InFlight(limiter)
      BY DEF Admitted
    <3>. QED BY <2>1, <2>4, <2>7, <3>1, <3>2 DEF Admitted
  <2>. QED BY <2>6, <2>7
<1>3. ASSUME NEW r \in Request, GetProject(r) \/ GetPipeline(r) \/ InsertBatch(r) \/ FindBatch(r) \/ AddUsage(r)
      PROVE  Admitted'
  <2>1. /\ req[r].pc \in InTx /\ UNCHANGED <<limiter, spent, now>>
        /\ \/ \E p \in InTx : Goto(r, p)
           \/ \E a \in Answers : End(r, a)
    BY <1>3 DEF GetProject, GetPipeline, InsertBatch, FindBatch, AddUsage, Unchanged, InTx, Answers
  <2>2. InTx \in SUBSET Phases
    BY DEF Phases, Reserved
  <2>3. \A x \in Request : req'[x].pc \in Reserved <=> req[x].pc \in Reserved
    <3>1. ASSUME NEW p \in InTx, Goto(r, p)
          PROVE  \A x \in Request : req'[x].pc \in Reserved <=> req[x].pc \in Reserved
      BY <1>0, <2>1, <2>2, <3>1, GotoStep DEF Reserved
    <3>2. ASSUME NEW a \in Answers, End(r, a)
          PROVE  \A x \in Request : req'[x].pc \in Reserved <=> req[x].pc \in Reserved
      BY <1>0, <2>1, <3>2, EndStep DEF Reserved
    <3>. QED BY <2>1, <3>1, <3>2
  <2>. QED BY <2>1, <2>3, SameHolders
<1>4. ASSUME NEW r \in Request, Commit(r) \/ Fail(r) \/ CommitUnheard(r)
      PROVE  Admitted'
  <2>1. /\ req[r].pc \in InTx /\ UNCHANGED <<limiter, spent, now>>
        /\ \E a \in Answers : End(r, a)
    BY <1>4 DEF Commit, Fail, CommitUnheard, InTx, Answers
  <2>2. \A x \in Request : req'[x].pc \in Reserved <=> req[x].pc \in Reserved
    BY <1>0, <2>1, EndStep DEF Reserved
  <2>. QED BY <2>1, <2>2, SameHolders
<1>5. ASSUME NEW r \in Request, Finish(r)
      PROVE  Admitted'
  <2>. DEFINE i == req[r].in
              t == req[r].at
              refund == req[r].answer # "accepted"
  <2>1. /\ req[r].pc = "finish" /\ now' = now
        /\ limiter' = finish(limiter, CostOf[i], refund, t)
        /\ spent' = IF refund THEN Minus(spent, CostOf[i]) ELSE spent
        /\ req' = [req EXCEPT ![r] = NoRequest]
    BY <1>5 DEF Finish
  <2>2. RequestOK(req[r], now) /\ i \in Inputs
    BY <1>0, <2>1 DEF RequestOK, Rec
  <2>3. /\ CostOf[i].entries \in Nat /\ CostOf[i].bytes \in Nat /\ refund \in BOOLEAN
        /\ t \in Nat /\ t <= now /\ now - MaxWait <= t
    BY <2>1, <2>2, InputsTyped DEF RequestOK, Rec
  <2>4. Holders(req') = Holders(req) \ {r} /\ r \in Holders(req)
    BY <1>0, <2>1, NoRequestTyped, PhaseNames DEF Holders
  <2>5. Cardinality(Holders(req')) = Cardinality(Holders(req)) - 1 /\ Cardinality(Holders(req)) \in Nat
    BY <2>4, HoldersFinite, FS_RemoveElement
  <2>6. Cardinality(Holders(req')) \in Nat /\ Cardinality(Holders(req)) = InFlight(limiter)
    BY HoldersFinite DEF Admitted
  <2>7. InFlight(limiter) > 0
    BY <2>5, <2>6
  <2>. HIDE DEF refund, i, t
  <2>8. /\ LimiterPays(limiter', spent', now)
        /\ InFlight(limiter') = InFlight(limiter) - 1
    BY <1>0, <2>1, <2>3, <2>7, FinishPays
  <2>. QED BY <2>1, <2>5, <2>6, <2>8 DEF Admitted
<1>6. CASE Tick
  <2>1. now' \in Nat /\ now <= now' /\ UNCHANGED <<limiter, req, spent>>
    BY <1>0, <1>6, InputsTyped DEF Tick
  <2>2. LimiterPays(limiter, spent, now')
    BY <1>0, <2>1, LaterPays
  <2>. QED BY <2>1, <2>2 DEF Admitted
<1>7. CASE SetProjectStatus \/ SetPipelineStatus \/ RevokeKey
  <2>1. PICK st, rev : Change(st, rev)
    BY <1>7 DEF SetProjectStatus, SetPipelineStatus, RevokeKey
  <2>2. req' = Observe(st, rev) /\ UNCHANGED <<limiter, spent, now>>
    BY <2>1 DEF Change
  <2>3. ASSUME NEW x \in Request
        PROVE  req'[x].pc = req[x].pc
    BY <1>0, <2>2 DEF Observe, Rec
  <2>. QED BY <2>2, <2>3, SameHolders
<1>8. CASE Crash
  <2>1. /\ req' = [r \in Request |-> NoRequest] /\ limiter' = Empty /\ spent' = Zero /\ now' = now
    BY <1>8 DEF Crash
  <2>2. Holders(req') = {}
    BY <2>1, NoRequestTyped, PhaseNames DEF Holders
  <2>. QED BY <1>0, <2>1, <2>2, EmptyPays, FS_EmptySet DEF Admitted
<1>9. CASE UNCHANGED vars
  BY <1>9 DEF Admitted, vars
<1>. QED BY <1>1, <1>2, <1>3, <1>4, <1>5, <1>6, <1>7, <1>8, <1>9 DEF Next, Accept

-----------------------------------------------------------------------------
(* Boundaries.                                                             *)

\* Steps of one request that see no change of the boundaries.
LEMMA SeenMoves ==
  ASSUME Observed, NEW r \in Request, SeenOK(req'[r], status, revoked),
         \A x \in Request : x # r => req'[x] = req[x], UNCHANGED envVars
  PROVE  Observed'
BY DEF Observed, envVars

\* A free slot, and a request at its end, have nothing to see.
LEMMA SeenDone == \A q, st, rev : q.pc \in {"idle", "finish"} => SeenOK(q, st, rev)
BY DEF SeenOK, InTx

\* Every step keeps what the requests in progress have seen.
LEMMA ObservedStep == ASSUME RequestsOK, Observed, [Next]_vars PROVE Observed'
<1>0. /\ now \in Nat
      /\ req \in [Request -> Rec] /\ \A r \in Request : RequestOK(req[r], now)
      /\ \A r \in Request : SeenOK(req[r], status, revoked)
  BY DEF RequestsOK, Observed
<1>1. ASSUME NEW r \in Request, NEW i \in Inputs, Begin(r, i)
      PROVE  Observed'
  <2>. DEFINE q == [pc |-> "admit", in |-> i, at |-> now, answer |-> "none", seen |-> Open(status, revoked, i.key)]
              q1 == IF ~Authenticate(i.key, revoked) \/ ~Normalize(i) \/ Larger(CostOf[i]) THEN NoRequest ELSE q
  <2>1. req' = [req EXCEPT ![r] = q1] /\ UNCHANGED envVars
    BY <1>1 DEF Begin
  <2>2. Authenticate(i.key, revoked) => SeenOK(q, status, revoked)
    BY DEF SeenOK, Open, Boundaries, InTx
  <2>3. SeenOK(q1, status, revoked)
    BY <2>2, SeenDone, NoRequestTyped
  <2>. HIDE DEF q1
  <2>4. SeenOK(req'[r], status, revoked) /\ \A x \in Request : x # r => req'[x] = req[x]
    BY <1>0, <2>1, <2>3
  <2>. QED BY <2>1, <2>4, SeenMoves
<1>2. ASSUME NEW r \in Request, Admit(r)
      PROVE  Observed'
  <2>. DEFINE q == [req[r] EXCEPT !.pc = "project", !.at = 0]
  <2>1. req[r].pc = "admit" /\ UNCHANGED envVars /\ (req' = [req EXCEPT ![r] = q] \/ req' = [req EXCEPT ![r] = NoRequest])
    BY <1>2 DEF Admit
  <2>2. q.pc = "project" /\ q.in = req[r].in /\ q.seen = req[r].seen
    BY <1>0 DEF Rec
  <2>. HIDE DEF q
  <2>3. SeenOK(q, status, revoked)
    BY <1>0, <2>1, <2>2 DEF SeenOK, InTx
  <2>4. SeenOK(req'[r], status, revoked) /\ \A x \in Request : x # r => req'[x] = req[x]
    BY <1>0, <2>1, <2>3, SeenDone, NoRequestTyped
  <2>. QED BY <2>1, <2>4, SeenMoves
<1>3. ASSUME NEW r \in Request, NEW a \in Answers, End(r, a), UNCHANGED envVars
      PROVE  Observed'
  <2>1. req'[r].pc = "finish" /\ \A x \in Request : x # r => req'[x] = req[x]
    BY <1>0, <1>3, EndStep
  <2>. QED BY <1>3, <2>1, SeenDone, SeenMoves
<1>4. ASSUME NEW r \in Request, NEW p \in InTx \ {"project"}, Goto(r, p), Unchanged,
             \/ req[r].pc = "project" /\ p = "pipeline" /\ CanIngest(status)
             \/ req[r].pc = "pipeline" /\ PipelineUsable(status)
             \/ req[r].pc \in InTx \ {"project", "pipeline"}
      PROVE  Observed'
  <2>1. p \in Phases /\ UNCHANGED envVars
    BY <1>4 DEF Phases, Reserved, Unchanged
  <2>2. /\ req'[r].pc = p /\ req'[r].in = req[r].in /\ req'[r].seen = req[r].seen
        /\ \A x \in Request : x # r => req'[x] = req[x]
    BY <1>0, <1>4, <2>1, GotoStep
  <2>3. SeenOK(req[r], status, revoked) /\ req[r].pc \in InTx
    BY <1>0, <1>4 DEF InTx
  <2>4. "key" \in req[r].seen /\ Open(status, revoked, req[r].in.key) \in SUBSET req[r].seen
    BY <2>3 DEF SeenOK
  <2>5. "project" \in req[r].seen
    BY <1>4, <2>3, <2>4 DEF SeenOK, Open, Boundaries
  <2>6. p # "pipeline" => "pipeline" \in req[r].seen
    BY <1>4, <2>3, <2>4 DEF SeenOK, Open, Boundaries
  <2>7. SeenOK(req'[r], status, revoked)
    BY <2>2, <2>4, <2>5, <2>6 DEF SeenOK
  <2>. QED BY <2>1, <2>2, <2>7, SeenMoves
<1>5. ASSUME NEW r \in Request, GetProject(r) \/ GetPipeline(r)
      PROVE  Observed'
  <2>1. Unchanged /\ UNCHANGED envVars /\ "unavailable" \in Answers
    BY <1>5 DEF GetProject, GetPipeline, Unchanged, Answers
  <2>2. \/ Goto(r, "pipeline") /\ req[r].pc = "project" /\ CanIngest(status)
        \/ Goto(r, "insert") /\ req[r].pc = "pipeline" /\ PipelineUsable(status)
        \/ End(r, "unavailable")
    BY <1>5 DEF GetProject, GetPipeline
  <2>3. "pipeline" \in InTx \ {"project"} /\ "insert" \in InTx \ {"project"}
    BY DEF InTx
  <2>. QED BY <1>3, <1>4, <2>1, <2>2, <2>3
<1>6. ASSUME NEW r \in Request, InsertBatch(r) \/ FindBatch(r) \/ AddUsage(r)
      PROVE  Observed'
  <2>1. Unchanged /\ UNCHANGED envVars /\ "conflict" \in Answers
    BY <1>6 DEF InsertBatch, FindBatch, AddUsage, Unchanged, Answers
  <2>2. /\ req[r].pc \in InTx \ {"project", "pipeline"}
        /\ (\E p \in {"entries", "find", "found", "commit"} : Goto(r, p)) \/ End(r, "conflict")
    BY <1>6 DEF InsertBatch, FindBatch, AddUsage, InTx
  <2>3. {"entries", "find", "found", "commit"} \in SUBSET (InTx \ {"project"})
    BY DEF InTx
  <2>. QED BY <1>3, <1>4, <2>1, <2>2, <2>3
<1>7. ASSUME NEW r \in Request, Commit(r) \/ Fail(r) \/ CommitUnheard(r)
      PROVE  Observed'
  <2>1. UNCHANGED envVars /\ \E a \in Answers : End(r, a)
    BY <1>7 DEF Commit, Fail, CommitUnheard, Answers
  <2>. QED BY <1>3, <2>1
<1>8. ASSUME NEW r \in Request, Finish(r)
      PROVE  Observed'
  <2>1. req' = [req EXCEPT ![r] = NoRequest] /\ UNCHANGED envVars
    BY <1>8 DEF Finish
  <2>2. req'[r].pc = "idle" /\ \A x \in Request : x # r => req'[x] = req[x]
    BY <1>0, <2>1, NoRequestTyped
  <2>. QED BY <2>1, <2>2, SeenDone, SeenMoves
<1>9. CASE Tick
  BY <1>9 DEF Tick, Observed, envVars
<1>10. CASE SetProjectStatus \/ SetPipelineStatus \/ RevokeKey
  <2>1. PICK st, rev : Change(st, rev)
    BY <1>10 DEF SetProjectStatus, SetPipelineStatus, RevokeKey
  <2>2. req' = Observe(st, rev) /\ status' = st /\ revoked' = rev
    BY <2>1 DEF Change
  <2>3. ASSUME NEW r \in Request
        PROVE  SeenOK(req'[r], st, rev)
    <3>1. CASE req[r].pc \in {"idle", "finish"}
      BY <2>2, <3>1, SeenDone DEF Observe
    <3>2. CASE req[r].pc \notin {"idle", "finish"}
      <4>. DEFINE o == Open(st, rev, req[r].in.key)
                  q == [req[r] EXCEPT !.seen = @ \cup o]
      <4>1. req'[r] = q
        BY <2>2, <3>2 DEF Observe
      <4>2. q.pc = req[r].pc /\ q.in = req[r].in /\ q.seen = req[r].seen \cup o
        BY <1>0 DEF Rec
      <4>. HIDE DEF q
      <4>3. SeenOK(req[r], status, revoked)
        BY <1>0
      <4>. QED BY <4>1, <4>2, <4>3 DEF SeenOK
    <3>. QED BY <3>1, <3>2
  <2>. QED BY <2>2, <2>3 DEF Observed
<1>11. CASE Crash
  <2>1. \A r \in Request : req'[r].pc = "idle"
    BY <1>11, NoRequestTyped DEF Crash
  <2>. QED BY <2>1, SeenDone DEF Observed
<1>12. CASE UNCHANGED vars
  BY <1>12 DEF Observed, vars, envVars
<1>. QED BY <1>1, <1>2, <1>5, <1>6, <1>7, <1>8, <1>9, <1>10, <1>11, <1>12 DEF Next, Accept

-----------------------------------------------------------------------------
(* The tables.                                                             *)

\* What a commit of the inserting transaction does to tables that agree.
LEMMA StoreKeeps ==
  ASSUME TablesTyped, StoredOnce, NEW r \in Request, NEW i \in Inputs, req[r].in = i, stored[i.batch] = Nothing, Store(r)
  PROVE  /\ TablesTyped' /\ StoredOnce'
         /\ stored'[i.batch] = Row(i) /\ \A b \in Batch : b # i.batch => stored'[b] = stored[b]
<1>. DEFINE z == i.batch
            held == {b \in Batch : stored[b] # Nothing}
            held1 == {b \in Batch : stored'[b] # Nothing}
<1>0. /\ stored \in [Batch -> {Row(j) : j \in Inputs} \cup {Nothing}]
      /\ \A b \in Batch : stored[b] \in RowsOf(b) \cup {Nothing}
      /\ rows \in [Batch -> Nat] /\ usage \in [entries : Nat, bytes : Nat]
      /\ \A b \in Batch : rows[b] = IF stored[b] = Nothing THEN 0 ELSE 1
      /\ \A c \in Costs : usage[c] = SumFunctionOnSet([b \in held |-> stored[b].cost[c]], held)
  BY DEF TablesTyped, StoredOnce, Costs
<1>1. z \in Batch /\ Row(i) # Nothing /\ CostOf[i].entries \in Nat /\ CostOf[i].bytes \in Nat
  BY InputsTyped
<1>2. /\ stored' = [stored EXCEPT ![z] = Row(i)]
      /\ rows' = [rows EXCEPT ![z] = @ + 1]
      /\ usage' = Plus(usage, CostOf[i])
  BY DEF Store
<1>3. stored'[z] = Row(i) /\ \A b \in Batch : b # z => stored'[b] = stored[b]
  BY <1>0, <1>1, <1>2
<1>4. TablesTyped'
  <2>1. stored' \in [Batch -> {Row(j) : j \in Inputs} \cup {Nothing}]
    BY <1>0, <1>2
  <2>2. \A b \in Batch : stored'[b] \in RowsOf(b) \cup {Nothing}
    BY <1>0, <1>3 DEF RowsOf
  <2>3. rows' \in [Batch -> Nat] /\ usage' \in [entries : Nat, bytes : Nat]
    BY <1>0, <1>1, <1>2 DEF Plus
  <2>. QED BY <2>1, <2>2, <2>3 DEF TablesTyped
<1>5. \A b \in Batch : rows'[b] = IF stored'[b] = Nothing THEN 0 ELSE 1
  BY <1>0, <1>1, <1>2, <1>3
<1>6. held1 = held \cup {z} /\ z \notin held /\ IsFiniteSet(held)
  <2>1. IsFiniteSet(held)
    BY InputsTyped, FS_Subset
  <2>. QED BY <1>1, <1>3, <2>1
<1>7. ASSUME NEW c \in Costs
      PROVE  usage'[c] = SumFunctionOnSet([b \in held1 |-> stored'[b].cost[c]], held1)
  <2>. DEFINE f == [b \in held |-> stored[b].cost[c]]
              g == [b \in held1 |-> stored'[b].cost[c]]
  <2>1. Row(i).cost = CostOf[i] /\ \A j \in Inputs : Row(j).cost[c] \in Nat
    BY InputsTyped DEF Row, Costs
  <2>2. \A b \in held : f[b] \in Nat /\ g[b] = f[b]
    <3>1. \A b \in held : stored[b] \in {Row(j) : j \in Inputs} /\ b \in held1 /\ b # z /\ b \in Batch
      BY <1>0, <1>6
    <3>. QED BY <1>3, <2>1, <3>1
  <2>3. g[z] = CostOf[i][c] /\ CostOf[i][c] \in Nat
    BY <1>1, <1>3, <1>6, <2>1 DEF Costs
  <2>. HIDE DEF f, g, held, held1
  <2>4. SumFunctionOnSet(g, held \cup {z}) = g[z] + SumFunctionOnSet(g, held)
    BY <1>6, <2>2, <2>3, SumWith
  <2>5. SumFunctionOnSet(g, held) = SumFunctionOnSet(f, held)
    BY <1>6, <2>2, SumOfEqual
  <2>6. usage[c] = SumFunctionOnSet(f, held) /\ usage[c] \in Nat
    BY <1>0 DEF f, Costs
  <2>7. usage'[c] = usage[c] + CostOf[i][c]
    BY <1>2 DEF Plus, Costs
  <2>. QED BY <1>6, <2>3, <2>4, <2>5, <2>6, <2>7 DEF g
<1>8. StoredOnce'
  BY <1>5, <1>7 DEF StoredOnce, Costs
<1>. QED BY <1>3, <1>4, <1>8

\* Steps that leave the tables alone.
LEMMA TablesSame ==
  ASSUME TablesTyped, StoredOnce, UNCHANGED dbVars
  PROVE  TablesTyped' /\ StoredOnce'
BY DEF TablesTyped, StoredOnce, dbVars

\* Steps of one request that leave them alone.
LEMMA InsertedMoves ==
  ASSUME InsertedOnce, NEW r \in Request, FoundOK(req'[r]),
         \A x \in Request : x # r => req'[x] = req[x],
         \A x \in Request : x # r /\ req'[r].pc \in Inserted /\ req[x].pc \in Inserted => req[x].in.batch # req'[r].in.batch,
         UNCHANGED dbVars
  PROVE  InsertedOnce'
<1>1. \A x \in Request : FoundOK(req'[x])
  BY DEF InsertedOnce
<1>2. stored' = stored
  BY DEF dbVars
<1>3. \A x \in Request : FoundOK(req[x])'
  BY <1>1, <1>2 DEF FoundOK
<1>4. \A x, y \in Request : req'[x].pc \in Inserted /\ req'[y].pc \in Inserted /\ req'[x].in.batch = req'[y].in.batch => x = y
  BY DEF InsertedOnce
<1>. QED BY <1>3, <1>4 DEF InsertedOnce

\* A request outside the second half of its transaction has found nothing.
LEMMA FoundNothing == \A q : q.pc \notin Inserted \cup {"find", "found"} => FoundOK(q)
BY DEF FoundOK

\* Every step keeps the tables in agreement with each other and with what the
\* open transactions have inserted or found.
LEMMA TablesStep ==
  ASSUME RequestsOK, TablesTyped, InsertedOnce, StoredOnce, [Next]_vars
  PROVE  TablesTyped' /\ InsertedOnce' /\ StoredOnce'
<1>0. /\ now \in Nat
      /\ req \in [Request -> Rec] /\ \A r \in Request : RequestOK(req[r], now)
      /\ \A r \in Request : FoundOK(req[r])
      /\ \A r, q \in Request : req[r].pc \in Inserted /\ req[q].pc \in Inserted /\ req[r].in.batch = req[q].in.batch => r = q
  BY DEF RequestsOK, InsertedOnce
<1>1. ASSUME NEW r \in Request, req'[r].pc \notin Inserted \cup {"find", "found"},
             \A x \in Request : x # r => req'[x] = req[x], UNCHANGED dbVars
      PROVE  TablesTyped' /\ InsertedOnce' /\ StoredOnce'
  BY <1>1, FoundNothing, InsertedMoves, TablesSame
<1>2. ASSUME NEW r \in Request, NEW i \in Inputs, Begin(r, i)
      PROVE  TablesTyped' /\ InsertedOnce' /\ StoredOnce'
  <2>. DEFINE q == [pc |-> "admit", in |-> i, at |-> now, answer |-> "none", seen |-> Open(status, revoked, i.key)]
              q1 == IF ~Authenticate(i.key, revoked) \/ ~Normalize(i) \/ Larger(CostOf[i]) THEN NoRequest ELSE q
  <2>1. req' = [req EXCEPT ![r] = q1] /\ UNCHANGED dbVars
    BY <1>2 DEF Begin
  <2>2. q1.pc \in {"idle", "admit"}
    BY NoRequestTyped
  <2>. HIDE DEF q1
  <2>3. req'[r].pc \notin Inserted \cup {"find", "found"} /\ \A x \in Request : x # r => req'[x] = req[x]
    BY <1>0, <2>1, <2>2 DEF Inserted
  <2>. QED BY <1>1, <2>1, <2>3
<1>3. ASSUME NEW r \in Request, Admit(r) \/ Finish(r)
      PROVE  TablesTyped' /\ InsertedOnce' /\ StoredOnce'
  <2>. DEFINE q == [req[r] EXCEPT !.pc = "project", !.at = 0]
  <2>1. UNCHANGED dbVars /\ (req' = [req EXCEPT ![r] = q] \/ req' = [req EXCEPT ![r] = NoRequest])
    BY <1>3 DEF Admit, Finish
  <2>2. q.pc = "project"
    BY <1>0 DEF Rec
  <2>. HIDE DEF q
  <2>3. req'[r].pc \notin Inserted \cup {"find", "found"} /\ \A x \in Request : x # r => req'[x] = req[x]
    BY <1>0, <2>1, <2>2, NoRequestTyped DEF Inserted
  <2>. QED BY <1>1, <2>1, <2>3
<1>4. ASSUME NEW r \in Request, NEW a \in Answers, End(r, a), UNCHANGED dbVars
      PROVE  TablesTyped' /\ InsertedOnce' /\ StoredOnce'
  <2>1. req'[r].pc \notin Inserted \cup {"find", "found"} /\ \A x \in Request : x # r => req'[x] = req[x]
    BY <1>0, <1>4, EndStep DEF Inserted
  <2>. QED BY <1>1, <1>4, <2>1
<1>5. ASSUME NEW r \in Request, GetProject(r) \/ GetPipeline(r)
      PROVE  TablesTyped' /\ InsertedOnce' /\ StoredOnce'
  <2>1. UNCHANGED dbVars /\ "unavailable" \in Answers
    BY <1>5 DEF GetProject, GetPipeline, Unchanged, Answers
  <2>2. \/ \E p \in {"pipeline", "insert"} : Goto(r, p)
        \/ End(r, "unavailable")
    BY <1>5 DEF GetProject, GetPipeline
  <2>3. ASSUME NEW p \in {"pipeline", "insert"}, Goto(r, p)
        PROVE  req'[r].pc \notin Inserted \cup {"find", "found"} /\ \A x \in Request : x # r => req'[x] = req[x]
    BY <1>0, <2>3, GotoStep, PhaseNames DEF Inserted
  <2>. QED BY <1>1, <1>4, <2>1, <2>2, <2>3
<1>6. ASSUME NEW r \in Request, InsertBatch(r)
      PROVE  TablesTyped' /\ InsertedOnce' /\ StoredOnce'
  <2>. DEFINE b == req[r].in.batch
              p == IF stored[b] = Nothing THEN "entries" ELSE "find"
  <2>1. Goto(r, p) /\ ~Waits(r) /\ UNCHANGED dbVars
    BY <1>6 DEF InsertBatch, Unchanged
  <2>2. p \in Phases /\ p \in {"entries", "find"}
    BY PhaseNames
  <2>3. req'[r].pc = p /\ req'[r].in = req[r].in /\ \A x \in Request : x # r => req'[x] = req[x]
    BY <1>0, <2>1, <2>2, GotoStep
  <2>4. FoundOK(req'[r])
    BY <2>3 DEF FoundOK, Inserted
  <2>5. \A x \in Request : x # r /\ req[x].pc \in Inserted => req[x].in.batch # b
    BY <2>1 DEF Waits
  <2>. QED BY <2>1, <2>3, <2>4, <2>5, InsertedMoves, TablesSame
<1>7. ASSUME NEW r \in Request, FindBatch(r)
      PROVE  TablesTyped' /\ InsertedOnce' /\ StoredOnce'
  <2>1. UNCHANGED dbVars /\ "conflict" \in Answers /\ req[r].pc = "find"
    BY <1>7 DEF FindBatch, Unchanged, Answers
  <2>2. CASE VerifyRetry(stored[req[r].in.batch], req[r].in)
    <3>1. Goto(r, "found") /\ "found" \in Phases
      BY <1>7, <2>2, PhaseNames DEF FindBatch
    <3>2. req'[r].pc = "found" /\ req'[r].in = req[r].in /\ \A x \in Request : x # r => req'[x] = req[x]
      BY <1>0, <3>1, GotoStep
    <3>3. FoundOK(req'[r]) /\ req'[r].pc \notin Inserted
      BY <1>0, <2>1, <2>2, <3>2 DEF FoundOK, Inserted, VerifyRetry
    <3>. QED BY <2>1, <3>2, <3>3, InsertedMoves, TablesSame
  <2>3. CASE ~VerifyRetry(stored[req[r].in.batch], req[r].in)
    BY <1>4, <1>7, <2>1, <2>3 DEF FindBatch
  <2>. QED BY <2>2, <2>3
<1>8. ASSUME NEW r \in Request, AddUsage(r)
      PROVE  TablesTyped' /\ InsertedOnce' /\ StoredOnce'
  <2>1. Goto(r, "commit") /\ "commit" \in Phases /\ req[r].pc = "entries" /\ UNCHANGED dbVars
    BY <1>8, PhaseNames DEF AddUsage, Unchanged
  <2>2. req'[r].pc = "commit" /\ req'[r].in = req[r].in /\ \A x \in Request : x # r => req'[x] = req[x]
    BY <1>0, <2>1, GotoStep
  <2>3. FoundOK(req'[r])
    BY <1>0, <2>1, <2>2 DEF FoundOK, Inserted
  <2>4. \A x \in Request : x # r /\ req[x].pc \in Inserted => req[x].in.batch # req'[r].in.batch
    BY <1>0, <2>1, <2>2 DEF Inserted
  <2>. QED BY <2>1, <2>2, <2>3, <2>4, InsertedMoves, TablesSame
<1>9. ASSUME NEW r \in Request, req[r].pc = "commit", Store(r), NEW a \in Answers, End(r, a)
      PROVE  TablesTyped' /\ InsertedOnce' /\ StoredOnce'
  <2>. DEFINE i == req[r].in
  <2>1. i \in Inputs /\ stored[i.batch] = Nothing /\ Row(i) # Nothing
    BY <1>0, <1>9, InputsTyped DEF RequestOK, Rec, FoundOK, Inserted
  <2>2. /\ TablesTyped' /\ StoredOnce'
        /\ stored'[i.batch] = Row(i) /\ \A b \in Batch : b # i.batch => stored'[b] = stored[b]
    BY <1>9, <2>1, StoreKeeps
  <2>3. req'[r].pc = "finish" /\ \A x \in Request : x # r => req'[x] = req[x]
    BY <1>0, <1>9, EndStep
  <2>4. ASSUME NEW x \in Request, x # r
        PROVE  FoundOK(req[x])'
    <3>1. CASE req[x].pc \in Inserted \cup {"find", "found"}
      <4>1. req[x].in \in Inputs /\ req[x].in.batch \in Batch
        BY <1>0, <3>1, InputsTyped DEF RequestOK, Rec, Inserted
      <4>2. req[x].pc \in Inserted => req[x].in.batch # i.batch
        BY <1>0, <1>9, <2>4 DEF Inserted
      <4>3. req'[x] = req[x] /\ FoundOK(req[x])
        BY <1>0, <2>3, <2>4
      <4>. QED BY <2>1, <2>2, <4>1, <4>2, <4>3 DEF FoundOK
    <3>2. CASE req[x].pc \notin Inserted \cup {"find", "found"}
      BY <2>3, <2>4, <3>2 DEF FoundOK
    <3>. QED BY <3>1, <3>2
  <2>5. FoundOK(req[r])'
    BY <2>3 DEF FoundOK, Inserted
  <2>6. \A x, y \in Request : req'[x].pc \in Inserted /\ req'[y].pc \in Inserted /\ req'[x].in.batch = req'[y].in.batch => x = y
    BY <1>0, <2>3 DEF Inserted
  <2>. QED BY <2>2, <2>4, <2>5, <2>6 DEF InsertedOnce
<1>10. ASSUME NEW r \in Request, Commit(r) \/ Fail(r) \/ CommitUnheard(r)
       PROVE  TablesTyped' /\ InsertedOnce' /\ StoredOnce'
  <2>1. \/ UNCHANGED dbVars /\ \E a \in Answers : End(r, a)
        \/ req[r].pc = "commit" /\ Store(r) /\ \E a \in Answers : End(r, a)
    BY <1>10 DEF Commit, Fail, CommitUnheard, Answers
  <2>. QED BY <1>4, <1>9, <2>1
<1>11. CASE Tick
  <2>1. UNCHANGED dbVars /\ UNCHANGED req
    BY <1>11 DEF Tick
  <2>2. InsertedOnce'
    BY <2>1 DEF InsertedOnce, FoundOK, dbVars
  <2>. QED BY <2>1, <2>2, TablesSame
<1>12. CASE SetProjectStatus \/ SetPipelineStatus \/ RevokeKey
  <2>1. PICK st, rev : Change(st, rev)
    BY <1>12 DEF SetProjectStatus, SetPipelineStatus, RevokeKey
  <2>2. req' = Observe(st, rev) /\ UNCHANGED dbVars /\ stored' = stored
    BY <2>1 DEF Change, dbVars
  <2>3. \A x \in Request : req'[x].pc = req[x].pc /\ req'[x].in = req[x].in
    BY <1>0, <2>2 DEF Observe, Rec
  <2>4. ASSUME NEW x \in Request
        PROVE  FoundOK(req[x])'
    BY <1>0, <2>2, <2>3 DEF FoundOK
  <2>5. InsertedOnce'
    BY <1>0, <2>3, <2>4 DEF InsertedOnce
  <2>. QED BY <2>2, <2>5, TablesSame
<1>13. CASE Crash
  <2>1. UNCHANGED dbVars /\ \A r \in Request : req'[r].pc = "idle"
    BY <1>13, NoRequestTyped DEF Crash
  <2>2. InsertedOnce'
    BY <2>1 DEF InsertedOnce, FoundOK, Inserted
  <2>. QED BY <2>1, <2>2, TablesSame
<1>14. CASE UNCHANGED vars
  <2>1. UNCHANGED dbVars /\ UNCHANGED req
    BY <1>14 DEF vars
  <2>2. InsertedOnce'
    BY <2>1 DEF InsertedOnce, FoundOK, dbVars
  <2>. QED BY <2>1, <2>2, TablesSame
<1>. QED BY <1>2, <1>3, <1>5, <1>6, <1>7, <1>8, <1>10, <1>11, <1>12, <1>13, <1>14 DEF Next, Accept

-----------------------------------------------------------------------------
(* The theorems.                                                           *)

\* The tables are empty and agree in the initial states.
LEMMA TablesInit == ASSUME Init PROVE TablesTyped /\ Observed /\ InsertedOnce /\ StoredOnce
<1>1. /\ req = [r \in Request |-> NoRequest] /\ stored = [b \in Batch |-> Nothing]
      /\ rows = [b \in Batch |-> 0] /\ usage = Zero
  BY DEF Init
<1>2. TablesTyped
  BY <1>1 DEF TablesTyped, Zero
<1>3. \A r \in Request : req[r].pc = "idle"
  BY <1>1, NoRequestTyped
<1>4. Observed
  BY <1>3, SeenDone DEF Observed
<1>5. InsertedOnce
  BY <1>3 DEF InsertedOnce, FoundOK, Inserted
<1>6. StoredOnce
  <2>. DEFINE held == {b \in Batch : stored[b] # Nothing}
  <2>1. held = {}
    BY <1>1
  <2>. HIDE DEF held
  <2>2. \A f : SumFunctionOnSet(f, held) = 0
    BY <2>1, SumStep, FS_EmptySet
  <2>3. \A c \in {"entries", "bytes"} : usage[c] = 0
    BY <1>1 DEF Zero
  <2>4. \A b \in Batch : rows[b] = IF stored[b] = Nothing THEN 0 ELSE 1
    BY <1>1
  <2>. QED BY <2>2, <2>3, <2>4 DEF StoredOnce, held
<1>. QED BY <1>2, <1>4, <1>5, <1>6

\* The inductive invariant: requests, clock readings and tables typed; the
\* limiter pays for what was spent and counts the reservations; a request has
\* seen open what it passed; inserted rows are the only ones of their batch.
THEOREM IngestInvariant == Spec => []IngestInv
<1>1. Init => IngestInv
  BY RequestsInit, AdmittedInit, TablesInit DEF IngestInv
<1>2. IngestInv /\ [Next]_vars => IngestInv'
  BY RequestsStep, AdmittedStep, ObservedStep, TablesStep DEF IngestInv
<1>. QED BY <1>1, <1>2, PTL DEF Spec

\* Type correctness of requests, limiter and tables.
THEOREM IngestTypeCorrect == Spec => []TypeOK
<1>1. IngestInv => TypeOK
  <2>. SUFFICES ASSUME IngestInv PROVE TypeOK
    OBVIOUS
  <2>1. RequestsOK /\ TablesTyped /\ LimiterPays(limiter, spent, now)
    BY DEF IngestInv, Admitted
  <2>2. /\ limiter.keys \in [Key -> KeyState \cup {Absent}]
        /\ limiter.project \in ProjectState \cup {Absent}
        /\ limiter.lastCleanup \in -Minute..now
    BY <2>1, LimitsTyped DEF LimiterPays, RequestsOK
  <2>3. ASSUME NEW r \in Request
        PROVE  /\ req[r].pc \in {"idle", "admit"} \cup Reserved
               /\ req[r].in \in Inputs \cup {Nothing}
               /\ req[r].in = Nothing <=> req[r].pc = "idle"
               /\ req[r].at \in 0..now
               /\ req[r].answer \in Answers
               /\ req[r].seen \subseteq Boundaries
    <3>1. req[r] \in Rec /\ RequestOK(req[r], now) /\ now \in Nat
      BY <2>1 DEF RequestsOK
    <3>. QED BY <3>1 DEF RequestOK, Rec, Phases
  <2>4. \A b \in Batch : stored[b] = Nothing \/ \E i \in Inputs : i.batch = b /\ stored[b] = Row(i)
    BY <2>1 DEF TablesTyped, RowsOf
  <2>. QED BY <2>1, <2>2, <2>3, <2>4 DEF TypeOK, RequestsOK, TablesTyped
<1>. QED BY <1>1, IngestInvariant, PTL

\* Entries, usage and batch rows are committed once and together, whatever is
\* retried, raced or lost.
THEOREM IngestStoresOnce == Spec => []StoredOnce
<1>1. IngestInv => StoredOnce
  BY DEF IngestInv
<1>. QED BY <1>1, IngestInvariant, PTL

\* The limiter counts every reservation once, and a project never gets more
\* than its burst and its rate since the start.
THEOREM IngestAdmitsExactly == Spec => []AdmissionExact
<1>1. IngestInv => AdmissionExact
  <2>. SUFFICES ASSUME IngestInv PROVE AdmissionExact
    OBVIOUS
  <2>1. now \in Nat /\ spent \in Cost /\ LimiterPays(limiter, spent, now) /\ Cardinality(Holders(req)) = InFlight(limiter)
    BY DEF IngestInv, RequestsOK, Admitted
  <2>2. ASSUME NEW c \in Costs
        PROVE  LET tokens == IF limiter.project = Absent THEN 0 ELSE limiter.project[c].tokens
               IN  /\ 0 <= tokens /\ tokens <= Parts(c)
                   /\ spent[c] * Minute + tokens <= Parts(c) + Capacity[c] * now
    <3>1. Capacity[c] \in Nat /\ Parts(c) \in Nat /\ Minute \in Nat /\ MaxWait \in Nat /\ spent[c] \in Int
      BY <2>1, LimitsTyped DEF Costs, Cost
    <3>2. spent[c] * Minute \in Int /\ Capacity[c] * now \in Nat /\ (spent[c] = 0 => spent[c] * Minute = 0)
      BY <2>1, <3>1
    <3>3. CASE limiter.project = Absent
      <4>1. Settled(c, spent[c], limiter.lastCleanup) /\ limiter.lastCleanup \in Int /\ limiter.lastCleanup <= now
        BY <2>1, <3>3 DEF LimiterPays
      <4>2. limiter.lastCleanup - MaxWait \in Int /\ limiter.lastCleanup - MaxWait <= now
        BY <2>1, <3>1, <4>1
      <4>3. /\ Capacity[c] * (limiter.lastCleanup - MaxWait) <= Capacity[c] * now
            /\ Capacity[c] * (limiter.lastCleanup - MaxWait) \in Int
        BY <2>1, <3>1, <4>2, Monotone, Product
      <4>4. spent[c] * Minute <= Capacity[c] * now
        BY <3>2, <4>1, <4>3 DEF Settled
      <4>. QED BY <3>1, <3>2, <3>3, <4>4
    <3>4. CASE limiter.project # Absent
      <4>. DEFINE b == limiter.project[c]
      <4>1. Pays(b, c, spent[c]) /\ b.last <= now
        BY <2>1, <3>4 DEF LimiterPays, ProjectPays
      <4>2. b.last \in Int /\ b.tokens \in Int
        BY <4>1 DEF Pays, Bucket
      <4>3. Capacity[c] * b.last <= Capacity[c] * now /\ Capacity[c] * b.last \in Int
        BY <2>1, <3>1, <4>1, <4>2, Monotone, Product
      <4>4. /\ 0 <= b.tokens /\ b.tokens <= Parts(c)
            /\ spent[c] * Minute + b.tokens <= Parts(c) + Capacity[c] * b.last
        BY <4>1 DEF Pays
      <4>5. spent[c] * Minute + b.tokens <= Parts(c) + Capacity[c] * now
        <5>. HIDE DEF b
        <5>. QED BY <3>1, <3>2, <4>2, <4>3, <4>4
      <4>. QED BY <3>4, <4>4, <4>5
    <3>. QED BY <3>3, <3>4
  <2>. QED BY <2>1, <2>2 DEF AdmissionExact, Holders, InFlight, Costs
<1>. QED BY <1>1, IngestInvariant, PTL

\* A batch is stored only by a request during which its key, its project and
\* its pipeline have each been open.
THEOREM IngestBoundariesHold == Spec => BoundariesHold
<1>1. IngestInv => \A r \in Request : req[r].pc = "commit" => req[r].seen = Boundaries
  <2>. SUFFICES ASSUME IngestInv, NEW r \in Request, req[r].pc = "commit" PROVE req[r].seen = Boundaries
    OBVIOUS
  <2>1. SeenOK(req[r], status, revoked) /\ req[r].seen \in SUBSET Boundaries
    BY DEF IngestInv, Observed, RequestsOK, Rec
  <2>. QED BY <2>1 DEF SeenOK, InTx, Boundaries
<1>2. IngestInv => [\A r \in Request : (req[r].pc = "commit" /\ rows' # rows /\ req'[r].pc # "commit")
                                         => req[r].seen = Boundaries]_vars
  BY <1>1
<1>. QED BY <1>2, IngestInvariant, PTL DEF BoundariesHold

-----------------------------------------------------------------------------
(* The refinement.                                                         *)

\* The ledger's view of the requests.
AskedOf(f) == [r \in Request |-> IF f[r].in = Nothing THEN Nothing ELSE Question(f[r].in)]
ToldOf(f) == [r \in Request |-> f[r].answer]

\* A step that changes no request's input or answer.
LEMMA SameView ==
  ASSUME \A x \in Request : req'[x].in = req[x].in /\ req'[x].answer = req[x].answer
  PROVE  AskedOf(req') = AskedOf(req) /\ ToldOf(req') = ToldOf(req)
BY DEF AskedOf, ToldOf

\* A step of one request.
LEMMA OneView ==
  ASSUME NEW r \in Request, \A x \in Request : x # r => req'[x] = req[x]
  PROVE  /\ AskedOf(req') = [AskedOf(req) EXCEPT ![r] = IF req'[r].in = Nothing THEN Nothing ELSE Question(req'[r].in)]
         /\ ToldOf(req') = [ToldOf(req) EXCEPT ![r] = req'[r].answer]
BY DEF AskedOf, ToldOf

\* A request ends, answered or not.
LEMMA Closes ==
  ASSUME NEW r \in Request, req'[r].in = Nothing, req'[r].answer = "none",
         \A x \in Request : x # r => req'[x] = req[x], stored' = stored
  PROVE  Ledger!Close(r)
<1>1. /\ AskedOf(req') = [AskedOf(req) EXCEPT ![r] = Nothing]
      /\ ToldOf(req') = [ToldOf(req) EXCEPT ![r] = "none"]
  BY OneView
<1>. QED BY <1>1 DEF Ledger!Close, AskedOf, ToldOf

\* A request begins.
LEMMA Asks ==
  ASSUME NEW r \in Request, NEW i \in Inputs, req[r].in = Nothing, req'[r].in = i, req'[r].answer = "none",
         \A x \in Request : x # r => req'[x] = req[x], stored' = stored
  PROVE  Ledger!Ask(r)
<1>1. i # Nothing /\ i.batch \in Batch
  BY InputsTyped
<1>2. /\ AskedOf(req') = [AskedOf(req) EXCEPT ![r] = Question(i)]
      /\ ToldOf(req') = [ToldOf(req) EXCEPT ![r] = "none"]
  BY <1>1, OneView
<1>3. Question(i) \in [batch : Batch, payload : {PayloadOf[j] : j \in Inputs}, cost : {CostOf[j] : j \in Inputs}]
  BY <1>1 DEF Question
<1>4. AskedOf(req)[r] = Nothing
  BY DEF AskedOf
<1>. HIDE DEF Question
<1>. QED BY <1>2, <1>3, <1>4 DEF Ledger!Ask, Ledger!Question, AskedOf, ToldOf

\* A request in progress is given answer a.
LEMMA AnswerView ==
  ASSUME NEW r \in Request, NEW i \in Inputs, req[r].in = i, req'[r].in = i, NEW a, req'[r].answer = a,
         \A x \in Request : x # r => req'[x] = req[x]
  PROVE  /\ Ledger!Answer(r, a)
         /\ AskedOf(req)[r] = Question(i) /\ Question(i) # Nothing
<1>1. i # Nothing /\ Question(i) # Nothing
  BY InputsTyped
<1>2. /\ AskedOf(req') = [AskedOf(req) EXCEPT ![r] = Question(i)]
      /\ ToldOf(req') = [ToldOf(req) EXCEPT ![r] = a]
  BY <1>1, OneView
<1>3. AskedOf(req)[r] = Question(i)
  BY <1>1 DEF AskedOf
<1>4. AskedOf(req') = AskedOf(req)
  BY <1>2, <1>3 DEF AskedOf
<1>. QED BY <1>1, <1>2, <1>3, <1>4 DEF Ledger!Answer, AskedOf, ToldOf

\* The tables of the ledger's actions, seen from request r with input i.
LEMMA EnterView ==
  ASSUME NEW r \in Request, NEW i \in Inputs, req[r].in = i, stored[i.batch] = Nothing, Store(r)
  PROVE  Ledger!Enter(r)
<1>1. AskedOf(req)[r] = Question(i) /\ Question(i) # Nothing
  BY InputsTyped DEF AskedOf
<1>2. /\ Question(i).batch = i.batch /\ Question(i).payload = PayloadOf[i] /\ Question(i).cost = CostOf[i]
      /\ stored' = [stored EXCEPT ![i.batch] = [payload |-> PayloadOf[i], cost |-> CostOf[i]]]
  BY DEF Question, Store, Row
<1>. DEFINE q == Question(i)
<1>3. /\ stored[AskedOf(req)[r].batch] = Nothing
      /\ stored' = [stored EXCEPT ![AskedOf(req)[r].batch] = [payload |-> AskedOf(req)[r].payload, cost |-> AskedOf(req)[r].cost]]
  BY <1>1, <1>2
<1>. QED BY <1>1, <1>3 DEF Ledger!Enter, AskedOf

\* The row of the batch is there, with the payload asked for or another.
LEMMA HeldView ==
  ASSUME NEW r \in Request, NEW i \in Inputs, req[r].in = i, stored[i.batch] # Nothing, stored' = stored,
         NEW same \in BOOLEAN, same = (stored[i.batch].payload = PayloadOf[i])
  PROVE  Ledger!Held(r, same)
<1>1. AskedOf(req)[r] = Question(i) /\ Question(i) # Nothing
  BY InputsTyped DEF AskedOf
<1>2. Question(i).batch = i.batch /\ Question(i).payload = PayloadOf[i]
  BY DEF Question
<1>3. /\ AskedOf(req)[r] # Nothing /\ stored[AskedOf(req)[r].batch] # Nothing
      /\ (stored[AskedOf(req)[r].batch].payload = AskedOf(req)[r].payload) = same
  BY <1>1, <1>2
<1>. QED BY <1>3 DEF Ledger!Held, AskedOf

\* Every step of the transactions is a step of the ledger, or none.
LEMMA LedgerStep ==
  ASSUME IngestInv, [Next]_vars
  PROVE  [Ledger!LedgerNext]_(Ledger!ledgerVars)
<1>0. /\ now \in Nat /\ req \in [Request -> Rec] /\ \A r \in Request : RequestOK(req[r], now)
      /\ \A r \in Request : FoundOK(req[r])
  BY DEF IngestInv, RequestsOK, InsertedOnce
<1>1. ASSUME \A x \in Request : req'[x].in = req[x].in /\ req'[x].answer = req[x].answer, stored' = stored
      PROVE  UNCHANGED Ledger!ledgerVars
  <2>1. AskedOf(req') = AskedOf(req) /\ ToldOf(req') = ToldOf(req)
    BY <1>1, SameView
  <2>. QED BY <1>1, <2>1 DEF Ledger!ledgerVars, AskedOf, ToldOf
<1>2. ASSUME NEW r \in Request, NEW i \in Inputs, Begin(r, i)
      PROVE  Ledger!LedgerNext
  <2>. DEFINE q == [pc |-> "admit", in |-> i, at |-> now, answer |-> "none", seen |-> Open(status, revoked, i.key)]
  <2>1. /\ req[r].pc = "idle" /\ stored' = stored
        /\ req' = [req EXCEPT ![r] = NoRequest] \/ req' = [req EXCEPT ![r] = q]
    BY <1>2 DEF Begin, dbVars
  <2>2. q.in = i /\ q.answer = "none"
    OBVIOUS
  <2>. HIDE DEF q
  <2>3. req[r].in = Nothing
    BY <1>0, <2>1 DEF RequestOK
  <2>4. CASE req' = [req EXCEPT ![r] = NoRequest]
    <3>1. Ledger!Close(r)
      BY <1>0, <2>1, <2>4, NoRequestTyped, Closes
    <3>. QED BY <3>1 DEF Ledger!LedgerNext
  <2>5. CASE req' = [req EXCEPT ![r] = q]
    <3>1. req'[r] = q /\ \A x \in Request : x # r => req'[x] = req[x]
      BY <1>0, <2>5
    <3>2. Ledger!Ask(r)
      BY <2>1, <2>2, <2>3, <3>1, Asks
    <3>. QED BY <3>2 DEF Ledger!LedgerNext
  <2>. QED BY <2>1, <2>4, <2>5
<1>3. ASSUME NEW r \in Request, Admit(r) \/ Finish(r)
      PROVE  [Ledger!LedgerNext]_(Ledger!ledgerVars)
  <2>. DEFINE q == [req[r] EXCEPT !.pc = "project", !.at = 0]
  <2>1. stored' = stored /\ (req' = [req EXCEPT ![r] = q] \/ req' = [req EXCEPT ![r] = NoRequest])
    BY <1>3 DEF Admit, Finish, dbVars
  <2>2. q.in = req[r].in /\ q.answer = req[r].answer
    BY <1>0 DEF Rec
  <2>. HIDE DEF q
  <2>3. CASE req' = [req EXCEPT ![r] = NoRequest]
    <3>1. Ledger!Close(r)
      BY <1>0, <2>1, <2>3, NoRequestTyped, Closes
    <3>. QED BY <3>1 DEF Ledger!LedgerNext
  <2>4. CASE req' = [req EXCEPT ![r] = q]
    <3>1. \A x \in Request : req'[x].in = req[x].in /\ req'[x].answer = req[x].answer
      BY <1>0, <2>2, <2>4
    <3>. QED BY <1>1, <2>1, <3>1
  <2>. QED BY <2>1, <2>3, <2>4
<1>4. ASSUME NEW r \in Request, NEW p \in Phases, Goto(r, p), stored' = stored
      PROVE  UNCHANGED Ledger!ledgerVars
  <2>1. \A x \in Request : req'[x].in = req[x].in /\ req'[x].answer = req[x].answer
    BY <1>0, <1>4, GotoStep
  <2>. QED BY <1>1, <1>4, <2>1
<1>5. ASSUME NEW r \in Request, NEW a \in Answers, End(r, a), req[r].pc # "idle"
      PROVE  Ledger!Answer(r, a) /\ req[r].in \in Inputs
  <2>1. req[r].in \in Inputs
    BY <1>0, <1>5 DEF RequestOK, Rec
  <2>2. /\ req'[r].in = req[r].in /\ req'[r].answer = a
        /\ \A x \in Request : x # r => req'[x] = req[x]
    BY <1>0, <1>5, EndStep
  <2>. QED BY <2>1, <2>2, AnswerView
<1>6. ASSUME NEW r \in Request, NEW a \in {"unavailable", "error"}, End(r, a), req[r].pc # "idle", stored' = stored
      PROVE  Ledger!LedgerNext
  <2>1. a \in Answers
    BY DEF Answers
  <2>2. Ledger!Refuse(r)
    BY <1>5, <1>6, <2>1 DEF Ledger!Refuse
  <2>. QED BY <2>2 DEF Ledger!LedgerNext
<1>7. ASSUME NEW r \in Request, GetProject(r) \/ GetPipeline(r) \/ InsertBatch(r) \/ AddUsage(r)
      PROVE  [Ledger!LedgerNext]_(Ledger!ledgerVars)
  <2>1. /\ req[r].pc # "idle" /\ stored' = stored
        /\ (\E p \in {"pipeline", "insert", "entries", "find", "commit"} : Goto(r, p)) \/ End(r, "unavailable")
    BY <1>7 DEF GetProject, GetPipeline, InsertBatch, AddUsage, Unchanged, dbVars
  <2>2. {"pipeline", "insert", "entries", "find", "commit"} \in SUBSET Phases
    BY PhaseNames
  <2>. QED BY <1>4, <1>6, <2>1, <2>2
<1>8. ASSUME NEW r \in Request, FindBatch(r)
      PROVE  [Ledger!LedgerNext]_(Ledger!ledgerVars)
  <2>. DEFINE i == req[r].in
  <2>1. req[r].pc = "find" /\ stored' = stored /\ i \in Inputs /\ stored[i.batch] # Nothing
    BY <1>0, <1>8 DEF FindBatch, Unchanged, dbVars, RequestOK, Rec, FoundOK
  <2>2. CASE VerifyRetry(stored[i.batch], i)
    BY <1>4, <1>8, <2>1, <2>2, PhaseNames DEF FindBatch
  <2>3. CASE ~VerifyRetry(stored[i.batch], i)
    <3>1. End(r, "conflict") /\ "conflict" \in Answers
      BY <1>8, <2>3 DEF FindBatch, Answers
    <3>2. Ledger!Answer(r, "conflict")
      BY <1>5, <2>1, <3>1
    <3>3. FALSE = (stored[i.batch].payload = PayloadOf[i])
      BY <2>3 DEF VerifyRetry
    <3>4. Ledger!Held(r, FALSE)
      BY <2>1, <3>3, HeldView
    <3>5. Ledger!Conflict(r)
      BY <3>2, <3>4 DEF Ledger!Conflict
    <3>. QED BY <3>5 DEF Ledger!LedgerNext
  <2>. QED BY <2>2, <2>3
<1>9. ASSUME NEW r \in Request, Commit(r)
      PROVE  Ledger!LedgerNext
  <2>. DEFINE i == req[r].in
  <2>1. /\ \/ req[r].pc = "commit" /\ Store(r) /\ End(r, "accepted")
           \/ req[r].pc = "found" /\ End(r, "duplicate") /\ stored' = stored
        /\ {"accepted", "duplicate"} \in SUBSET Answers
    BY <1>9 DEF Commit, dbVars, Answers
  <2>2. i \in Inputs
    BY <1>0, <2>1 DEF RequestOK, Rec
  <2>3. CASE req[r].pc = "commit" /\ Store(r) /\ End(r, "accepted")
    <3>1. Ledger!Answer(r, "accepted")
      BY <1>5, <2>1, <2>3
    <3>2. stored[i.batch] = Nothing
      BY <1>0, <2>3 DEF FoundOK, Inserted
    <3>3. Ledger!Enter(r)
      BY <2>2, <2>3, <3>2, EnterView
    <3>4. Ledger!Accept(r)
      BY <3>1, <3>3 DEF Ledger!Accept
    <3>. QED BY <3>4 DEF Ledger!LedgerNext
  <2>4. CASE req[r].pc = "found" /\ End(r, "duplicate") /\ stored' = stored
    <3>1. Ledger!Answer(r, "duplicate")
      BY <1>5, <2>1, <2>4
    <3>2. stored[i.batch] # Nothing /\ TRUE = (stored[i.batch].payload = PayloadOf[i])
      BY <1>0, <2>4 DEF FoundOK
    <3>3. Ledger!Held(r, TRUE)
      BY <2>2, <2>4, <3>2, HeldView
    <3>4. Ledger!Duplicate(r)
      BY <3>1, <3>3 DEF Ledger!Duplicate
    <3>. QED BY <3>4 DEF Ledger!LedgerNext
  <2>. QED BY <2>1, <2>3, <2>4
<1>10. ASSUME NEW r \in Request, Fail(r)
       PROVE  Ledger!LedgerNext
  <2>1. req[r].pc # "idle" /\ End(r, "error") /\ stored' = stored
    BY <1>10 DEF Fail, dbVars, InTx
  <2>. QED BY <1>6, <2>1
<1>11. ASSUME NEW r \in Request, CommitUnheard(r)
       PROVE  Ledger!LedgerNext
  <2>. DEFINE i == req[r].in
  <2>1. req[r].pc = "commit" /\ End(r, "error") /\ Store(r) /\ "error" \in Answers
    BY <1>11 DEF CommitUnheard, Answers
  <2>2. Ledger!Answer(r, "error") /\ i \in Inputs
    BY <1>5, <2>1
  <2>3. stored[i.batch] = Nothing
    BY <1>0, <2>1 DEF FoundOK, Inserted
  <2>4. Ledger!Enter(r)
    BY <2>1, <2>2, <2>3, EnterView
  <2>5. Ledger!EnterUnheard(r)
    BY <2>2, <2>4 DEF Ledger!EnterUnheard
  <2>. QED BY <2>5 DEF Ledger!LedgerNext
<1>12. CASE Tick
  BY <1>1, <1>12 DEF Tick, dbVars
<1>13. CASE SetProjectStatus \/ SetPipelineStatus \/ RevokeKey
  <2>1. PICK st, rev : Change(st, rev)
    BY <1>13 DEF SetProjectStatus, SetPipelineStatus, RevokeKey
  <2>2. req' = Observe(st, rev) /\ stored' = stored
    BY <2>1 DEF Change, dbVars
  <2>3. \A x \in Request : req'[x].in = req[x].in /\ req'[x].answer = req[x].answer
    BY <1>0, <2>2 DEF Observe, Rec
  <2>. QED BY <1>1, <2>2, <2>3
<1>14. CASE Crash
  <2>1. stored' = stored /\ \A x \in Request : req'[x].in = Nothing /\ req'[x].answer = "none"
    BY <1>14, NoRequestTyped DEF Crash, dbVars
  <2>2. AskedOf(req') = [r \in Request |-> Nothing] /\ ToldOf(req') = [r \in Request |-> "none"]
    BY <2>1 DEF AskedOf, ToldOf
  <2>3. Ledger!Lose
    BY <2>1, <2>2 DEF Ledger!Lose, AskedOf, ToldOf
  <2>. QED BY <2>3 DEF Ledger!LedgerNext
<1>15. CASE UNCHANGED vars
  BY <1>1, <1>15 DEF vars, dbVars
<1>. QED BY <1>2, <1>3, <1>7, <1>8, <1>9, <1>10, <1>11, <1>12, <1>13, <1>14, <1>15 DEF Next, Accept

\* The transactions implement the ledger: concurrent requests for a batch look
\* as if served one after the other, and the answers say what is stored.
THEOREM IngestRefinesLedger == Spec => ImplementsLedger
<1>1. Init => Ledger!LedgerInit
  <2>. SUFFICES ASSUME Init PROVE Ledger!LedgerInit
    OBVIOUS
  <2>1. stored = [b \in Batch |-> Nothing] /\ \A r \in Request : req[r].in = Nothing /\ req[r].answer = "none"
    BY NoRequestTyped DEF Init
  <2>. QED BY <2>1 DEF Ledger!LedgerInit
<1>2. IngestInv /\ [Next]_vars => [Ledger!LedgerNext]_(Ledger!ledgerVars)
  BY LedgerStep
<1>. QED BY <1>1, <1>2, IngestInvariant, PTL DEF Spec, ImplementsLedger, Ledger!LedgerSpec

-----------------------------------------------------------------------------
(* Canonical numbers: what canonicalNumber writes denotes what it read, and *)
(* numerals that denote the same are written the same.                     *)

\* A JSON number without the bounds of a model; the texts written are some.
Numeral == [neg : BOOLEAN, int : Seq(Nat), frac : Seq(Nat), exp : Int]

\* Digits d with the point after the p-th: the non-zero ones, each with its
\* power of ten.
Places(d, p) == {<<p - k, d[k]>> : k \in NonZero(d)}

\* Digits with none to trim.
Significant(d) == d \in Seq(Nat) /\ Len(d) >= 1 /\ d[1] # 0 /\ d[Len(d)] # 0

\* How canonicalNumber lays out significant digits.
Written(neg, d, p) ==
  IF p > -6 /\ p <= 21
  THEN CASE p <= 0      -> Text(neg, <<0>>, Zeros(-p) \o d, 0)
         [] p >= Len(d) -> Text(neg, d \o Zeros(p - Len(d)), <<>>, 0)
         [] OTHER       -> Text(neg, SubSeq(d, 1, p), SubSeq(d, p + 1, Len(d)), 0)
  ELSE Text(neg, <<Head(d)>>, Tail(d), p - 1)

\* The non-zero digits of a sequence, and a slice of it.
LEMMA NonZeroIs == \A s \in Seq(Nat) : NonZero(s) = {i \in 1..Len(s) : s[i] # 0}
BY LenProperties DEF NonZero

\* A slice within bounds.
LEMMA Slice ==
  ASSUME NEW s \in Seq(Nat), NEW m \in Int, NEW n \in Int, 1 <= m, n <= Len(s), m <= n + 1
  PROVE  /\ SubSeq(s, m, n) \in Seq(Nat)
         /\ Len(SubSeq(s, m, n)) = n - m + 1
         /\ \A k \in 1..(n - m + 1) : SubSeq(s, m, n)[k] = s[m + k - 1]
<1>1. \A i \in m..n : s[i] \in Nat
  BY LenProperties
<1>2. Len(SubSeq(s, m, n)) = IF m <= n THEN n - m + 1 ELSE 0
  BY <1>1, SubSeqProperties
<1> QED
  BY <1>1, <1>2, SubSeqProperties

\* Trimming drops zeroes only: the digits left sit behind the a zeroes dropped
\* in front, and every non-zero digit is among them.
LEMMA TrimmedDigits ==
  ASSUME NEW s \in Seq(Nat), NonZero(s) # {}
  PROVE  \E a \in Nat :
           LET d == TrimRight(TrimLeft(s))
           IN  /\ Significant(d)
               /\ Len(s) - Len(TrimLeft(s)) = a /\ a + Len(d) <= Len(s)
               /\ \A k \in 1..Len(d) : d[k] = s[a + k]
               /\ \A i \in NonZero(s) : i - a \in 1..Len(d)
<1> DEFINE m == CHOOSE i \in NonZero(s) : \A j \in NonZero(s) : i <= j
           u == SubSeq(s, m, Len(s))
           z == CHOOSE i \in NonZero(u) : \A j \in NonZero(u) : j <= i
           d == SubSeq(u, 1, z)
<1>1. m \in NonZero(s) /\ \A j \in NonZero(s) : m <= j
  <2>1. NonZero(s) \subseteq Nat
    BY DEF NonZero
  <2>2. \E i \in NonZero(s) : \A j \in NonZero(s) : i <= j
    BY <2>1, MinIsLeast
  <2> QED
    BY <2>2
<1>4. TrimLeft(s) = u
  BY DEF TrimLeft
<1> HIDE DEF m
<1>2. m \in 1..Len(s) /\ s[m] # 0
  BY <1>1, NonZeroIs
<1>3. u \in Seq(Nat) /\ Len(u) = Len(s) - m + 1 /\ \A k \in 1..Len(u) : u[k] = s[m + k - 1]
  BY <1>2, Slice, LenProperties
<1>14. TrimRight(u) = d \/ NonZero(u) = {}
  BY DEF TrimRight
<1> HIDE DEF u
<1>5. 1 \in NonZero(u)
  <2>1. 1 \in 1..Len(u) /\ m + 1 - 1 = m
    BY <1>2, <1>3
  <2>2. u[1] = s[m + 1 - 1]
    BY <1>3, <2>1
  <2>3. u[1] # 0
    BY <1>2, <2>1, <2>2
  <2> QED
    BY <1>3, <2>1, <2>3, NonZeroIs
<1>6. z \in NonZero(u) /\ \A j \in NonZero(u) : j <= z
  <2>1. NonZero(u) \subseteq 0..Len(u)
    BY <1>3, NonZeroIs, LenProperties
  <2>2. \E i \in NonZero(u) : \A j \in NonZero(u) : j <= i
    BY <1>3, <1>5, <2>1, MaxExists, LenProperties
  <2> QED
    BY <2>2
<1> HIDE DEF z
<1>7. z \in 1..Len(u) /\ u[z] # 0
  BY <1>3, <1>6, NonZeroIs
<1>8. d \in Seq(Nat) /\ Len(d) = z /\ \A k \in 1..z : d[k] = u[k]
  BY <1>3, <1>7, Slice, LenProperties
<1>9. TrimRight(u) = d
  BY <1>5, <1>14
<1> HIDE DEF d
<1>10. Significant(d)
  <2>1. 1 \in 1..z /\ z \in 1..z /\ 1 \in 1..Len(u) /\ u[1] # 0
    BY <1>3, <1>5, <1>7, NonZeroIs
  <2>2. d[1] = u[1] /\ d[z] = u[z]
    BY <1>8, <2>1
  <2> QED
    BY <1>7, <1>8, <2>1, <2>2 DEF Significant
<1>11. \A i \in NonZero(s) : i - (m - 1) \in 1..Len(d)
  <2> SUFFICES ASSUME NEW i \in NonZero(s) PROVE i - (m - 1) \in 1..z
    BY <1>8
  <2>1. i \in 1..Len(s) /\ s[i] # 0 /\ m <= i
    BY <1>1, NonZeroIs
  <2>2. i - m + 1 \in 1..Len(u) /\ u[i - m + 1] = s[i]
    BY <1>2, <1>3, <2>1
  <2>3. i - m + 1 \in NonZero(u)
    BY <1>3, <2>1, <2>2, NonZeroIs
  <2> QED
    BY <1>2, <1>6, <1>7, <2>1, <2>2, <2>3
<1>12. \A k \in 1..Len(d) : d[k] = s[(m - 1) + k]
  <2> SUFFICES ASSUME NEW k \in 1..z PROVE d[k] = s[(m - 1) + k]
    BY <1>8
  <2>1. k \in 1..Len(u) /\ m + k - 1 = (m - 1) + k
    BY <1>2, <1>3, <1>7
  <2>2. d[k] = u[k] /\ u[k] = s[m + k - 1]
    BY <1>3, <1>8, <2>1
  <2> QED
    BY <2>1, <2>2
<1>13. Len(s) - Len(u) = m - 1 /\ (m - 1) + Len(d) <= Len(s) /\ m - 1 \in Nat
  BY <1>2, <1>3, <1>7, <1>8
<1> QED
  BY <1>4, <1>9, <1>10, <1>11, <1>12, <1>13

\* Zeroes around the digits change no place.
LEMMA ZeroesAround ==
  ASSUME NEW s \in Seq(Nat), NEW d \in Seq(Nat), NEW a \in Nat, NEW p \in Int,
         a + Len(d) <= Len(s),
         \A k \in 1..Len(d) : d[k] = s[a + k],
         \A i \in NonZero(s) : i - a \in 1..Len(d)
  PROVE  Places(s, p + a) = Places(d, p)
<1>1. ASSUME NEW i \in NonZero(s) PROVE <<(p + a) - i, s[i]>> \in Places(d, p)
  <2>1. i \in 1..Len(s) /\ s[i] # 0 /\ i - a \in 1..Len(d)
    BY NonZeroIs
  <2>2. (p + a) - i = p - (i - a) /\ a + (i - a) = i
    BY <2>1, LenProperties
  <2>3. d[i - a] = s[a + (i - a)]
    BY <2>1
  <2>4. d[i - a] = s[i] /\ i - a \in NonZero(d)
    BY <2>1, <2>2, <2>3, NonZeroIs
  <2> QED
    BY <2>2, <2>4 DEF Places
<1>2. ASSUME NEW k \in NonZero(d) PROVE <<p - k, d[k]>> \in Places(s, p + a)
  <2>1. k \in 1..Len(d) /\ d[k] # 0
    BY NonZeroIs
  <2>2. p - k = (p + a) - (a + k) /\ a + k \in 1..Len(s) /\ s[a + k] = d[k]
    BY <2>1, LenProperties
  <2>3. a + k \in NonZero(s)
    BY <2>1, <2>2, NonZeroIs
  <2> QED
    BY <2>2, <2>3 DEF Places
<1> QED
  BY <1>1, <1>2, ZenonT(60) DEF Places

\* The text laid out has the digits' places.
LEMMA WrittenPlaces ==
  ASSUME NEW neg \in BOOLEAN, NEW d, Significant(d), NEW p \in Int
  PROVE  LET t == Written(neg, d, p)
         IN  /\ t \in Numeral /\ t.neg = neg
             /\ Places(t.int \o t.frac, Len(t.int) + t.exp) = Places(d, p)
<1> DEFINE t == Written(neg, d, p)
<1>0. d \in Seq(Nat) /\ Len(d) >= 1 /\ d # <<>> /\ \A k \in NonZero(d) : k \in 1..Len(d)
  BY NonZeroIs DEF Significant
<1>9. \A n \in Nat : Zeros(n) \in Seq(Nat) /\ Len(Zeros(n)) = n /\ \A k \in 1..n : Zeros(n)[k] = 0
  BY DEF Zeros
<1>1. CASE p > -6 /\ p <= 0
  <2> DEFINE n == -p
             f == Zeros(n) \o d
             s == <<0>> \o f
  <2>1. t = Text(neg, <<0>>, f, 0)
    BY <1>0, <1>1 DEF Written
  <2>9. n \in Nat /\ p = -n /\ Zeros(n) \in Seq(Nat) /\ Len(Zeros(n)) = n /\ \A k \in 1..n : Zeros(n)[k] = 0
    BY <1>1, <1>9
  <2> HIDE DEF n
  <2>2. /\ f \in Seq(Nat) /\ Len(f) = n + Len(d)
        /\ \A k \in 1..(n + Len(d)) : f[k] = IF k <= n THEN Zeros(n)[k] ELSE d[k - n]
    <3> DEFINE z == Zeros(n)
    <3>1. z \in Seq(Nat)
      BY <2>9
    <3> HIDE DEF z
    <3>2. /\ z \o d \in Seq(Nat) /\ Len(z \o d) = Len(z) + Len(d)
          /\ \A k \in 1..(Len(z) + Len(d)) : (z \o d)[k] = IF k <= Len(z) THEN z[k] ELSE d[k - Len(z)]
      BY <1>0, <3>1, ConcatProperties
    <3> QED
      BY <2>9, <3>2 DEF z
  <2> HIDE DEF f
  <2>10. <<0>> \in Seq(Nat) /\ Len(<<0>>) = 1 /\ <<0>>[1] = 0
    OBVIOUS
  <2>3. /\ s \in Seq(Nat) /\ Len(s) = 1 + (n + Len(d))
        /\ \A k \in 1..(1 + Len(f)) : s[k] = IF k <= 1 THEN <<0>>[k] ELSE f[k - 1]
    BY <2>2, <2>10, ConcatProperties
  <2> HIDE DEF s
  <2>4. \A k \in 1..Len(d) : d[k] = s[(n + 1) + k]
    <3> SUFFICES ASSUME NEW k \in 1..Len(d) PROVE d[k] = s[(n + 1) + k]
      OBVIOUS
    <3>1. /\ (n + 1) + k \in 1..(1 + Len(f)) /\ ~((n + 1) + k <= 1) /\ ((n + 1) + k) - 1 = k + n
          /\ k + n \in 1..(n + Len(d)) /\ ~(k + n <= n) /\ (k + n) - n = k
      BY <1>0, <1>1, <2>9, <2>2
    <3>2. s[(n + 1) + k] = f[k + n]
      BY <2>3, <3>1
    <3>3. f[k + n] = d[k]
      BY <2>2, <3>1
    <3> QED
      BY <3>2, <3>3
  <2>5. \A i \in NonZero(s) : i - (n + 1) \in 1..Len(d)
    <3>3. SUFFICES ASSUME NEW i \in 1..(1 + (n + Len(d))), s[i] # 0 PROVE ~(i <= n + 1)
      <4>1. \A i \in 1..(1 + (n + Len(d))) : ~(i <= n + 1) => i - (n + 1) \in 1..Len(d)
        BY <1>0, <2>9
      <4>2. NonZero(s) = {i \in 1..(1 + (n + Len(d))) : s[i] # 0}
        BY <2>3, NonZeroIs
      <4> QED
        BY <4>1, <4>2
    <3> SUFFICES ASSUME i <= n + 1 PROVE FALSE
      OBVIOUS
    <3>1. CASE i = 1
      BY <2>2, <2>3, <2>10, <3>3, <3>1
    <3>2. CASE i > 1
      <4>1. i \in 1..(1 + Len(f)) /\ ~(i <= 1) /\ i - 1 \in 1..(n + Len(d)) /\ i - 1 <= n /\ i - 1 \in 1..n
        BY <1>0, <1>1, <2>9, <2>2, <3>2
      <4>2. s[i] = f[i - 1] /\ f[i - 1] = Zeros(n)[i - 1]
        BY <2>2, <2>3, <4>1
      <4> QED
        BY <2>9, <3>3, <4>1, <4>2
    <3> QED
      BY <1>0, <1>1, <2>9, <3>1, <3>2
  <2>6. Places(s, p + (n + 1)) = Places(d, p)
    <3>1. n + 1 \in Nat /\ (n + 1) + Len(d) <= Len(s)
      BY <1>0, <1>1, <2>9, <2>2, <2>3
    <3> QED
      BY <1>0, <2>9, <2>3, <2>4, <2>5, <3>1, ZeroesAround, ZenonT(60)
  <2> HIDE DEF t
  <2>7. t \in Numeral /\ t.neg = neg /\ t.int = <<0>> /\ t.frac = f /\ t.exp = 0
    BY <2>1, <2>2, <2>10 DEF Numeral, Text
  <2>8. p + (n + 1) = Len(<<0>>) + 0
    BY <2>9, <2>10
  <2>11. t.int \o t.frac = s /\ Len(t.int) + t.exp = p + (n + 1)
    BY <2>7, <2>8 DEF s
  <2> QED
    BY <2>6, <2>7, <2>11 DEF t
<1>2. CASE p > 0 /\ p <= 21 /\ p >= Len(d)
  <2> DEFINE f == d \o Zeros(p - Len(d))
             s == f \o <<>>
  <2>1. t = Text(neg, f, <<>>, 0)
    BY <1>2 DEF Written
  <2> DEFINE n == p - Len(d)
  <2>9. n \in Nat /\ Zeros(n) \in Seq(Nat) /\ Len(Zeros(n)) = n /\ \A k \in 1..n : Zeros(n)[k] = 0
    BY <1>0, <1>2, <1>9, SMTT(30)
  <2>2. /\ f \in Seq(Nat) /\ Len(f) = p
        /\ \A k \in 1..(Len(d) + n) : f[k] = IF k <= Len(d) THEN d[k] ELSE Zeros(n)[k - Len(d)]
    <3>1. Len(f) = Len(d) + n
      BY <1>0, <2>9, ConcatProperties
    <3> QED
      BY <1>0, <2>9, <3>1, ConcatProperties, SMTT(30)
  <2>10. Len(d) + n = p
    BY <1>0
  <2>3. s = f
    BY <2>2, ConcatEmptySeq
  <2> HIDE DEF s, f, n
  <2>5. \A i \in NonZero(f) : i - 0 \in 1..Len(d)
    <3> SUFFICES ASSUME NEW i \in 1..p, f[i] # 0, ~(i <= Len(d)) PROVE FALSE
      BY <1>0, <2>2, NonZeroIs
    <3>1. i \in 1..(Len(d) + n) /\ i - Len(d) \in 1..n
      BY <1>0, <2>9, <2>10
    <3> QED
      BY <2>2, <2>9, <3>1
  <2>6. Places(f, p + 0) = Places(d, p)
    <3>1. \A k \in 1..Len(d) : d[k] = f[0 + k]
      <4> TAKE k \in 1..Len(d)
      <4>1. k \in 1..(Len(d) + n) /\ k <= Len(d) /\ 0 + k = k
        BY <1>0, <2>9
      <4> QED
        BY <2>2, <4>1
    <3>2. 0 + Len(d) <= Len(f)
      BY <1>0, <1>2, <2>2
    <3> DEFINE a == 0
    <3>3. a \in Nat /\ (\A k \in 1..Len(d) : d[k] = f[a + k]) /\ a + Len(d) <= Len(f) /\ (\A i \in NonZero(f) : i - a \in 1..Len(d))
      BY <2>5, <3>1, <3>2
    <3>4. Places(f, p + 0) = Places(f, p + a)
      OBVIOUS
    <3> HIDE DEF a
    <3>5. Places(f, p + a) = Places(d, p)
      BY <1>0, <2>2, <3>3, ZeroesAround
    <3> QED
      BY <3>4, <3>5
  <2> HIDE DEF t
  <2>7. t \in Numeral /\ t.neg = neg /\ t.int = f /\ t.frac = <<>> /\ t.exp = 0
    BY <2>1, <2>2 DEF Numeral, Text
  <2>8. p + 0 = Len(f) + 0
    BY <2>2
  <2> QED
    BY <2>3, <2>6, <2>7, <2>8 DEF s, t
<1>3. CASE p > 0 /\ p <= 21 /\ ~(p >= Len(d))
  <2> DEFINE w == SubSeq(d, 1, p)
             f == SubSeq(d, p + 1, Len(d))
  <2>1. t = Text(neg, w, f, 0)
    BY <1>3 DEF Written
  <2>2. /\ w \in Seq(Nat) /\ Len(w) = p - 1 + 1
        /\ \A k \in 1..(p - 1 + 1) : w[k] = d[1 + k - 1]
    BY <1>0, <1>3, Slice
  <2>3. /\ f \in Seq(Nat) /\ Len(f) = Len(d) - (p + 1) + 1
        /\ \A k \in 1..(Len(d) - (p + 1) + 1) : f[k] = d[(p + 1) + k - 1]
    BY <1>0, <1>3, Slice
  <2> HIDE DEF w, f
  <2>4. w \o f = d
    <3>1. /\ w \o f \in Seq(Nat) /\ Len(w \o f) = Len(w) + Len(f)
          /\ \A k \in 1..(Len(w) + Len(f)) : (w \o f)[k] = IF k <= Len(w) THEN w[k] ELSE f[k - Len(w)]
      BY <2>2, <2>3, ConcatProperties
    <3>3. Len(w) = p /\ Len(w) + Len(f) = Len(d)
      BY <1>0, <2>2, <2>3
    <3>2. ASSUME NEW k \in 1..Len(d) PROVE (w \o f)[k] = d[k]
      <4>1. CASE k <= p
        <5>1. k \in 1..(p - 1 + 1) /\ 1 + k - 1 = k
          BY <1>0, <1>3, <4>1
        <5> QED
          BY <2>2, <3>1, <3>3, <4>1, <5>1
      <4>2. CASE ~(k <= p)
        <5>1. k - p \in 1..(Len(d) - (p + 1) + 1) /\ (p + 1) + (k - p) - 1 = k
          BY <1>0, <1>3, <4>2
        <5>2. f[k - p] = d[(p + 1) + (k - p) - 1]
          BY <2>3, <5>1
        <5> QED
          BY <3>1, <3>3, <4>2, <5>1, <5>2
      <4> QED
        BY <4>1, <4>2
    <3> QED
      BY <1>0, <3>1, <3>2, <3>3, SeqEqual
  <2> HIDE DEF t
  <2>5. t \in Numeral /\ t.neg = neg /\ t.int = w /\ t.frac = f /\ t.exp = 0
    BY <2>1, <2>2, <2>3 DEF Numeral, Text
  <2>6. Len(t.int) + t.exp = p
    BY <2>2, <2>5
  <2> QED
    BY <2>4, <2>5, <2>6 DEF t
<1>4. CASE ~(p > -6 /\ p <= 21)
  <2>1. t = Text(neg, <<Head(d)>>, Tail(d), p - 1)
    BY <1>4 DEF Written
  <2>2. <<Head(d)>> \o Tail(d) = d
    BY <1>0
  <2>3. t \in Numeral /\ t.neg = neg /\ t.int = <<Head(d)>> /\ t.frac = Tail(d) /\ t.exp = p - 1
    BY <1>0, <2>1 DEF Numeral, Text
  <2>4. Len(<<Head(d)>>) + (p - 1) = p
    OBVIOUS
  <2> QED
    BY <2>2, <2>3, <2>4
<1> QED
  BY <1>0, <1>1, <1>2, <1>3, <1>4

\* The places of significant digits tell the digits and where the point is.
LEMMA PlacesTell ==
  ASSUME NEW d, NEW e, Significant(d), Significant(e), NEW p \in Int, NEW q \in Int,
         Places(d, p) = Places(e, q)
  PROVE  d = e /\ p = q
<1>0. d \in Seq(Nat) /\ e \in Seq(Nat) /\ Len(d) >= 1 /\ Len(e) >= 1
  BY DEF Significant
<1>1. \A k \in 1..Len(d) : d[k] # 0 => \E j \in 1..Len(e) : p - k = q - j /\ d[k] = e[j]
  <2> SUFFICES ASSUME NEW k \in 1..Len(d), d[k] # 0
               PROVE  \E j \in 1..Len(e) : p - k = q - j /\ d[k] = e[j]
    OBVIOUS
  <2>1. <<p - k, d[k]>> \in Places(e, q)
    BY <1>0, NonZeroIs DEF Places
  <2> QED
    BY <1>0, <2>1, NonZeroIs DEF Places
<1>2. \A k \in 1..Len(e) : e[k] # 0 => \E j \in 1..Len(d) : q - k = p - j /\ e[k] = d[j]
  <2> SUFFICES ASSUME NEW k \in 1..Len(e), e[k] # 0
               PROVE  \E j \in 1..Len(d) : q - k = p - j /\ e[k] = d[j]
    OBVIOUS
  <2>1. <<q - k, e[k]>> \in Places(d, p)
    BY <1>0, NonZeroIs DEF Places
  <2> QED
    BY <1>0, <2>1, NonZeroIs DEF Places
<1>3. p = q
  <2>1. 1 \in 1..Len(d) /\ 1 \in 1..Len(e) /\ d[1] # 0 /\ e[1] # 0
    BY <1>0 DEF Significant
  <2>2. PICK j \in 1..Len(e) : p - 1 = q - j
    BY <1>1, <2>1
  <2>3. PICK j1 \in 1..Len(d) : q - 1 = p - j1
    BY <1>2, <2>1
  <2> QED
    BY <1>0, <2>2, <2>3
<1>4. Len(d) = Len(e)
  <2>1. Len(d) \in 1..Len(d) /\ Len(e) \in 1..Len(e) /\ d[Len(d)] # 0 /\ e[Len(e)] # 0
    BY <1>0 DEF Significant
  <2>2. PICK j \in 1..Len(e) : p - Len(d) = q - j
    BY <1>1, <2>1
  <2>3. PICK j1 \in 1..Len(d) : q - Len(e) = p - j1
    BY <1>2, <2>1
  <2> QED
    BY <1>0, <1>3, <2>2, <2>3
<1>5. \A k \in 1..Len(d) : d[k] = e[k]
  <2> SUFFICES ASSUME NEW k \in 1..Len(d) PROVE d[k] = e[k]
    OBVIOUS
  <2>1. d[k] \in Nat /\ e[k] \in Nat
    BY <1>0, <1>4, SMTT(30)
  <2>2. CASE d[k] # 0
    <3>1. PICK j \in 1..Len(e) : p - k = q - j /\ d[k] = e[j]
      BY <1>1, <2>2
    <3>2. j = k
      BY <1>0, <1>3, <3>1
    <3> QED
      BY <3>1, <3>2
  <2>3. CASE e[k] # 0
    <3>1. PICK j \in 1..Len(d) : q - k = p - j /\ e[k] = d[j]
      BY <1>2, <1>4, <2>3
    <3>2. j = k
      BY <1>0, <1>3, <3>1
    <3> QED
      BY <3>1, <3>2
  <2> QED
    BY <2>2, <2>3
<1> QED
  BY <1>0, <1>3, <1>4, <1>5, SeqEqual

\* canonicalNumber writes a zero one way and any other numeral as its
\* significant digits, which have the numeral's places.
LEMMA WritesSignificant ==
  ASSUME NEW l \in Numeral
  PROVE  LET s == l.int \o l.frac
             p == Len(l.int) + l.exp
         IN  \/ NonZero(s) = {} /\ canonicalNumber(l) = Text(FALSE, <<0>>, <<>>, 0)
             \/ \E d, q : /\ Significant(d) /\ q \in Int
                         /\ canonicalNumber(l) = Written(l.neg, d, q)
                         /\ Places(s, p) = Places(d, q)
<1> DEFINE s == l.int \o l.frac
           p == Len(l.int) + l.exp
           u == TrimLeft(s)
           d == TrimRight(u)
           q == Len(l.int) + l.exp - (Len(s) - Len(u))
<1>1. l.int \in Seq(Nat) /\ s \in Seq(Nat) /\ p \in Int
  BY ConcatProperties, LenProperties DEF Numeral
<1>5. Len(l.int) \in Int /\ l.exp \in Int
  BY LenProperties DEF Numeral
<1>2. canonicalNumber(l) = IF d = <<>> THEN Text(FALSE, <<0>>, <<>>, 0) ELSE Written(l.neg, d, q)
  <2>1. canonicalNumber(l) =
          IF d = <<>> THEN Text(FALSE, <<0>>, <<>>, 0)
          ELSE IF q > -6 /\ q <= 21
          THEN CASE q <= 0      -> Text(l.neg, <<0>>, Zeros(-q) \o d, 0)
                 [] q >= Len(d) -> Text(l.neg, d \o Zeros(q - Len(d)), <<>>, 0)
                 [] OTHER       -> Text(l.neg, SubSeq(d, 1, q), SubSeq(d, q + 1, Len(d)), 0)
          ELSE Text(l.neg, <<Head(d)>>, Tail(d), q - 1)
    BY DEF canonicalNumber
  <2> HIDE DEF d, q
  <2> QED
    BY <2>1 DEF Written
<1>3. ASSUME NonZero(s) = {} PROVE canonicalNumber(l) = Text(FALSE, <<0>>, <<>>, 0)
  <2>1. u = <<>>
    BY <1>3 DEF TrimLeft
  <2>2. NonZero(<<>>) = {}
    BY DEF NonZero
  <2>3. d = <<>>
    BY <2>1, <2>2 DEF TrimRight
  <2> QED
    BY <1>2, <2>3
<1> HIDE DEF s, p
<1>4. ASSUME NonZero(s) # {}
      PROVE  Significant(d) /\ q \in Int /\ canonicalNumber(l) = Written(l.neg, d, q) /\ Places(s, p) = Places(d, q)
  <2>1. PICK a \in Nat : /\ Significant(d)
                         /\ Len(s) - Len(u) = a /\ a + Len(d) <= Len(s)
                         /\ \A k \in 1..Len(d) : d[k] = s[a + k]
                         /\ \A i \in NonZero(s) : i - a \in 1..Len(d)
    BY <1>1, <1>4, TrimmedDigits
  <2>2. d # <<>> /\ d \in Seq(Nat)
    BY <2>1 DEF Significant
  <2> HIDE DEF d, u
  <2>3. q = p - a
    <3>1. q = Len(l.int) + l.exp - a
      BY <2>1
    <3> QED
      BY <1>5, <3>1 DEF p
  <2> HIDE DEF q
  <2>4. q \in Int /\ q + a = p
    BY <1>1, <2>3
  <2>5. Places(s, q + a) = Places(d, q)
    BY <1>1, <2>1, <2>2, <2>4, ZeroesAround, ZenonT(60)
  <2> QED
    BY <1>2, <2>1, <2>2, <2>4, <2>5
<1> HIDE DEF u, d, q
<1> QED
  BY <1>3, <1>4 DEF s, p

\* Denotes, by places.
LEMMA DenotesPlaces ==
  \A l \in Numeral :
    Denotes(l) =
     [neg |-> l.neg /\ Places(l.int \o l.frac, Len(l.int) + l.exp) # {},
      places |-> Places(l.int \o l.frac, Len(l.int) + l.exp)]
<1> TAKE l \in Numeral
<1> DEFINE s == l.int \o l.frac
           S == {<<Len(l.int) + l.exp - i, s[i]>> : i \in NonZero(s)}
<1>1. Denotes(l) = [neg |-> l.neg /\ S # {}, places |-> S]
  BY DEF Denotes
<1>2. S = Places(s, Len(l.int) + l.exp)
  <2>1. s \in Seq(Nat) /\ Len(l.int) \in Int /\ l.exp \in Int
    BY ConcatProperties, LenProperties DEF Numeral
  <2>3. NonZero(s) \subseteq Int
    <3> HIDE DEF s
    <3>1. NonZero(s) = {i \in 1..Len(s) : s[i] # 0} /\ Len(s) \in Nat
      BY <2>1, NonZeroIs, LenProperties
    <3> QED
      BY <3>1
  <2>2. \A i \in NonZero(s) : Len(l.int) + l.exp - i = (Len(l.int) + l.exp) - i
    BY <2>1, <2>3
  <2> HIDE DEF s
  <2> QED
    BY <2>2 DEF Places
<1> HIDE DEF S
<1> QED
  BY <1>1, <1>2

\* A zero written out.
LEMMA ZeroWritten ==
  LET z == Text(FALSE, <<0>>, <<>>, 0)
  IN  z \in Numeral /\ Denotes(z) = [neg |-> FALSE, places |-> {}]
<1> DEFINE z == Text(FALSE, <<0>>, <<>>, 0)
<1>1. z \in Numeral /\ z.neg = FALSE /\ z.int = <<0>> /\ z.frac = <<>>
  BY DEF Numeral, Text
<1>2. <<0>> \o <<>> = <<0>> /\ <<0>> \in Seq(Nat) /\ Len(<<0>>) = 1 /\ <<0>>[1] = 0
  OBVIOUS
<1>6. NonZero(<<0>>) = {}
  BY DEF NonZero
<1>3. NonZero(z.int \o z.frac) = {}
  BY <1>1, <1>2, <1>6
<1>4. Places(z.int \o z.frac, Len(z.int) + z.exp) = {}
  BY <1>3 DEF Places
<1> HIDE DEF z
<1>5. Denotes(z) = [neg |-> z.neg /\ {} # {}, places |-> {}]
  BY <1>1, <1>4, DenotesPlaces
<1> QED
  BY <1>1, <1>5 DEF z

\* Significant digits denote something: their first digit has a place.
LEMMA SignificantDenotes ==
  ASSUME NEW d, Significant(d), NEW q \in Int PROVE Places(d, q) # {}
<1>1. 1 \in NonZero(d)
  BY NonZeroIs DEF Significant
<1> QED
  BY <1>1 DEF Places

\* What is written is a numeral with the value of the one read.
LEMMA WritingKeeps ==
  \A l \in Numeral : canonicalNumber(l) \in Numeral /\ Denotes(canonicalNumber(l)) = Denotes(l)
<1> SUFFICES ASSUME NEW l \in Numeral
             PROVE  canonicalNumber(l) \in Numeral /\ Denotes(canonicalNumber(l)) = Denotes(l)
  OBVIOUS
<1> DEFINE s == l.int \o l.frac
           p == Len(l.int) + l.exp
<1>1. CASE NonZero(s) = {} /\ canonicalNumber(l) = Text(FALSE, <<0>>, <<>>, 0)
  <2>1. Places(s, p) = {}
    BY <1>1 DEF Places
  <2>2. Denotes(l) = [neg |-> l.neg /\ Places(s, p) # {}, places |-> Places(s, p)]
    BY DenotesPlaces
  <2>3. Denotes(l) = [neg |-> FALSE, places |-> {}]
    BY <2>1, <2>2
  <2> QED
    BY <1>1, <2>3, ZeroWritten
<1>2. ASSUME NEW d, NEW q, Significant(d), q \in Int, canonicalNumber(l) = Written(l.neg, d, q),
             Places(s, p) = Places(d, q)
      PROVE  canonicalNumber(l) \in Numeral /\ Denotes(canonicalNumber(l)) = Denotes(l)
  <2> DEFINE t == canonicalNumber(l)
  <2>1. l.neg \in BOOLEAN
    BY DEF Numeral
  <2>2. t \in Numeral /\ t.neg = l.neg /\ Places(t.int \o t.frac, Len(t.int) + t.exp) = Places(d, q)
    BY <1>2, <2>1, WrittenPlaces
  <2> HIDE DEF t
  <2>3. Denotes(t) = [neg |-> t.neg /\ Places(d, q) # {}, places |-> Places(d, q)]
    BY <2>2, DenotesPlaces
  <2>4. Denotes(l) = [neg |-> l.neg /\ Places(d, q) # {}, places |-> Places(d, q)]
    BY <1>2, DenotesPlaces
  <2> QED
    BY <2>2, <2>3, <2>4 DEF t
<1> HIDE DEF s, p
<1> QED
  BY <1>1, <1>2, WritesSignificant DEF s, p

\* Numerals of one value are written the same.
LEMMA WritingAgrees ==
  \A l, m \in Numeral : Denotes(l) = Denotes(m) => canonicalNumber(l) = canonicalNumber(m)
<1> SUFFICES ASSUME NEW l \in Numeral, NEW m \in Numeral, Denotes(l) = Denotes(m)
             PROVE  canonicalNumber(l) = canonicalNumber(m)
  OBVIOUS
<1> DEFINE P(n) == Places(n.int \o n.frac, Len(n.int) + n.exp)
           Z(n) == P(n) = {} /\ canonicalNumber(n) = Text(FALSE, <<0>>, <<>>, 0)
           W(n, d, q) == /\ Significant(d) /\ q \in Int
                         /\ canonicalNumber(n) = Written(n.neg, d, q) /\ P(n) = Places(d, q)
<1>1. \A n \in Numeral : Z(n) \/ \E d, q : W(n, d, q)
  <2> TAKE n \in Numeral
  <2>1. NonZero(n.int \o n.frac) = {} => P(n) = {}
    BY DEF Places
  <2> QED
    BY <2>1, WritesSignificant
<1>2. P(l) = P(m) /\ (l.neg /\ P(l) # {}) = (m.neg /\ P(m) # {})
  <2>1. [neg |-> l.neg /\ P(l) # {}, places |-> P(l)] = [neg |-> m.neg /\ P(m) # {}, places |-> P(m)]
    BY DenotesPlaces
  <2> QED
    BY <2>1
<1>3. \A d, q : Significant(d) /\ q \in Int => Places(d, q) # {}
  BY SignificantDenotes
<1>4. CASE P(l) = {}
  <2> HIDE DEF P
  <2> QED
    BY <1>1, <1>2, <1>3, <1>4
<1>5. CASE P(l) # {}
  <2>1. PICK d, q : W(l, d, q)
    BY <1>1, <1>5
  <2>2. PICK e, r : W(m, e, r)
    BY <1>1, <1>2, <1>5
  <2>3. d = e /\ q = r
    BY <1>2, <2>1, <2>2, PlacesTell
  <2>4. l.neg = m.neg
    BY <1>2, <1>5 DEF Numeral
  <2> QED
    BY <2>1, <2>2, <2>3, <2>4
<1> QED
  BY <1>4, <1>5

\* The literals a request may carry are numerals.
LEMMA LiteralTyped == Literal \subseteq Numeral
<1> SUFFICES ASSUME NEW l \in Literal PROVE l \in Numeral
  OBVIOUS
<1>0. Digit \subseteq Nat /\ MaxDigits \in Nat /\ Exponents \subseteq Int
  BY CanonicalAssumption
<1>1. \A n \in Nat : \A s \in [1..n -> Digit] : s \in Seq(Nat)
  <2> TAKE n \in Nat
  <2> TAKE s \in [1..n -> Digit]
  <2>1. s \in [1..n -> Nat]
    BY <1>0
  <2> QED
    BY <2>1
<1>2. PICK n \in 1..MaxDigits : l.int \in [1..n -> Digit]
  BY DEF Literal
<1>3. PICK j \in 0..MaxDigits : l.frac \in [1..j -> Digit]
  BY DEF Literal
<1>4. n \in Nat /\ j \in Nat
  BY <1>0
<1>5. l = [neg |-> l.neg, int |-> l.int, frac |-> l.frac, exp |-> l.exp] /\ l.neg \in BOOLEAN /\ l.exp \in Int
  BY <1>0 DEF Literal
<1> QED
  BY <1>1, <1>2, <1>3, <1>4, <1>5 DEF Numeral

\* The literals the server accepts are numerals too.
LEMMA AcceptedTyped == Accepted \subseteq Numeral
BY LiteralTyped DEF Accepted

\* The literals the server accepts are finitely many: sign, exponent and the
\* graphs of two short functions.
LEMMA AcceptedFinite == IsFiniteSet(Accepted)
<1> DEFINE Graph(s) == {<<i, s[i]>> : i \in DOMAIN s}
           Graphs0 == SUBSET ((1..MaxDigits) \X (0..9))
           Target == (BOOLEAN \X Graphs0) \X (Graphs0 \X ((-ExpLimit)..ExpLimit))
           F == [l \in Accepted |-> <<<<l.neg, Graph(l.int)>>, <<Graph(l.frac), l.exp>>>>]
<1>0. Digit \subseteq 0..9 /\ MaxDigits \in Nat /\ ExpLimit \in Nat /\ -ExpLimit \in Int
  BY CanonicalAssumption
<1>1. IsFiniteSet(Target)
  <2>1. IsFiniteSet((1..MaxDigits) \X (0..9))
    <3>1. IsFiniteSet(1..MaxDigits)
      BY <1>0, FS_Interval
    <3>2. \A a, b \in Int : IsFiniteSet(a..b)
      BY FS_Interval
    <3>4. 0 \in Int /\ 9 \in Int
      OBVIOUS
    <3>3. IsFiniteSet(0..9)
      BY <3>2, <3>4, Zenon
    <3> QED
      BY <3>1, <3>3, FS_Product
  <2>2. IsFiniteSet(Graphs0)
    BY <2>1, FS_SUBSET
  <2>3. IsFiniteSet(BOOLEAN)
    <3>1. IsFiniteSet({TRUE}) /\ IsFiniteSet({TRUE} \cup {FALSE})
      BY FS_Singleton, FS_AddElement
    <3>2. BOOLEAN = {TRUE} \cup {FALSE}
      OBVIOUS
    <3> QED
      BY <3>1, <3>2
  <2>4. IsFiniteSet((-ExpLimit)..ExpLimit)
    BY <1>0, FS_Interval
  <2> HIDE DEF Graphs0
  <2>5. IsFiniteSet(BOOLEAN \X Graphs0)
    BY <2>2, <2>3, FS_Product
  <2>6. IsFiniteSet(Graphs0 \X ((-ExpLimit)..ExpLimit))
    BY <2>2, <2>4, FS_Product
  <2> QED
    BY <2>5, <2>6, FS_Product
<1>2. \A l \in Accepted :
        /\ l = [neg |-> l.neg, int |-> l.int, frac |-> l.frac, exp |-> l.exp]
        /\ l.neg \in BOOLEAN /\ l.exp \in (-ExpLimit)..ExpLimit
        /\ \E n \in 0..MaxDigits : l.int \in [1..n -> Digit]
        /\ \E n \in 0..MaxDigits : l.frac \in [1..n -> Digit]
  <2> TAKE l \in Accepted
  <2>1. l \in Literal /\ -ExpLimit <= l.exp /\ l.exp <= ExpLimit
    BY DEF Accepted, Valid
  <2>2. Exponents \subseteq Int
    BY CanonicalAssumption
  <2>3. \E n \in 1..MaxDigits : l.int \in [1..n -> Digit]
    BY <2>1 DEF Literal
  <2>4. \E n \in 0..MaxDigits : l.frac \in [1..n -> Digit]
    BY <2>1 DEF Literal
  <2>5. \E n \in 0..MaxDigits : l.int \in [1..n -> Digit]
    BY <1>0, <2>3
  <2>6. l = [neg |-> l.neg, int |-> l.int, frac |-> l.frac, exp |-> l.exp] /\ l.neg \in BOOLEAN /\ l.exp \in Exponents
    BY <2>1 DEF Literal
  <2>7. l.exp \in (-ExpLimit)..ExpLimit
    BY <1>0, <2>1, <2>2, <2>6
  <2> QED
    BY <2>4, <2>5, <2>6, <2>7
<1>3. \A n \in 0..MaxDigits : \A s \in [1..n -> Digit] : Graph(s) \in Graphs0
  <2> TAKE n \in 0..MaxDigits
  <2> TAKE s \in [1..n -> Digit]
  <2>1. \A i \in 1..n : <<i, s[i]>> \in (1..MaxDigits) \X (0..9)
    <3> TAKE i \in 1..n
    <3>1. i \in 1..MaxDigits
      BY <1>0
    <3>2. s[i] \in 0..9
      BY <1>0
    <3> QED
      BY <3>1, <3>2
  <2>2. DOMAIN s = 1..n
    OBVIOUS
  <2>3. Graph(s) \subseteq (1..MaxDigits) \X (0..9)
    BY <2>1, <2>2
  <2> QED
    BY <2>3
<1>4. \A n, k \in 0..MaxDigits : \A s \in [1..n -> Digit], r \in [1..k -> Digit] : Graph(s) = Graph(r) => s = r
  <2> SUFFICES ASSUME NEW n \in 0..MaxDigits, NEW k \in 0..MaxDigits, NEW s \in [1..n -> Digit],
                      NEW r \in [1..k -> Digit], Graph(s) = Graph(r)
               PROVE  s = r
    OBVIOUS
  <2>1. \A i \in 1..n : i \in 1..k /\ r[i] = s[i]
    <3> TAKE i \in 1..n
    <3>1. <<i, s[i]>> \in Graph(r)
      OBVIOUS
    <3> QED
      BY <3>1
  <2>2. \A i \in 1..k : i \in 1..n
    <3> TAKE i \in 1..k
    <3>1. <<i, r[i]>> \in Graph(s)
      OBVIOUS
    <3> QED
      BY <3>1
  <2>3. 1..n = 1..k
    BY <2>1, <2>2
  <2> QED
    BY <2>1, <2>3
<1> HIDE DEF Graph, Graphs0
<1>5. F \in [Accepted -> Target]
  <2> SUFFICES ASSUME NEW l \in Accepted
               PROVE  <<<<l.neg, Graph(l.int)>>, <<Graph(l.frac), l.exp>>>> \in Target
    OBVIOUS
  <2>1. Graph(l.int) \in Graphs0 /\ Graph(l.frac) \in Graphs0
    BY <1>2, <1>3
  <2> QED
    BY <1>2, <2>1
<1>6. \A l, m \in Accepted : F[l] = F[m] => l = m
  <2> SUFFICES ASSUME NEW l \in Accepted, NEW m \in Accepted, F[l] = F[m] PROVE l = m
    OBVIOUS
  <2>1. l.neg = m.neg /\ l.exp = m.exp /\ Graph(l.int) = Graph(m.int) /\ Graph(l.frac) = Graph(m.frac)
    OBVIOUS
  <2>2. l.int = m.int
    BY <1>2, <1>4, <2>1
  <2>3. l.frac = m.frac
    BY <1>2, <1>4, <2>1
  <2> QED
    BY <1>2, <2>1, <2>2, <2>3
<1> HIDE DEF F, Target
<1>7. F \in Injection(Accepted, Target)
  BY <1>5, <1>6 DEF Injection, IsInjective
<1> QED
  BY <1>1, <1>7, FS_Injection

\* Writing is exact: a literal keeps its value and a value is written one way.
LEMMA WritingIsExact == WritingExact
<1>1. \A l \in Accepted : Denotes(CanonicalPayload(l)) = Denotes(l)
  BY AcceptedTyped, WritingKeeps DEF CanonicalPayload
<1> DEFINE V == {Denotes(l) : l \in Accepted}
           G == [t \in Texts |-> Denotes(t)]
<1>2. G \in [Texts -> V]
  BY <1>1 DEF Texts
<1>3. \A v \in V : \E t \in Texts : G[t] = v
  BY <1>1 DEF Texts
<1>4. \A t, w \in Texts : G[t] = G[w] => t = w
  <2> SUFFICES ASSUME NEW l \in Accepted, NEW m \in Accepted,
                      Denotes(CanonicalPayload(l)) = Denotes(CanonicalPayload(m))
               PROVE  CanonicalPayload(l) = CanonicalPayload(m)
    BY DEF Texts
  <2>1. Denotes(l) = Denotes(m)
    BY <1>1
  <2> QED
    BY <2>1, AcceptedTyped, WritingAgrees DEF CanonicalPayload
<1>5. IsFiniteSet(Texts)
  <2> DEFINE C == [l \in Accepted |-> CanonicalPayload(l)]
  <2>1. C \in Surjection(Accepted, Texts)
    BY DEF Surjection, Texts
  <2> QED
    BY <2>1, AcceptedFinite, FS_Surjection
<1> HIDE DEF G, V
<1>6. G \in Bijection(Texts, V)
  BY <1>2, <1>3, <1>4 DEF Bijection, Injection, Surjection, IsInjective
<1>7. Cardinality(V) = Cardinality(Texts)
  BY <1>5, <1>6, FS_Bijection DEF ExistsBijection
<1> QED
  BY <1>1, <1>7 DEF WritingExact, V

\* A batch is stored with the one text of its value.
THEOREM IngestCanonicalExact == Spec => []CanonicalExact
<1>1. IngestInv => CanonicalExact
  <2>. SUFFICES ASSUME IngestInv, NEW b \in Batch, stored[b] # Nothing
                PROVE  CanonicalPayload(stored[b].payload) = stored[b].payload
    BY WritingIsExact DEF CanonicalExact
  <2>1. PICK i \in Inputs : stored[b] = Row(i)
    BY DEF IngestInv, TablesTyped
  <2>2. stored[b].payload = CanonicalPayload(i.literal)
    BY <2>1 DEF Row, PayloadOf
  <2>3. i.literal \in Numeral
    BY LiteralTyped, IngestAssumption
  <2>4. /\ CanonicalPayload(i.literal) \in Numeral
        /\ Denotes(CanonicalPayload(i.literal)) = Denotes(i.literal)
    BY <2>3, WritingKeeps DEF CanonicalPayload
  <2>. QED BY <2>2, <2>3, <2>4, WritingAgrees DEF CanonicalPayload
<1>. QED BY <1>1, IngestInvariant, PTL

-----------------------------------------------------------------------------
(* What the answers mean, from the ledger.                                 *)

\* What is said, to a request that asks q, of a ledger: accepted and duplicate
\* of a batch that is entered with the payload asked for, conflict of one that
\* is entered with another.
AnswerHolds(ledger, q, said) ==
  /\ said \in {"accepted", "duplicate"} =>
       q # Nothing /\ ledger[q.batch] # Nothing /\ ledger[q.batch].payload = q.payload
  /\ said = "conflict" =>
       q # Nothing /\ ledger[q.batch] # Nothing /\ ledger[q.batch].payload # q.payload

AnswersHold(ledger, asked, told) == \A r \in Request : AnswerHolds(ledger, asked[r], told[r])

\* The ledger's rules keep the answers true, and what was entered as it is.
LEMMA LedgerAnswers ==
  ASSUME stored \in [Batch -> {Row(i) : i \in Inputs} \cup {Nothing}],
         req \in [Request -> Rec],
         [Ledger!LedgerNext]_(Ledger!ledgerVars)
  PROVE  /\ AnswersHold(stored, AskedOf(req), ToldOf(req)) => AnswersHold(stored', AskedOf(req'), ToldOf(req'))
         /\ \A b \in Batch : stored[b] # Nothing => stored'[b] = stored[b]
<1> DEFINE a == AskedOf(req)
           t == ToldOf(req)
           a1 == AskedOf(req')
           t1 == ToldOf(req')
           Kept1 == \A b \in Batch : stored[b] # Nothing => stored'[b] = stored[b]
           Goal == (AnswersHold(stored, a, t) => AnswersHold(stored', a1, t1)) /\ Kept1
           Same(x) == a1[x] = a[x] /\ t1[x] = t[x]
<1>1. \A r \in Request : /\ a[r] # Nothing => a[r].batch \in Batch /\ [payload |-> a[r].payload, cost |-> a[r].cost] # Nothing
                         /\ (AskedOf(req))[r] = a[r]
  <2>1. \A r \in Request : req[r].in \in Inputs \cup {Nothing}
    BY DEF Rec
  <2> QED
    BY <2>1, InputsTyped DEF AskedOf, Question, Row
<1>2. ASSUME NEW r \in Request, Ledger!Enter(r)
      PROVE  /\ a[r] # Nothing /\ a[r].batch \in Batch /\ Kept1
             /\ stored'[a[r].batch] # Nothing /\ stored'[a[r].batch].payload = a[r].payload
  <2>1. /\ a[r] # Nothing /\ stored[a[r].batch] = Nothing
        /\ stored' = [stored EXCEPT ![a[r].batch] = [payload |-> a[r].payload, cost |-> a[r].cost]]
    BY <1>2 DEF Ledger!Enter, AskedOf
  <2> HIDE DEF a
  <2> QED
    BY <1>1, <2>1
<1>3. ASSUME NEW r \in Request, NEW x, Ledger!Answer(r, x)
      PROVE  a[r] # Nothing /\ a1 = a /\ t1[r] = x /\ \A y \in Request \ {r} : Same(y)
  BY <1>3 DEF Ledger!Answer, AskedOf, ToldOf
<1>4. ASSUME NEW r \in Request, NEW same \in BOOLEAN, Ledger!Held(r, same)
      PROVE  /\ a[r] # Nothing /\ stored[a[r].batch] # Nothing /\ stored' = stored
             /\ (stored[a[r].batch].payload = a[r].payload) = same
  BY <1>4 DEF Ledger!Held, AskedOf
<1>5. ASSUME NEW r \in Request, Kept1, \A y \in Request \ {r} : Same(y), AnswerHolds(stored', a1[r], t1[r])
      PROVE  Goal
  <2> HIDE DEF a, t, a1, t1
  <2>1. ASSUME NEW y \in Request, AnswerHolds(stored, a[y], t[y]), Same(y) PROVE AnswerHolds(stored', a1[y], t1[y])
    BY <1>1, <1>5, <2>1 DEF AnswerHolds
  <2> QED
    BY <1>5, <2>1 DEF AnswersHold
<1>6. ASSUME NEW r \in Request, Ledger!Ask(r) PROVE Goal
  <2>1. stored' = stored /\ t1[r] = "none" /\ \A y \in Request \ {r} : Same(y)
    BY <1>6 DEF Ledger!Ask, AskedOf, ToldOf
  <2> QED
    BY <1>5, <2>1 DEF AnswerHolds
<1>7. ASSUME NEW r \in Request, Ledger!Accept(r) PROVE Goal
  <2>1. Ledger!Enter(r) /\ Ledger!Answer(r, "accepted")
    BY <1>7 DEF Ledger!Accept
  <2> HIDE DEF a, t, a1, t1, Same, Kept1, Goal
  <2>2. AnswerHolds(stored', a1[r], t1[r])
    BY <1>2, <1>3, <2>1 DEF AnswerHolds
  <2> QED
    BY <1>2, <1>3, <1>5, <2>1, <2>2
<1>8. ASSUME NEW r \in Request, Ledger!EnterUnheard(r) PROVE Goal
  <2>1. Ledger!Enter(r) /\ Ledger!Answer(r, "error")
    BY <1>8 DEF Ledger!EnterUnheard
  <2> HIDE DEF a, t, a1, t1, Same, Kept1, Goal
  <2>2. AnswerHolds(stored', a1[r], t1[r])
    BY <1>3, <2>1 DEF AnswerHolds
  <2> QED
    BY <1>2, <1>3, <1>5, <2>1, <2>2
<1>9. ASSUME NEW r \in Request, Ledger!Duplicate(r) PROVE Goal
  <2>1. Ledger!Held(r, TRUE) /\ Ledger!Answer(r, "duplicate")
    BY <1>9 DEF Ledger!Duplicate
  <2>2. stored' = stored /\ Kept1
    BY <1>4, <2>1
  <2> HIDE DEF a, t, a1, t1, Same, Kept1, Goal
  <2>3. stored[a[r].batch] # Nothing /\ stored[a[r].batch].payload = a[r].payload
    BY <1>4, <2>1
  <2>4. AnswerHolds(stored', a1[r], t1[r])
    BY <1>3, <2>1, <2>2, <2>3 DEF AnswerHolds
  <2> QED
    BY <1>3, <1>5, <2>1, <2>2, <2>4
<1>10. ASSUME NEW r \in Request, Ledger!Conflict(r) PROVE Goal
  <2>1. Ledger!Held(r, FALSE) /\ Ledger!Answer(r, "conflict")
    BY <1>10 DEF Ledger!Conflict
  <2>2. stored' = stored /\ Kept1
    BY <1>4, <2>1
  <2> HIDE DEF a, t, a1, t1, Same, Kept1, Goal
  <2>3. stored[a[r].batch] # Nothing /\ stored[a[r].batch].payload # a[r].payload
    BY <1>4, <2>1
  <2>4. AnswerHolds(stored', a1[r], t1[r])
    BY <1>3, <2>1, <2>2, <2>3 DEF AnswerHolds
  <2> QED
    BY <1>3, <1>5, <2>1, <2>2, <2>4
<1>11. ASSUME NEW r \in Request, Ledger!Refuse(r) PROVE Goal
  <2>1. PICK x \in {"unavailable", "error"} : Ledger!Answer(r, x) /\ stored' = stored
    BY <1>11 DEF Ledger!Refuse
  <2>2. Kept1
    BY <2>1
  <2> HIDE DEF a, t, a1, t1, Same, Kept1, Goal
  <2>3. AnswerHolds(stored', a1[r], t1[r])
    BY <1>3, <2>1 DEF AnswerHolds
  <2> QED
    BY <1>3, <1>5, <2>1, <2>2, <2>3
<1>12. ASSUME NEW r \in Request, Ledger!Close(r) PROVE Goal
  <2>1. stored' = stored /\ t1[r] = "none" /\ \A y \in Request \ {r} : Same(y)
    BY <1>12 DEF Ledger!Close, AskedOf, ToldOf
  <2> QED
    BY <1>5, <2>1 DEF AnswerHolds
<1>13. ASSUME Ledger!Lose PROVE Goal
  <2>1. stored' = stored /\ \A y \in Request : t1[y] = "none"
    BY <1>13 DEF Ledger!Lose, AskedOf, ToldOf
  <2> HIDE DEF a, t, a1, t1, Same
  <2> QED
    BY <2>1 DEF AnswersHold, AnswerHolds
<1>14. ASSUME UNCHANGED Ledger!ledgerVars PROVE Goal
  <2>1. stored' = stored /\ a1 = a /\ t1 = t
    BY <1>14 DEF Ledger!ledgerVars, AskedOf, ToldOf
  <2> HIDE DEF a, t, a1, t1, Same
  <2> QED
    BY <2>1
<1>15. Goal
  <2> HIDE DEF a, t, a1, t1, Same, Kept1, Goal
  <2> QED
    BY <1>6, <1>7, <1>8, <1>9, <1>10, <1>11, <1>12, <1>13, <1>14 DEF Ledger!LedgerNext
<1> QED
  BY <1>15

\* A sender is told the truth about values: accepted and duplicate that the
\* batch is stored with a payload of the value it sent, however that was
\* spelled then or now, conflict that it is stored with another value.
ToldTruly ==
  \A r \in Request :
    LET i == req[r].in
    IN  /\ req[r].answer \in {"accepted", "duplicate"} =>
             stored[i.batch] # Nothing /\ Denotes(stored[i.batch].payload) = Denotes(i.literal)
        /\ req[r].answer = "conflict" =>
             stored[i.batch] # Nothing /\ Denotes(stored[i.batch].payload) # Denotes(i.literal)

\* Nothing that is stored is changed or dropped by ingest.
StoredForGood == [][\A b \in Batch : stored[b] # Nothing => stored'[b] = stored[b]]_vars

\* What the sender of a batch has been told of it holds, and goes on to hold.
THEOREM IngestToldTruly == Spec => []ToldTruly /\ StoredForGood
<1> DEFINE Holds == AnswersHold(stored, AskedOf(req), ToldOf(req))
<1>1. IngestInv => stored \in [Batch -> {Row(i) : i \in Inputs} \cup {Nothing}] /\ req \in [Request -> Rec]
  BY DEF IngestInv, TablesTyped, RequestsOK
<1>2. Init => Holds
  <2> SUFFICES ASSUME Init PROVE Holds
    OBVIOUS
  <2>1. \A r \in Request : ToldOf(req)[r] = "none"
    BY NoRequestTyped DEF Init, ToldOf
  <2> QED
    BY <2>1 DEF AnswersHold, AnswerHolds
<1>3. IngestInv /\ Holds /\ [Next]_vars => Holds'
  <2> SUFFICES ASSUME IngestInv, Holds, [Next]_vars PROVE Holds'
    OBVIOUS
  <2>1. AnswersHold(stored', AskedOf(req'), ToldOf(req'))
    BY <1>1, LedgerStep, LedgerAnswers
  <2> QED
    BY <2>1 DEF AnswersHold, AnswerHolds, AskedOf, ToldOf
<1>4. IngestInv /\ Holds => ToldTruly
  <2> SUFFICES ASSUME IngestInv, Holds, NEW r \in Request,
                      req[r].answer \in {"accepted", "duplicate", "conflict"}
               PROVE  LET i == req[r].in
                      IN  /\ stored[i.batch] # Nothing
                          /\ req[r].answer \in {"accepted", "duplicate"} =>
                               Denotes(stored[i.batch].payload) = Denotes(i.literal)
                          /\ req[r].answer = "conflict" =>
                               Denotes(stored[i.batch].payload) # Denotes(i.literal)
    BY DEF ToldTruly
  <2> DEFINE i == req[r].in
             q == AskedOf(req)[r]
  <2>1. AnswerHolds(stored, q, req[r].answer)
    BY DEF AnswersHold, ToldOf
  <2>2. q # Nothing
    BY <2>1 DEF AnswerHolds
  <2>3. i \in Inputs /\ q = Question(i)
    BY <1>1, <2>2 DEF AskedOf, Rec
  <2>4. q.batch = i.batch /\ q.payload = PayloadOf[i]
    BY <2>3 DEF Question
  <2> HIDE DEF i, q
  <2>5. /\ stored[i.batch] # Nothing
        /\ req[r].answer \in {"accepted", "duplicate"} => stored[i.batch].payload = PayloadOf[i]
        /\ req[r].answer = "conflict" => stored[i.batch].payload # PayloadOf[i]
    BY <2>1, <2>4 DEF AnswerHolds
  <2>6. i.batch \in Batch /\ i.literal \in Numeral
    BY <2>3, LiteralTyped, IngestAssumption
  <2>7. PICK j \in Inputs : stored[i.batch] = Row(j)
    BY <1>1, <2>5, <2>6
  <2>8. j.literal \in Numeral
    BY LiteralTyped, IngestAssumption
  <2>9. stored[i.batch].payload = canonicalNumber(j.literal) /\ PayloadOf[i] = canonicalNumber(i.literal)
    BY <2>3, <2>7 DEF Row, PayloadOf, CanonicalPayload
  <2>10. /\ Denotes(canonicalNumber(j.literal)) = Denotes(j.literal)
         /\ Denotes(canonicalNumber(i.literal)) = Denotes(i.literal)
         /\ Denotes(j.literal) = Denotes(i.literal) => canonicalNumber(j.literal) = canonicalNumber(i.literal)
    BY <2>6, <2>8, WritingKeeps, WritingAgrees
  <2> QED
    BY <2>5, <2>9, <2>10 DEF i
<1>5. IngestInv /\ [Next]_vars => [\A b \in Batch : stored[b] # Nothing => stored'[b] = stored[b]]_vars
  BY <1>1, LedgerStep, LedgerAnswers
<1> QED
  BY <1>2, <1>3, <1>4, <1>5, IngestInvariant, PTL DEF Spec, StoredForGood
=============================================================================
