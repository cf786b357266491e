----------------------------- MODULE Admission -----------------------------
(***************************************************************************)
(* The ingest limiter of internal/server/admission/limiter.go as functions *)
(* on its state: token buckets per key and for a project, the number of    *)
(* requests in flight, and the clean-up of idle state.  Times are in ticks *)
(* and tokens in parts: a token is Minute parts, so that one tick refills  *)
(* a bucket by its capacity in parts.                                      *)
(***************************************************************************)
EXTENDS Integers

CONSTANTS
  Key,          \* API keys of the project
  Capacity,     \* [requests, entries, bytes] a minute
  MaxInflight,  \* requests of the project admitted at once
  Minute,       \* ticks in a minute
  StateTTL,     \* ticks after which idle state is dropped
  Absent        \* no state in the map

Kinds == {"requests", "entries", "bytes"}

Parts(c) == Capacity[c] * Minute

Bucket == [tokens : Int, last : Int]
KeyState == [requests : Bucket, lastSeen : Int]
ProjectState == [entries : Bucket, bytes : Bucket, inflight : Int, lastSeen : Int]

\* New: positive limits, and state kept for at least two minutes.
ASSUME AdmissionAssumption ==
  /\ Capacity \in [Kinds -> Nat \ {0}]
  /\ MaxInflight \in Nat \ {0}
  /\ Minute \in Nat \ {0}
  /\ StateTTL \in Nat /\ StateTTL >= 2 * Minute
  /\ Absent \notin KeyState \cup ProjectState

fullBucket(c, t) == [tokens |-> Parts(c), last |-> t]

AtMost(n, max) == IF n <= max THEN n ELSE max

\* A clock that reads no later than the last refill adds nothing.
refill(b, c, t) ==
  IF t > b.last
  THEN [tokens |-> AtMost(b.tokens + (t - b.last) * Capacity[c], Parts(c)), last |-> t]
  ELSE b

newKey(t) == [requests |-> fullBucket("requests", t), lastSeen |-> t]
newProject(t) ==
  [entries |-> fullBucket("entries", t), bytes |-> fullBucket("bytes", t), inflight |-> 0, lastSeen |-> t]

\* The limiter: the maps and the time of the last clean-up (-Minute: never).
Empty == [keys |-> [k \in Key |-> Absent], project |-> Absent, lastCleanup |-> -Minute]

Idle(s, t) == s # Absent /\ s.lastSeen < t - StateTTL

\* Mutant: a project is dropped although requests hold reservations.
ForgottenBusy(p, t) == Idle(p, t)

Forgotten(p, t) == Idle(p, t) /\ p.inflight = 0

\* Once a minute: idle keys, and idle projects without requests in flight.
cleanupLocked(l, t) ==
  IF t - l.lastCleanup < Minute THEN l
  ELSE [keys |-> [k \in Key |-> IF Idle(l.keys[k], t) THEN Absent ELSE l.keys[k]],
        project |-> IF Forgotten(l.project, t) THEN Absent ELSE l.project,
        lastCleanup |-> t]

Larger(cost) == cost.entries > Capacity.entries \/ cost.bytes > Capacity.bytes

\* The key after one attempt, and the project as an attempt finds it.
keyAt(l, k, t) ==
  LET s == IF l.keys[k] = Absent THEN newKey(t) ELSE l.keys[k]
  IN  [requests |-> refill(s.requests, "requests", t), lastSeen |-> t]
projectAt(l, t) ==
  LET s == IF l.project = Absent THEN newProject(t) ELSE l.project
  IN  [s EXCEPT !.entries = refill(@, "entries", t), !.bytes = refill(@, "bytes", t), !.lastSeen = t]

\* The part of AllowIngest under the lock, at clock reading t: the limiter
\* after it and the reason of a refusal.  The key pays for every attempt; the
\* project pays only when all of its limits allow the batch.
AllowIngest(l, k, cost, t) ==
  LET clean == cleanupLocked(l, t)
      key == keyAt(clean, k, t)
      paid == [key EXCEPT !.requests.tokens = @ - Minute]
      project == projectAt(clean, t)
      refused(reason) ==
        [limiter |-> [clean EXCEPT !.keys[k] = paid, !.project = project], reason |-> reason]
  IN  CASE key.requests.tokens < Minute ->
             [limiter |-> [clean EXCEPT !.keys[k] = key], reason |-> "key_rate"]
        [] project.inflight >= MaxInflight -> refused("project_inflight")
        [] project.entries.tokens < cost.entries * Minute -> refused("project_entries")
        [] project.bytes.tokens < cost.bytes * Minute -> refused("project_bytes")
        [] OTHER ->
             [limiter |-> [clean EXCEPT !.keys[k] = paid,
                                        !.project = [project EXCEPT
                                           !.entries.tokens = @ - cost.entries * Minute,
                                           !.bytes.tokens = @ - cost.bytes * Minute,
                                           !.inflight = @ + 1]],
              reason |-> "none"]

\* The end of a reservation: the cost goes back unless the batch was accepted.
finish(l, cost, refund, t) ==
  IF l.project = Absent \/ l.project.inflight <= 0 THEN l
  ELSE LET back(b, c) == [refill(b, c, t) EXCEPT !.tokens = IF refund THEN AtMost(@ + cost[c] * Minute, Parts(c)) ELSE @]
       IN  [l EXCEPT !.project = [entries |-> back(@.entries, "entries"), bytes |-> back(@.bytes, "bytes"),
                                  inflight |-> @.inflight - 1, lastSeen |-> t]]
=============================================================================
