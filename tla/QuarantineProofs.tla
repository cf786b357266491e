------------------------- MODULE QuarantineProofs -------------------------
(***************************************************************************)
(* Theorems about Quarantine, for any rows, callers and number of claims.  *)
(***************************************************************************)
EXTENDS Quarantine, FiniteSetTheorems, TLAPS

\* The callers that hold a claim of row q, expired or not.
Holders(q) == {c \in Caller : call[c].row = {q}}

\* What a caller may conclude from Accept: the batch is in the ledger, though
\* the row may be somebody else's by now.
AcceptedStored == \A c \in Caller : At(c, "accepted") => ledger[RowOf(c)] = "own"

\* Entries of a row are inserted exactly when its own payload enters the ledger.
InsertedOnce == \A q \in Row : copies[q] = IF ledger[q] = "own" THEN 1 ELSE 0

\* The inductive invariant.
ClaimInv == TypeOK /\ AuditMatches /\ ResolvedStored /\ AcceptedStored /\ InsertedOnce

-----------------------------------------------------------------------------
(* Callers and the rows they hold.                                         *)

\* A caller that is not idle holds one row.
LEMMA HeldRow ==
  ASSUME TypeOK, NEW c \in Caller, ~At(c, "idle")
  PROVE  RowOf(c) \in Row /\ call[c].row = {RowOf(c)} /\ call[c].pc \in {"claimed", "accepted", "failed"}
<1>1. call[c] \in [pc : {"claimed", "accepted", "failed"}, row : {{q} : q \in Row}]
  BY DEF TypeOK, Replays, Idle, At
<1>2. \E q \in Row : call[c].row = {q}
  BY <1>1
<1>. QED BY <1>1, <1>2 DEF RowOf

\* An idle caller holds none.
LEMMA IdleHoldsNothing ==
  ASSUME TypeOK, NEW c \in Caller, At(c, "idle")
  PROVE  call[c] = Idle /\ \A q \in Row : c \notin Holders(q)
<1>1. call[c] = Idle
  BY DEF TypeOK, Replays, Idle, At
<1>. QED BY <1>1 DEF Idle, Holders

\* A row has finitely many holders.
LEMMA HoldersCounted ==
  ASSUME NEW q \in Row
  PROVE  IsFiniteSet(Holders(q)) /\ Cardinality(Holders(q)) \in Nat
<1>1. Holders(q) \in SUBSET Caller
  BY DEF Holders
<1>2. IsFiniteSet(Holders(q))
  BY <1>1, QuarantineAssumption, FS_Subset
<1>. QED BY <1>2, FS_CardinalityType

\* A caller that claims a row becomes one of its holders and of no other's.
LEMMA ClaimAddsHolder ==
  ASSUME TypeOK, NEW c \in Caller, At(c, "idle"), NEW q \in Row,
         call' = [call EXCEPT ![c] = [pc |-> "claimed", row |-> {q}]], NEW p \in Row
  PROVE  Cardinality(Holders(p)') = IF p = q THEN Cardinality(Holders(p)) + 1 ELSE Cardinality(Holders(p))
<1>1. c \notin Holders(p)
  BY IdleHoldsNothing
<1>2. CASE p = q
  <2>1. Holders(p)' = Holders(p) \cup {c}
    BY <1>2 DEF Holders, TypeOK
  <2>. QED BY <1>1, <1>2, <2>1, HoldersCounted, FS_AddElement
<1>3. CASE p # q
  <2>1. Holders(p)' = Holders(p)
    <3>1. {p} # {q} BY <1>3
    <3>. QED BY <1>1, <3>1 DEF Holders, TypeOK
  <2>. QED BY <1>3, <2>1
<1>. QED BY <1>2, <1>3

\* A caller that returns gives up the one row it held.
LEMMA ReturnRemovesHolder ==
  ASSUME TypeOK, NEW c \in Caller, ~At(c, "idle"), Return(c), NEW p \in Row
  PROVE  Cardinality(Holders(p)') = IF p = RowOf(c) THEN Cardinality(Holders(p)) - 1 ELSE Cardinality(Holders(p))
<1>1. call[c].row = {RowOf(c)} /\ RowOf(c) \in Row
  BY HeldRow
<1>2. Holders(p)' = Holders(p) \ {c}
  <2>1. Idle.row = {} BY DEF Idle
  <2>2. {p} # {} OBVIOUS
  <2>. QED BY <2>1, <2>2 DEF Holders, Return, TypeOK
<1>3. c \in Holders(p) <=> p = RowOf(c)
  BY <1>1 DEF Holders
<1>. QED BY <1>2, <1>3, HoldersCounted, FS_RemoveElement

\* A caller that goes on keeps its row, and so does everybody else.
LEMMA StepKeepsHolders ==
  ASSUME TypeOK, NEW c \in Caller, NEW pc, Step(c, pc)
  PROVE  /\ \A p \in Row : Holders(p)' = Holders(p)
         /\ \A d \in Caller : call'[d].row = call[d].row /\ RowOf(d)' = RowOf(d)
<1>1. \A d \in Caller : call[d] \in [pc : {"claimed", "accepted", "failed", "idle"}, row : SUBSET Row]
  BY DEF TypeOK, Replays, Idle
<1>2. \A d \in Caller : call'[d].row = call[d].row
  BY <1>1 DEF Step, TypeOK
<1>. QED BY <1>2 DEF Holders, RowOf

-----------------------------------------------------------------------------
(* What the statements do to a row and to its audit trail.                 *)

Rows == [Row -> [status : Status, attempts : 0..MaxAttempts, expired : BOOLEAN]]
Trail == [Row -> [Records -> Nat]]

\* A conditional update of one row, field by field.
LEMMA SetRow ==
  ASSUME TypeOK, NEW q \in Row, NEW s \in Status, Set(q, s)
  PROVE  /\ row' \in Rows
         /\ \A p \in Row : /\ row'[p].status = IF p = q THEN s ELSE row[p].status
                           /\ row'[p].attempts = row[p].attempts
                           /\ row'[p].expired = IF p = q THEN FALSE ELSE row[p].expired
  BY ZenonT(60) DEF Set, TypeOK, Rows

\* A claim, field by field.
LEMMA ClaimedRow ==
  ASSUME TypeOK, NEW q \in Row, NEW s \in Status, Claimable(q), Claimed(q, s)
  PROVE  /\ row' \in Rows
         /\ \A p \in Row : /\ row'[p].status = IF p = q THEN s ELSE row[p].status
                           /\ row'[p].attempts = IF p = q THEN row[p].attempts + 1 ELSE row[p].attempts
                           /\ row'[p].expired = IF p = q THEN FALSE ELSE row[p].expired
<1>. DEFINE n == row[q].attempts + 1
<1>1. n \in 0..MaxAttempts
  <2>1. row[q].attempts \in 0..MaxAttempts /\ row[q].attempts < MaxAttempts
    BY DEF Claimable, TypeOK
  <2>. QED BY <2>1, QuarantineAssumption
<1>2. row' = [row EXCEPT ![q].status = s, ![q].attempts = n, ![q].expired = FALSE]
  BY DEF Claimed
<1>3. row \in Rows
  BY DEF TypeOK, Rows
<1>. HIDE DEF n
<1>4. /\ row' \in Rows
      /\ \A p \in Row : /\ row'[p].status = IF p = q THEN s ELSE row[p].status
                        /\ row'[p].attempts = IF p = q THEN n ELSE row[p].attempts
                        /\ row'[p].expired = IF p = q THEN FALSE ELSE row[p].expired
  BY <1>1, <1>2, <1>3 DEF Rows
<1>. QED BY <1>4 DEF n

\* One more audit record, and no other counter touched.
LEMMA AuditAppended ==
  ASSUME TypeOK, NEW q \in Row, NEW a \in Records, appendAudit(q, a)
  PROVE  /\ audit' \in Trail
         /\ \A p \in Row : \A x \in Records :
              audit'[p][x] = IF p = q /\ x = a THEN audit[p][x] + 1 ELSE audit[p][x]
<1>1. audit \in Trail
  BY QuarantineAssumption DEF TypeOK, Trail
<1>. QED BY <1>1 DEF appendAudit, Trail

\* The audit trail of one row: what AuditMatches says, with its callers counted
\* by h.
TrailOK(r, t, h) ==
  /\ r.attempts = t["claim"] + t["discard"]
  /\ t["resolve"] + t["release"] + h <= t["claim"]
  /\ r.status = "resolved" => t["resolve"] > 0
  /\ r.status = "discarded" => t["discard"] > 0

\* AuditMatches is the trail of every row.
LEMMA TrailOfEveryRow ==
  /\ AuditMatches <=> \A q \in Row : TrailOK(row[q], audit[q], Cardinality(Holders(q)))
  /\ AuditMatches' <=> \A q \in Row : TrailOK(row'[q], audit'[q], Cardinality(Holders(q)'))
  BY DEF AuditMatches, TrailOK, Holders

\* The counters never exceed the attempts they describe.
LEMMA TrailBounded ==
  ASSUME row' \in Rows, audit' \in Trail, AuditMatches',
         \A q \in Row : Cardinality(Holders(q)') \in Nat
  PROVE  audit' \in [Row -> [Records -> 0..MaxAttempts]]
<1>1. \A q \in Row : \A a \in Records : audit'[q][a] \in 0..MaxAttempts
  <2>. SUFFICES ASSUME NEW q \in Row, NEW a \in Records
                PROVE  audit'[q][a] \in 0..MaxAttempts
    OBVIOUS
  <2>1. TrailOK(row'[q], audit'[q], Cardinality(Holders(q)'))
    BY TrailOfEveryRow
  <2>2. row'[q].attempts \in 0..MaxAttempts /\ audit'[q] \in [Records -> Nat]
    BY DEF Rows, Trail
  <2>3. /\ audit'[q]["claim"] \in Nat /\ audit'[q]["discard"] \in Nat
        /\ audit'[q]["resolve"] \in Nat /\ audit'[q]["release"] \in Nat
    BY <2>2 DEF Records
  <2>. QED BY <2>1, <2>2, <2>3, QuarantineAssumption DEF TrailOK, Records
<1>. QED BY <1>1 DEF Trail

Counters(q) ==
  /\ row[q].attempts \in Nat /\ Cardinality(Holders(q)) \in Nat
  /\ audit[q]["claim"] \in Nat /\ audit[q]["discard"] \in Nat
  /\ audit[q]["resolve"] \in Nat /\ audit[q]["release"] \in Nat

\* A typed trail counts with natural numbers.
LEMMA CountersNatural ==
  ASSUME TypeOK, NEW q \in Row
  PROVE  Counters(q)
<1>1. row[q].attempts \in 0..MaxAttempts /\ audit[q] \in [Records -> 0..MaxAttempts]
  BY DEF TypeOK
<1>2. \A a \in Records : audit[q][a] \in 0..MaxAttempts
  BY <1>1
<1>. QED BY <1>1, <1>2, HoldersCounted, QuarantineAssumption DEF Counters, Records

\* So has it after a step.
LEMMA HoldersCountedNext ==
  ASSUME NEW q \in Row
  PROVE  Cardinality(Holders(q)') \in Nat
<1>1. Holders(q)' \in SUBSET Caller
  BY DEF Holders
<1>2. IsFiniteSet(Holders(q)')
  BY <1>1, QuarantineAssumption, FS_Subset
<1>. QED BY <1>2, FS_CardinalityType

-----------------------------------------------------------------------------
(* Every step keeps the invariant.                                         *)

\* Accept, deliveries: what enters the ledger stays there and is counted once.
Growing ==
  /\ ledger' \in [Row -> {"none", "own", "other"}] /\ copies' \in [Row -> Nat]
  /\ \A q \in Row : ledger[q] = "own" => ledger'[q] = "own" /\ copies'[q] = copies[q]
  /\ InsertedOnce'

\* Accept enters the payload once.
LEMMA EnterGrows ==
  ASSUME ClaimInv, NEW q \in Row, Enter(q)
  PROVE  Growing /\ ledger'[q] = "own"
<1>1. /\ ledger \in [Row -> {"none", "own", "other"}] /\ copies \in [Row -> Nat]
      /\ \A p \in Row : copies[p] = IF ledger[p] = "own" THEN 1 ELSE 0
  BY DEF ClaimInv, TypeOK, InsertedOnce
<1>2. /\ ledger'[q] = "own" /\ copies'[q] = 1
      /\ \A p \in Row : p # q => ledger'[p] = ledger[p] /\ copies'[p] = copies[p]
      /\ ledger' \in [Row -> {"none", "own", "other"}] /\ copies' \in [Row -> Nat]
  BY <1>1 DEF Enter
<1>. QED BY <1>1, <1>2 DEF Growing, InsertedOnce

\* A claim and its audit record.
LEMMA ClaimKeeps ==
  ASSUME ClaimInv, NEW c \in Caller, NEW q \in Row, claim(c, q)
  PROVE  ClaimInv'
<1>. DEFINE r == [pc |-> "claimed", row |-> {q}]
<1>0. TypeOK /\ "replaying" \in Status /\ "claim" \in Records
  BY DEF ClaimInv, Status, Records
<1>1. /\ row' \in Rows
      /\ \A p \in Row : /\ row'[p].status = IF p = q THEN "replaying" ELSE row[p].status
                        /\ row'[p].attempts = IF p = q THEN row[p].attempts + 1 ELSE row[p].attempts
                        /\ row'[p].expired = IF p = q THEN FALSE ELSE row[p].expired
  BY <1>0, ClaimedRow DEF claim
<1>2. /\ audit' \in Trail
      /\ \A p \in Row : \A x \in Records :
           audit'[p][x] = IF p = q /\ x = "claim" THEN audit[p][x] + 1 ELSE audit[p][x]
  BY <1>0, AuditAppended DEF claim
<1>3. call' = [call EXCEPT ![c] = r] /\ r \in Replays
  BY DEF claim, Replays
<1>4. \A p \in Row : Cardinality(Holders(p)') = IF p = q THEN Cardinality(Holders(p)) + 1 ELSE Cardinality(Holders(p))
  BY <1>0, ClaimAddsHolder DEF claim
<1>5. AuditMatches'
  <2>. SUFFICES ASSUME NEW p \in Row PROVE TrailOK(row'[p], audit'[p], Cardinality(Holders(p)'))
    BY TrailOfEveryRow
  <2>1. TrailOK(row[p], audit[p], Cardinality(Holders(p)))
    BY TrailOfEveryRow DEF ClaimInv
  <2>2. Counters(p)
    BY <1>0, CountersNatural
  <2>3. CASE p = q
    <3>1. row'[p].status = "replaying" /\ row'[p].attempts = row[p].attempts + 1
      BY <1>1, <2>3
    <3>2. /\ audit'[p]["claim"] = audit[p]["claim"] + 1 /\ audit'[p]["discard"] = audit[p]["discard"]
          /\ audit'[p]["resolve"] = audit[p]["resolve"] /\ audit'[p]["release"] = audit[p]["release"]
      BY <1>2, <2>3 DEF Records
    <3>3. Cardinality(Holders(p)') = Cardinality(Holders(p)) + 1
      BY <1>4, <2>3
    <3>. QED BY <2>1, <2>2, <3>1, <3>2, <3>3 DEF TrailOK, Counters
  <2>4. CASE p # q
    <3>1. row'[p].status = row[p].status /\ row'[p].attempts = row[p].attempts
      BY <1>1, <2>4
    <3>2. \A x \in Records : audit'[p][x] = audit[p][x]
      BY <1>2, <2>4
    <3>3. Cardinality(Holders(p)') = Cardinality(Holders(p))
      BY <1>4, <2>4
    <3>. QED BY <2>1, <3>1, <3>2, <3>3 DEF TrailOK, Records
  <2>. QED BY <2>3, <2>4
<1>6. TypeOK'
  <2>1. audit' \in [Row -> [Records -> 0..MaxAttempts]]
    BY <1>1, <1>2, <1>5, HoldersCountedNext, TrailBounded
  <2>2. \A p \in Row : row'[p].expired => row'[p].status = "replaying"
    BY <1>0, <1>1 DEF TypeOK
  <2>3. call' \in [Caller -> Replays]
    BY <1>0, <1>3 DEF TypeOK
  <2>. QED BY <1>0, <1>1, <2>1, <2>2, <2>3 DEF TypeOK, Rows, claim, workerVars, ingestVars
<1>7. ResolvedStored'
  BY <1>1 DEF ResolvedStored, ClaimInv, claim, ingestVars
<1>8. AcceptedStored'
  <2>. SUFFICES ASSUME NEW d \in Caller, At(d, "accepted")' PROVE (ledger[RowOf(d)])' = "own"
    BY DEF AcceptedStored
  <2>1. d # c /\ call'[d] = call[d]
    BY <1>0, <1>3 DEF At, TypeOK
  <2>. QED BY <2>1 DEF AcceptedStored, ClaimInv, At, RowOf, claim, ingestVars
<1>9. InsertedOnce'
  BY DEF InsertedOnce, ClaimInv, claim, ingestVars
<1>. QED BY <1>5, <1>6, <1>7, <1>8, <1>9 DEF ClaimInv

\* Accept, whether or not its caller hears of it.
LEMMA AcceptKeeps ==
  ASSUME ClaimInv, NEW c \in Caller, Accept(c)
  PROVE  ClaimInv'
<1>. DEFINE q == RowOf(c)
<1>0. TypeOK /\ q \in Row /\ call[c].row = {q}
  BY HeldRow DEF ClaimInv, Accept, At
<1>1. PICK pc \in {"accepted", "failed"} : Step(c, pc) /\ (pc = "accepted" => Enter(q))
  BY DEF Accept
<1>2. Growing /\ (pc = "accepted" => ledger'[q] = "own")
  <2>1. CASE Enter(q)
    BY <1>0, <2>1, EnterGrows
  <2>2. CASE UNCHANGED ingestVars /\ pc # "accepted"
    BY <1>0, <2>2 DEF ClaimInv, TypeOK, Growing, InsertedOnce, ingestVars
  <2>3. Enter(q) \/ (UNCHANGED ingestVars /\ pc # "accepted")
    BY <1>1 DEF Accept
  <2>. QED BY <2>1, <2>2, <2>3
<1>3. /\ \A p \in Row : Holders(p)' = Holders(p)
      /\ \A d \in Caller : call'[d].row = call[d].row /\ RowOf(d)' = RowOf(d)
  BY <1>0, <1>1, StepKeepsHolders
<1>4. row' = row /\ audit' = audit /\ picked' = picked /\ worker' = worker
  BY DEF Accept, workerVars
<1>5. TypeOK'
  <2>1. call[c] \in [pc : {"claimed", "accepted", "failed"}, row : {{p} : p \in Row}]
    BY <1>0 DEF TypeOK, Replays, Accept, At, Idle
  <2>2. [call[c] EXCEPT !.pc = pc] \in Replays
    BY <2>1 DEF Replays
  <2>3. call' = [call EXCEPT ![c] = [call[c] EXCEPT !.pc = pc]]
    BY <1>1 DEF Step
  <2>4. call' \in [Caller -> Replays]
    BY <1>0, <2>2, <2>3 DEF TypeOK
  <2>. QED BY <1>0, <1>2, <1>4, <2>4 DEF TypeOK, Growing
<1>6. AuditMatches'
  BY <1>3, <1>4, TrailOfEveryRow DEF ClaimInv
<1>7. ResolvedStored'
  BY <1>2, <1>4 DEF ResolvedStored, ClaimInv, Growing
<1>8. AcceptedStored'
  <2>. SUFFICES ASSUME NEW d \in Caller, At(d, "accepted")' PROVE ledger'[RowOf(d)'] = "own"
    BY DEF AcceptedStored
  <2>1. CASE d = c
    <3>1. pc = "accepted"
      BY <1>0, <1>1, <2>1 DEF At, Step, TypeOK, Replays, Idle
    <3>. QED BY <1>2, <1>3, <2>1, <3>1
  <2>2. CASE d # c
    <3>1. call'[d] = call[d]
      BY <1>0, <1>1, <2>2 DEF Step, TypeOK
    <3>2. ledger[RowOf(d)] = "own" /\ ~At(d, "idle")
      BY <3>1 DEF At, AcceptedStored, ClaimInv
    <3>3. RowOf(d) \in Row
      BY <1>0, <3>2, HeldRow
    <3>. QED BY <1>2, <1>3, <3>2, <3>3 DEF Growing
  <2>. QED BY <2>1, <2>2
<1>. QED BY <1>2, <1>5, <1>6, <1>7, <1>8 DEF ClaimInv, Growing

\* Resolve, release and Abandon: a caller returns, and perhaps ends a claim of
\* its row that need not be its own any more.
LEMMA EndKeeps ==
  ASSUME ClaimInv, NEW c \in Caller, ~At(c, "idle"), Return(c), UNCHANGED <<workerVars, ingestVars>>,
         NEW s \in {"resolved", "pending"}, NEW a \in {"resolve", "release"},
         s = "resolved" => a = "resolve" /\ At(c, "accepted"),
         \/ row[RowOf(c)].status = "replaying" /\ Set(RowOf(c), s) /\ appendAudit(RowOf(c), a)
         \/ UNCHANGED <<row, audit>>
  PROVE  ClaimInv'
<1>. DEFINE q == RowOf(c)
<1>0. TypeOK /\ q \in Row /\ s \in Status /\ a \in Records
  BY HeldRow DEF ClaimInv, Status, Records
<1>1. \A p \in Row : Cardinality(Holders(p)') = IF p = q THEN Cardinality(Holders(p)) - 1 ELSE Cardinality(Holders(p))
  BY <1>0, ReturnRemovesHolder
<1>2. /\ picked' = picked /\ worker' = worker /\ ledger' = ledger /\ copies' = copies
      /\ call' = [call EXCEPT ![c] = Idle]
  BY DEF workerVars, ingestVars, Return
<1>3. /\ row' \in Rows
      /\ \A p \in Row : /\ row'[p].status = row[p].status \/ (p = q /\ row'[p].status = s)
                        /\ row'[p].attempts = row[p].attempts
                        /\ row'[p].expired => row[p].expired /\ row'[p].status = row[p].status
  <2>1. CASE Set(q, s)
    BY <1>0, <2>1, SetRow, ZenonT(60)
  <2>2. CASE row' = row
    BY <1>0, <2>2 DEF TypeOK, Rows
  <2>. QED BY <2>1, <2>2
<1>4. /\ audit' \in Trail
      /\ \A p \in Row : \A x \in Records :
           \/ audit'[p][x] = audit[p][x]
           \/ p = q /\ x = a /\ audit'[p][x] = audit[p][x] + 1
      /\ \A p \in Row : row'[p].status # row[p].status => audit'[p][a] = audit[p][a] + 1
  <2>1. CASE Set(q, s) /\ appendAudit(q, a)
    <3>1. /\ audit' \in Trail
          /\ \A p \in Row : \A x \in Records :
               audit'[p][x] = IF p = q /\ x = a THEN audit[p][x] + 1 ELSE audit[p][x]
      BY <1>0, <2>1, AuditAppended
    <3>2. \A p \in Row : p # q => row'[p].status = row[p].status
      BY <1>0, <2>1, SetRow
    <3>. QED BY <1>0, <3>1, <3>2
  <2>2. CASE row' = row /\ audit' = audit
    BY <1>0, <2>2, QuarantineAssumption DEF TypeOK, Trail
  <2>. QED BY <2>1, <2>2
<1>5. AuditMatches'
  <2>. SUFFICES ASSUME NEW p \in Row PROVE TrailOK(row'[p], audit'[p], Cardinality(Holders(p)'))
    BY TrailOfEveryRow
  <2>1. TrailOK(row[p], audit[p], Cardinality(Holders(p))) /\ Counters(p)
    BY <1>0, TrailOfEveryRow, CountersNatural DEF ClaimInv
  <2>2. /\ audit'[p]["claim"] = audit[p]["claim"] /\ audit'[p]["discard"] = audit[p]["discard"]
    BY <1>4 DEF Records
  <2>3. row'[p].attempts = audit'[p]["claim"] + audit'[p]["discard"]
    BY <1>3, <2>1, <2>2 DEF TrailOK
  <2>4. audit'[p]["resolve"] + audit'[p]["release"] + Cardinality(Holders(p)') <= audit'[p]["claim"]
    <3>1. CASE p # q
      <4>1. audit'[p]["resolve"] = audit[p]["resolve"] /\ audit'[p]["release"] = audit[p]["release"]
        BY <1>4, <3>1 DEF Records
      <4>. QED BY <1>1, <2>1, <2>2, <3>1, <4>1 DEF TrailOK
    <3>2. CASE p = q
      <4>1. /\ audit'[p]["resolve"] \in {audit[p]["resolve"], audit[p]["resolve"] + 1}
            /\ audit'[p]["release"] \in {audit[p]["release"], audit[p]["release"] + 1}
            /\ a = "resolve" => audit'[p]["release"] = audit[p]["release"]
            /\ a = "release" => audit'[p]["resolve"] = audit[p]["resolve"]
        BY <1>4, <3>2 DEF Records
      <4>2. Cardinality(Holders(p)') = Cardinality(Holders(p)) - 1
        BY <1>1, <3>2
      <4>3. CASE a = "resolve"
        BY <2>1, <2>2, <4>1, <4>2, <4>3 DEF TrailOK, Counters
      <4>4. CASE a = "release"
        BY <2>1, <2>2, <4>1, <4>2, <4>4 DEF TrailOK, Counters
      <4>. QED BY <4>3, <4>4
    <3>. QED BY <3>1, <3>2
  <2>5. row'[p].status = "resolved" => audit'[p]["resolve"] > 0
    <3>. HAVE row'[p].status = "resolved"
    <3>1. CASE row[p].status = "resolved"
      <4>1. audit'[p]["resolve"] \in {audit[p]["resolve"], audit[p]["resolve"] + 1}
        BY <1>4 DEF Records
      <4>. QED BY <2>1, <3>1, <4>1 DEF TrailOK, Counters
    <3>2. CASE row[p].status # "resolved"
      <4>1. a = "resolve" /\ audit'[p][a] = audit[p][a] + 1
        BY <1>3, <1>4, <3>2
      <4>. QED BY <2>1, <4>1 DEF Counters
    <3>. QED BY <3>1, <3>2
  <2>6. row'[p].status = "discarded" => audit'[p]["discard"] > 0
    BY <1>3, <2>1, <2>2 DEF TrailOK
  <2>. QED BY <2>3, <2>4, <2>5, <2>6 DEF TrailOK
<1>6. TypeOK'
  <2>1. audit' \in [Row -> [Records -> 0..MaxAttempts]]
    BY <1>3, <1>4, <1>5, HoldersCountedNext, TrailBounded
  <2>2. \A p \in Row : row'[p].expired => row'[p].status = "replaying"
    BY <1>0, <1>3 DEF TypeOK
  <2>3. call' \in [Caller -> Replays]
    BY <1>0, <1>2 DEF TypeOK, Replays
  <2>. QED BY <1>0, <1>2, <1>3, <2>1, <2>2, <2>3 DEF TypeOK, Rows
<1>7. ResolvedStored'
  <2>1. s = "resolved" => ledger[q] = "own" /\ copies[q] = 1
    BY <1>0 DEF ClaimInv, AcceptedStored, InsertedOnce
  <2>. QED BY <1>2, <1>3, <2>1 DEF ResolvedStored, ClaimInv
<1>8. AcceptedStored'
  <2>. SUFFICES ASSUME NEW d \in Caller, At(d, "accepted")' PROVE (ledger[RowOf(d)])' = "own"
    BY DEF AcceptedStored
  <2>1. d # c /\ call'[d] = call[d]
    BY <1>0, <1>2 DEF At, TypeOK, Idle
  <2>. QED BY <1>2, <2>1 DEF AcceptedStored, ClaimInv, At, RowOf
<1>9. InsertedOnce'
  BY <1>2 DEF InsertedOnce, ClaimInv
<1>. QED BY <1>5, <1>6, <1>7, <1>8, <1>9 DEF ClaimInv

\* A discard: claim and end in one transaction.
LEMMA DiscardKeeps ==
  ASSUME ClaimInv, NEW q \in Row, DiscardQuarantine(q)
  PROVE  ClaimInv'
<1>0. TypeOK /\ "discarded" \in Status /\ "discard" \in Records
  BY DEF ClaimInv, Status, Records
<1>1. /\ row' \in Rows
      /\ \A p \in Row : /\ row'[p].status = IF p = q THEN "discarded" ELSE row[p].status
                        /\ row'[p].attempts = IF p = q THEN row[p].attempts + 1 ELSE row[p].attempts
                        /\ row'[p].expired = IF p = q THEN FALSE ELSE row[p].expired
  BY <1>0, ClaimedRow DEF DiscardQuarantine
<1>2. /\ audit' \in Trail
      /\ \A p \in Row : \A x \in Records :
           audit'[p][x] = IF p = q /\ x = "discard" THEN audit[p][x] + 1 ELSE audit[p][x]
  BY <1>0, AuditAppended DEF DiscardQuarantine
<1>3. call' = call /\ picked' = picked /\ worker' = worker /\ ledger' = ledger /\ copies' = copies
  BY DEF DiscardQuarantine, workerVars, ingestVars
<1>4. AuditMatches'
  <2>. SUFFICES ASSUME NEW p \in Row PROVE TrailOK(row'[p], audit'[p], Cardinality(Holders(p)'))
    BY TrailOfEveryRow
  <2>1. TrailOK(row[p], audit[p], Cardinality(Holders(p))) /\ Counters(p)
    BY <1>0, TrailOfEveryRow, CountersNatural DEF ClaimInv
  <2>2. Cardinality(Holders(p)') = Cardinality(Holders(p))
    BY <1>3 DEF Holders
  <2>3. /\ audit'[p]["claim"] = audit[p]["claim"] /\ audit'[p]["resolve"] = audit[p]["resolve"]
        /\ audit'[p]["release"] = audit[p]["release"]
        /\ audit'[p]["discard"] = IF p = q THEN audit[p]["discard"] + 1 ELSE audit[p]["discard"]
    BY <1>2 DEF Records
  <2>4. CASE p = q
    <3>1. row'[p].status = "discarded" /\ row'[p].attempts = row[p].attempts + 1
      BY <1>1, <2>4
    <3>2. audit'[p]["discard"] = audit[p]["discard"] + 1
      BY <2>3, <2>4
    <3>3. row'[p].attempts = audit'[p]["claim"] + audit'[p]["discard"] /\ audit'[p]["discard"] > 0
      BY <2>1, <2>3, <3>1, <3>2 DEF TrailOK, Counters
    <3>4. audit'[p]["resolve"] + audit'[p]["release"] + Cardinality(Holders(p)') <= audit'[p]["claim"]
      BY <2>1, <2>2, <2>3 DEF TrailOK
    <3>. QED BY <3>1, <3>3, <3>4 DEF TrailOK
  <2>5. CASE p # q
    BY <1>1, <2>1, <2>2, <2>3, <2>5 DEF TrailOK
  <2>. QED BY <2>4, <2>5
<1>5. TypeOK'
  <2>1. audit' \in [Row -> [Records -> 0..MaxAttempts]]
    BY <1>1, <1>2, <1>4, HoldersCountedNext, TrailBounded
  <2>2. \A p \in Row : row'[p].expired => row'[p].status = "replaying"
    BY <1>0, <1>1 DEF TypeOK
  <2>. QED BY <1>0, <1>1, <1>3, <2>1, <2>2 DEF TypeOK, Rows
<1>6. ResolvedStored'
  BY <1>1, <1>3 DEF ResolvedStored, ClaimInv
<1>. QED BY <1>3, <1>4, <1>5, <1>6 DEF ClaimInv, AcceptedStored, InsertedOnce, At, RowOf

\* The worker and the clock change only rows, and of them neither attempts nor
\* a status to a terminal one.
LEMMA WorkerKeeps ==
  ASSUME ClaimInv, UNCHANGED <<audit, call, ingestVars>>,
         row' \in Rows, picked' \subseteq Row, worker' \in {"idle", "update"},
         worker' = "idle" => picked' = {},
         \A q \in Row : /\ row'[q].attempts = row[q].attempts
                        /\ row'[q].status \in {row[q].status, "pending"}
                        /\ row'[q].expired => row'[q].status = "replaying"
  PROVE  ClaimInv'
<1>1. audit' = audit /\ call' = call /\ ledger' = ledger /\ copies' = copies
  BY DEF ingestVars
<1>2. AuditMatches'
  <2>. SUFFICES ASSUME NEW p \in Row PROVE TrailOK(row'[p], audit'[p], Cardinality(Holders(p)'))
    BY TrailOfEveryRow
  <2>1. TrailOK(row[p], audit[p], Cardinality(Holders(p))) /\ Holders(p)' = Holders(p)
    BY <1>1, TrailOfEveryRow DEF ClaimInv, Holders
  <2>. QED BY <1>1, <2>1 DEF TrailOK
<1>3. TypeOK'
  BY <1>1 DEF ClaimInv, TypeOK, Rows
<1>4. ResolvedStored'
  BY <1>1 DEF ClaimInv, ResolvedStored
<1>. QED BY <1>1, <1>2, <1>3, <1>4 DEF ClaimInv, AcceptedStored, InsertedOnce, At, RowOf

\* An agent's delivery beside the replays.
LEMMA DeliverKeeps ==
  ASSUME ClaimInv, NEW q \in Row, Deliver(q)
  PROVE  ClaimInv'
<1>1. row' = row /\ audit' = audit /\ call' = call /\ picked' = picked /\ worker' = worker
  BY DEF Deliver, workerVars
<1>2. Growing
  <2>1. CASE Enter(q)
    BY <2>1, EnterGrows
  <2>2. CASE ledger' = [ledger EXCEPT ![q] = "other"] /\ copies' = copies
    <3>1. /\ ledger \in [Row -> {"none", "own", "other"}] /\ copies \in [Row -> Nat] /\ ledger[q] = "none"
          /\ \A p \in Row : copies[p] = IF ledger[p] = "own" THEN 1 ELSE 0
      BY DEF ClaimInv, TypeOK, InsertedOnce, Deliver
    <3>. QED BY <2>2, <3>1 DEF Growing, InsertedOnce
  <2>. QED BY <2>1, <2>2 DEF Deliver
<1>3. TypeOK' /\ ResolvedStored'
  BY <1>1, <1>2 DEF ClaimInv, TypeOK, ResolvedStored, Growing
<1>4. AuditMatches'
  BY <1>1 DEF ClaimInv, AuditMatches
<1>5. AcceptedStored'
  <2>. SUFFICES ASSUME NEW d \in Caller, At(d, "accepted") PROVE ledger'[RowOf(d)] = "own"
    BY <1>1 DEF AcceptedStored, At, RowOf
  <2>1. RowOf(d) \in Row
    BY HeldRow DEF At, ClaimInv
  <2>. QED BY <1>2, <2>1 DEF Growing, ClaimInv, AcceptedStored
<1>. QED BY <1>2, <1>3, <1>4, <1>5 DEF ClaimInv, Growing

-----------------------------------------------------------------------------
(* The theorems.                                                           *)

\* At first nothing is claimed, audited or stored.
LEMMA ClaimInvInit == Init => ClaimInv
<1>. SUFFICES ASSUME Init PROVE ClaimInv
  OBVIOUS
<1>1. TypeOK
  BY QuarantineAssumption DEF Init, TypeOK, Status, Replays
<1>2. \A q \in Row : Holders(q) = {}
  BY DEF Init, Holders, Idle
<1>3. AuditMatches
  <2>. SUFFICES ASSUME NEW q \in Row PROVE TrailOK(row[q], audit[q], Cardinality(Holders(q)))
    BY TrailOfEveryRow
  <2>1. Cardinality(Holders(q)) = 0
    BY <1>2, FS_EmptySet
  <2>2. row[q].attempts = 0 /\ row[q].status = "pending" /\ \A a \in Records : audit[q][a] = 0
    BY DEF Init
  <2>. QED BY <2>1, <2>2 DEF TrailOK, Records
<1>. QED BY <1>1, <1>3 DEF Init, ClaimInv, ResolvedStored, AcceptedStored, InsertedOnce, At, Idle

\* Every step keeps the invariant.
LEMMA ClaimInvNext == ClaimInv /\ [Next]_vars => ClaimInv'
<1>. SUFFICES ASSUME ClaimInv, [Next]_vars PROVE ClaimInv'
  OBVIOUS
<1>0. row \in Rows /\ (worker = "idle" => picked = {}) /\ picked \subseteq Row /\ worker \in {"idle", "update"}
      /\ \A q \in Row : row[q].expired => row[q].status = "replaying"
  BY DEF ClaimInv, TypeOK, Rows
<1>1. ASSUME NEW c \in Caller, NEW q \in Row, claim(c, q) PROVE ClaimInv'
  BY <1>1, ClaimKeeps
<1>2. ASSUME NEW c \in Caller, Accept(c) PROVE ClaimInv'
  BY <1>2, AcceptKeeps
<1>3. ASSUME NEW c \in Caller, Resolve(c) PROVE ClaimInv'
  <2>1. ~At(c, "idle") /\ At(c, "accepted") /\ Return(c) /\ UNCHANGED <<workerVars, ingestVars>>
    BY <1>3 DEF Resolve, At
  <2>2. \/ row[RowOf(c)].status = "replaying" /\ Set(RowOf(c), "resolved") /\ appendAudit(RowOf(c), "resolve")
        \/ UNCHANGED <<row, audit>>
    BY <1>3 DEF Resolve
  <2>. QED BY <2>1, <2>2, EndKeeps
<1>4. ASSUME NEW c \in Caller, release(c) PROVE ClaimInv'
  <2>1. ~At(c, "idle") /\ Return(c) /\ UNCHANGED <<workerVars, ingestVars>>
    BY <1>4 DEF release, At
  <2>2. \/ row[RowOf(c)].status = "replaying" /\ Set(RowOf(c), "pending") /\ appendAudit(RowOf(c), "release")
        \/ UNCHANGED <<row, audit>>
    BY <1>4 DEF release
  <2>. QED BY <2>1, <2>2, EndKeeps
<1>5. ASSUME NEW c \in Caller, Abandon(c) PROVE ClaimInv'
  <2>1. ~At(c, "idle") /\ Return(c) /\ UNCHANGED <<workerVars, ingestVars>> /\ UNCHANGED <<row, audit>>
    BY <1>5 DEF Abandon
  <2>. QED BY <2>1, EndKeeps
<1>6. ASSUME NEW q \in Row, DiscardQuarantine(q) PROVE ClaimInv'
  BY <1>6, DiscardKeeps
<1>7. ASSUME NEW q \in Row, Deliver(q) PROVE ClaimInv'
  BY <1>7, DeliverKeeps
<1>8. ASSUME NEW q \in Row, LeaseExpires(q) PROVE ClaimInv'
  <2>1. /\ row' \in Rows /\ \A p \in Row : row'[p].attempts = row[p].attempts /\ row'[p].status = row[p].status
        /\ \A p \in Row : row'[p].expired => row'[p].status = "replaying"
    BY <1>0, <1>8 DEF LeaseExpires, Rows
  <2>2. UNCHANGED <<audit, call, ingestVars>> /\ picked' = picked /\ worker' = worker
    BY <1>8 DEF LeaseExpires, workerVars
  <2>. QED BY <1>0, <2>1, <2>2, WorkerKeeps
<1>9. ASSUME RequeueSelect PROVE ClaimInv'
  <2>1. UNCHANGED <<audit, call, ingestVars>> /\ row' = row /\ picked' \subseteq Row /\ worker' = "update"
    BY <1>9 DEF RequeueSelect
  <2>. QED BY <1>0, <2>1, WorkerKeeps
<1>10. ASSUME RequeueUpdate PROVE ClaimInv'
  <2>1. /\ row' \in Rows /\ \A p \in Row : row'[p].attempts = row[p].attempts
        /\ \A p \in Row : row'[p].status \in {row[p].status, "pending"}
        /\ \A p \in Row : row'[p].expired => row'[p].status = "replaying"
    BY <1>0, <1>10 DEF RequeueUpdate, Rows, Status
  <2>2. UNCHANGED <<audit, call, ingestVars>> /\ picked' = {} /\ worker' = "idle"
    BY <1>10 DEF RequeueUpdate
  <2>. QED BY <2>1, <2>2, WorkerKeeps
<1>11. ASSUME RequeueFails PROVE ClaimInv'
  <2>1. UNCHANGED <<audit, call, ingestVars>> /\ row' = row /\ picked' = {} /\ worker' = "idle"
    BY <1>11 DEF RequeueFails
  <2>. QED BY <1>0, <2>1, WorkerKeeps
<1>12. CASE UNCHANGED vars
  <2>1. UNCHANGED <<audit, call, ingestVars>> /\ row' = row /\ picked' = picked /\ worker' = worker
    BY <1>12 DEF vars, workerVars
  <2>. QED BY <1>0, <2>1, WorkerKeeps
<1>. QED BY <1>1, <1>2, <1>3, <1>4, <1>5, <1>6, <1>7, <1>8, <1>9, <1>10, <1>11, <1>12
         DEF Next, ReplayQuarantine, RequeueExpired

\* Rows, audit counters, callers and the worker stay in their types; the
\* counters stay below the attempts because the trail adds up.
THEOREM QuarantineTyped == Spec => []TypeOK
<1>1. ClaimInv => TypeOK
  BY DEF ClaimInv
<1>. QED BY <1>1, ClaimInvInit, ClaimInvNext, PTL DEF Spec

\* For any number of callers, leases and deliveries a resolved row is in the
\* ledger, once (ReplayQuarantine, MarkTerminal).
THEOREM ResolvedAlwaysStored == Spec => []ResolvedStored
<1>1. ClaimInv => ResolvedStored
  BY DEF ClaimInv
<1>. QED BY <1>1, ClaimInvInit, ClaimInvNext, PTL DEF Spec

\* The audit trail adds up with the attempts and the claims still held.
THEOREM AuditAlwaysMatches == Spec => []AuditMatches
<1>1. ClaimInv => AuditMatches
  BY DEF ClaimInv
<1>. QED BY <1>1, ClaimInvInit, ClaimInvNext, PTL DEF Spec

-----------------------------------------------------------------------------
(* What a resolution is worth after the row has changed hands again.       *)

\* A row whose resolution was ever recorded is in the ledger, once, also when
\* maintenance has made it pending again, it is being replayed once more, or
\* it was discarded since.
EverResolvedStored ==
  \A q \in Row : audit[q].resolve > 0 => ledger[q] = "own" /\ copies[q] = 1

\* No replay, requeue, discard or delivery strikes an audit record, gives up a
\* payload that is in the ledger for another one, or stores it again.
HistoryOnlyGrows ==
  /\ \A q \in Row : \A a \in Records : audit[q][a] <= audit'[q][a]
  /\ \A q \in Row : ledger[q] # "none" => ledger'[q] = ledger[q] /\ copies'[q] = copies[q]

\* So it is in every step.
HistoryStands == [][HistoryOnlyGrows]_vars

\* What enters the ledger was not there before.
LEMMA EnterStands ==
  ASSUME ClaimInv, NEW q \in Row, Enter(q)
  PROVE  \A p \in Row : ledger[p] # "none" => ledger'[p] = ledger[p] /\ copies'[p] = copies[p]
<1>1. /\ ledger \in [Row -> {"none", "own", "other"}] /\ copies \in [Row -> Nat]
  BY DEF ClaimInv, TypeOK
<1>. QED BY <1>1 DEF Enter

\* The ledger half, step by step.
LEMMA LedgerStands ==
  ASSUME ClaimInv, [Next]_vars
  PROVE  \A p \in Row : ledger[p] # "none" => ledger'[p] = ledger[p] /\ copies'[p] = copies[p]
<1>. DEFINE Stands == \A p \in Row : ledger[p] # "none" => ledger'[p] = ledger[p] /\ copies'[p] = copies[p]
<1>1. ASSUME NEW c \in Caller, Accept(c)
      PROVE  Stands
  <2>1. RowOf(c) \in Row
    BY <1>1, HeldRow DEF ClaimInv, Accept, At
  <2>. QED BY <1>1, <2>1, EnterStands DEF Accept, ingestVars
<1>2. ASSUME NEW q \in Row, Deliver(q)
      PROVE  Stands
  <2>1. CASE Enter(q)
    BY <2>1, EnterStands
  <2>2. CASE ledger' = [ledger EXCEPT ![q] = "other"] /\ copies' = copies
    BY <1>2, <2>2 DEF Deliver, ClaimInv, TypeOK
  <2>. QED BY <1>2, <2>1, <2>2 DEF Deliver
<1>3. ASSUME NEW c \in Caller, (\E q \in Row : claim(c, q)) \/ Resolve(c) \/ release(c) \/ Abandon(c)
      PROVE  Stands
  BY <1>3 DEF claim, Resolve, release, Abandon, ingestVars
<1>4. CASE \E q \in Row : DiscardQuarantine(q) \/ LeaseExpires(q)
  BY <1>4 DEF DiscardQuarantine, LeaseExpires, ingestVars
<1>5. CASE RequeueSelect \/ RequeueUpdate \/ RequeueFails \/ UNCHANGED vars
  <2>1. UNCHANGED ingestVars
    BY <1>5, Zenon DEF RequeueSelect, RequeueUpdate, RequeueFails, vars
  <2>. QED BY <2>1 DEF ingestVars
<1>. QED BY <1>1, <1>2, <1>3, <1>4, <1>5 DEF Next, ReplayQuarantine, RequeueExpired

\* The audit half: records are added, and a resolution only for a row that is
\* in the ledger.
LEMMA AuditGrows ==
  ASSUME ClaimInv, [Next]_vars
  PROVE  /\ \A p \in Row : \A a \in Records : audit[p][a] <= audit'[p][a]
         /\ \A p \in Row : audit'[p].resolve > audit[p].resolve => ledger[p] = "own"
<1>. DEFINE Grows ==
       /\ \A p \in Row : \A a \in Records : audit[p][a] <= audit'[p][a]
       /\ \A p \in Row : audit'[p].resolve > audit[p].resolve => ledger[p] = "own"
<1>0. TypeOK /\ (\A p \in Row : \A a \in Records : audit[p][a] \in Nat) /\ "resolve" \in Records
  BY QuarantineAssumption DEF ClaimInv, TypeOK, Records
<1>1. ASSUME UNCHANGED audit
      PROVE  Grows
  BY <1>0, <1>1
<1>2. ASSUME NEW q \in Row, NEW a \in Records \ {"resolve"}, appendAudit(q, a)
      PROVE  Grows
  BY <1>0, <1>2, AuditAppended
<1>3. ASSUME NEW c \in Caller, Resolve(c)
      PROVE  Grows
  <2>1. RowOf(c) \in Row /\ ledger[RowOf(c)] = "own"
    BY <1>0, <1>3, HeldRow DEF ClaimInv, AcceptedStored, Resolve, At
  <2>2. CASE appendAudit(RowOf(c), "resolve")
    BY <1>0, <2>1, <2>2, AuditAppended
  <2>3. appendAudit(RowOf(c), "resolve") \/ UNCHANGED audit
    BY <1>3 DEF Resolve
  <2>. QED BY <1>1, <2>2, <2>3
<1>4. ASSUME NEW c \in Caller, release(c)
      PROVE  Grows
  <2>1. RowOf(c) \in Row /\ "release" \in Records \ {"resolve"}
    BY <1>0, <1>4, HeldRow DEF release, At, Records
  <2>2. appendAudit(RowOf(c), "release") \/ UNCHANGED audit
    BY <1>4 DEF release
  <2>. QED BY <1>1, <1>2, <2>1, <2>2
<1>5. ASSUME NEW c \in Caller, NEW q \in Row, claim(c, q) \/ DiscardQuarantine(q)
      PROVE  Grows
  BY <1>2, <1>5 DEF claim, DiscardQuarantine, Records
<1>6. ASSUME NEW q \in Row, DiscardQuarantine(q)
      PROVE  Grows
  BY <1>2, <1>6 DEF DiscardQuarantine, Records
<1>7. CASE \E c \in Caller : Accept(c) \/ Abandon(c)
  BY <1>1, <1>7 DEF Accept, Abandon
<1>8. CASE \E q \in Row : LeaseExpires(q) \/ Deliver(q)
  BY <1>1, <1>8 DEF LeaseExpires, Deliver
<1>9. CASE RequeueSelect \/ RequeueUpdate \/ RequeueFails \/ UNCHANGED vars
  <2>1. UNCHANGED audit
    BY <1>9, Zenon DEF RequeueSelect, RequeueUpdate, RequeueFails, vars
  <2>. QED BY <1>1, <2>1
<1>. QED BY <1>3, <1>4, <1>5, <1>6, <1>7, <1>8, <1>9 DEF Next, ReplayQuarantine, RequeueExpired

\* Maintenance may take a resolved row back and let it be replayed or
\* discarded again; what the resolution said stays true, because a caller only
\* resolves what is in the ledger, and nothing leaves or changes there.
THEOREM ResolutionsStand == Spec => []EverResolvedStored /\ HistoryStands
<1>1. Init => EverResolvedStored
  BY DEF Init, EverResolvedStored, Records
<1>2. ClaimInv /\ EverResolvedStored /\ [Next]_vars => EverResolvedStored'
  <2>. SUFFICES ASSUME ClaimInv, EverResolvedStored, [Next]_vars, NEW q \in Row, audit'[q].resolve > 0
                PROVE  ledger'[q] = "own" /\ copies'[q] = 1
    BY DEF EverResolvedStored
  <2>1. audit[q].resolve \in Nat /\ audit[q].resolve <= audit'[q].resolve
    <3>1. "resolve" \in Records /\ audit \in [Row -> [Records -> 0..MaxAttempts]]
      BY DEF ClaimInv, TypeOK, Records
    <3>. QED BY <3>1, AuditGrows, QuarantineAssumption
  <2>2. audit'[q].resolve \in Nat
    <3>1. TypeOK'
      BY ClaimInvNext DEF ClaimInv
    <3>2. "resolve" \in Records /\ audit' \in [Row -> [Records -> 0..MaxAttempts]]
      BY <3>1 DEF TypeOK, Records
    <3>. QED BY <3>2, QuarantineAssumption
  <2>3. ledger[q] = "own"
    BY <2>1, <2>2, AuditGrows DEF EverResolvedStored
  <2>4. copies[q] = 1
    BY <2>3 DEF ClaimInv, InsertedOnce
  <2>. QED BY <2>3, <2>4, LedgerStands
<1>3. ClaimInv /\ [Next]_vars => [HistoryOnlyGrows]_vars
  BY AuditGrows, LedgerStands DEF HistoryOnlyGrows
<1>4. Spec => []EverResolvedStored
  BY <1>1, <1>2, ClaimInvInit, ClaimInvNext, PTL DEF Spec
<1>5. Spec => [][HistoryOnlyGrows]_vars
  BY <1>3, ClaimInvInit, ClaimInvNext, PTL DEF Spec
<1>6. Spec => HistoryStands
  BY <1>5 DEF HistoryStands
<1>. QED BY <1>4, <1>6
=============================================================================
