----------------------------- MODULE DataLemmas -----------------------------
(***************************************************************************)
(* Facts about the operators on sequences, sums and filters the models     *)
(* use.                                                                    *)
(***************************************************************************)
EXTENDS Integers, Sequences, SequencesExt, SequenceTheorems, FiniteSetTheorems,
        WellFoundedInduction, SeqFilter, TLAPS

-----------------------------------------------------------------------------
(* Sequences.                                                              *)

\* A set of naturals that is not empty has a least element: Min is one of its
\* elements (the oldest deliverable batch is a batch of the queue).
LEMMA MinIsLeast ==
  ASSUME NEW I \in SUBSET Nat, I # {}
  PROVE  Min(I) \in I /\ \A y \in I : Min(I) <= y
<1>1. PICK x \in I : \A y \in I : ~(<<y, x>> \in OpToRel(<, Nat))
  BY NatLessThanWellFounded, WFMin
<1>2. ASSUME NEW y \in I
      PROVE  x <= y
  <2>1. <<y, x>> \in Nat \X Nat
    OBVIOUS
  <2>2. ~(y < x)
    BY <1>1, <2>1 DEF OpToRel
  <2>. QED BY <2>2
<1>. QED BY <1>2 DEF Min

\* Removing one position keeps the others, in order.
LEMMA RemoveAtKeepsOthers ==
  ASSUME NEW S, NEW s \in Seq(S), NEW i \in 1..Len(s)
  PROVE  /\ RemoveAt(s, i) \in Seq(S)
         /\ Len(RemoveAt(s, i)) = Len(s) - 1
         /\ \A j \in 1..(Len(s) - 1) : RemoveAt(s, i)[j] = IF j < i THEN s[j] ELSE s[j + 1]
<1>. DEFINE front == SubSeq(s, 1, i - 1)
            back == SubSeq(s, i + 1, Len(s))
<1>1. front \in Seq(S) /\ Len(front) = i - 1 /\ \A j \in 1..(i - 1) : front[j] = s[j]
  OBVIOUS
<1>2. back \in Seq(S) /\ Len(back) = Len(s) - i /\ \A j \in 1..(Len(s) - i) : back[j] = s[i + j]
  OBVIOUS
<1>. HIDE DEF front, back
<1>3. /\ front \o back \in Seq(S)
      /\ Len(front \o back) = Len(s) - 1
      /\ \A j \in 1..(Len(s) - 1) :
           (front \o back)[j] = IF j <= Len(front) THEN front[j] ELSE back[j - Len(front)]
  BY <1>1, <1>2, ConcatProperties
<1>4. \A j \in 1..(Len(s) - 1) : (front \o back)[j] = IF j < i THEN s[j] ELSE s[j + 1]
  BY <1>1, <1>2, <1>3
<1>. QED BY <1>3, <1>4 DEF RemoveAt, front, back

\* RemoveFirst of an element of a sequence removes one position that holds it.
LEMMA RemoveFirstIsRemoveAt ==
  ASSUME NEW S, NEW s \in Seq(S), NEW e
  PROVE  \/ RemoveFirst(s, e) = s /\ \A i \in 1..Len(s) : s[i] # e
         \/ \E i \in 1..Len(s) : s[i] = e /\ RemoveFirst(s, e) = RemoveAt(s, i)
<1>. DEFINE I == {i \in 1..Len(s) : s[i] = e}
<1>1. CASE \A i \in 1..Len(s) : s[i] # e
  BY <1>1 DEF RemoveFirst
<1>2. CASE \E i \in 1..Len(s) : s[i] = e
  <2>1. I # {} /\ I \in SUBSET Nat
    BY <1>2
  <2>2. Min(I) \in I
    BY <2>1, MinIsLeast
  <2>3. RemoveFirst(s, e) = RemoveAt(s, Min(I))
    BY <1>2, <2>1 DEF RemoveFirst, SelectInSeq
  <2>. QED BY <2>2, <2>3
<1>. QED BY <1>1, <1>2

\* Whatever is removed, what is left is a sequence of the same elements' set.
LEMMA RemoveFirstTyped ==
  ASSUME NEW S, NEW s \in Seq(S), NEW e
  PROVE  RemoveFirst(s, e) \in Seq(S)
BY RemoveFirstIsRemoveAt, RemoveAtKeepsOthers

\* The first element leaves a sequence without repetitions (the longest
\* waiting goroutine is woken).
LEMMA TailOfDistinct ==
  ASSUME NEW S, NEW s \in Seq(S), s # <<>>, IsInjective(s)
  PROVE  /\ Head(s) \in S /\ Tail(s) \in Seq(S)
         /\ IsInjective(Tail(s))
         /\ ToSet(Tail(s)) = ToSet(s) \ {Head(s)}
<1>. DEFINE t == Tail(s)
<1>1. /\ Len(s) \in Nat /\ Len(s) > 0 /\ Head(s) = s[1]
      /\ t \in Seq(S) /\ Len(t) = Len(s) - 1 /\ \A j \in 1..Len(t) : t[j] = s[j + 1]
  BY HeadTailProperties, EmptySeq
<1>. HIDE DEF t
<1>2. IsInjective(t)
  BY <1>1, SMTT(30) DEF IsInjective
<1>3. ToSet(t) \subseteq ToSet(s) \ {Head(s)}
  BY <1>1 DEF ToSet, IsInjective
<1>4. ASSUME NEW x \in ToSet(s), x # Head(s)
      PROVE  x \in ToSet(t)
  <2>1. PICK k \in 1..Len(s) : x = s[k]
    BY DEF ToSet
  <2>2. k - 1 \in 1..Len(t) /\ t[k - 1] = s[k]
    BY <2>1, <1>1, <1>4
  <2>. QED BY <2>1, <2>2, <1>1 DEF ToSet
<1>. QED BY <1>1, <1>2, <1>3, <1>4 DEF t

\* Nobody waits.
LEMMA EmptyIsDistinct == IsInjective(<<>>) /\ ToSet(<<>>) = {}
<1>1. DOMAIN <<>> = {}
  OBVIOUS
<1>. QED BY <1>1 DEF IsInjective, ToSet

\* A new element at the end (a goroutine that starts to wait).
LEMMA AppendToDistinct ==
  ASSUME NEW S, NEW s \in Seq(S), NEW e \in S, IsInjective(s), e \notin ToSet(s)
  PROVE  /\ Append(s, e) \in Seq(S)
         /\ IsInjective(Append(s, e))
         /\ ToSet(Append(s, e)) = ToSet(s) \cup {e}
<1>. DEFINE t == Append(s, e)
<1>1. /\ t \in Seq(S) /\ Len(t) = Len(s) + 1 /\ Len(s) \in Nat
      /\ \A j \in 1..Len(s) : t[j] = s[j]
      /\ t[Len(s) + 1] = e
  BY AppendProperties, LenProperties
<1>. HIDE DEF t
<1>2. \A j \in 1..Len(s) : t[j] # e
  BY <1>1 DEF ToSet
<1>3. IsInjective(t)
  BY <1>1, <1>2 DEF IsInjective
<1>4. ToSet(t) = ToSet(s) \cup {e}
  <2>1. ToSet(t) \subseteq ToSet(s) \cup {e}
    BY <1>1 DEF ToSet
  <2>2. ToSet(s) \subseteq ToSet(t) /\ e \in ToSet(t)
    BY <1>1 DEF ToSet
  <2>. QED BY <2>1, <2>2
<1>. QED BY <1>1, <1>3, <1>4 DEF t

\* What is left of a sequence without repetitions: no repetitions, and its
\* elements without the removed one (a waiter that leaves the channel's
\* queue, an acknowledged batch that leaves the spool's).
LEMMA RemoveFirstOfDistinct ==
  ASSUME NEW S, NEW s \in Seq(S), NEW e, IsInjective(s)
  PROVE  /\ RemoveFirst(s, e) \in Seq(S)
         /\ IsInjective(RemoveFirst(s, e))
         /\ ToSet(RemoveFirst(s, e)) = ToSet(s) \ {e}
<1>1. CASE RemoveFirst(s, e) = s /\ \A i \in 1..Len(s) : s[i] # e
  BY <1>1 DEF ToSet
<1>2. ASSUME NEW i \in 1..Len(s), s[i] = e, RemoveFirst(s, e) = RemoveAt(s, i)
      PROVE  /\ RemoveFirst(s, e) \in Seq(S)
             /\ IsInjective(RemoveFirst(s, e))
             /\ ToSet(RemoveFirst(s, e)) = ToSet(s) \ {e}
  <2>. DEFINE t == RemoveAt(s, i)
  <2>1. /\ t \in Seq(S) /\ Len(t) = Len(s) - 1
        /\ \A j \in 1..(Len(s) - 1) : t[j] = IF j < i THEN s[j] ELSE s[j + 1]
    BY RemoveAtKeepsOthers
  <2>. HIDE DEF t
  <2>2. ASSUME NEW j \in 1..Len(t), NEW k \in 1..Len(t), t[j] = t[k]
        PROVE  j = k
    <3>. DEFINE at(n) == IF n < i THEN n ELSE n + 1
    <3>1. at(j) \in 1..Len(s) /\ at(k) \in 1..Len(s)
      BY <2>1
    <3>2. s[at(j)] = s[at(k)]
      BY <2>1, <2>2
    <3>3. at(j) = at(k)
      BY <3>1, <3>2 DEF IsInjective
    <3>. QED BY <3>3
  <2>3. ToSet(t) \subseteq ToSet(s) \ {e}
    BY <2>1, <1>2 DEF ToSet, IsInjective
  <2>4. ASSUME NEW x \in ToSet(s), x # e
        PROVE  x \in ToSet(t)
    <3>1. PICK k \in 1..Len(s) : x = s[k]
      BY <2>4 DEF ToSet
    <3>2. CASE k < i
      BY <3>1, <3>2, <2>1 DEF ToSet
    <3>3. CASE k > i
      <4>1. k - 1 \in 1..(Len(s) - 1) /\ t[k - 1] = s[k]
        BY <3>1, <3>3, <2>1
      <4>. QED BY <4>1, <3>1, <2>1 DEF ToSet
    <3>. QED BY <3>1, <3>2, <3>3, <2>4, <1>2
  <2>5. IsInjective(t)
    BY <2>1, <2>2 DEF IsInjective
  <2>. QED BY <2>1, <2>3, <2>4, <2>5, <1>2 DEF t
<1>. QED BY <1>1, <1>2, RemoveFirstIsRemoveAt

-----------------------------------------------------------------------------
(* Sums over finite sets.                                                  *)

\* Induction, in a form without an operator parameter.
LEMMA InductiveSet ==
  ASSUME NEW K \in SUBSET Nat, 0 \in K, \A n \in K : n + 1 \in K
  PROVE  \A n \in Nat : n \in K
<1>. SUFFICES ASSUME Nat \ K # {} PROVE FALSE
  OBVIOUS
<1>1. PICK x \in Nat \ K : \A y \in Nat \ K : ~(<<y, x>> \in OpToRel(<, Nat))
  BY NatLessThanWellFounded, WFMin
<1>2. x # 0 /\ x - 1 \in Nat
  OBVIOUS
<1>3. <<x - 1, x>> \in OpToRel(<, Nat)
  BY <1>2 DEF OpToRel
<1>4. x - 1 \in K
  BY <1>1, <1>2, <1>3
<1>. QED BY <1>2, <1>4

\* The element the library's fold takes out of a set.
Pick(s) == CHOOSE x \in s : TRUE
\* The equation of the recursive function inside SumFunctionOnSet.
Adds(g, f, S) ==
  g = [s \in SUBSET S |-> IF s = {} THEN 0 ELSE f[Pick(s)] + g[s \ {Pick(s)}]]

\* The library's sum is that function at the whole set.
LEMMA SumUnfolds ==
  ASSUME NEW f, NEW S
  PROVE  SumFunctionOnSet(f, S) = (CHOOSE g : Adds(g, f, S))[S]
BY DEF SumFunctionOnSet, FoldFunctionOnSet, MapThenFoldSet, Adds, Pick

\* The subsets of at most n elements.
Small(S, n) == {s \in SUBSET S : Cardinality(s) <= n}

\* Taking the element out of a finite set leaves one that is smaller by one.
LEMMA SmallerSet ==
  ASSUME NEW S, IsFiniteSet(S), NEW s \in SUBSET S, s # {}
  PROVE  /\ Pick(s) \in s /\ s \ {Pick(s)} \in SUBSET S
         /\ IsFiniteSet(s) /\ Cardinality(s) \in Nat \ {0}
         /\ Cardinality(s \ {Pick(s)}) = Cardinality(s) - 1
<1>1. Pick(s) \in s
  BY DEF Pick
<1>2. IsFiniteSet(s)
  BY FS_Subset
<1>3. Cardinality(s) \in Nat /\ Cardinality(s) # 0
  BY <1>2, FS_CardinalityType, FS_EmptySet
<1>. QED BY <1>1, <1>2, <1>3, FS_RemoveElement

\* There is such a function on the subsets of a finite set: it is built up
\* along the cardinality of its arguments.
LEMMA AddsExists ==
  ASSUME NEW f, NEW S, IsFiniteSet(S)
  PROVE  \E g : Adds(g, f, S)
<1>. DEFINE Val(g, s) == IF s = {} THEN 0 ELSE f[Pick(s)] + g[s \ {Pick(s)}]
            K == {n \in Nat : \E g : g = [s \in Small(S, n) |-> Val(g, s)]}
<1>0. ASSUME NEW n \in Nat, NEW s \in Small(S, n + 1), s # {}
      PROVE  s \ {Pick(s)} \in Small(S, n)
  BY <1>0, SmallerSet DEF Small
<1>1. 0 \in K
  <2>. DEFINE g == [s \in Small(S, 0) |-> 0]
  <2>1. ASSUME NEW s \in Small(S, 0)
        PROVE  s = {}
    <3>1. s \in SUBSET S /\ Cardinality(s) <= 0
      BY DEF Small
    <3>2. s # {} => Cardinality(s) \in Nat \ {0}
      BY <3>1, SmallerSet
    <3>. QED BY <3>1, <3>2
  <2>2. g = [s \in Small(S, 0) |-> Val(g, s)]
    BY <2>1
  <2>. QED BY <2>2
<1>2. ASSUME NEW n \in K
      PROVE  n + 1 \in K
  <2>1. PICK g : g = [s \in Small(S, n) |-> Val(g, s)]
    OBVIOUS
  <2>. DEFINE h == [s \in Small(S, n + 1) |-> Val(g, s)]
  <2>2. \A s \in Small(S, n) : s \in Small(S, n + 1)
    <3>1. \A s \in SUBSET S : Cardinality(s) \in Nat
      BY FS_Subset, FS_CardinalityType
    <3>. QED BY <3>1 DEF Small
  <2>3. \A s \in Small(S, n) : h[s] = g[s]
    BY <2>1, <2>2
  <2>4. ASSUME NEW s \in Small(S, n + 1)
        PROVE  Val(g, s) = Val(h, s)
    BY <1>0, <2>3
  <2>5. h = [s \in Small(S, n + 1) |-> Val(h, s)]
    BY <2>4
  <2>6. n + 1 \in Nat
    OBVIOUS
  <2>. HIDE DEF h
  <2>. QED BY <2>5, <2>6
<1>. HIDE DEF K
<1>3. Cardinality(S) \in K
  <2>1. \A n \in Nat : n \in K
    <3>1. K \in SUBSET Nat BY DEF K
    <3>. QED BY <1>1, <1>2, <3>1, InductiveSet
  <2>. QED BY <2>1, FS_CardinalityType
<1>4. Small(S, Cardinality(S)) = SUBSET S
  BY FS_Subset DEF Small
<1>. QED BY <1>3, <1>4 DEF K, Adds

\* Two of them agree where both are defined.
LEMMA AddsAgree ==
  ASSUME NEW f, NEW S, IsFiniteSet(S), NEW T, IsFiniteSet(T), NEW g, NEW h, Adds(g, f, S), Adds(h, f, T),
         NEW s \in SUBSET S, s \in SUBSET T
  PROVE  g[s] = h[s]
<1>. DEFINE K == {n \in Nat : \A t \in SUBSET s : Cardinality(t) = n => g[t] = h[t]}
<1>0. /\ \A t \in SUBSET S : g[t] = IF t = {} THEN 0 ELSE f[Pick(t)] + g[t \ {Pick(t)}]
      /\ \A t \in SUBSET T : h[t] = IF t = {} THEN 0 ELSE f[Pick(t)] + h[t \ {Pick(t)}]
  BY DEF Adds
<1>1. 0 \in K
  <2>1. ASSUME NEW t \in SUBSET s, Cardinality(t) = 0
        PROVE  t = {}
    BY <2>1, FS_Subset, FS_EmptySet
  <2>. QED BY <1>0, <2>1
<1>2. ASSUME NEW n \in K
      PROVE  n + 1 \in K
  <2>0. n \in Nat
    OBVIOUS
  <2>1. ASSUME NEW t \in SUBSET s, Cardinality(t) = n + 1
        PROVE  g[t] = h[t]
    <3>1. t # {}
      <4>1. n + 1 # 0
        BY <2>0
      <4>2. Cardinality({}) = 0
        BY FS_EmptySet
      <4>. QED BY <2>1, <4>1, <4>2
    <3>2. t \ {Pick(t)} \in SUBSET s /\ Cardinality(t \ {Pick(t)}) = n
      <4>1. t \in SUBSET S /\ Cardinality(t) - 1 = n
        BY <2>0, <2>1
      <4>. QED BY <3>1, <4>1, SmallerSet
    <3>3. g[t \ {Pick(t)}] = h[t \ {Pick(t)}]
      BY <3>2
    <3>. QED BY <1>0, <3>1, <3>3
  <2>. QED BY <2>0, <2>1
<1>3. \A n \in Nat : n \in K
  <2>. HIDE DEF K
  <2>1. K \in SUBSET Nat BY DEF K
  <2>. QED BY <1>1, <1>2, <2>1, InductiveSet
<1>. QED BY <1>3, FS_Subset, FS_CardinalityType

\* The sum satisfies the equation it is defined by.
LEMMA SumStep ==
  ASSUME NEW f, NEW S, IsFiniteSet(S)
  PROVE  SumFunctionOnSet(f, S)
           = IF S = {} THEN 0 ELSE f[Pick(S)] + SumFunctionOnSet(f, S \ {Pick(S)})
<1>. DEFINE g == CHOOSE g : Adds(g, f, S)
            T == S \ {Pick(S)}
            h == CHOOSE h : Adds(h, f, T)
<1>1. IsFiniteSet(T)
  BY FS_Subset
<1>2. Adds(g, f, S) /\ Adds(h, f, T)
  BY <1>1, AddsExists
<1>3. g[T] = h[T]
  <2>. HIDE DEF g, h
  <2>. QED BY <1>1, <1>2, AddsAgree
<1>4. g[S] = IF S = {} THEN 0 ELSE f[Pick(S)] + g[T]
  <2>. HIDE DEF g
  <2>. QED BY <1>2 DEF Adds
<1>5. SumFunctionOnSet(f, S) = g[S] /\ SumFunctionOnSet(f, T) = h[T]
  BY SumUnfolds
<1>. HIDE DEF g, h
<1>. QED BY <1>3, <1>4, <1>5

\* A sum of numbers is a number.
LEMMA SumTyped ==
  ASSUME NEW f, NEW S, IsFiniteSet(S), \A x \in S : f[x] \in Int
  PROVE  SumFunctionOnSet(f, S) \in Int
<1>. DEFINE K == {n \in Nat : \A s \in SUBSET S : Cardinality(s) = n => SumFunctionOnSet(f, s) \in Int}
<1>1. 0 \in K
  <2>1. ASSUME NEW t \in SUBSET S, Cardinality(t) = 0
        PROVE  t = {}
    BY <2>1, FS_Subset, FS_EmptySet
  <2>2. SumFunctionOnSet(f, {}) = 0
    BY SumStep, FS_EmptySet
  <2>. QED BY <2>1, <2>2
<1>2. ASSUME NEW n \in K
      PROVE  n + 1 \in K
  <2>0. n \in Nat
    OBVIOUS
  <2>1. ASSUME NEW s \in SUBSET S, Cardinality(s) = n + 1
        PROVE  SumFunctionOnSet(f, s) \in Int
    <3>1. s # {}
      BY <2>0, <2>1, FS_EmptySet
    <3>2. /\ Pick(s) \in s /\ s \ {Pick(s)} \in SUBSET S /\ IsFiniteSet(s)
          /\ Cardinality(s \ {Pick(s)}) = n
      <4>1. Cardinality(s) - 1 = n
        BY <2>0, <2>1
      <4>. QED BY <3>1, <4>1, SmallerSet
    <3>3. SumFunctionOnSet(f, s \ {Pick(s)}) \in Int /\ f[Pick(s)] \in Int
      BY <3>2
    <3>4. SumFunctionOnSet(f, s) = f[Pick(s)] + SumFunctionOnSet(f, s \ {Pick(s)})
      BY <3>1, <3>2, SumStep
    <3>. QED BY <3>3, <3>4
  <2>. QED BY <2>0, <2>1
<1>3. \A n \in Nat : n \in K
  <2>. HIDE DEF K
  <2>1. K \in SUBSET Nat BY DEF K
  <2>. QED BY <1>1, <1>2, <2>1, InductiveSet
<1>. QED BY <1>3, FS_CardinalityType

\* Any element may be added last.
LEMMA SumWithout ==
  ASSUME NEW f, NEW S, IsFiniteSet(S), \A x \in S : f[x] \in Int, NEW z \in S
  PROVE  SumFunctionOnSet(f, S) = f[z] + SumFunctionOnSet(f, S \ {z})
<1>. DEFINE Good(s) == \A x \in s : SumFunctionOnSet(f, s) = f[x] + SumFunctionOnSet(f, s \ {x})
            K == {n \in Nat : \A s \in SUBSET S : Cardinality(s) = n => Good(s)}
<1>1. 0 \in K
  <2>1. ASSUME NEW t \in SUBSET S, Cardinality(t) = 0
        PROVE  t = {}
    BY <2>1, FS_Subset, FS_EmptySet
  <2>. QED BY <2>1
<1>2. ASSUME NEW n \in K
      PROVE  n + 1 \in K
  <2>0. n \in Nat /\ \A s \in SUBSET S : Cardinality(s) = n => Good(s)
    OBVIOUS
  <2>. HIDE DEF K
  <2>1. ASSUME NEW s \in SUBSET S, Cardinality(s) = n + 1, NEW x \in s
        PROVE  SumFunctionOnSet(f, s) = f[x] + SumFunctionOnSet(f, s \ {x})
    <3>1. s # {} /\ IsFiniteSet(s)
      BY FS_Subset
    <3>2. ASSUME NEW v \in s
          PROVE  s \ {v} \in SUBSET S /\ Good(s \ {v}) /\ f[v] \in Int
      <4>1. Cardinality(s \ {v}) = n
        <5>1. Cardinality(s \ {v}) = Cardinality(s) - 1
          BY <3>1, FS_RemoveElement
        <5>. QED BY <2>0, <2>1, <5>1
      <4>. QED BY <2>0, <4>1
    <3>. DEFINE y == Pick(s)
    <3>3. y \in s
      BY <3>1 DEF Pick
    <3>4. SumFunctionOnSet(f, s) = f[y] + SumFunctionOnSet(f, s \ {y})
      BY <3>1, SumStep
    <3>. HIDE DEF y
    <3>5. CASE x # y
      <4>1. x \in s \ {y} /\ y \in s \ {x} /\ (s \ {y}) \ {x} = (s \ {x}) \ {y}
        BY <3>3, <3>5
      <4>. DEFINE rest == SumFunctionOnSet(f, (s \ {x}) \ {y})
      <4>2. SumFunctionOnSet(f, s \ {y}) = f[x] + rest
        BY <3>2, <3>3, <4>1
      <4>3. SumFunctionOnSet(f, s \ {x}) = f[y] + rest
        BY <3>2, <4>1
      <4>4. rest \in Int
        <5>1. IsFiniteSet((s \ {x}) \ {y})
          BY <3>1, FS_Subset
        <5>. QED BY <5>1, SumTyped
      <4>. HIDE DEF rest
      <4>. QED BY <3>2, <3>3, <3>4, <4>2, <4>3, <4>4
    <3>. QED BY <3>4, <3>5
  <2>. QED BY <2>0, <2>1 DEF K
<1>3. \A n \in Nat : n \in K
  <2>. HIDE DEF K
  <2>1. K \in SUBSET Nat BY DEF K
  <2>. QED BY <1>1, <1>2, <2>1, InductiveSet
<1>. QED BY <1>3, FS_CardinalityType

\* One element more.
LEMMA SumWith ==
  ASSUME NEW f, NEW S, IsFiniteSet(S), NEW z, z \notin S, \A x \in S \cup {z} : f[x] \in Int
  PROVE  SumFunctionOnSet(f, S \cup {z}) = f[z] + SumFunctionOnSet(f, S)
<1>1. IsFiniteSet(S \cup {z})
  BY FS_AddElement
<1>2. (S \cup {z}) \ {z} = S
  OBVIOUS
<1>. QED BY <1>1, <1>2, SumWithout

\* Only the values on the set matter.
LEMMA SumOfEqual ==
  ASSUME NEW f, NEW h, NEW S, IsFiniteSet(S), \A x \in S : f[x] = h[x]
  PROVE  SumFunctionOnSet(f, S) = SumFunctionOnSet(h, S)
<1>. DEFINE K == {n \in Nat : \A s \in SUBSET S : Cardinality(s) = n => SumFunctionOnSet(f, s) = SumFunctionOnSet(h, s)}
<1>1. 0 \in K
  <2>1. ASSUME NEW t \in SUBSET S, Cardinality(t) = 0
        PROVE  t = {}
    BY <2>1, FS_Subset, FS_EmptySet
  <2>2. SumFunctionOnSet(f, {}) = 0 /\ SumFunctionOnSet(h, {}) = 0
    BY SumStep, FS_EmptySet
  <2>. QED BY <2>1, <2>2
<1>2. ASSUME NEW n \in K
      PROVE  n + 1 \in K
  <2>0. n \in Nat
    OBVIOUS
  <2>1. ASSUME NEW s \in SUBSET S, Cardinality(s) = n + 1
        PROVE  SumFunctionOnSet(f, s) = SumFunctionOnSet(h, s)
    <3>1. s # {}
      BY <2>0, <2>1, FS_EmptySet
    <3>2. /\ Pick(s) \in s /\ s \ {Pick(s)} \in SUBSET S /\ IsFiniteSet(s)
          /\ Cardinality(s \ {Pick(s)}) = n
      <4>1. Cardinality(s) - 1 = n
        BY <2>0, <2>1
      <4>. QED BY <3>1, <4>1, SmallerSet
    <3>3. SumFunctionOnSet(f, s \ {Pick(s)}) = SumFunctionOnSet(h, s \ {Pick(s)}) /\ f[Pick(s)] = h[Pick(s)]
      BY <3>2
    <3>. QED BY <3>1, <3>2, <3>3, SumStep
  <2>. QED BY <2>0, <2>1
<1>3. \A n \in Nat : n \in K
  <2>. HIDE DEF K
  <2>1. K \in SUBSET Nat BY DEF K
  <2>. QED BY <1>1, <1>2, <2>1, InductiveSet
<1>. QED BY <1>3, FS_CardinalityType

-----------------------------------------------------------------------------
(* Filters.                                                                *)

\* What the recursive function inside Kept is at i, from its value before.
KeptAt(g, s, T, i) == IF i = 0 THEN <<>> ELSE IF s[i] \in T THEN Append(g[i - 1], s[i]) ELSE g[i - 1]

Keeps(g, s, T, n) == g = [i \in 0..n |-> KeptAt(g, s, T, i)]

\* Kept is that function at the length of the sequence.
LEMMA KeptUnfolds ==
  ASSUME NEW s, NEW T
  PROVE  Kept(s, T) = (CHOOSE g : Keeps(g, s, T, Len(s)))[Len(s)]
BY DEF Kept, Keeps, KeptAt

\* There is such a function.
LEMMA KeptExists ==
  ASSUME NEW s, NEW T, NEW n \in Nat
  PROVE  \E g : Keeps(g, s, T, n)
<1>. DEFINE K == {m \in Nat : \E g : g = [i \in 0..m |-> KeptAt(g, s, T, i)]}
<1>1. 0 \in K
  <2>. DEFINE g == [i \in 0..0 |-> <<>>]
  <2>1. g = [i \in 0..0 |-> KeptAt(g, s, T, i)]
    <3>1. \A i \in 0..0 : KeptAt(g, s, T, i) = <<>>
      BY DEF KeptAt
    <3>. QED BY <3>1
  <2>. QED BY <2>1
<1>2. ASSUME NEW m \in K
      PROVE  m + 1 \in K
  <2>0. m \in Nat
    OBVIOUS
  <2>1. PICK g : g = [i \in 0..m |-> KeptAt(g, s, T, i)]
    OBVIOUS
  <2>. DEFINE h == [i \in 0..(m + 1) |-> IF i \in 0..m THEN g[i] ELSE KeptAt(g, s, T, i)]
  <2>2. \A i \in 0..m : h[i] = g[i]
    BY <2>0
  <2>3. ASSUME NEW i \in 0..(m + 1)
        PROVE  h[i] = KeptAt(g, s, T, i) /\ KeptAt(g, s, T, i) = KeptAt(h, s, T, i)
    <3>1. i # 0 => i - 1 \in 0..m
      BY <2>0
    <3>2. h[i] = KeptAt(g, s, T, i)
      BY <2>1
    <3>. HIDE DEF h
    <3>3. KeptAt(g, s, T, i) = KeptAt(h, s, T, i)
      BY <2>2, <3>1 DEF KeptAt
    <3>. QED BY <3>2, <3>3
  <2>4. h = [i \in 0..(m + 1) |-> h[i]]
    OBVIOUS
  <2>. HIDE DEF h
  <2>5. h = [i \in 0..(m + 1) |-> KeptAt(h, s, T, i)]
    BY <2>3, <2>4
  <2>6. m + 1 \in Nat
    BY <2>0
  <2>. QED BY <2>5, <2>6
<1>. HIDE DEF K
<1>3. K \in SUBSET Nat
  BY DEF K
<1>4. n \in K
  BY <1>1, <1>2, <1>3, InductiveSet
<1>. QED BY <1>4 DEF K, Keeps

\* On two sequences that agree up to n, such functions do.
LEMMA KeptAgree ==
  ASSUME NEW s, NEW t, NEW T, NEW m \in Nat, NEW k \in Nat, NEW n \in Nat, n <= m, n <= k,
         \A i \in 1..n : s[i] = t[i],
         NEW g, Keeps(g, s, T, m), NEW h, Keeps(h, t, T, k)
  PROVE  g[n] = h[n]
<1>. DEFINE K == {j \in Nat : j <= n => g[j] = h[j]}
<1>0. /\ \A i \in 0..m : g[i] = KeptAt(g, s, T, i)
      /\ \A i \in 0..k : h[i] = KeptAt(h, t, T, i)
  BY DEF Keeps
<1>1. 0 \in K
  BY <1>0 DEF KeptAt
<1>2. ASSUME NEW j \in K
      PROVE  j + 1 \in K
  <2>. SUFFICES ASSUME j + 1 <= n PROVE g[j + 1] = h[j + 1]
    OBVIOUS
  <2>1. j + 1 \in 0..m /\ j + 1 \in 0..k /\ j + 1 \in 1..n /\ j + 1 # 0 /\ (j + 1) - 1 = j
    OBVIOUS
  <2>2. g[j] = h[j] /\ s[j + 1] = t[j + 1]
    BY <2>1
  <2>3. g[j + 1] = KeptAt(g, s, T, j + 1) /\ h[j + 1] = KeptAt(h, t, T, j + 1)
    BY <1>0, <2>1
  <2>. QED BY <2>1, <2>2, <2>3 DEF KeptAt
<1>3. K \in SUBSET Nat
  OBVIOUS
<1>. HIDE DEF K
<1>4. n \in K
  BY <1>1, <1>2, <1>3, InductiveSet
<1>. QED BY <1>4 DEF K

\* So Kept is its value.
LEMMA KeptValue ==
  ASSUME NEW S, NEW s \in Seq(S), NEW T
  PROVE  \E g : Keeps(g, s, T, Len(s)) /\ Kept(s, T) = g[Len(s)]
<1>1. Len(s) \in Nat
  OBVIOUS
<1>2. \E g : Keeps(g, s, T, Len(s))
  BY <1>1, KeptExists
<1>3. Keeps(CHOOSE g : Keeps(g, s, T, Len(s)), s, T, Len(s))
  BY <1>2
<1>. QED BY <1>3, KeptUnfolds

\* Nothing of nothing.
LEMMA KeptOfEmpty == ASSUME NEW T PROVE Kept(<<>>, T) = <<>>
<1>1. <<>> \in Seq({})
  OBVIOUS
<1>2. PICK g : Keeps(g, <<>>, T, Len(<<>>)) /\ Kept(<<>>, T) = g[Len(<<>>)]
  BY <1>1, KeptValue
<1>3. g[0] = KeptAt(g, <<>>, T, 0)
  BY <1>2 DEF Keeps
<1>. QED BY <1>2, <1>3 DEF KeptAt

\* One more element at the end.
LEMMA KeptOfAppend ==
  ASSUME NEW S, NEW s \in Seq(S), NEW x \in S, NEW T
  PROVE  Kept(Append(s, x), T) = IF x \in T THEN Append(Kept(s, T), x) ELSE Kept(s, T)
<1>. DEFINE t == Append(s, x)
            n == Len(s)
<1>1. t \in Seq(S) /\ n \in Nat /\ Len(t) = n + 1 /\ t[n + 1] = x /\ \A i \in 1..n : s[i] = t[i]
  OBVIOUS
<1>2. PICK g : Keeps(g, s, T, Len(s)) /\ Kept(s, T) = g[n]
  BY KeptValue
<1>. HIDE DEF t
<1>3. PICK h : Keeps(h, t, T, Len(t)) /\ Kept(t, T) = h[Len(t)]
  BY <1>1, KeptValue
<1>4. Keeps(g, s, T, n) /\ Keeps(h, t, T, n + 1)
  BY <1>1, <1>2, <1>3
<1>. HIDE DEF n
<1>5. g[n] = h[n]
  <2>1. n + 1 \in Nat /\ n <= n /\ n <= n + 1
    BY <1>1
  <2>. QED BY <1>1, <1>4, <2>1, KeptAgree
<1>6. h[n + 1] = KeptAt(h, t, T, n + 1) /\ n + 1 # 0 /\ (n + 1) - 1 = n
  <2>1. n + 1 \in 0..(n + 1) /\ n + 1 # 0 /\ (n + 1) - 1 = n
    BY <1>1
  <2>. QED BY <1>4, <2>1 DEF Keeps
<1>7. Kept(t, T) = IF x \in T THEN Append(Kept(s, T), x) ELSE Kept(s, T)
  BY <1>1, <1>2, <1>3, <1>5, <1>6 DEF KeptAt
<1>. QED BY <1>7 DEF t

\* The elements of a sequence with one more at the end.
LEMMA AppendSet ==
  ASSUME NEW S, NEW u \in Seq(S), NEW x \in S
  PROVE  ToSet(Append(u, x)) = ToSet(u) \cup {x}
<1>. DEFINE t == Append(u, x)
            n == Len(u)
<1>1. n \in Nat /\ DOMAIN t = 1..(n + 1) /\ DOMAIN u = 1..n /\ t[n + 1] = x /\ \A i \in 1..n : t[i] = u[i]
  OBVIOUS
<1>. HIDE DEF t, n
<1>2. ASSUME NEW e \in ToSet(t)
      PROVE  e \in ToSet(u) \cup {x}
  <2>1. PICK i \in 1..(n + 1) : t[i] = e
    BY <1>1 DEF ToSet
  <2>2. i = n + 1 \/ i \in 1..n
    BY <1>1
  <2>. QED BY <1>1, <2>1, <2>2 DEF ToSet
<1>3. ASSUME NEW e \in ToSet(u) \cup {x}
      PROVE  e \in ToSet(t)
  <2>1. \E i \in 1..(n + 1) : t[i] = e
    <3>1. CASE e = x
      BY <1>1, <3>1
    <3>2. CASE e \in ToSet(u)
      <4>1. PICK i \in 1..n : u[i] = e
        BY <1>1, <3>2 DEF ToSet
      <4>2. i \in 1..(n + 1)
        BY <1>1
      <4>. QED BY <1>1, <4>1, <4>2
    <3>. QED BY <3>1, <3>2
  <2>. QED BY <1>1, <2>1 DEF ToSet
<1>4. ToSet(t) = ToSet(u) \cup {x}
  BY <1>2, <1>3
<1>. QED BY <1>4 DEF t

\* A sequence that is not empty has a last element.
LEMMA SplitLast ==
  ASSUME NEW S, NEW n \in Nat, NEW s \in Seq(S), Len(s) = n + 1
  PROVE  \E t \in Seq(S), x \in S : s = Append(t, x) /\ Len(t) = n
<1>. DEFINE t == [i \in 1..n |-> s[i]]
<1>1. t \in Seq(S) /\ Len(t) = n
  OBVIOUS
<1>2. s[n + 1] \in S
  OBVIOUS
<1>3. s = Append(t, s[n + 1])
  OBVIOUS
<1>. HIDE DEF t
<1>. QED BY <1>1, <1>2, <1>3

\* What is kept: the elements of both.
LEMMA KeptTyped ==
  ASSUME NEW S, NEW T, NEW s \in Seq(S)
  PROVE  /\ Kept(s, T) \in Seq(S) /\ Len(Kept(s, T)) <= Len(s)
         /\ ToSet(Kept(s, T)) = ToSet(s) \cap T
<1>. DEFINE P(r) == /\ Kept(r, T) \in Seq(S) /\ Len(Kept(r, T)) <= Len(r)
                    /\ ToSet(Kept(r, T)) = ToSet(r) \cap T
            K == {n \in Nat : \A r \in Seq(S) : Len(r) = n => P(r)}
<1>1. 0 \in K
  <2>1. \A r \in Seq(S) : Len(r) = 0 => r = <<>>
    OBVIOUS
  <2>2. P(<<>>)
    <3>1. Kept(<<>>, T) = <<>>
      BY KeptOfEmpty
    <3>2. ToSet(<<>>) = {} /\ <<>> \in Seq(S) /\ Len(<<>>) = 0
      BY EmptyIsDistinct
    <3>3. Kept(<<>>, T) \in Seq(S) /\ Len(Kept(<<>>, T)) = 0 /\ ToSet(Kept(<<>>, T)) = {}
      BY <3>1, <3>2, Zenon
    <3>4. {} = {} \cap T /\ 0 <= 0
      OBVIOUS
    <3>5. Len(Kept(<<>>, T)) <= Len(<<>>) /\ ToSet(Kept(<<>>, T)) = ToSet(<<>>) \cap T
      BY <3>2, <3>3, <3>4, Zenon
    <3>. QED BY <3>3, <3>5
  <2>. HIDE DEF P
  <2>. QED BY <2>1, <2>2
<1>2. ASSUME NEW n \in K
      PROVE  n + 1 \in K
  <2>0. n \in Nat
    OBVIOUS
  <2>1. ASSUME NEW r \in Seq(S), Len(r) = n + 1
        PROVE  P(r)
    <3>1. PICK t \in Seq(S), x \in S : r = Append(t, x) /\ Len(t) = n
      BY <2>0, <2>1, SplitLast
    <3>2. P(t)
      BY <3>1
    <3>3. Kept(r, T) = IF x \in T THEN Append(Kept(t, T), x) ELSE Kept(t, T)
      BY <3>1, KeptOfAppend
    <3>4. \A u \in Seq(S) : ToSet(Append(u, x)) = ToSet(u) \cup {x}
      BY AppendSet
    <3>5. ToSet(r) = ToSet(t) \cup {x}
      BY <3>1, <3>4
    <3>6. CASE x \in T
      <4>1. Kept(r, T) = Append(Kept(t, T), x)
        BY <3>3, <3>6
      <4>2. ToSet(Kept(r, T)) = ToSet(Kept(t, T)) \cup {x}
        BY <3>2, <3>4, <4>1
      <4>3. Kept(r, T) \in Seq(S) /\ Len(Kept(r, T)) = Len(Kept(t, T)) + 1 /\ Len(Kept(t, T)) \in Nat
        BY <3>2, <4>1
      <4>. QED BY <2>0, <2>1, <3>1, <3>2, <3>5, <3>6, <4>2, <4>3
    <3>7. CASE x \notin T
      <4>1. Kept(r, T) = Kept(t, T) /\ Len(Kept(t, T)) \in Nat
        BY <3>2, <3>3, <3>7
      <4>. QED BY <2>0, <2>1, <3>1, <3>2, <3>5, <3>7, <4>1
    <3>. QED BY <3>6, <3>7
  <2>. HIDE DEF P
  <2>. QED BY <2>0, <2>1
<1>. HIDE DEF K
<1>3. K \in SUBSET Nat
  BY DEF K
<1>4. Len(s) \in K
  BY <1>1, <1>2, <1>3, InductiveSet
<1>. QED BY <1>4 DEF K

\* Filtering keeps distinct elements distinct.
LEMMA KeptDistinct ==
  ASSUME NEW S, NEW T, NEW s \in Seq(S), IsInjective(s)
  PROVE  IsInjective(Kept(s, T))
<1>. DEFINE K == {n \in Nat : \A r \in Seq(S) : Len(r) = n /\ IsInjective(r) => IsInjective(Kept(r, T))}
<1>1. 0 \in K
  <2>1. \A r \in Seq(S) : Len(r) = 0 => r = <<>>
    OBVIOUS
  <2>2. IsInjective(Kept(<<>>, T))
    <3>1. Kept(<<>>, T) = <<>>
      BY KeptOfEmpty
    <3>. QED BY <3>1, EmptyIsDistinct, Zenon
  <2>. QED BY <2>1, <2>2
<1>2. ASSUME NEW n \in K
      PROVE  n + 1 \in K
  <2>0. n \in Nat
    OBVIOUS
  <2>1. ASSUME NEW r \in Seq(S), Len(r) = n + 1, IsInjective(r)
        PROVE  IsInjective(Kept(r, T))
    <3>1. PICK t \in Seq(S), x \in S : r = Append(t, x) /\ Len(t) = n
      BY <2>0, <2>1, SplitLast
    <3>2. /\ DOMAIN r = 1..(n + 1) /\ DOMAIN t = 1..n /\ r[n + 1] = x /\ \A i \in 1..n : r[i] = t[i]
      BY <2>0, <3>1
    <3>3. IsInjective(t) /\ x \notin ToSet(t)
      BY <2>0, <2>1, <3>2 DEF IsInjective, ToSet
    <3>4. IsInjective(Kept(t, T))
      BY <3>1, <3>3
    <3>5. Kept(r, T) = IF x \in T THEN Append(Kept(t, T), x) ELSE Kept(t, T)
      BY <3>1, KeptOfAppend
    <3>6. Kept(t, T) \in Seq(S) /\ x \notin ToSet(Kept(t, T))
      BY <3>3, KeptTyped
    <3>. QED BY <3>4, <3>5, <3>6, AppendToDistinct
  <2>. QED BY <2>0, <2>1
<1>. HIDE DEF K
<1>3. K \in SUBSET Nat
  BY DEF K
<1>4. Len(s) \in K
  BY <1>1, <1>2, <1>3, InductiveSet
<1>. QED BY <1>4 DEF K

\* A sequence of distinct elements is as long as it has elements.
LEMMA LenOfDistinct ==
  ASSUME NEW S, NEW s \in Seq(S), IsInjective(s)
  PROVE  IsFiniteSet(ToSet(s)) /\ Cardinality(ToSet(s)) = Len(s)
<1>. DEFINE n == Len(s)
<1>1. n \in Nat /\ DOMAIN s = 1..n
  OBVIOUS
<1>2. s \in Bijection(1..n, ToSet(s))
  BY <1>1 DEF Bijection, Injection, Surjection, IsInjective, ToSet
<1>3. IsFiniteSet(1..n) /\ Cardinality(1..n) = n
  BY <1>1, FS_Interval, SMTT(30)
<1>4. IsFiniteSet(ToSet(s)) /\ Cardinality(ToSet(s)) = Cardinality(1..n)
  <2>1. ExistsBijection(1..n, ToSet(s))
    BY <1>2 DEF ExistsBijection
  <2>. QED BY <1>3, <2>1, FS_Bijection
<1>. QED BY <1>3, <1>4
-----------------------------------------------------------------------------
(* Induction over sequences, and what it says of filters.                  *)

\* A set of sequences that has the empty one and is closed under Append has all.
LEMMA InductiveSeqs ==
  ASSUME NEW S, NEW K \in SUBSET Seq(S), <<>> \in K, \A t \in K : \A x \in S : Append(t, x) \in K
  PROVE  \A s \in Seq(S) : s \in K
<1>. DEFINE N == {n \in Nat : \A r \in Seq(S) : Len(r) = n => r \in K}
<1>1. 0 \in N
  <2>1. \A r \in Seq(S) : Len(r) = 0 => r = <<>>
    OBVIOUS
  <2>2. \A r \in Seq(S) : Len(r) = 0 => r \in K
    BY <2>1, Zenon
  <2>. QED BY <2>2
<1>2. ASSUME NEW n \in N
      PROVE  n + 1 \in N
  <2>1. ASSUME NEW r \in Seq(S), Len(r) = n + 1
        PROVE  r \in K
    <3>1. PICK t \in Seq(S), x \in S : r = Append(t, x) /\ Len(t) = n
      BY <2>1, SplitLast
    <3>. QED BY <3>1
  <2>. QED BY <2>1
<1>. HIDE DEF N
<1>3. N \in SUBSET Nat
  BY DEF N
<1>4. \A n \in N : n + 1 \in N
  BY <1>2
<1>5. \A n \in Nat : n \in N
  BY <1>1, <1>3, <1>4, InductiveSet, Zenon
<1>6. ASSUME NEW s \in Seq(S)
      PROVE  s \in K
  <2>1. Len(s) \in N
    BY <1>5
  <2>. QED BY <2>1 DEF N
<1>. QED BY <1>6

\* Only the elements of the sequence matter.
LEMMA KeptSame ==
  ASSUME NEW S, NEW s \in Seq(S), NEW T, NEW U, \A x \in ToSet(s) : x \in T <=> x \in U
  PROVE  Kept(s, T) = Kept(s, U)
<1>. DEFINE K == {r \in Seq(S) : (\A x \in ToSet(r) : x \in T <=> x \in U) => Kept(r, T) = Kept(r, U)}
<1>1. <<>> \in K
  BY KeptOfEmpty
<1>2. ASSUME NEW t \in K, NEW x \in S
      PROVE  Append(t, x) \in K
  <2>1. t \in Seq(S) /\ Append(t, x) \in Seq(S) /\ ToSet(Append(t, x)) = ToSet(t) \cup {x}
    BY AppendSet
  <2>2. ASSUME \A y \in ToSet(Append(t, x)) : y \in T <=> y \in U
        PROVE  Kept(Append(t, x), T) = Kept(Append(t, x), U)
    <3>1. Kept(t, T) = Kept(t, U)
      BY <2>1, <2>2
    <3>2. /\ Kept(Append(t, x), T) = IF x \in T THEN Append(Kept(t, T), x) ELSE Kept(t, T)
          /\ Kept(Append(t, x), U) = IF x \in U THEN Append(Kept(t, U), x) ELSE Kept(t, U)
      BY <2>1, KeptOfAppend
    <3>3. x \in T <=> x \in U
      BY <2>1, <2>2
    <3>. QED BY <3>1, <3>2, <3>3
  <2>. QED BY <2>1, <2>2
<1>. HIDE DEF K
<1>3. K \in SUBSET Seq(S)
  BY DEF K
<1>4. s \in K
  BY <1>1, <1>2, <1>3, InductiveSeqs
<1>. QED BY <1>4 DEF K

\* Everything is kept by a set that has all elements.
LEMMA KeptAll ==
  ASSUME NEW S, NEW s \in Seq(S), NEW T, ToSet(s) \subseteq T
  PROVE  Kept(s, T) = s
<1>. DEFINE K == {r \in Seq(S) : ToSet(r) \subseteq T => Kept(r, T) = r}
<1>1. <<>> \in K
  BY KeptOfEmpty
<1>2. ASSUME NEW t \in K, NEW x \in S
      PROVE  Append(t, x) \in K
  <2>1. t \in Seq(S) /\ Append(t, x) \in Seq(S) /\ ToSet(Append(t, x)) = ToSet(t) \cup {x}
    BY AppendSet
  <2>2. Kept(Append(t, x), T) = IF x \in T THEN Append(Kept(t, T), x) ELSE Kept(t, T)
    BY <2>1, KeptOfAppend
  <2>. QED BY <2>1, <2>2
<1>. HIDE DEF K
<1>3. K \in SUBSET Seq(S)
  BY DEF K
<1>4. s \in K
  BY <1>1, <1>2, <1>3, InductiveSeqs
<1>. QED BY <1>4 DEF K

\* A filter of a filter.
LEMMA KeptOfKept ==
  ASSUME NEW S, NEW s \in Seq(S), NEW T, NEW U, U \subseteq T
  PROVE  Kept(Kept(s, T), U) = Kept(s, U)
<1>. DEFINE K == {r \in Seq(S) : Kept(Kept(r, T), U) = Kept(r, U)}
<1>1. <<>> \in K
  <2>1. Kept(<<>>, T) = <<>> /\ Kept(<<>>, U) = <<>>
    BY KeptOfEmpty
  <2>. QED BY <2>1
<1>2. ASSUME NEW t \in K, NEW x \in S
      PROVE  Append(t, x) \in K
  <2>1. t \in Seq(S) /\ Append(t, x) \in Seq(S) /\ Kept(t, T) \in Seq(S) /\ Kept(Kept(t, T), U) = Kept(t, U)
    BY KeptTyped
  <2>2. /\ Kept(Append(t, x), T) = IF x \in T THEN Append(Kept(t, T), x) ELSE Kept(t, T)
        /\ Kept(Append(t, x), U) = IF x \in U THEN Append(Kept(t, U), x) ELSE Kept(t, U)
        /\ Kept(Append(Kept(t, T), x), U)
             = IF x \in U THEN Append(Kept(Kept(t, T), U), x) ELSE Kept(Kept(t, T), U)
    BY <2>1, KeptOfAppend, SMTT(30)
  <2>3. Kept(Kept(Append(t, x), T), U) = Kept(Append(t, x), U)
    <3>1. CASE x \in T
      BY <2>1, <2>2, <3>1
    <3>2. CASE x \notin T
      BY <2>1, <2>2, <3>2
    <3>. QED BY <3>1, <3>2
  <2>. QED BY <2>1, <2>3
<1>. HIDE DEF K
<1>3. K \in SUBSET Seq(S)
  BY DEF K
<1>4. s \in K
  BY <1>1, <1>2, <1>3, InductiveSeqs
<1>. QED BY <1>4 DEF K

\* The part of a sequence up to one more element.
LEMMA PrefixGrows ==
  ASSUME NEW S, NEW s \in Seq(S), NEW n \in Nat, n < Len(s)
  PROVE  /\ SubSeq(s, 1, n) \in Seq(S) /\ Len(SubSeq(s, 1, n)) = n /\ s[n + 1] \in S
         /\ SubSeq(s, 1, n + 1) = Append(SubSeq(s, 1, n), s[n + 1])
OBVIOUS

\* The whole, and nothing.
LEMMA PrefixEnds ==
  ASSUME NEW S, NEW s \in Seq(S)
  PROVE  /\ SubSeq(s, 1, Len(s)) = s
         /\ SubSeq(s, 1, 0) = <<>>
OBVIOUS

\* What is behind a part of a sequence does not change it.
LEMMA PrefixKept ==
  ASSUME NEW S, NEW s \in Seq(S), NEW x \in S, NEW n \in 0..Len(s)
  PROVE  SubSeq(Append(s, x), 1, n) = SubSeq(s, 1, n)
OBVIOUS

\* A part of a part.
LEMMA PrefixOfPrefix ==
  ASSUME NEW S, NEW s \in Seq(S), NEW m \in 0..Len(s), NEW n \in 0..m
  PROVE  /\ SubSeq(s, 1, m) \in Seq(S) /\ Len(SubSeq(s, 1, m)) = m
         /\ SubSeq(SubSeq(s, 1, m), 1, n) = SubSeq(s, 1, n)
         /\ \A i \in 1..m : SubSeq(s, 1, m)[i] = s[i]
OBVIOUS

\* In a sequence without repetitions the next element is not among the ones before.
LEMMA NextIsNew ==
  ASSUME NEW S, NEW s \in Seq(S), IsInjective(s), NEW n \in Nat, n < Len(s)
  PROVE  s[n + 1] \notin ToSet(SubSeq(s, 1, n))
<1>1. DOMAIN SubSeq(s, 1, n) = 1..n /\ \A i \in 1..n : SubSeq(s, 1, n)[i] = s[i]
  OBVIOUS
<1>2. DOMAIN s = 1..Len(s) /\ Len(s) \in Nat
  OBVIOUS
<1>. QED BY <1>1, <1>2 DEF ToSet, IsInjective
\* Removing a position, and one more element at the end.
LEMMA RemoveAtOfAppend ==
  ASSUME NEW S, NEW t \in Seq(S), NEW x \in S
  PROVE  /\ RemoveAt(Append(t, x), Len(t) + 1) = t
         /\ \A i \in 1..Len(t) : RemoveAt(Append(t, x), i) = Append(RemoveAt(t, i), x)
<1>. DEFINE u == Append(t, x)
            n == Len(t)
<1>1. n \in Nat /\ u \in Seq(S) /\ Len(u) = n + 1 /\ u[n + 1] = x /\ \A j \in 1..n : u[j] = t[j]
  OBVIOUS
<1>. HIDE DEF u, n
<1>2. RemoveAt(u, n + 1) = t
  <2>1. RemoveAt(u, n + 1) \in Seq(S) /\ Len(RemoveAt(u, n + 1)) = n
        /\ \A j \in 1..n : RemoveAt(u, n + 1)[j] = u[j]
    <3>1. n + 1 \in 1..Len(u) /\ Len(u) - 1 = n /\ \A j \in 1..n : j < n + 1
      BY <1>1
    <3>2. /\ RemoveAt(u, n + 1) \in Seq(S) /\ Len(RemoveAt(u, n + 1)) = Len(u) - 1
          /\ \A j \in 1..(Len(u) - 1) : RemoveAt(u, n + 1)[j] = IF j < n + 1 THEN u[j] ELSE u[j + 1]
      BY <1>1, <3>1, RemoveAtKeepsOthers, ZenonT(60)
    <3>. QED BY <3>1, <3>2
  <2>2. t \in Seq(S) /\ Len(t) = n
    BY DEF n
  <2>. QED BY <1>1, <2>1, <2>2, SeqEqual
<1>3. ASSUME NEW i \in 1..n
      PROVE  RemoveAt(u, i) = Append(RemoveAt(t, i), x)
  <2>. DEFINE a == RemoveAt(u, i)
              b == RemoveAt(t, i)
  <2>1. a \in Seq(S) /\ Len(a) = n /\ \A j \in 1..n : a[j] = IF j < i THEN u[j] ELSE u[j + 1]
    <3>1. i \in 1..Len(u) /\ Len(u) - 1 = n
      BY <1>1
    <3>2. /\ RemoveAt(u, i) \in Seq(S) /\ Len(RemoveAt(u, i)) = Len(u) - 1
          /\ \A j \in 1..(Len(u) - 1) : RemoveAt(u, i)[j] = IF j < i THEN u[j] ELSE u[j + 1]
      BY <1>1, <3>1, RemoveAtKeepsOthers
    <3>. QED BY <3>1, <3>2
  <2>2. b \in Seq(S) /\ Len(b) = n - 1 /\ \A j \in 1..(n - 1) : b[j] = IF j < i THEN t[j] ELSE t[j + 1]
    BY <1>1, RemoveAtKeepsOthers DEF n
  <2>. HIDE DEF a, b
  <2>3. /\ Append(b, x) \in Seq(S) /\ Len(Append(b, x)) = n
        /\ Append(b, x)[n] = x /\ \A j \in 1..(n - 1) : Append(b, x)[j] = b[j]
    BY <1>1, <2>2
  <2>4. ASSUME NEW j \in 1..n
        PROVE  a[j] = Append(b, x)[j]
    <3>0. a[j] = (IF j < i THEN u[j] ELSE u[j + 1]) /\ j \in Nat /\ i \in Nat /\ i <= n /\ 1 <= i /\ 1 <= j /\ j <= n
      BY <1>1, <2>1
    <3>1. CASE j = n
      <4>1. ~(j < i) /\ j + 1 = n + 1
        BY <3>0, <3>1
      <4>. QED BY <1>1, <2>3, <3>0, <3>1, <4>1
    <3>2. CASE j # n
      <4>1. j \in 1..(n - 1) /\ j + 1 \in 1..n
        BY <1>1, <3>0, <3>2
      <4>2. Append(b, x)[j] = IF j < i THEN t[j] ELSE t[j + 1]
        BY <2>2, <2>3, <4>1
      <4>. QED BY <1>1, <3>0, <4>1, <4>2
    <3>. QED BY <3>1, <3>2
  <2>5. a = Append(b, x)
    BY <2>1, <2>3, <2>4, SeqEqual
  <2>. QED BY <2>5 DEF a, b
<1>. QED BY <1>2, <1>3 DEF u, n

\* In a sequence without repetitions, leaving an element out is removing it.
LEMMA KeptWithout ==
  ASSUME NEW S, NEW s \in Seq(S), IsInjective(s), NEW T, NEW e,
         \A x \in ToSet(s) : x \in T <=> x # e
  PROVE  Kept(s, T) = RemoveFirst(s, e)
<1>. DEFINE P(r) == IsInjective(r) /\ (\A x \in ToSet(r) : x \in T <=> x # e) => Kept(r, T) = RemoveFirst(r, e)
            K == {r \in Seq(S) : P(r)}
<1>1. <<>> \in K
  <2>1. RemoveFirst(<<>>, e) = <<>> /\ <<>> \in Seq(S)
    <3>1. <<>> \in Seq(S) /\ ~ \E i \in 1..Len(<<>>) : TRUE
      OBVIOUS
    <3>. QED BY <3>1, RemoveFirstIsRemoveAt
  <2>2. Kept(<<>>, T) = <<>>
    BY KeptOfEmpty
  <2>. QED BY <2>1, <2>2
<1>2. ASSUME NEW t \in K, NEW x \in S, IsInjective(Append(t, x)),
             \A y \in ToSet(Append(t, x)) : y \in T <=> y # e
      PROVE  Kept(Append(t, x), T) = RemoveFirst(Append(t, x), e)
  <2>. DEFINE u == Append(t, x)
              n == Len(t)
  <2>1. t \in Seq(S) /\ u \in Seq(S) /\ n \in Nat /\ Len(u) = n + 1 /\ u[n + 1] = x /\ (\A j \in 1..n : u[j] = t[j])
        /\ DOMAIN u = 1..(n + 1) /\ DOMAIN t = 1..n
    OBVIOUS
  <2>2. ToSet(u) = ToSet(t) \cup {x}
    BY AppendSet
  <2>3. Kept(u, T) = IF x \in T THEN Append(Kept(t, T), x) ELSE Kept(t, T)
    BY KeptOfAppend
  <2>4. IsInjective(t) /\ x \notin ToSet(t)
    BY <1>2, <2>1 DEF IsInjective, ToSet
  <2>5. Kept(t, T) = RemoveFirst(t, e)
    BY <1>2, <2>2, <2>4
  <2>6. x \in T <=> x # e
    BY <1>2, <2>2
  <2>7. /\ RemoveAt(u, n + 1) = t
        /\ \A i \in 1..n : RemoveAt(u, i) = Append(RemoveAt(t, i), x)
    BY <2>1, RemoveAtOfAppend
  <2>8. IsInjective(u)
    BY <1>2
  <2>. HIDE DEF u, n, K
  <2>9. CASE x = e
    <3>1. \A i \in 1..n : t[i] # e
      BY <2>1, <2>4, <2>9 DEF ToSet
    <3>2. RemoveFirst(t, e) = t
      BY <2>1, <3>1, RemoveFirstIsRemoveAt DEF n
    <3>3. \A i \in 1..(n + 1) : u[i] = e => i = n + 1
      BY <2>1, <3>1
    <3>4. RemoveFirst(u, e) = RemoveAt(u, n + 1)
      <4>1. n + 1 \in 1..Len(u) /\ u[n + 1] = e
        BY <2>1, <2>9
      <4>2. PICK i \in 1..Len(u) : u[i] = e /\ RemoveFirst(u, e) = RemoveAt(u, i)
        BY <2>1, <4>1, RemoveFirstIsRemoveAt
      <4>. QED BY <2>1, <3>3, <4>2
    <3>. QED BY <2>3, <2>5, <2>6, <2>7, <2>9, <3>2, <3>4 DEF u
  <2>10. CASE x # e /\ e \in ToSet(t)
    <3>1. PICK i \in 1..n : t[i] = e /\ RemoveFirst(t, e) = RemoveAt(t, i)
      <4>1. \E i \in 1..n : t[i] = e
        BY <2>1, <2>10 DEF ToSet
      <4>. QED BY <2>1, <4>1, RemoveFirstIsRemoveAt DEF n
    <3>2. PICK j \in 1..(n + 1) : u[j] = e /\ RemoveFirst(u, e) = RemoveAt(u, j)
      <4>1. u[i] = e /\ i \in 1..Len(u)
        BY <2>1, <3>1
      <4>. QED BY <2>1, <4>1, RemoveFirstIsRemoveAt
    <3>3. i = j
      <4>1. u[i] = e /\ i \in DOMAIN u /\ j \in DOMAIN u
        BY <2>1, <3>1
      <4>. QED BY <2>8, <3>2, <4>1 DEF IsInjective
    <3>. QED BY <2>3, <2>5, <2>6, <2>7, <2>10, <3>1, <3>2, <3>3 DEF u
  <2>11. CASE x # e /\ e \notin ToSet(t)
    <3>1. \A i \in 1..n : t[i] # e
      BY <2>1, <2>11 DEF ToSet
    <3>2. RemoveFirst(t, e) = t
      BY <2>1, <3>1, RemoveFirstIsRemoveAt DEF n
    <3>3. \A i \in 1..Len(u) : u[i] # e
      BY <2>1, <2>11, <3>1
    <3>4. RemoveFirst(u, e) = u
      BY <2>1, <3>3, RemoveFirstIsRemoveAt
    <3>. QED BY <2>3, <2>5, <2>6, <2>11, <3>2, <3>4 DEF u
  <2>. QED BY <2>9, <2>10, <2>11
<1>3. \A t \in K : \A x \in S : Append(t, x) \in K
  <2>1. \A t \in K : \A x \in S : Append(t, x) \in Seq(S)
    OBVIOUS
  <2>. QED BY <1>2, <2>1
<1>. HIDE DEF K
<1>4. K \in SUBSET Seq(S)
  BY DEF K
<1>5. s \in K
  BY <1>1, <1>3, <1>4, InductiveSeqs
<1>. QED BY <1>5 DEF K

-----------------------------------------------------------------------------
(* More on sums and bounds.                                                *)

\* A part weighs no more than the whole.
LEMMA SumMonotone ==
  ASSUME NEW f, NEW S, IsFiniteSet(S), \A x \in S : f[x] \in Nat, NEW R \in SUBSET S
  PROVE  SumFunctionOnSet(f, R) <= SumFunctionOnSet(f, S)
<1>. DEFINE Good(s) == SumFunctionOnSet(f, R) <= SumFunctionOnSet(f, R \cup s)
            K == {n \in Nat : \A s \in SUBSET (S \ R) : Cardinality(s) = n => Good(s)}
<1>0. ASSUME NEW s \in SUBSET S
      PROVE  IsFiniteSet(s) /\ SumFunctionOnSet(f, s) \in Int
  <2>1. IsFiniteSet(s)
    BY FS_Subset
  <2>. QED BY <2>1, SumTyped
<1>1. 0 \in K
  <2>1. ASSUME NEW s \in SUBSET (S \ R), Cardinality(s) = 0
        PROVE  Good(s)
    <3>1. s = {}
      BY <1>0, <2>1, FS_EmptySet
    <3>2. R \cup s = R
      BY <3>1
    <3>3. SumFunctionOnSet(f, R) \in Int
      BY <1>0
    <3>. QED BY <3>2, <3>3
  <2>. QED BY <2>1
<1>2. ASSUME NEW n \in K
      PROVE  n + 1 \in K
  <2>1. ASSUME NEW s \in SUBSET (S \ R), Cardinality(s) = n + 1
        PROVE  Good(s)
    <3>1. IsFiniteSet(s) /\ s # {}
      BY <1>0, <2>1, FS_EmptySet
    <3>2. PICK z \in s : TRUE
      BY <3>1
    <3>. DEFINE t == s \ {z}
    <3>3. t \in SUBSET (S \ R) /\ Cardinality(t) = n
      <4>1. Cardinality(t) = Cardinality(s) - 1
        BY <3>1, <3>2, FS_RemoveElement
      <4>2. n \in Nat
        OBVIOUS
      <4>. QED BY <2>1, <4>1, <4>2
    <3>4. Good(t)
      BY <3>3
    <3>5. IsFiniteSet(R \cup t) /\ z \notin R \cup t /\ R \cup s = (R \cup t) \cup {z} /\ z \in S
      BY <1>0, <3>2, <3>3
    <3>6. SumFunctionOnSet(f, R \cup s) = f[z] + SumFunctionOnSet(f, R \cup t)
      <4>1. \A x \in (R \cup t) \cup {z} : f[x] \in Int
        BY <3>3, <3>5
      <4>. QED BY <3>5, <4>1, SumWith
    <3>7. SumFunctionOnSet(f, R) \in Int /\ SumFunctionOnSet(f, R \cup t) \in Int /\ f[z] \in Nat
      <4>1. R \cup t \in SUBSET S
        BY <3>3
      <4>. QED BY <1>0, <3>5, <4>1
    <3>. HIDE DEF t
    <3>. QED BY <3>4, <3>6, <3>7
  <2>. HIDE DEF Good
  <2>. QED BY <2>1
<1>. HIDE DEF K
<1>3. K \in SUBSET Nat
  BY DEF K
<1>4. IsFiniteSet(S \ R)
  BY <1>0
<1>5. Cardinality(S \ R) \in Nat
  BY <1>4, FS_CardinalityType
<1>6. Cardinality(S \ R) \in K
  BY <1>1, <1>2, <1>3, <1>5, InductiveSet
<1>7. Good(S \ R) /\ R \cup (S \ R) = S
  BY <1>6 DEF K
<1>. QED BY <1>7

\* A bounded set of naturals that is not empty has a greatest element.
LEMMA MaxExists ==
  ASSUME NEW n \in Nat, NEW I \in SUBSET (0..n), I # {}
  PROVE  \E i \in I : \A j \in I : j <= i
<1>. DEFINE J == {n - i : i \in I}
<1>1. J \in SUBSET Nat /\ J # {}
  <2>1. \A i \in I : i \in 0..n /\ n - i \in Nat
    OBVIOUS
  <2>2. J # {}
    OBVIOUS
  <2>. QED BY <2>1, <2>2
<1>2. Min(J) \in J /\ \A y \in J : Min(J) <= y
  BY <1>1, MinIsLeast
<1>3. PICK i \in I : Min(J) = n - i
  BY <1>2
<1>4. ASSUME NEW j \in I
      PROVE  j <= i
  <2>1. n - i <= n - j
    BY <1>2, <1>3
  <2>. QED BY <2>1
<1>. QED BY <1>4
=============================================================================
