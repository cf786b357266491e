----------------------------- MODULE Canonical -----------------------------
(***************************************************************************)
(* The canonical payload of an ingest request, whose hash decides whether  *)
(* a retry is a duplicate or a conflict: internal/protocol/ingestv1.       *)
(* A payload is abstracted to the one value in it that has many spellings, *)
(* a number among the attributes; every other field is written one way.    *)
(***************************************************************************)
EXTENDS Integers, Sequences, SequencesExt, FiniteSets

CONSTANTS
  Digit,       \* digits the literals are made of
  MaxDigits,   \* model bound: digits before and after the point
  Exponents,   \* exponents the literals carry; 0 is none
  ExpLimit     \* |exponent| the server accepts (100000)

ASSUME CanonicalAssumption ==
  /\ Digit \subseteq 0..9
  /\ MaxDigits \in Nat \ {0}
  /\ Exponents \subseteq Int
  /\ ExpLimit \in Nat

\* A JSON number: sign, digits before and after the point, exponent.
Literal ==
  [neg : BOOLEAN,
   int : UNION {{s \in [1..n -> Digit] : n > 1 => s[1] # 0} : n \in 1..MaxDigits},
   frac : UNION {[1..n -> Digit] : n \in 0..MaxDigits}, exp : Exponents]

Text(neg, int, frac, exp) == [neg |-> neg, int |-> int, frac |-> frac, exp |-> exp]

Zeros(n) == [i \in 1..n |-> 0]

NonZero(s) == {i \in DOMAIN s : s[i] # 0}
TrimLeft(s) ==
  IF NonZero(s) = {} THEN <<>>
  ELSE SubSeq(s, CHOOSE i \in NonZero(s) : \A j \in NonZero(s) : i <= j, Len(s))
\* Mutant: zeroes at the end are kept.
TrimRightNone(s) == s
TrimRight(s) ==
  IF NonZero(s) = {} THEN <<>>
  ELSE SubSeq(s, 1, CHOOSE i \in NonZero(s) : \A j \in NonZero(s) : j <= i)

\* The text written for literal l, itself a literal.
canonicalNumber(l) ==
  LET significant == TrimLeft(l.int \o l.frac)
      digits == TrimRight(significant)
      point == Len(l.int) + l.exp - (Len(l.int \o l.frac) - Len(significant))
  IN  IF digits = <<>> THEN Text(FALSE, <<0>>, <<>>, 0)
      ELSE IF point > -6 /\ point <= 21
      THEN CASE point <= 0           -> Text(l.neg, <<0>>, Zeros(-point) \o digits, 0)
             [] point >= Len(digits) -> Text(l.neg, digits \o Zeros(point - Len(digits)), <<>>, 0)
             [] OTHER                -> Text(l.neg, SubSeq(digits, 1, point), SubSeq(digits, point + 1, Len(digits)), 0)
      ELSE Text(l.neg, <<Head(digits)>>, Tail(digits), point - 1)

\* Normalize refuses an exponent it will not expand.
Valid(l) == -ExpLimit <= l.exp /\ l.exp <= ExpLimit

\* What is hashed.
CanonicalPayload(l) == canonicalNumber(l)

-----------------------------------------------------------------------------
\* What a literal denotes: its non-zero digits, each with its power of ten.
Denotes(l) ==
  LET digits == l.int \o l.frac
      places == {<<Len(l.int) + l.exp - i, digits[i]>> : i \in NonZero(digits)}
  IN  [neg |-> l.neg /\ places # {}, places |-> places]

Accepted == {l \in Literal : Valid(l)}
Texts == {CanonicalPayload(l) : l \in Accepted}

\* Writing a literal keeps its value, and a value is written one way.
WritingExact ==
  /\ \A l \in Accepted : Denotes(CanonicalPayload(l)) = Denotes(l)
  /\ Cardinality(Texts) = Cardinality({Denotes(l) : l \in Accepted})
=============================================================================
