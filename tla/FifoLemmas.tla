----------------------------- MODULE FifoLemmas -----------------------------
(***************************************************************************)
(* Facts about a sequence used as a queue: elements enter with Append and  *)
(* leave through Head and Tail; induction over the naturals, with a set    *)
(* for what is shown of them; and the size of a set to which an element    *)
(* comes or from which it goes.  No state, no constants.                   *)
(***************************************************************************)
EXTENDS Naturals, Sequences, Functions, SequenceTheorems, WellFoundedInduction,
        FiniteSetTheorems, TLAPS

\* Moving the head of the second part behind the first changes nothing.
LEMMA MoveHead ==
  ASSUME NEW S, NEW s \in Seq(S), NEW t \in Seq(S), t # <<>>
  PROVE  Append(s, Head(t)) \o Tail(t) = s \o t
OBVIOUS

\* What is in a concatenation is in one of its parts.
LEMMA RangeOfConcat ==
  ASSUME NEW S, NEW s \in Seq(S), NEW t \in Seq(S)
  PROVE  Range(s \o t) = Range(s) \cup Range(t)
BY RangeConcatenation

\* Append adds one element to the range.
LEMMA RangeOfAppend ==
  ASSUME NEW S, NEW s \in Seq(S), NEW e \in S
  PROVE  Range(Append(s, e)) = Range(s) \cup {e}
<1>1. Append(s, e) = s \o <<e>> /\ <<e>> \in Seq(S)
  BY AppendIsConcat
<1>2. Range(<<e>>) = {e}
  BY DEF Range
<1>3. Range(s \o <<e>>) = Range(s) \cup Range(<<e>>)
  <2> DEFINE r == <<e>>
  <2>1. r \in Seq(S)
    BY <1>1
  <2> HIDE DEF r
  <2>2. Range(s \o r) = Range(s) \cup Range(r)
    BY <2>1, RangeOfConcat
  <2> QED
    BY <2>2 DEF r
<1> QED
  BY <1>1, <1>2, <1>3

\* The head of a queue, and what is left behind it.
LEMMA RangeOfQueue ==
  ASSUME NEW S, NEW t \in Seq(S), t # <<>>
  PROVE  /\ Head(t) \in S
         /\ Tail(t) \in Seq(S)
         /\ Range(t) = {Head(t)} \cup Range(Tail(t))
<1>1. Head(t) \in S /\ Tail(t) \in Seq(S)
  OBVIOUS
<1>2. t = <<Head(t)>> \o Tail(t) /\ <<Head(t)>> \in Seq(S)
  BY <1>1
<1>3. Range(<<Head(t)>>) = {Head(t)}
  BY DEF Range
<1>4. Range(<<Head(t)>> \o Tail(t)) = Range(<<Head(t)>>) \cup Range(Tail(t))
  <2> DEFINE h == <<Head(t)>>
             r == Tail(t)
  <2>1. h \in Seq(S) /\ r \in Seq(S)
    BY <1>1, <1>2
  <2> HIDE DEF h, r
  <2>2. Range(h \o r) = Range(h) \cup Range(r)
    BY <2>1, RangeOfConcat
  <2> QED
    BY <2>2 DEF h, r
<1> QED
  BY <1>1, <1>2, <1>3, <1>4

\* A new element keeps a sequence free of duplicates.
LEMMA AppendNew ==
  ASSUME NEW S, NEW s \in Seq(S), NEW e \in S, e \notin Range(s), IsInjective(s)
  PROVE  IsInjective(Append(s, e))
BY DEF Range, IsInjective

\* In a queue without duplicates the head is not behind itself, and is not
\* among what has left before.
LEMMA HeadIsNew ==
  ASSUME NEW S, NEW s \in Seq(S), NEW t \in Seq(S), t # <<>>, IsInjective(s \o t)
  PROVE  /\ Head(t) \notin Range(s)
         /\ Head(t) \notin Range(Tail(t))
<1> DEFINE st == s \o t
           n == Len(s) + 1
<1>1. /\ Len(s) \in Nat /\ Len(t) \in Nat \ {0}
      /\ DOMAIN st = 1 .. Len(s) + Len(t)
      /\ DOMAIN s = 1 .. Len(s)
      /\ st[n] = Head(t)
  OBVIOUS
<1>2. \A i \in 1 .. Len(s) : st[i] = s[i]
  OBVIOUS
<1>3. /\ DOMAIN Tail(t) = 1 .. Len(t) - 1
      /\ \A i \in 1 .. Len(t) - 1 : st[n + i] = Tail(t)[i]
  OBVIOUS
<1>4. \A i \in 1 .. Len(s) + Len(t) : st[i] = Head(t) => i = n
  BY <1>1 DEF IsInjective
<1>5. Head(t) \notin Range(s)
  BY <1>1, <1>2, <1>4 DEF Range
<1>6. Head(t) \notin Range(Tail(t))
  <2>1. \A i \in 1 .. Len(t) - 1 : st[n + i] # Head(t)
    BY <1>1, <1>4
  <2> HIDE DEF st
  <2> QED
    BY <1>3, <2>1 DEF Range
<1> QED
  BY <1>5, <1>6

\* The relation of a number to a greater one, as a set.
Below == {p \in Nat \X Nat : p[1] < p[2]}

\* A set of naturals has a least element.
LEMMA LeastElement ==
  ASSUME NEW T, T \subseteq Nat, T # {}
  PROVE  \E x \in T : \A y \in T : x <= y
<1>1. IsWellFoundedOn(Below, Nat)
  BY NatLessThanWellFounded DEF OpToRel, Below
<1>2. \E x \in T : \A y \in T : ~ (<<y, x>> \in Below)
  BY <1>1, WFMin
<1>3. PICK x \in T : \A y \in T : ~ (<<y, x>> \in Below)
  BY <1>2
<1>4. ASSUME NEW y \in T
      PROVE  x <= y
  <2>1. x \in Nat /\ y \in Nat /\ <<y, x>> \notin Below
    BY <1>3
  <2>2. ~ (y < x)
    BY <2>1 DEF Below
  <2> QED
    BY <2>1, <2>2
<1> QED
  BY <1>3, <1>4

\* Induction, with a set for the predicate.
LEMMA NatSetInduction ==
  ASSUME NEW T, 0 \in T, \A i \in Nat : i \in T => i + 1 \in T
  PROVE  Nat \subseteq T
<1>1. SUFFICES ASSUME Nat \ T # {}
               PROVE  FALSE
  OBVIOUS
<1>2. PICK x \in Nat \ T : \A y \in Nat \ T : x <= y
  BY <1>1, LeastElement
<1>3. x # 0 /\ x - 1 \in Nat /\ x - 1 + 1 = x
  BY <1>2
<1>4. x - 1 \in T
  BY <1>2, <1>3
<1> QED
  BY <1>2, <1>3, <1>4

\* 1 for true, 0 for false.
Bit(b) == IF b THEN 1 ELSE 0

\* Two sets that differ in one element at most.
LEMMA OneOff ==
  ASSUME NEW A, NEW B, NEW p, IsFiniteSet(A), A \ {p} = B \ {p}
  PROVE  /\ IsFiniteSet(B)
         /\ Cardinality(A) \in Nat /\ Cardinality(B) \in Nat
         /\ Cardinality(B) + Bit(p \in A) = Cardinality(A) + Bit(p \in B)
<1> DEFINE C == A \ {p}
<1>1. IsFiniteSet(C) /\ Cardinality(C) \in Nat
  BY FS_Subset, FS_CardinalityType
<1>2. ASSUME NEW S, S \ {p} = C
      PROVE  IsFiniteSet(S) /\ Cardinality(S) = Cardinality(C) + Bit(p \in S)
  <2>1. CASE p \in S
    <3>1. S = C \cup {p} /\ p \notin C
      BY <1>2, <2>1
    <3> QED
      BY <3>1, <1>1, <2>1, FS_AddElement DEF Bit
  <2>2. CASE p \notin S
    <3>1. S = C
      BY <1>2, <2>2
    <3> QED
      BY <3>1, <1>1, <2>2 DEF Bit
  <2> QED
    BY <2>1, <2>2
<1>3. IsFiniteSet(A) /\ Cardinality(A) = Cardinality(C) + Bit(p \in A)
  BY <1>2
<1>4. IsFiniteSet(B) /\ Cardinality(B) = Cardinality(C) + Bit(p \in B)
  BY <1>2
<1> QED
  BY <1>1, <1>3, <1>4 DEF Bit

\* Short lists written out, and put together.
LEMMA OneAndOne == ASSUME NEW S, NEW a \in S, NEW b \in S PROVE <<a, b>> = <<a>> \o <<b>>
<1> DEFINE p == <<a>>  q == <<b>>  r == <<a, b>>
<1>1. p \in Seq(S) /\ q \in Seq(S) /\ r \in Seq(S)
  OBVIOUS
<1>2. Len(p) = 1 /\ Len(q) = 1 /\ Len(r) = 2 /\ p[1] = a /\ q[1] = b /\ r[1] = a /\ r[2] = b
  OBVIOUS
<1> HIDE DEF p, q, r
<1>3. p \o q \in Seq(S) /\ Len(p \o q) = 2
      /\ \A k \in 1 .. 2 : (p \o q)[k] = IF k <= 1 THEN p[k] ELSE q[k - 1]
  <2>1. /\ p \o q \in Seq(S) /\ Len(p \o q) = Len(p) + Len(q)
        /\ \A k \in 1 .. Len(p) + Len(q) :
             (p \o q)[k] = IF k <= Len(p) THEN p[k] ELSE q[k - Len(p)]
    BY <1>1, ConcatProperties
  <2>2. Len(p) + Len(q) = 2
    BY <1>2
  <2> QED
    BY <1>2, <2>1, <2>2
<1>4. \A k \in 1 .. 2 : (p \o q)[k] = r[k]
  <2> TAKE k \in 1 .. 2
  <2>1. k = 1 \/ (k = 2 /\ k - 1 = 1)
    OBVIOUS
  <2> QED
    BY <1>2, <1>3, <2>1
<1>5. r = p \o q
  BY <1>1, <1>2, <1>3, <1>4, SeqEqual
<1> QED
  BY <1>5 DEF p, q, r

LEMMA OneAndTwo ==
  ASSUME NEW S, NEW a \in S, NEW b \in S, NEW c \in S
  PROVE  <<a, b, c>> = <<a>> \o <<b, c>>
<1> DEFINE p == <<a>>  q == <<b, c>>  r == <<a, b, c>>
<1>1. p \in Seq(S) /\ q \in Seq(S) /\ r \in Seq(S)
  OBVIOUS
<1>2. Len(p) = 1 /\ Len(q) = 2 /\ Len(r) = 3 /\ p[1] = a /\ q[1] = b /\ q[2] = c
      /\ r[1] = a /\ r[2] = b /\ r[3] = c
  OBVIOUS
<1> HIDE DEF p, q, r
<1>3. p \o q \in Seq(S) /\ Len(p \o q) = 3
      /\ \A k \in 1 .. 3 : (p \o q)[k] = IF k <= 1 THEN p[k] ELSE q[k - 1]
  <2>1. /\ p \o q \in Seq(S) /\ Len(p \o q) = Len(p) + Len(q)
        /\ \A k \in 1 .. Len(p) + Len(q) :
             (p \o q)[k] = IF k <= Len(p) THEN p[k] ELSE q[k - Len(p)]
    BY <1>1, ConcatProperties
  <2>2. Len(p) + Len(q) = 3
    BY <1>2
  <2> QED
    BY <1>2, <2>1, <2>2
<1>4. \A k \in 1 .. 3 : (p \o q)[k] = r[k]
  <2> TAKE k \in 1 .. 3
  <2>1. k = 1 \/ (k = 2 /\ k - 1 = 1) \/ (k = 3 /\ k - 1 = 2)
    OBVIOUS
  <2> QED
    BY <1>2, <1>3, <2>1
<1>5. r = p \o q
  BY <1>1, <1>2, <1>3, <1>4, SeqEqual
<1> QED
  BY <1>5 DEF p, q, r

=============================================================================
