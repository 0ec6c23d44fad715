-------------------------- MODULE StreamLifeProofs --------------------------
(***************************************************************************)
(* Theorems about CountSet, and about StreamLife for any number of threads,*)
(* whatever they read of depth and processing_post.                        *)
(***************************************************************************)
EXTENDS StreamLife, FifoLemmas, FiniteSetTheorems

-----------------------------------------------------------------------------
(* The packed counts.                                                      *)

\* A value below the limit of a field is not changed by the reduction to its
\* width.
LEMMA NoWrap ==
  ASSUME NEW m \in Nat, NEW n \in Nat, n <= m
  PROVE  n % (m + 1) = n
BY SMT

\* Decrementing a value that is not zero, modulo a width.
LEMMA OneLess ==
  ASSUME NEW m \in Nat, NEW n \in Nat, n <= m, n > 0
  PROVE  (n + m) % (m + 1) = n - 1
<1>1. n + m = (n - 1) + 1 * (m + 1) /\ n - 1 \in 0..m
  OBVIOUS
<1> QED
  BY <1>1, SMT

\* The parts of a count_set.
LEMMA Parts ==
  ASSUME NEW c \in CountSets
  PROVE  /\ c \in [small : BOOLEAN, count : [Kinds -> Nat]]
         /\ c = [small |-> c.small, count |-> c.count]
         /\ c.small \in BOOLEAN /\ c.count \in [Kinds -> Nat]
         /\ \A k \in Kinds : c.count[k] <= Limit(c, k) /\ Limit(c, k) \in Nat
BY LimitsAssumption DEF CountSets, Limit

\* An increment below UINT_MAX adds one to one of the three counts and leaves
\* the others alone, in either form and across the change from one to the
\* other (count_set.h:104-168).
THEOREM IncAddsOne ==
  ASSUME NEW c \in CountSets, NEW k \in Kinds, c.count[k] < LargeMax
  PROVE  /\ inc(c, k) \in CountSets
         /\ inc(c, k).count = [c.count EXCEPT ![k] = @ + 1]
<1> DEFINE d == IF c.small /\ c.count[k] = SmallMax[k] THEN to_large(c) ELSE c
<1>1. /\ d = [small |-> d.small, count |-> c.count] /\ d.small \in BOOLEAN
      /\ c.count \in [Kinds -> Nat]
  <2>1. /\ c \in [small : BOOLEAN, count : [Kinds -> Nat]]
        /\ c = [small |-> c.small, count |-> c.count] /\ c.small \in BOOLEAN
        /\ c.count \in [Kinds -> Nat]
    BY Parts
  <2>2. to_large(c) = [small |-> FALSE, count |-> c.count]
    BY <2>1 DEF to_large
  <2>3. CASE c.small /\ c.count[k] = SmallMax[k]
    BY <2>1, <2>2, <2>3
  <2>4. CASE ~(c.small /\ c.count[k] = SmallMax[k])
    <3>1. d = c
      BY <2>4
    <3> QED
      BY <2>1, <3>1
  <2> QED
    BY <2>3, <2>4
<1>2. \A j \in Kinds : Limit(d, j) \in Nat /\ c.count[j] <= Limit(d, j)
  BY <1>1, Parts, LimitsAssumption DEF to_large, Limit
<1>3. c.count[k] + 1 <= Limit(d, k)
  BY <1>1, Parts, LimitsAssumption DEF to_large, Limit
<1>4. (c.count[k] + 1) % (Limit(d, k) + 1) = c.count[k] + 1
  <2>1. Limit(d, k) \in Nat /\ c.count[k] + 1 \in Nat
    BY <1>1, <1>2
  <2> HIDE DEF d
  <2> QED
    BY <1>3, <2>1, NoWrap
<1>5. inc(c, k) = [small |-> d.small, count |-> [c.count EXCEPT ![k] = @ + 1]]
  BY <1>1, <1>4 DEF inc, plus_one
<1>6. \A j \in Kinds : [c.count EXCEPT ![k] = @ + 1][j] <= Limit(d, j)
  BY <1>1, <1>2, <1>3
<1> QED
  BY <1>1, <1>5, <1>6 DEF CountSets, Limit

\* A decrement of a count that is not zero takes one off it and leaves the
\* others alone; counts that have moved to the heap stay there
\* (count_set.h:119-178).
THEOREM DecTakesOne ==
  ASSUME NEW c \in CountSets, NEW k \in Kinds, c.count[k] > 0
  PROVE  /\ dec(c, k) \in CountSets
         /\ dec(c, k).count = [c.count EXCEPT ![k] = @ - 1]
         /\ dec(c, k).small = c.small
<1>1. /\ c = [small |-> c.small, count |-> c.count] /\ c.small \in BOOLEAN
      /\ c.count \in [Kinds -> Nat]
      /\ \A j \in Kinds : c.count[j] <= Limit(c, j) /\ Limit(c, j) \in Nat
  BY Parts
<1>2. (c.count[k] + Limit(c, k)) % (Limit(c, k) + 1) = c.count[k] - 1
  BY <1>1, OneLess
<1>3. dec(c, k) = [small |-> c.small, count |-> [c.count EXCEPT ![k] = @ - 1]]
  BY <1>1, <1>2 DEF dec
<1>4. /\ [c.count EXCEPT ![k] = @ - 1] \in [Kinds -> Nat]
      /\ \A j \in Kinds : [c.count EXCEPT ![k] = @ - 1][j] <= Limit(c, j)
  BY <1>1
<1> QED
  BY <1>1, <1>3, <1>4 DEF CountSets, Limit

-----------------------------------------------------------------------------
(* How often something occurs.                                             *)

\* A bijection keeps the size of a finite set.
LEMMA SameSize ==
  ASSUME NEW S, NEW T, IsFiniteSet(S), NEW f \in [S -> T],
         \A x, y \in S : f[x] = f[y] => x = y,
         \A y \in T : \E x \in S : f[x] = y
  PROVE  IsFiniteSet(T) /\ Cardinality(T) = Cardinality(S)
<1>1. f \in Bijection(S, T)
  BY DEF Bijection, Injection, Surjection, IsInjective
<1> QED
  BY <1>1, FS_Bijection DEF ExistsBijection

\* The parts of a set without a common element.
LEMMA TwoParts ==
  ASSUME NEW A, NEW B, IsFiniteSet(A), IsFiniteSet(B), A \cap B = {}
  PROVE  /\ IsFiniteSet(A \cup B)
         /\ Cardinality(A) \in Nat /\ Cardinality(B) \in Nat
         /\ Cardinality(A \cup B) = Cardinality(A) + Cardinality(B)
<1>1. Cardinality(A \cap B) = 0
  BY FS_EmptySet
<1>2. /\ IsFiniteSet(A \cup B)
      /\ Cardinality(A \cup B) = Cardinality(A) + Cardinality(B) - Cardinality(A \cap B)
  BY FS_Union
<1>3. Cardinality(A) \in Nat /\ Cardinality(B) \in Nat
  BY FS_CardinalityType
<1> QED
  BY <1>1, <1>2, <1>3

\* Places in one sequence are finitely many.
LEMMA FewPlaces ==
  ASSUME NEW S, NEW s \in Seq(S), NEW A, A \subseteq DOMAIN s
  PROVE  IsFiniteSet(A)
<1>1. Len(s) \in Nat /\ DOMAIN s = 1 .. Len(s)
  OBVIOUS
<1>2. IsFiniteSet(1 .. Len(s))
  BY <1>1, FS_Interval
<1> QED
  BY <1>1, <1>2, FS_Subset

LEMMA CountType ==
  ASSUME NEW S, NEW s \in Seq(S), NEW X
  PROVE  /\ IsFiniteSet({k \in DOMAIN s : s[k] \in X})
         /\ Count(X, s) \in Nat
         /\ Count(X, s) = 0 <=> Range(s) \cap X = {}
<1> DEFINE A == {k \in DOMAIN s : s[k] \in X}
<1>2. IsFiniteSet(A)
  <2>1. A \subseteq DOMAIN s
    OBVIOUS
  <2> HIDE DEF A
  <2> QED
    BY <2>1, FewPlaces
<1>3. A = {} <=> Range(s) \cap X = {}
  BY DEF Range
<1> HIDE DEF A
<1>4. Cardinality(A) \in Nat /\ (Cardinality(A) = 0 <=> A = {})
  BY <1>2, FS_EmptySet, FS_CardinalityType
<1> QED
  BY <1>2, <1>3, <1>4 DEF A, Count

LEMMA CountEmpty == \A X : Count(X, <<>>) = 0
<1>1. \A X : {k \in DOMAIN <<>> : <<>>[k] \in X} = {}
  OBVIOUS
<1> QED
  BY <1>1, FS_EmptySet DEF Count

LEMMA CountOne == \A X, e : Count(X, <<e>>) = Bit(e \in X)
<1> SUFFICES ASSUME NEW X, NEW e PROVE Count(X, <<e>>) = Bit(e \in X)
  OBVIOUS
<1>1. {k \in DOMAIN <<e>> : <<e>>[k] \in X} = IF e \in X THEN {1} ELSE {}
  OBVIOUS
<1> QED
  BY <1>1, FS_EmptySet, FS_Singleton DEF Count, Bit

LEMMA CountConcat ==
  ASSUME NEW S, NEW s \in Seq(S), NEW t \in Seq(S), NEW X
  PROVE  Count(X, s \o t) = Count(X, s) + Count(X, t)
<1> DEFINE m == Len(s)
           A == {k \in DOMAIN s : s[k] \in X}
           B == {k \in DOMAIN t : t[k] \in X}
           C == {k \in DOMAIN (s \o t) : (s \o t)[k] \in X}
           D == {k \in C : k > m}
           f == [k \in B |-> k + m]
<1>1. /\ m \in Nat /\ Len(t) \in Nat
      /\ DOMAIN s = 1 .. m /\ DOMAIN t = 1 .. Len(t) /\ DOMAIN (s \o t) = 1 .. m + Len(t)
      /\ \A k \in 1 .. m : (s \o t)[k] = s[k]
      /\ \A k \in 1 .. Len(t) : (s \o t)[k + m] = t[k]
  OBVIOUS
<1>2. IsFiniteSet(A) /\ IsFiniteSet(B)
  <2>1. A \subseteq DOMAIN s /\ B \subseteq DOMAIN t
    OBVIOUS
  <2> HIDE DEF A, B
  <2>2. IsFiniteSet(A)
    BY <2>1, FewPlaces
  <2>3. IsFiniteSet(B)
    BY <2>1, FewPlaces
  <2> QED
    BY <2>2, <2>3
<1>3. A = C \ D /\ D \subseteq C
  BY <1>1
<1>4. f \in [B -> D] /\ \A x, y \in B : f[x] = f[y] => x = y
  BY <1>1
<1>5. \A y \in D : \E x \in B : f[x] = y
  <2> TAKE y \in D
  <2>1. y - m \in 1 .. Len(t) /\ y - m + m = y
    BY <1>1
  <2>2. y - m \in B
    BY <1>1, <2>1
  <2> QED
    BY <2>1, <2>2
<1> HIDE DEF A, B, C, D, f
<1>6. IsFiniteSet(D) /\ Cardinality(D) = Cardinality(B)
  BY <1>2, <1>4, <1>5, SameSize
<1>7. C = A \cup D /\ A \cap D = {}
  BY <1>3
<1>8. Cardinality(C) = Cardinality(A) + Cardinality(D)
  BY <1>2, <1>6, <1>7, TwoParts
<1> QED
  BY <1>6, <1>8 DEF Count, A, B, C

LEMMA CountHead ==
  ASSUME NEW S, NEW s \in Seq(S), s # <<>>, NEW X
  PROVE  Count(X, s) = Bit(Head(s) \in X) + Count(X, Tail(s))
<1> DEFINE h == <<Head(s)>>
           r == Tail(s)
<1>1. h \in Seq(S) /\ r \in Seq(S) /\ s = h \o r
  OBVIOUS
<1>2. Count(X, h) = Bit(Head(s) \in X)
  BY CountOne
<1> HIDE DEF h, r
<1>3. Count(X, h \o r) = Count(X, h) + Count(X, r)
  BY <1>1, CountConcat
<1> QED
  BY <1>1, <1>2, <1>3 DEF r

\* A sequence made of another element by element.
LEMMA CountMapped ==
  ASSUME NEW s, NEW t, NEW X, NEW Y, DOMAIN t = DOMAIN s,
         \A k \in DOMAIN s : t[k] \in Y <=> s[k] \in X
  PROVE  Count(Y, t) = Count(X, s)
<1>1. {k \in DOMAIN t : t[k] \in Y} = {k \in DOMAIN s : s[k] \in X}
  OBVIOUS
<1> QED
  BY <1>1 DEF Count

\* The first of e goes.
LEMMA FirstRemoved ==
  ASSUME NEW S, NEW s \in Seq(S), NEW e \in Range(s)
  PROVE  /\ RemoveFirst(s, e) \in Seq(S)
         /\ \A X : Count(X, s) = Count(X, RemoveFirst(s, e)) + Bit(e \in X)
<1> DEFINE I == {k \in 1 .. Len(s) : s[k] = e}
           i == Min(I)
           a == SubSeq(s, 1, i - 1)
           b == SubSeq(s, i + 1, Len(s))
<1>1. I \subseteq Nat /\ I # {}
  BY DEF Range
<1>2. i \in I
  <2> HIDE DEF I
  <2>1. \E x \in I : \A y \in I : x <= y
    BY <1>1, LeastElement
  <2> QED
    BY <2>1 DEF Min
<1>3. RemoveFirst(s, e) = a \o b
  BY <1>1 DEF RemoveFirst, RemoveAt, SelectInSeq
<1> HIDE DEF i
<1>4. i \in 1 .. Len(s) /\ s[i] = e /\ e \in S
  BY <1>2
<1>5. a \in Seq(S) /\ b \in Seq(S) /\ <<e>> \in Seq(S)
  BY <1>4
<1>6. s = a \o (<<e>> \o b)
  <2>1. Len(s) \in Nat /\ i \in Nat /\ Len(a) = i - 1 /\ Len(b) = Len(s) - i
    BY <1>4
  <2> DEFINE c == <<e>> \o b
  <2>2. /\ c \in Seq(S) /\ Len(c) = 1 + Len(b) /\ c[1] = e
        /\ \A k \in 1 .. Len(b) : c[k + 1] = b[k]
    BY <1>5
  <2>3. /\ \A k \in 1 .. i - 1 : a[k] = s[k]
        /\ \A k \in 1 .. Len(b) : b[k] = s[k + i]
    BY <1>4, <2>1 DEF a, b
  <2> HIDE DEF c
  <2>4. /\ a \o c \in Seq(S) /\ Len(a \o c) = Len(s)
    <3>1. c \in Seq(S) /\ Len(c) = 1 + Len(b)
      BY <2>2
    <3>2. a \o c \in Seq(S) /\ Len(a \o c) = Len(a) + Len(c)
      BY <1>5, <3>1, ConcatProperties
    <3>3. Len(a) + Len(c) = Len(s)
      <4> DEFINE n == Len(s)  x == Len(a)  y == Len(b)  z == Len(c)
      <4>1. n \in Nat /\ i \in Nat /\ x = i - 1 /\ y = n - i /\ z = 1 + y
        BY <2>1, <3>1
      <4> HIDE DEF n, x, y, z
      <4>2. x + z = n
        BY <4>1
      <4> QED
        BY <4>2 DEF n, x, z
    <3> QED
      BY <3>2, <3>3
  <2>5. \A k \in 1 .. Len(s) : (a \o c)[k] = s[k]
    <3> TAKE k \in 1 .. Len(s)
    <3>0. (a \o c)[k] = IF k <= Len(a) THEN a[k] ELSE c[k - Len(a)]
      BY <1>5, <2>1, <2>2
    <3>1. CASE k < i
      BY <2>1, <2>3, <3>0, <3>1
    <3>2. CASE k = i
      BY <1>4, <2>1, <2>2, <3>0, <3>2
    <3>3. CASE k > i
      <4> DEFINE j == k - i
      <4>1. j \in 1 .. Len(b) /\ k - Len(a) = j + 1 /\ j + i = k /\ ~ (k <= Len(a))
        BY <2>1, <3>3
      <4> HIDE DEF j
      <4>2. (a \o c)[k] = c[j + 1]
        BY <3>0, <4>1
      <4> QED
        BY <2>2, <2>3, <4>1, <4>2
    <3>4. k < i \/ k = i \/ k > i
      BY <2>1
    <3> QED
      BY <3>1, <3>2, <3>3, <3>4
  <2>6. s \in Seq(S)
    OBVIOUS
  <2>7. a \o c = s
    BY <2>4, <2>5, <2>6, SeqEqual
  <2> QED
    BY <2>7 DEF c
<1> HIDE DEF a, b
<1>7. ASSUME NEW X PROVE Count(X, s) = Count(X, a \o b) + Bit(e \in X)
  <2>1. Count(X, a \o b) = Count(X, a) + Count(X, b)
    BY <1>5, CountConcat
  <2>2. Count(X, <<e>> \o b) = Count(X, <<e>>) + Count(X, b)
    BY <1>5, CountConcat
  <2>3. <<e>> \o b \in Seq(S)
    BY <1>5
  <2>4. Count(X, a \o (<<e>> \o b)) = Count(X, a) + Count(X, <<e>> \o b)
    BY <1>5, <2>3, CountConcat
  <2>5. Count(X, a) \in Nat /\ Count(X, b) \in Nat
    BY <1>5, CountType
  <2> QED
    BY <1>6, <2>1, <2>2, <2>4, <2>5, CountOne DEF Bit
<1>8. a \o b \in Seq(S)
  BY <1>5
<1> QED
  BY <1>3, <1>7, <1>8

\* The elements x go.
LEMMA WithoutType ==
  ASSUME NEW S, NEW s \in Seq(S), NEW x
  PROVE  /\ Without(s, x) \in Seq(S)
         /\ \A X : Count(X, Without(s, x)) = Count(X \ {x}, s)
<1> DEFINE Rule(f, k) == IF k = 0 THEN <<>>
                         ELSE IF s[k] = x THEN f[k - 1] ELSE Append(f[k - 1], s[k])
           Fits(n, f) == f = [k \in 0 .. n |-> Rule(f, k)]
           Good == {n \in Nat : \E f : Fits(n, f)}
           kept == CHOOSE f : Fits(Len(s), f)
           Upto(k) == [j \in 1 .. k |-> s[j]]
           Right == {k \in Nat : k <= Len(s) =>
                       /\ kept[k] \in Seq(S)
                       /\ \A X : Count(X, kept[k]) = Count(X \ {x}, Upto(k))}
<1>1. Len(s) \in Nat /\ \A k \in 1 .. Len(s) : s[k] \in S
  OBVIOUS
<1>2. 0 \in Good
  <2> DEFINE f == [k \in 0 .. 0 |-> <<>>]
  <2>1. [k \in 0 .. 0 |-> Rule(f, k)] = f
    OBVIOUS
  <2>2. Fits(0, f)
    BY <2>1
  <2> QED
    BY <2>2
<1>3. ASSUME NEW n \in Nat, n \in Good
      PROVE  n + 1 \in Good
  <2>1. PICK f : Fits(n, f)
    BY <1>3
  <2>1a. \A j \in 0 .. n : f[j] = Rule(f, j)
    <3> HIDE DEF Rule
    <3> QED
      BY <2>1
  <2> DEFINE g == [k \in 0 .. n + 1 |-> IF k <= n THEN f[k] ELSE Rule(f, n + 1)]
  <2>2. ASSUME NEW k \in 0 .. n + 1
        PROVE  g[k] = Rule(g, k)
    <3>0. k \in Int /\ (k = 0 \/ k - 1 \in 0 .. n)
      OBVIOUS
    <3>1. k # 0 => g[k - 1] = f[k - 1]
      BY <3>0
    <3>2. Rule(g, k) = Rule(f, k)
      BY <3>1
    <3>3. k <= n => f[k] = Rule(f, k)
      BY <2>1a
    <3>4. k <= n \/ k = n + 1
      OBVIOUS
    <3> QED
      BY <3>2, <3>3, <3>4
  <2>3. g = [k \in 0 .. n + 1 |-> Rule(g, k)]
    BY <2>2
  <2>4. Fits(n + 1, g)
    BY <2>3
  <2> HIDE DEF Fits, g
  <2> QED
    BY <2>4
<1>4. Len(s) \in Good
  <2> HIDE DEF Good
  <2> QED
    BY <1>1, <1>2, <1>3, NatSetInduction
<1>5. Fits(Len(s), kept)
  BY <1>4
<1>6. \A k \in 0 .. Len(s) : kept[k] = Rule(kept, k)
  BY <1>5
<1>7. Without(s, x) = kept[Len(s)]
  BY DEF Without
<1> HIDE DEF kept
<1>8. 0 \in Right
  <2>1. kept[0] = <<>> /\ Upto(0) = <<>>
    BY <1>1, <1>6
  <2>2. <<>> \in Seq(S)
    OBVIOUS
  <2> HIDE DEF Upto
  <2> QED
    BY <2>1, <2>2, CountEmpty
<1>9. ASSUME NEW n \in Nat, n \in Right
      PROVE  n + 1 \in Right
  <2>1. SUFFICES ASSUME n + 1 <= Len(s)
                 PROVE  /\ kept[n + 1] \in Seq(S)
                        /\ \A X : Count(X, kept[n + 1]) = Count(X \ {x}, Upto(n + 1))
    OBVIOUS
  <2> DEFINE e == s[n + 1]
  <2>2. /\ kept[n] \in Seq(S) /\ e \in S
        /\ \A X : Count(X, kept[n]) = Count(X \ {x}, Upto(n))
    BY <1>1, <1>9, <2>1
  <2>3. kept[n + 1] = IF e = x THEN kept[n] ELSE Append(kept[n], e)
    BY <1>1, <1>6, <2>1
  <2>4. Upto(n) \in Seq(S) /\ Upto(n + 1) = Upto(n) \o <<e>> /\ <<e>> \in Seq(S)
    BY <1>1, <2>1, <2>2
  <2> HIDE DEF e, Upto
  <2>5. \A X : Count(X, Upto(n + 1)) = Count(X, Upto(n)) + Bit(e \in X)
    BY <2>4, CountConcat, CountOne
  <2>6. CASE e = x
    <3>1. \A X : Count(X \ {x}, Upto(n + 1)) = Count(X \ {x}, Upto(n))
      <4> TAKE X
      <4>1. Count(X \ {x}, Upto(n)) \in Nat
        BY <2>4, CountType
      <4> QED
        BY <2>5, <2>6, <4>1 DEF Bit
    <3> QED
      BY <2>2, <2>3, <2>6, <3>1
  <2>7. CASE e # x
    <3>1. kept[n + 1] = kept[n] \o <<e>> /\ kept[n + 1] \in Seq(S)
      BY <2>2, <2>3, <2>7, AppendIsConcat, AppendProperties
    <3>2. \A X : Count(X, kept[n + 1]) = Count(X, kept[n]) + Bit(e \in X)
      <4> TAKE X
      <4>1. Count(X, kept[n] \o <<e>>) = Count(X, kept[n]) + Count(X, <<e>>)
        BY <2>2, <2>4, CountConcat
      <4> QED
        BY <3>1, <4>1, CountOne
    <3>3. \A X : Bit(e \in X) = Bit(e \in X \ {x})
      BY <2>7 DEF Bit
    <3> QED
      BY <2>2, <2>5, <3>1, <3>2, <3>3
  <2> QED
    BY <2>6, <2>7
<1>10. Len(s) \in Right
  <2> HIDE DEF Right
  <2> QED
    BY <1>1, <1>8, <1>9, NatSetInduction
<1>11. Upto(Len(s)) = s
  OBVIOUS
<1> QED
  BY <1>1, <1>7, <1>10, <1>11

\* Occurrences in a family of sequences.
LEMMA OccursType ==
  ASSUME NEW D, NEW S, NEW f \in [D -> Seq(S)], IsFiniteSet(D), NEW X
  PROVE  /\ IsFiniteSet(Places(X, f))
         /\ Occurs(X, f) \in Nat
         /\ Occurs(X, f) = 0 <=> \A d \in D : Range(f[d]) \cap X = {}
<1> DEFINE Q(d) == {k \in DOMAIN f[d] : f[d][k] \in X}
           m == [d \in D |-> {d} \X Q(d)]
<1>1. Places(X, f) = UNION {m[d] : d \in D}
  BY DEF Places
<1>2. ASSUME NEW d \in D PROVE IsFiniteSet(m[d])
  <2>1. f[d] \in Seq(S)
    OBVIOUS
  <2>2. IsFiniteSet(Q(d))
    <3>1. Q(d) \subseteq DOMAIN f[d]
      OBVIOUS
    <3> HIDE DEF Q
    <3> QED
      BY <2>1, <3>1, FewPlaces
  <2> HIDE DEF Q
  <2>3. IsFiniteSet({d} \X Q(d))
    BY <2>2, FS_Singleton, FS_Product
  <2> QED
    BY <2>3
<1>3. IsFiniteSet({m[d] : d \in D})
  <2> DEFINE T == {m[d] : d \in D}
  <2>1. m \in Surjection(D, T)
    BY DEF Surjection
  <2> HIDE DEF m, T
  <2>2. IsFiniteSet(T)
    BY <2>1, FS_Surjection
  <2> QED
    BY <2>2 DEF T
<1>4. IsFiniteSet(UNION {m[d] : d \in D})
  <2> DEFINE T == {m[d] : d \in D}
  <2>1. \A A \in T : IsFiniteSet(A)
    <3> HIDE DEF m
    <3> QED
      BY <1>2
  <2>2. IsFiniteSet(T)
    BY <1>3
  <2> HIDE DEF T, m
  <2>3. IsFiniteSet(UNION T)
    BY <2>1, <2>2, FS_UNION
  <2> QED
    BY <2>3 DEF T
<1>5. Places(X, f) = {} <=> \A d \in D : Range(f[d]) \cap X = {}
  <2>1. Places(X, f) = {} <=> \A d \in D : Q(d) = {}
    <3>1. ASSUME NEW d \in D, NEW k \in Q(d) PROVE <<d, k>> \in Places(X, f)
      BY DEF Places
    <3>2. ASSUME NEW p \in Places(X, f) PROVE \E d \in D : Q(d) # {}
      BY DEF Places
    <3> HIDE DEF Q
    <3> QED
      BY <3>1, <3>2
  <2>2. \A d \in D : Q(d) = {} <=> Range(f[d]) \cap X = {}
    BY DEF Range
  <2> HIDE DEF Q
  <2> QED
    BY <2>1, <2>2
<1> QED
  BY <1>1, <1>4, <1>5, FS_EmptySet, FS_CardinalityType DEF Occurs

\* One sequence of the family changes.
OneDiffers(D, f, g, d) == \A c \in D : c # d => g[c] = f[c]
Differ(X, f, g, d) == Occurs(X, g) + Count(X, f[d]) = Occurs(X, f) + Count(X, g[d])

LEMMA OneChanges ==
  ASSUME NEW D, NEW S, NEW X, NEW f, NEW g, NEW d,
         f \in [D -> Seq(S)], g \in [D -> Seq(S)], d \in D, IsFiniteSet(D), OneDiffers(D, f, g, d)
  PROVE  Differ(X, f, g, d)
<1> DEFINE Rest == {p \in Places(X, f) : p[1] # d}
           Q(h) == {k \in DOMAIN h[d] : h[d][k] \in X}
<1>1. ASSUME NEW h \in [D -> Seq(S)], \A c \in D \ {d} : h[c] = f[c]
      PROVE  /\ IsFiniteSet(Rest) /\ Cardinality(Rest) \in Nat /\ Count(X, h[d]) \in Nat
             /\ Occurs(X, h) = Cardinality(Rest) + Count(X, h[d])
  <2>1. IsFiniteSet(Places(X, f)) /\ Rest \subseteq Places(X, f)
    BY OccursType
  <2>2. IsFiniteSet(Rest) /\ Cardinality(Rest) \in Nat
    BY <2>1, FS_Subset, FS_CardinalityType
  <2> DEFINE A == {d} \X Q(h)
             j == [k \in Q(h) |-> <<d, k>>]
  <2>3. h[d] \in Seq(S)
    BY <1>1
  <2>4. IsFiniteSet(Q(h)) /\ Cardinality(Q(h)) = Count(X, h[d]) /\ Count(X, h[d]) \in Nat
    <3>1. Q(h) \subseteq DOMAIN h[d] /\ Cardinality(Q(h)) = Count(X, h[d])
      BY DEF Count
    <3> HIDE DEF Q
    <3>2. IsFiniteSet(Q(h))
      BY <2>3, <3>1, FewPlaces
    <3> QED
      BY <3>1, <3>2, FS_CardinalityType
  <2>5. Places(X, h) = Rest \cup A
    BY <1>1 DEF Places
  <2>6. Rest \cap A = {}
    OBVIOUS
  <2>7. j \in [Q(h) -> A] /\ (\A x, y \in Q(h) : j[x] = j[y] => x = y)
        /\ \A y \in A : \E x \in Q(h) : j[x] = y
    OBVIOUS
  <2> HIDE DEF Rest, A, j, Q
  <2>8. IsFiniteSet(A) /\ Cardinality(A) = Cardinality(Q(h))
    BY <2>4, <2>7, SameSize
  <2>9. Cardinality(Rest \cup A) = Cardinality(Rest) + Cardinality(A)
    BY <2>2, <2>6, <2>8, TwoParts
  <2> QED
    BY <2>2, <2>4, <2>5, <2>8, <2>9 DEF Occurs
<1>0. \A c \in D \ {d} : g[c] = f[c]
  BY DEF OneDiffers
<1> HIDE DEF Rest
<1>2. Occurs(X, f) = Cardinality(Rest) + Count(X, f[d])
  BY <1>1
<1>3. Occurs(X, g) = Cardinality(Rest) + Count(X, g[d])
  BY <1>0, <1>1
<1>4. Cardinality(Rest) \in Nat /\ Count(X, f[d]) \in Nat /\ Count(X, g[d]) \in Nat
  BY <1>0, <1>1
<1> QED
  BY <1>2, <1>3, <1>4 DEF Differ

\* Two places are two occurrences.
LEMMA TwoPlaces ==
  ASSUME NEW D, NEW S, NEW f \in [D -> Seq(S)], IsFiniteSet(D), NEW X, Occurs(X, f) <= 1,
         NEW c \in D, NEW d \in D, NEW i \in DOMAIN f[c], NEW j \in DOMAIN f[d],
         f[c][i] \in X, f[d][j] \in X
  PROVE  c = d /\ i = j
<1> DEFINE P == Places(X, f)
<1>1. <<c, i>> \in P /\ <<d, j>> \in P
  BY DEF Places
<1>2. IsFiniteSet(P) /\ Cardinality(P) \in Nat
  BY OccursType, FS_CardinalityType
<1>3. Cardinality(P) <= 1
  BY DEF Occurs
<1> HIDE DEF P
<1>4. Cardinality(P) = 1
  BY <1>1, <1>2, <1>3, FS_EmptySet
<1>5. PICK p : P = {p}
  BY <1>2, <1>4, FS_Singleton
<1> QED
  BY <1>1, <1>5

-----------------------------------------------------------------------------
(* The invariant.                                                          *)

Made(o) == maker[o] # NoThread
Held(o) == \E t \in Threads : o \in held[t]
Feeds(o) == \E x \in Objects : o \in Range(sources[x])
Handles(o) == Cardinality({t \in Threads : o \in held[t]})
Number(o, k) == counts[o].count[k]
Zero(o) == \A k \in Kinds : Number(o, k) = 0

Strong(o) == {Release(o, "strong"), Task("relock", o, o)}
Stream(o) == {Release(o, "stream")}
Node(o) == {Release(o, "node")}
Drops(o) == {DropNode(o)}
Listening(s, o) == {Task("listen", s, o), Task("link", s, o)}
Undoing(s, o) == {Task("kill", s, o), Task("last", s, o), Task("unlink", s, o)}
Close(t) == Now("close", t)
Turns == {Now(op, t) : op \in TransactionOps, t \in Threads}

\* The references are counted.
Counted ==
  /\ \A o \in Streams :
       /\ Number(o, "strong") = StrongRefs(o)
       /\ Number(o, "stream") = StreamRefs(o)
       /\ Number(o, "node") = NodeRefs(o)
  /\ \A o \in Objects : nodeRefs[o] = Users(o)

\* Counts do not reach UINT_MAX.
Room == \A o \in Streams : \A k \in Kinds : Number(o, k) < LargeMax

\* What is not made yet is not there.
Fresh ==
  \A o \in Objects : ~Made(o) =>
    /\ nodeRefs[o] = 0 /\ cleanups[o] = <<>>
    /\ o \in Streams => Zero(o) /\ ~func[o] /\ o \notin freed

\* In s, every a is followed by a b.
Ahead(s, a, b) == \A k \in DOMAIN s : s[k] = a => \E j \in DOMAIN s : k < j /\ s[j] = b

\* What a call refers to it releases later.
Ordered ==
  \A t \in Threads :
    /\ \A s \in Streams, o \in Objects :
         /\ \A a \in Listening(s, o) : Ahead(agenda[t], a, DropNode(o))
         /\ Ahead(agenda[t], Task("unsource", s, o), Release(s, "node"))
    /\ \A o \in Streams : Ahead(agenda[t], Task("clear", o, o), Task("relock", o, o))

\* Who makes a stream holds it, and what it is made from.
Building ==
  \A t \in Threads : \A s \in Streams, o \in Objects : \A a \in Listening(s, o) :
    a \in Range(agenda[t]) =>
      /\ s \in held[t] /\ s \in Range(Sources[o])
      /\ o \in Streams => o \in held[t]

\* A link is undone only when its target is cleaned up.
Undone ==
  \A s, o \in Streams :
    (Undoing(s, o) \cap Tasks # {} \/ <<s, o>> \in Range(posts)) =>
      Made(o) /\ (~func[o] \/ Cleaning(o))

\* One thread cleans a stream up, once.
Clean(o) ==
  /\ Due({Task("clear", o, o)}) <= 1 /\ Due({Task("relock", o, o)}) <= 1
  /\ Cleaning(o) => func[o] /\ cleanups[o] = <<>>
  /\ Task("relock", o, o) \in Tasks => ~func[o] \/ Cleaning(o)
  /\ ~func[o] => cleanups[o] = <<>>
  /\ nodeRefs[o] > 0 /\ (Held(o) \/ Feeds(o)) => func[o] /\ ~Cleaning(o)
Cleaned == \A o \in Streams : Clean(o)

\* Deleted is what nothing refers to, and cleaned up what is not active.
Lives(o) ==
  /\ o \in freed => Zero(o) /\ ~func[o]
  /\ Made(o) /\ Zero(o) => o \in freed
  /\ func[o] /\ ~Cleaning(o) => active(counts[o])
Living == \A o \in Streams : Lives(o)

\* A node that is gone has no links.
Emptied ==
  \A o \in Objects : nodeRefs[o] = 0 => sources[o] = <<>> /\ (o \in Streams => targets[o] = <<>>)

\* Sources, targets and cleanups say the same, but for what is on its way.
Sourced(s, o) ==
  s \in Range(sources[o]) => o \in Range(targets[s]) \/ Task("unsource", s, o) \in Tasks
Related(s, o) ==
  /\ o \in Range(targets[s]) => s \in Range(Sources[o])
  /\ s \in Range(cleanups[o]) => s \in Range(Sources[o])
Wired(s, o) ==
  s \in Range(cleanups[o]) /\ nodeRefs[s] > 0 => o \in Range(targets[s])
Undoable(s, o) ==
  Count({o}, targets[s]) <= Count({s}, cleanups[o]) + Due(Undoing(s, o)) + Count({<<s, o>>}, posts)
Linked ==
  \A s \in Streams :
    /\ \A o \in Objects : Sourced(s, o) /\ Related(s, o)
    /\ \A o \in Streams : Wired(s, o) /\ Undoable(s, o)

\* Streams are made from streams made before them.
Founded ==
  /\ \A o \in Objects : Made(o) => \A s \in Range(Sources[o]) : Made(s)
  /\ \A X \in SUBSET {o \in Objects : Made(o)} :
       X # {} => \E o \in X : \A s \in X : s \notin Range(Sources[o])

Inv ==
  /\ TypeOK /\ Counted /\ Fresh /\ Ordered /\ Building /\ Undone /\ Cleaned /\ Living
  /\ Emptied /\ Linked /\ Founded

-----------------------------------------------------------------------------
(* Agendas.                                                                *)

\* Thread t takes the tasks of done off its agenda, and puts new ones there.
Does(t, done, tasks) ==
  \E rest \in Seq(AllTasks) :
    /\ agenda[t] = done \o rest
    /\ agenda' = [agenda EXCEPT ![t] = tasks \o rest]

LEMMA BeginDoes ==
  ASSUME TypeOK, NEW t \in Threads, NEW tasks \in Seq(AllTasks), Begin(t, tasks)
  PROVE  Does(t, <<>>, tasks)
<1>1. <<>> \in Seq(AllTasks) /\ <<>> \o <<>> = <<>> /\ tasks \o <<>> = tasks
  BY ConcatEmptySeq
<1> QED
  BY <1>1 DEF Does, Begin

LEMMA ContinueDoes ==
  ASSUME TypeOK, NEW t \in Threads, agenda[t] # <<>>, NEW tasks \in Seq(AllTasks),
         Continue(t, tasks)
  PROVE  Does(t, <<Head(agenda[t])>>, tasks)
<1>1. agenda[t] \in Seq(AllTasks)
  BY DEF TypeOK
<1>2. Tail(agenda[t]) \in Seq(AllTasks) /\ agenda[t] = <<Head(agenda[t])>> \o Tail(agenda[t])
  BY <1>1
<1> QED
  BY <1>2 DEF Does, Continue

LEMMA AgendaAfter ==
  ASSUME TypeOK, NEW t \in Threads, NEW done \in Seq(AllTasks), NEW tasks \in Seq(AllTasks),
         Does(t, done, tasks)
  PROVE  /\ agenda' \in [Threads -> Seq(AllTasks)]
         /\ \A X : /\ Due(X) \in Nat /\ Due(X)' \in Nat
                   /\ Count(X, done) \in Nat /\ Count(X, tasks) \in Nat
                   /\ Due(X)' + Count(X, done) = Due(X) + Count(X, tasks)
         /\ Tasks' \subseteq Tasks \cup Range(tasks)
         /\ Range(done) \subseteq Range(agenda[t])
         /\ Range(tasks) \subseteq Range(agenda'[t])
         /\ Range(agenda'[t]) \subseteq Range(agenda[t]) \cup Range(tasks)
         /\ Range(agenda[t]) \ Range(done) \subseteq Range(agenda'[t])
         /\ \A u \in Threads \ {t} : agenda'[u] = agenda[u]
         /\ Tasks \ Range(done) \subseteq Tasks'
<1>1. PICK rest \in Seq(AllTasks) : /\ agenda[t] = done \o rest
                                    /\ agenda' = [agenda EXCEPT ![t] = tasks \o rest]
  BY DEF Does
<1>2. agenda \in [Threads -> Seq(AllTasks)]
  BY DEF TypeOK
<1>3. tasks \o rest \in Seq(AllTasks)
  OBVIOUS
<1>4. /\ agenda' \in [Threads -> Seq(AllTasks)]
      /\ agenda'[t] = tasks \o rest
      /\ \A u \in Threads \ {t} : agenda'[u] = agenda[u]
  BY <1>1, <1>2, <1>3
<1>5. ASSUME NEW X
      PROVE  /\ Due(X) \in Nat /\ Due(X)' \in Nat
             /\ Count(X, done) \in Nat /\ Count(X, tasks) \in Nat
             /\ Due(X)' + Count(X, done) = Due(X) + Count(X, tasks)
  <2> DEFINE f == agenda
             g == agenda'
  <2>0. /\ f \in [Threads -> Seq(AllTasks)] /\ g \in [Threads -> Seq(AllTasks)]
        /\ \A u \in Threads \ {t} : g[u] = f[u]
        /\ f[t] = done \o rest /\ g[t] = tasks \o rest
    BY <1>1, <1>2, <1>4
  <2>a. Due(X) = Occurs(X, f) /\ Due(X)' = Occurs(X, g)
    BY DEF Due, Occurs, Places
  <2> HIDE DEF f, g
  <2>1. Occurs(X, f) \in Nat
    BY <2>0, FiniteAssumption, OccursType
  <2>1a. Occurs(X, g) \in Nat
    BY <2>0, FiniteAssumption, OccursType
  <2>2. Occurs(X, g) + Count(X, f[t]) = Occurs(X, f) + Count(X, g[t])
    <3>1. IsFiniteSet(Threads) /\ OneDiffers(Threads, f, g, t)
      BY <2>0, FiniteAssumption DEF OneDiffers
    <3>2. Differ(X, f, g, t)
      BY <2>0, <3>1, OneChanges
    <3> QED
      BY <3>2 DEF Differ
  <2>3. /\ Count(X, done) \in Nat /\ Count(X, tasks) \in Nat /\ Count(X, rest) \in Nat
    BY CountType
  <2>4. Count(X, done \o rest) = Count(X, done) + Count(X, rest)
    BY CountConcat
  <2>5. Count(X, tasks \o rest) = Count(X, tasks) + Count(X, rest)
    BY CountConcat
  <2> DEFINE n == Count(X, done)  m == Count(X, tasks)  r == Count(X, rest)
             x == Occurs(X, f)  y == Occurs(X, g)
  <2>6. n \in Nat /\ m \in Nat /\ r \in Nat /\ x \in Nat /\ y \in Nat
        /\ y + (n + r) = x + (m + r)
    BY <2>0, <2>1, <2>1a, <2>2, <2>3, <2>4, <2>5
  <2> HIDE DEF n, m, r, x, y
  <2>7. y + n = x + m
    BY <2>6
  <2> QED
    BY <2>a, <2>6, <2>7 DEF n, m, x, y
<1>6. /\ Range(agenda[t]) = Range(done) \cup Range(rest)
      /\ Range(agenda'[t]) = Range(tasks) \cup Range(rest)
  BY <1>1, <1>4, RangeOfConcat
<1>7. /\ Tasks = UNION {Range(agenda[u]) : u \in Threads}
      /\ Tasks' = UNION {Range(agenda'[u]) : u \in Threads}
  BY DEF Tasks
<1> QED
  BY <1>4, <1>5, <1>6, <1>7

\* Order is kept behind what is done.
LEMMA AheadConcat ==
  ASSUME NEW S, NEW d \in Seq(S), NEW r \in Seq(S), NEW a, NEW b
  PROVE  /\ Ahead(d \o r, a, b) => Ahead(r, a, b)
         /\ Ahead(r, a, b) /\ (a \notin Range(d) \/ b \in Range(r) \/ Ahead(d, a, b))
              => Ahead(d \o r, a, b)
         /\ Ahead(d \o r, a, b) /\ d = <<a>> => b \in Range(r)
<1> DEFINE m == Len(d)  n == Len(r)  c == d \o r
<1>1. /\ m \in Nat /\ n \in Nat /\ DOMAIN d = 1 .. m /\ DOMAIN r = 1 .. n /\ DOMAIN c = 1 .. m + n
      /\ \A k \in 1 .. m : c[k] = d[k]
      /\ \A k \in 1 .. n : c[k + m] = r[k]
  OBVIOUS
<1> HIDE DEF m, n, c
<1>2. \A k \in 1 .. m + n : k \in 1 .. m \/ (k - m \in 1 .. n /\ k - m + m = k)
  BY <1>1
<1>3. ASSUME Ahead(c, a, b) PROVE Ahead(r, a, b)
  <2> SUFFICES ASSUME NEW k \in 1 .. n, r[k] = a PROVE \E j \in 1 .. n : k < j /\ r[j] = b
    BY <1>1 DEF Ahead
  <2>1. k + m \in 1 .. m + n /\ c[k + m] = a
    BY <1>1
  <2>2. PICK j \in 1 .. m + n : k + m < j /\ c[j] = b
    BY <1>1, <1>3, <2>1 DEF Ahead
  <2>3. j - m \in 1 .. n /\ j - m + m = j /\ k < j - m
    BY <1>1, <2>2
  <2>4. r[j - m] = b
    BY <1>1, <2>2, <2>3
  <2> QED
    BY <2>3, <2>4
<1>4. ASSUME Ahead(r, a, b), a \notin Range(d) \/ b \in Range(r) \/ Ahead(d, a, b)
      PROVE  Ahead(c, a, b)
  <2> SUFFICES ASSUME NEW k \in 1 .. m + n, c[k] = a PROVE \E j \in 1 .. m + n : k < j /\ c[j] = b
    BY <1>1 DEF Ahead
  <2>1. CASE k \in 1 .. m
    <3>1. d[k] = a
      BY <1>1, <2>1
    <3>2. CASE b \in Range(r)
      <4>1. PICK j \in 1 .. n : r[j] = b
        BY <1>1, <3>2 DEF Range
      <4> QED
        BY <1>1, <2>1, <4>1
    <3>3. CASE Ahead(d, a, b)
      <4>1. PICK j \in 1 .. m : k < j /\ d[j] = b
        BY <1>1, <2>1, <3>1, <3>3 DEF Ahead
      <4> QED
        BY <1>1, <4>1
    <3> QED
      BY <1>1, <1>4, <2>1, <3>1, <3>2, <3>3 DEF Range
  <2>2. CASE k - m \in 1 .. n /\ k - m + m = k
    <3>1. r[k - m] = a
      BY <1>1, <2>2
    <3>2. PICK j \in 1 .. n : k - m < j /\ r[j] = b
      BY <1>1, <1>4, <2>2, <3>1 DEF Ahead
    <3>3. j + m \in 1 .. m + n /\ k < j + m /\ c[j + m] = b
      BY <1>1, <3>2
    <3> QED
      BY <3>3
  <2> QED
    BY <1>2, <2>1, <2>2
<1>5. ASSUME Ahead(c, a, b), d = <<a>> PROVE b \in Range(r)
  <2>1. m = 1 /\ d[1] = a
    BY <1>5 DEF m
  <2>2. PICK j \in 1 .. m + n : 1 < j /\ c[j] = b
    BY <1>1, <1>5, <2>1 DEF Ahead
  <2>3. j - m \in 1 .. n /\ j - m + m = j
    BY <1>1, <2>1, <2>2
  <2>4. r[j - m] = b
    BY <1>1, <2>2, <2>3
  <2> QED
    BY <1>1, <2>3, <2>4 DEF Range
<1> QED
  BY <1>3, <1>4, <1>5 DEF c

-----------------------------------------------------------------------------
(* The steps, each with the tasks that it takes off an agenda and puts on  *)
(* it.                                                                     *)

LEMMA FirstTask ==
  ASSUME TypeOK, NEW t \in Threads, NEW op, Doing(t, op)
  PROVE  /\ agenda[t] # <<>> /\ agenda[t] \in Seq(AllTasks)
         /\ Head(agenda[t]) = Task(op, Obj(t), Arg(t))
         /\ op = "release" => Obj(t) \in Streams /\ Arg(t) \in Kinds
         /\ op \in {"relock", "clear"} => Obj(t) \in Streams /\ Arg(t) = Obj(t)
         /\ op \in {"kill", "last", "listen", "link", "unsource", "unlink"}
              => Obj(t) \in Streams /\ Arg(t) \in Objects
         /\ op = "dropNode" => Obj(t) \in Objects /\ Arg(t) = Obj(t)
         /\ op \in TransactionOps => Obj(t) \in Threads /\ Arg(t) = Obj(t)
<1>1. agenda[t] \in Seq(AllTasks) /\ agenda[t] # <<>>
  BY DEF TypeOK, Doing
<1> DEFINE h == Head(agenda[t])
<1>2. h \in AllTasks
  BY <1>1
<1>3. Obj(t) = h.o /\ Arg(t) = h.arg /\ h.op = op
  BY DEF Obj, Arg, Doing
<1> HIDE DEF h
<1>4. h = Task(h.op, h.o, h.arg)
  BY <1>2 DEF AllTasks, Task, Release, DropNode, Now, TransactionOps
<1>5. /\ op = "release" => h.o \in Streams /\ h.arg \in Kinds
      /\ op \in {"relock", "clear"} => h.o \in Streams /\ h.arg = h.o
      /\ op \in {"kill", "last", "listen", "link", "unsource", "unlink"}
           => h.o \in Streams /\ h.arg \in Objects
      /\ op = "dropNode" => h.o \in Objects /\ h.arg = h.o
      /\ op \in TransactionOps => h.o \in Threads /\ h.arg = h.o
  BY <1>2, <1>3 DEF AllTasks, Task, Release, DropNode, Now, TransactionOps
<1> QED
  BY <1>1, <1>3, <1>4, <1>5 DEF h

\* unsafe_new_stream() in the step of a thread that had nothing to do.
SinkMade(t, o) ==
  /\ o \in Streams /\ Sources[o] = <<>> /\ NewStream(t, o)
  /\ sinks' = sinks \cup {o}
  /\ Does(t, <<>>, <<>>)
  /\ UNCHANGED <<cleanups, links, freed, open, deferral>>

Making(t, o) == <<Now("raise", t)>> \o Each("listen", Sources[o], o) \o <<DropNode(o), Close(t)>>

StreamMade(t, o) ==
  /\ o \in Streams /\ Range(Sources[o]) \subseteq held[t] /\ NewStream(t, o)
  /\ Does(t, <<>>, Making(t, o))
  /\ ReadDepth(t)
  /\ UNCHANGED <<cleanups, links, freed, sinks, open, depth, posts, processing_post>>

ListenerMade(t, o) ==
  /\ o \in Listeners /\ ~Made(o) /\ Range(Sources[o]) \subseteq held[t]
  /\ maker' = [maker EXCEPT ![o] = t]
  /\ nodeRefs' = [nodeRefs EXCEPT ![o] = 1]
  /\ Does(t, <<>>, Making(t, o))
  /\ ReadDepth(t)
  /\ UNCHANGED <<counts, func, cleanups, links, freed, held, sinks, open, depth, posts, processing_post>>

Unlistened(t, s, o) ==
  /\ s \in Streams /\ o \in Listeners
  /\ cleanups' = [cleanups EXCEPT ![o] = <<>>]
  /\ Does(t, <<>>, <<Task("kill", s, o)>>)
  /\ UNCHANGED <<counts, func, nodeRefs, links, freed, owners, deferral>>

HandleCopied(t, u, o) ==
  /\ u \in Threads /\ o \in held[t] /\ o \notin held[u]
  /\ held' = [held EXCEPT ![u] = @ \cup {o}]
  /\ counts' = Inc(o, "stream")
  /\ Does(t, <<>>, <<>>)
  /\ UNCHANGED <<func, cleanups, nodeRefs, links, freed, maker, sinks, open, deferral>>

HandleDropped(t, o) ==
  /\ o \in held[t] /\ agenda[t] = <<>>
  /\ held' = [held EXCEPT ![t] = @ \ {o}]
  /\ Does(t, <<>>, <<Release(o, "stream")>>)
  /\ UNCHANGED <<counts, func, cleanups, nodeRefs, links, freed, maker, sinks, open, deferral>>

SinkDropped(t, o) ==
  /\ o \in sinks
  /\ sinks' = sinks \ {o}
  /\ Does(t, <<>>, <<DropNode(o)>>)
  /\ UNCHANGED <<counts, func, cleanups, nodeRefs, links, freed, maker, held, open, deferral>>

Opened(t) ==
  /\ t \notin open
  /\ open' = open \cup {t}
  /\ ReadDepth(t)
  /\ Does(t, <<>>, <<Now("raise", t)>>)
  /\ UNCHANGED <<counts, func, cleanups, nodeRefs, links, freed, maker, held, sinks, depth, posts,
                 processing_post>>

Closing(t) ==
  /\ t \in open
  /\ open' = open \ {t}
  /\ Does(t, <<>>, <<Close(t)>>)
  /\ UNCHANGED <<counts, func, cleanups, nodeRefs, links, freed, maker, held, sinks, deferral>>

\* The last reference that kept the stream active goes, or another one.
CleanupStarts(t, o, k) ==
  /\ o \in Streams /\ k \in Kinds
  /\ func[o] /\ ~active(dec(counts[o], k))
  /\ counts' = [counts EXCEPT ![o] = inc(dec(@, k), "strong")]
  /\ cleanups' = [cleanups EXCEPT ![o] = <<>>]
  /\ Does(t, <<Release(o, k)>>, Each("kill", cleanups[o], o)
                                  \o <<Task("clear", o, o), Task("relock", o, o)>>)
  /\ UNCHANGED <<func, nodeRefs, links, freed, owners, deferral>>

Released(t, o, k) ==
  /\ o \in Streams /\ k \in Kinds
  /\ ~(func[o] /\ ~active(dec(counts[o], k)))
  /\ counts' = Dec(o, k)
  /\ freed' = IF alive(dec(counts[o], k)) THEN freed ELSE freed \cup {o}
  /\ Does(t, <<Release(o, k)>>, <<>>)
  /\ UNCHANGED <<func, cleanups, nodeRefs, links, owners, deferral>>

Cleared(t, o) ==
  /\ o \in Streams
  /\ func' = [func EXCEPT ![o] = FALSE]
  /\ Does(t, <<Task("clear", o, o)>>, <<>>)
  /\ UNCHANGED <<counts, cleanups, nodeRefs, links, freed, owners, deferral>>

Relocked(t, o) ==
  /\ o \in Streams
  /\ counts' = Dec(o, "strong")
  /\ freed' = IF alive(dec(counts[o], "strong")) THEN freed ELSE freed \cup {o}
  /\ Does(t, <<Task("relock", o, o)>>, <<>>)
  /\ UNCHANGED <<func, cleanups, nodeRefs, links, owners, deferral>>

ListenerCalls(s, o) == (IF func[s] THEN <<Task("link", s, o)>> ELSE <<>>) \o <<Release(s, "strong")>>

ListenerAdded(t, s, o) ==
  /\ s \in Streams /\ o \in Objects
  /\ counts' = Inc(s, "strong")
  /\ Does(t, <<Task("listen", s, o)>>, ListenerCalls(s, o))
  /\ UNCHANGED <<func, cleanups, nodeRefs, links, freed, owners, deferral>>

NodesLinked(t, s, o) ==
  /\ s \in Streams /\ o \in Objects /\ nodeRefs[s] > 0
  /\ nodeRefs' = [nodeRefs EXCEPT ![s] = @ + 1, ![o] = @ + 1]
  /\ targets' = [targets EXCEPT ![s] = <<o>> \o @]
  /\ sources' = [sources EXCEPT ![o] = <<s>> \o @]
  /\ counts' = Inc(s, "stream")
  /\ cleanups' = [cleanups EXCEPT ![o] = <<s>> \o @]
  /\ Does(t, <<Task("link", s, o)>>, <<DropNode(s)>>)
  /\ UNCHANGED <<func, freed, owners, deferral>>

\* The node is gone: there is nothing to link, or the link is gone.
Skipped(t, op, s, o) ==
  /\ s \in Streams /\ o \in Objects
  /\ \/ op = "link" /\ nodeRefs[s] = 0
     \/ op = "unlink" /\ (nodeRefs[s] = 0 \/ o \notin Range(targets[s]))
  /\ Does(t, <<Task(op, s, o)>>, <<>>)
  /\ UNCHANGED <<counts, func, cleanups, nodeRefs, links, freed, owners, deferral>>

NodeKept(t, o) ==
  /\ o \in Objects /\ nodeRefs[o] > 1
  /\ nodeRefs' = [nodeRefs EXCEPT ![o] = @ - 1]
  /\ Does(t, <<DropNode(o)>>, <<>>)
  /\ UNCHANGED <<counts, func, cleanups, links, freed, owners, deferral>>

Outgoing(o) == IF o \in Streams THEN targets[o] ELSE <<>>
Destroying(o) ==
  WithEach("unsource", o, Outgoing(o)) \o (IF o \in Streams THEN <<Release(o, "node")>> ELSE <<>>)
    \o Each("release", sources[o], "stream") \o DropNodes(Outgoing(o))

NodeGone(t, o) ==
  /\ o \in Objects /\ nodeRefs[o] = 1
  /\ nodeRefs' = [nodeRefs EXCEPT ![o] = @ - 1]
  /\ sources' = [sources EXCEPT ![o] = <<>>]
  /\ targets' = [s \in Streams |-> IF s = o THEN <<>> ELSE targets[s]]
  /\ Does(t, <<DropNode(o)>>, Destroying(o))
  /\ UNCHANGED <<counts, func, cleanups, freed, owners, deferral>>

Unsourced(t, s, o) ==
  /\ s \in Streams /\ o \in Objects
  /\ counts' = Inc(s, "stream")
  /\ sources' = [sources EXCEPT ![o] = Without(@, s)]
  /\ Does(t, <<Task("unsource", s, o)>>, SourcesRemoved(s, o))
  /\ UNCHANGED <<func, cleanups, nodeRefs, targets, freed, owners, deferral>>

NodesUnlinked(t, s, o) ==
  /\ s \in Streams /\ o \in Objects
  /\ nodeRefs[s] > 0 /\ o \in Range(targets[s])
  /\ targets' = [targets EXCEPT ![s] = RemoveFirst(@, o)]
  /\ sources' = [sources EXCEPT ![o] = Without(@, s)]
  /\ counts' = Inc(s, "stream")
  /\ nodeRefs' = [nodeRefs EXCEPT ![s] = @ + 1]
  /\ Does(t, <<Task("unlink", s, o)>>, SourcesRemoved(s, o) \o <<DropNode(o), DropNode(s)>>)
  /\ UNCHANGED <<func, cleanups, freed, owners, deferral>>

Killed(t, s, o) ==
  /\ s \in Streams /\ o \in Objects
  /\ ReadDepth(t)
  /\ Does(t, <<Task("kill", s, o)>>, <<Now("raise", t), Task("last", s, o)>>)
  /\ UNCHANGED <<counts, func, cleanups, nodeRefs, links, freed, owners, depth, posts, processing_post>>

Deferred(t, s, o) ==
  /\ s \in Streams /\ o \in Objects
  /\ posts' = Append(posts, <<s, o>>)
  /\ Does(t, <<Task("last", s, o)>>, <<Close(t)>>)
  /\ UNCHANGED <<counts, func, cleanups, nodeRefs, links, freed, owners, depth, read, processing_post>>

PostRun(t, u, s, o) ==
  /\ u \in Threads /\ s \in Streams /\ o \in Objects
  /\ posts # <<>> /\ Head(posts) = <<s, o>> /\ posts' = Tail(posts)
  /\ Does(t, <<Now("posts", u)>>, <<Task("unlink", s, o), Now("posts", u)>>)
  /\ UNCHANGED <<counts, func, cleanups, nodeRefs, links, freed, owners, depth, read, processing_post>>

\* A step of a transaction or of process_post() that touches no post.
Paced(t, op, u, tasks) ==
  /\ op \in TransactionOps /\ u \in Threads /\ tasks \in Seq(Turns)
  /\ depth' \in Int /\ read' \in [Threads -> Int] /\ processing_post' \in BOOLEAN
  /\ Does(t, <<Now(op, u)>>, tasks)
  /\ UNCHANGED <<counts, func, cleanups, nodeRefs, links, freed, owners, posts>>

\* Steps that leave streams and nodes as they are.
Apart(t) ==
  \/ Opened(t) \/ Closing(t)
  \/ \E o \in Objects : HandleDropped(t, o) \/ SinkDropped(t, o)
  \/ \E s \in Streams, o \in Objects :
       Skipped(t, "link", s, o) \/ Skipped(t, "unlink", s, o) \/ Killed(t, s, o) \/ Deferred(t, s, o)
  \/ \E op \in TransactionOps, u \in Threads, tasks \in Seq(Turns) : Paced(t, op, u, tasks)
  \/ \E u \in Threads, s \in Streams, o \in Objects : PostRun(t, u, s, o)

Step(t) ==
  \/ Apart(t)
  \/ \E o \in Objects :
       \/ SinkMade(t, o) \/ StreamMade(t, o) \/ ListenerMade(t, o)
       \/ Cleared(t, o) \/ Relocked(t, o) \/ NodeKept(t, o) \/ NodeGone(t, o)
  \/ \E o \in Objects, k \in Kinds : CleanupStarts(t, o, k) \/ Released(t, o, k)
  \/ \E o \in Objects, u \in Threads : HandleCopied(t, u, o)
  \/ \E s \in Streams, o \in Objects :
       \/ Unlistened(t, s, o) \/ ListenerAdded(t, s, o) \/ NodesLinked(t, s, o)
       \/ Unsourced(t, s, o) \/ NodesUnlinked(t, s, o)

\* Lists of tasks, element by element.
LEMMA EachType ==
  ASSUME NEW S, NEW s \in Seq(S), NEW op, NEW x
  PROVE  /\ Each(op, s, x) \in Seq({Task(op, e, x) : e \in S})
         /\ Range(Each(op, s, x)) = {Task(op, e, x) : e \in Range(s)}
         /\ DOMAIN Each(op, s, x) = DOMAIN s
<1>1. Len(s) \in Nat /\ DOMAIN s = 1 .. Len(s) /\ \A k \in 1 .. Len(s) : s[k] \in S
  OBVIOUS
<1>2. /\ DOMAIN Each(op, s, x) = 1 .. Len(s)
      /\ \A k \in 1 .. Len(s) : Each(op, s, x)[k] = Task(op, s[k], x)
      /\ Each(op, s, x) = [k \in 1 .. Len(s) |-> Each(op, s, x)[k]]
  BY <1>1 DEF Each
<1> HIDE DEF Each
<1>3. Each(op, s, x) \in Seq({Task(op, e, x) : e \in S})
  BY <1>1, <1>2
<1>4. Range(Each(op, s, x)) = {Task(op, e, x) : e \in Range(s)}
  BY <1>1, <1>2 DEF Range
<1> QED
  BY <1>1, <1>2, <1>3, <1>4

LEMMA WithEachType ==
  ASSUME NEW S, NEW s \in Seq(S), NEW op, NEW x
  PROVE  /\ WithEach(op, x, s) \in Seq({Task(op, x, e) : e \in S})
         /\ Range(WithEach(op, x, s)) = {Task(op, x, e) : e \in Range(s)}
         /\ DOMAIN WithEach(op, x, s) = DOMAIN s
<1>1. Len(s) \in Nat /\ DOMAIN s = 1 .. Len(s) /\ \A k \in 1 .. Len(s) : s[k] \in S
  OBVIOUS
<1>2. /\ DOMAIN WithEach(op, x, s) = 1 .. Len(s)
      /\ \A k \in 1 .. Len(s) : WithEach(op, x, s)[k] = Task(op, x, s[k])
      /\ WithEach(op, x, s) = [k \in 1 .. Len(s) |-> WithEach(op, x, s)[k]]
  BY <1>1 DEF WithEach
<1> HIDE DEF WithEach
<1>3. WithEach(op, x, s) \in Seq({Task(op, x, e) : e \in S})
  BY <1>1, <1>2
<1>4. Range(WithEach(op, x, s)) = {Task(op, x, e) : e \in Range(s)}
  BY <1>1, <1>2 DEF Range
<1> QED
  BY <1>1, <1>2, <1>3, <1>4

LEMMA DropNodesType ==
  ASSUME NEW S, NEW s \in Seq(S)
  PROVE  /\ DropNodes(s) \in Seq({DropNode(e) : e \in S})
         /\ Range(DropNodes(s)) = {DropNode(e) : e \in Range(s)}
         /\ DOMAIN DropNodes(s) = DOMAIN s
<1>1. Len(s) \in Nat /\ DOMAIN s = 1 .. Len(s) /\ \A k \in 1 .. Len(s) : s[k] \in S
  OBVIOUS
<1>2. /\ DOMAIN DropNodes(s) = 1 .. Len(s)
      /\ \A k \in 1 .. Len(s) : DropNodes(s)[k] = DropNode(s[k])
      /\ DropNodes(s) = [k \in 1 .. Len(s) |-> DropNodes(s)[k]]
  BY <1>1 DEF DropNodes
<1> HIDE DEF DropNodes
<1>3. DropNodes(s) \in Seq({DropNode(e) : e \in S})
  BY <1>1, <1>2
<1>4. Range(DropNodes(s)) = {DropNode(e) : e \in Range(s)}
  BY <1>1, <1>2 DEF Range
<1> QED
  BY <1>1, <1>2, <1>3, <1>4

LEMMA TaskTypes ==
  /\ \A o \in Streams, k \in Kinds : Release(o, k) \in AllTasks
  /\ \A o \in Streams : Task("relock", o, o) \in AllTasks /\ Task("clear", o, o) \in AllTasks
  /\ \A s \in Streams, o \in Objects, op \in {"kill", "last", "listen", "link", "unsource", "unlink"} :
       Task(op, s, o) \in AllTasks
  /\ \A o \in Objects : DropNode(o) \in AllTasks
  /\ \A t \in Threads, op \in TransactionOps : Now(op, t) \in AllTasks
  /\ \A t \in Threads : Close(t) \in AllTasks /\ Close(t) \in Turns /\ Now("raise", t) \in Turns
  /\ {"raise", "close", "posts"} \subseteq TransactionOps /\ Turns \subseteq AllTasks
BY DEF AllTasks, Close, Turns, TransactionOps

LEMMA SomeKinds == {"strong", "stream", "node"} \subseteq Kinds /\ Streams \subseteq Objects /\ Listeners \subseteq Objects
BY DEF Kinds, Objects

\* A part of what is a sequence of tasks.
LEMMA MoreTasks ==
  ASSUME NEW S, NEW T, S \subseteq T, NEW s \in Seq(S)
  PROVE  s \in Seq(T)
OBVIOUS

LEMMA MakingType ==
  ASSUME NEW t \in Threads, NEW o \in Objects
  PROVE  /\ Making(t, o) \in Seq(AllTasks)
         /\ Range(Making(t, o)) = {Now("raise", t)} \cup {Task("listen", s, o) : s \in Range(Sources[o])}
                                    \cup {DropNode(o), Close(t)}
         /\ <<Now("raise", t)>> \in Seq(AllTasks)
         /\ Each("listen", Sources[o], o) \in Seq(AllTasks)
         /\ Range(Each("listen", Sources[o], o)) = {Task("listen", s, o) : s \in Range(Sources[o])}
         /\ <<DropNode(o), Close(t)>> \in Seq(AllTasks)
         /\ <<Now("raise", t)>> \o Each("listen", Sources[o], o) \in Seq(AllTasks)
<1> DEFINE r == <<Now("raise", t)>>
           a == Each("listen", Sources[o], o)
           b == <<DropNode(o), Close(t)>>
<1>1. Sources[o] \in Seq(Streams)
  BY SourcesAssumption
<1>2. {Task("listen", s, o) : s \in Streams} \subseteq AllTasks
  BY TaskTypes
<1>3. /\ a \in Seq({Task("listen", s, o) : s \in Streams})
      /\ Range(a) = {Task("listen", s, o) : s \in Range(Sources[o])}
  <2> DEFINE q == Sources[o]
  <2>1. q \in Seq(Streams)
    BY <1>1
  <2> HIDE DEF q
  <2>2. /\ Each("listen", q, o) \in Seq({Task("listen", s, o) : s \in Streams})
        /\ Range(Each("listen", q, o)) = {Task("listen", s, o) : s \in Range(q)}
    BY <2>1, EachType
  <2> QED
    BY <2>2 DEF q
<1>4. a \in Seq(AllTasks)
  <2> HIDE DEF a
  <2> QED
    BY <1>2, <1>3
<1>5. b \in Seq(AllTasks) /\ Range(b) = {DropNode(o), Close(t)}
  <2>1. DropNode(o) \in AllTasks /\ Close(t) \in AllTasks
    BY TaskTypes
  <2> QED
    BY <2>1 DEF Range
<1>7. r \in Seq(AllTasks) /\ Range(r) = {Now("raise", t)}
  <2>1. Now("raise", t) \in AllTasks
    BY TaskTypes
  <2> QED
    BY <2>1 DEF Range
<1> HIDE DEF r, a, b
<1>8. r \o a \in Seq(AllTasks) /\ Range(r \o a) = Range(r) \cup Range(a)
  BY <1>4, <1>7, RangeOfConcat
<1> DEFINE c == r \o a
<1>9. c \in Seq(AllTasks) /\ Range(c) = Range(r) \cup Range(a)
  BY <1>8
<1> HIDE DEF c
<1>6. c \o b \in Seq(AllTasks) /\ Range(c \o b) = Range(c) \cup Range(b)
  BY <1>5, <1>9, RangeOfConcat
<1> QED
  BY <1>3, <1>4, <1>5, <1>6, <1>7, <1>8, <1>9 DEF Making, r, a, b, c

LEMMA CleanupType ==
  ASSUME TypeOK, NEW o \in Streams
  PROVE  LET a == Each("kill", cleanups[o], o)
             b == <<Task("clear", o, o), Task("relock", o, o)>>
         IN  /\ a \in Seq(AllTasks) /\ b \in Seq(AllTasks) /\ a \o b \in Seq(AllTasks)
             /\ Range(a) = {Task("kill", s, o) : s \in Range(cleanups[o])}
             /\ Range(b) = {Task("clear", o, o), Task("relock", o, o)}
             /\ Range(a \o b) = Range(a) \cup Range(b)
<1> DEFINE a == Each("kill", cleanups[o], o)
           b == <<Task("clear", o, o), Task("relock", o, o)>>
<1>1. cleanups[o] \in Seq(Streams) /\ o \in Objects
  BY SomeKinds DEF TypeOK
<1>2. {Task("kill", s, o) : s \in Streams} \subseteq AllTasks
  BY <1>1, TaskTypes
<1>3. /\ a \in Seq({Task("kill", s, o) : s \in Streams})
      /\ Range(a) = {Task("kill", s, o) : s \in Range(cleanups[o])}
  BY <1>1, EachType
<1>4. a \in Seq(AllTasks)
  <2> HIDE DEF a
  <2> QED
    BY <1>2, <1>3
<1>5. b \in Seq(AllTasks) /\ Range(b) = {Task("clear", o, o), Task("relock", o, o)}
  <2>1. Task("clear", o, o) \in AllTasks /\ Task("relock", o, o) \in AllTasks
    BY TaskTypes
  <2> QED
    BY <2>1 DEF Range
<1> HIDE DEF a, b
<1>6. a \o b \in Seq(AllTasks) /\ Range(a \o b) = Range(a) \cup Range(b)
  BY <1>4, <1>5, RangeOfConcat
<1> QED
  BY <1>3, <1>4, <1>5, <1>6 DEF a, b

LEMMA DestroyingType ==
  ASSUME TypeOK, NEW o \in Objects
  PROVE  LET out == Outgoing(o)
             a == WithEach("unsource", o, out)
             b == IF o \in Streams THEN <<Release(o, "node")>> ELSE <<>>
             c == Each("release", sources[o], "stream")
             d == DropNodes(out)
         IN  /\ out \in Seq(Objects)
             /\ a \in Seq(AllTasks) /\ b \in Seq(AllTasks) /\ c \in Seq(AllTasks) /\ d \in Seq(AllTasks)
             /\ Destroying(o) = a \o b \o c \o d
             /\ Range(a) = {Task("unsource", o, x) : x \in Range(out)}
             /\ Range(b) = {Release(y, "node") : y \in {o} \cap Streams}
             /\ Range(c) = {Release(s, "stream") : s \in Range(sources[o])}
             /\ Range(d) = {DropNode(x) : x \in Range(out)}
             /\ a \o b \in Seq(AllTasks) /\ a \o b \o c \in Seq(AllTasks)
             /\ Destroying(o) \in Seq(AllTasks)
             /\ Range(Destroying(o)) = Range(a) \cup Range(b) \cup Range(c) \cup Range(d)
<1> DEFINE out == Outgoing(o)
           q == sources[o]
           a == WithEach("unsource", o, out)
           b == IF o \in Streams THEN <<Release(o, "node")>> ELSE <<>>
           c == Each("release", q, "stream")
           d == DropNodes(out)
<1>1. out \in Seq(Objects) /\ q \in Seq(Streams)
  BY DEF TypeOK, Outgoing
<1>2. o \notin Streams => out = <<>>
  BY DEF Outgoing
<1>3. Destroying(o) = a \o b \o c \o d
  BY DEF Destroying
<1> HIDE DEF out, q
<1>4. a \in Seq(AllTasks) /\ Range(a) = {Task("unsource", o, x) : x \in Range(out)}
  <2>1. /\ a \in Seq({Task("unsource", o, x) : x \in Objects})
        /\ Range(a) = {Task("unsource", o, x) : x \in Range(out)}
    BY <1>1, WithEachType
  <2>2. CASE o \in Streams
    <3>1. {Task("unsource", o, x) : x \in Objects} \subseteq AllTasks
      BY <2>2, TaskTypes
    <3> HIDE DEF a
    <3> QED
      BY <2>1, <3>1
  <2>3. CASE o \notin Streams
    <3>1. a = <<>>
      BY <1>2, <2>3 DEF WithEach
    <3> QED
      BY <2>1, <3>1
  <2> QED
    BY <2>2, <2>3
<1>5. b \in Seq(AllTasks) /\ Range(b) = {Release(y, "node") : y \in {o} \cap Streams}
  <2>1. o \in Streams => Release(o, "node") \in AllTasks
    BY TaskTypes, SomeKinds
  <2> QED
    BY <2>1 DEF Range
<1>6. c \in Seq(AllTasks) /\ Range(c) = {Release(s, "stream") : s \in Range(q)}
  <2>1. /\ c \in Seq({Task("release", s, "stream") : s \in Streams})
        /\ Range(c) = {Task("release", s, "stream") : s \in Range(q)}
    BY <1>1, EachType
  <2>2. {Task("release", s, "stream") : s \in Streams} \subseteq AllTasks
    BY TaskTypes, SomeKinds DEF Release
  <2> HIDE DEF c
  <2> QED
    BY <2>1, <2>2 DEF Release
<1>7. d \in Seq(AllTasks) /\ Range(d) = {DropNode(x) : x \in Range(out)}
  <2>1. /\ d \in Seq({DropNode(x) : x \in Objects})
        /\ Range(d) = {DropNode(x) : x \in Range(out)}
    BY <1>1, DropNodesType
  <2>2. {DropNode(x) : x \in Objects} \subseteq AllTasks
    BY TaskTypes
  <2> HIDE DEF d
  <2> QED
    BY <2>1, <2>2
<1> HIDE DEF a, b, c, d
<1>8. a \o b \in Seq(AllTasks) /\ Range(a \o b) = Range(a) \cup Range(b)
  BY <1>4, <1>5, RangeOfConcat
<1>9. (a \o b) \o c \in Seq(AllTasks) /\ Range((a \o b) \o c) = Range(a \o b) \cup Range(c)
  <2> DEFINE e == a \o b
  <2>1. e \in Seq(AllTasks)
    BY <1>8
  <2> HIDE DEF e
  <2>2. e \o c \in Seq(AllTasks) /\ Range(e \o c) = Range(e) \cup Range(c)
    BY <2>1, <1>6, RangeOfConcat
  <2> QED
    BY <2>2 DEF e
<1>10. ((a \o b) \o c) \o d \in Seq(AllTasks)
       /\ Range(((a \o b) \o c) \o d) = Range((a \o b) \o c) \cup Range(d)
  <2> DEFINE e == (a \o b) \o c
  <2>1. e \in Seq(AllTasks)
    BY <1>9
  <2> HIDE DEF e
  <2>2. e \o d \in Seq(AllTasks) /\ Range(e \o d) = Range(e) \cup Range(d)
    BY <2>1, <1>7, RangeOfConcat
  <2> QED
    BY <2>2 DEF e
<1> QED
  BY <1>1, <1>3, <1>4, <1>5, <1>6, <1>7, <1>8, <1>9, <1>10 DEF a, b, c, d, out, q

LEMMA SourcesRemovedType ==
  ASSUME TypeOK, NEW s \in Streams, NEW o \in Objects
  PROVE  /\ SourcesRemoved(s, o) \in Seq(AllTasks)
         /\ Range(SourcesRemoved(s, o)) = {Release(s, "stream")}
         /\ Count({s}, sources[o]) \in Nat
         /\ \A X : Count(X, SourcesRemoved(s, o)) =
                     IF Release(s, "stream") \in X THEN Count({s}, sources[o]) + 1 ELSE 0
<1> DEFINE n == Count({s}, sources[o])
           r == Release(s, "stream")
           l == SourcesRemoved(s, o)
<1>1. n \in Nat
  <2>1. sources[o] \in Seq(Streams)
    BY DEF TypeOK
  <2> QED
    BY <2>1, CountType
<1>2. r \in AllTasks
  BY TaskTypes, SomeKinds
<1>3. l = [k \in 1 .. n + 1 |-> r]
  BY DEF SourcesRemoved
<1> HIDE DEF n, r, l
<1>4. l \in Seq(AllTasks) /\ Len(l) = n + 1 /\ DOMAIN l = 1 .. n + 1 /\ \A k \in 1 .. n + 1 : l[k] = r
  BY <1>1, <1>2, <1>3
<1>5. Range(l) = {r}
  BY <1>1, <1>4 DEF Range
<1>6. ASSUME NEW X PROVE Count(X, l) = IF r \in X THEN n + 1 ELSE 0
  <2>1. CASE r \in X
    <3>1. {k \in DOMAIN l : l[k] \in X} = 1 .. n + 1
      BY <1>4, <2>1
    <3>2. Cardinality(1 .. n + 1) = n + 1
      BY <1>1, FS_Interval
    <3> QED
      BY <2>1, <3>1, <3>2 DEF Count
  <2>2. CASE r \notin X
    <3>1. {k \in DOMAIN l : l[k] \in X} = {}
      BY <1>4, <2>2
    <3> QED
      BY <2>2, <3>1, FS_EmptySet DEF Count
  <2> QED
    BY <2>1, <2>2
<1> QED
  BY <1>1, <1>4, <1>5, <1>6 DEF n, r, l

LEMMA UnlinkedType ==
  ASSUME TypeOK, NEW s \in Streams, NEW o \in Objects
  PROVE  LET a == SourcesRemoved(s, o)
             b == <<DropNode(o), DropNode(s)>>
         IN  /\ a \in Seq(AllTasks) /\ b \in Seq(AllTasks) /\ a \o b \in Seq(AllTasks)
             /\ Range(a \o b) = {Release(s, "stream"), DropNode(o), DropNode(s)}
<1> DEFINE a == SourcesRemoved(s, o)
           b == <<DropNode(o), DropNode(s)>>
<1>1. a \in Seq(AllTasks) /\ Range(a) = {Release(s, "stream")}
  BY SourcesRemovedType
<1>2. b \in Seq(AllTasks) /\ Range(b) = {DropNode(o), DropNode(s)}
  <2>1. DropNode(o) \in AllTasks /\ DropNode(s) \in AllTasks
    BY TaskTypes, SomeKinds
  <2> QED
    BY <2>1 DEF Range
<1> HIDE DEF a, b
<1>3. a \o b \in Seq(AllTasks) /\ Range(a \o b) = Range(a) \cup Range(b)
  BY <1>1, <1>2, RangeOfConcat
<1> QED
  BY <1>1, <1>2, <1>3 DEF a, b

\* The lists of one or two tasks.
LEMMA ShortLists ==
  /\ <<>> \in Seq(AllTasks) /\ Range(<<>>) = {}
  /\ \A a \in AllTasks : <<a>> \in Seq(AllTasks) /\ Range(<<a>>) = {a}
  /\ \A a, b \in AllTasks : <<a, b>> \in Seq(AllTasks) /\ Range(<<a, b>>) = {a, b}
                            /\ <<a, b>> = <<a>> \o <<b>>
<1>1. <<>> \in Seq(AllTasks) /\ Range(<<>>) = {}
  BY DEF Range
<1>2. ASSUME NEW a \in AllTasks PROVE <<a>> \in Seq(AllTasks) /\ Range(<<a>>) = {a}
  BY DEF Range
<1>3. ASSUME NEW a \in AllTasks, NEW b \in AllTasks
      PROVE  <<a, b>> \in Seq(AllTasks) /\ Range(<<a, b>>) = {a, b} /\ <<a, b>> = <<a>> \o <<b>>
  <2>1. <<a, b>> \in Seq(AllTasks) /\ Range(<<a, b>>) = {a, b}
    BY DEF Range
  <2>2. <<a, b>> = <<a>> \o <<b>>
    BY OneAndOne
  <2> QED
    BY <2>1, <2>2
<1> QED
  BY <1>1, <1>2, <1>3

LEMMA ListenerCallsType ==
  ASSUME TypeOK, NEW s \in Streams, NEW o \in Objects
  PROVE  /\ ListenerCalls(s, o) \in Seq(AllTasks)
         /\ Range(ListenerCalls(s, o)) =
              {Release(s, "strong")} \cup (IF func[s] THEN {Task("link", s, o)} ELSE {})
<1>1. Release(s, "strong") \in AllTasks /\ Task("link", s, o) \in AllTasks
  BY TaskTypes, SomeKinds
<1>2. ListenerCalls(s, o) = IF func[s] THEN <<Task("link", s, o), Release(s, "strong")>>
                                       ELSE <<Release(s, "strong")>>
  <2>1. CASE func[s]
    BY <1>1, <2>1, ShortLists DEF ListenerCalls
  <2>2. CASE ~func[s]
    BY <1>1, <2>2, ShortLists, ConcatEmptySeq DEF ListenerCalls
  <2> QED
    BY <2>1, <2>2
<1> QED
  BY <1>1, <1>2, ShortLists

\* One and one and two in a row.
LEMMA TwoAndTwo ==
  ASSUME NEW S, NEW r \in S, NEW a \in S, NEW b \in S, NEW c \in S
  PROVE  <<r>> \o <<a>> \o <<b, c>> = <<r, a, b, c>>
<1> DEFINE d == <<r, a>>
           e == <<b, c>>
           f == <<r, a, b, c>>
<1>1. <<r>> \o <<a>> = d
  BY OneAndOne
<1>2. d \in Seq(S) /\ e \in Seq(S) /\ f \in Seq(S)
  OBVIOUS
<1>3. Len(d) = 2 /\ Len(e) = 2 /\ Len(f) = 4 /\ d[1] = r /\ d[2] = a /\ e[1] = b /\ e[2] = c
      /\ f[1] = r /\ f[2] = a /\ f[3] = b /\ f[4] = c
  OBVIOUS
<1> HIDE DEF d, e, f
<1>4. d \o e \in Seq(S) /\ Len(d \o e) = 4
      /\ \A k \in 1 .. 4 : (d \o e)[k] = IF k <= 2 THEN d[k] ELSE e[k - 2]
  <2>1. /\ d \o e \in Seq(S) /\ Len(d \o e) = Len(d) + Len(e)
        /\ \A k \in 1 .. Len(d) + Len(e) :
             (d \o e)[k] = IF k <= Len(d) THEN d[k] ELSE e[k - Len(d)]
    BY <1>2, ConcatProperties
  <2> QED
    BY <1>3, <2>1
<1>6. \A k \in 1 .. 4 : (d \o e)[k] = f[k]
  <2> TAKE k \in 1 .. 4
  <2>1. k = 1 \/ k = 2 \/ k = 3 \/ k = 4
    OBVIOUS
  <2> QED
    BY <1>3, <1>4, <2>1
<1>8. d \o e = f
  BY <1>2, <1>3, <1>4, <1>6, SeqEqual
<1> QED
  BY <1>1, <1>8 DEF d, e, f

LEMMA ProgramSteps ==
  ASSUME TypeOK, NEW t \in Threads, Program(t)
  PROVE  Step(t)
<1> USE DEF Made
<1>0. Streams \subseteq Objects /\ Listeners \subseteq Objects /\ held[t] \subseteq Streams /\ sinks \subseteq Streams
  BY SomeKinds DEF TypeOK
<1>1. CASE NewSink(t)
  <2>1. PICK o \in Streams : Sources[o] = <<>> /\ NewStream(t, o) /\ sinks' = sinks \cup {o}
    BY <1>1 DEF NewSink
  <2>2. Does(t, <<>>, <<>>)
    BY <1>1, ShortLists, BeginDoes DEF NewSink
  <2>3. SinkMade(t, o)
    BY <1>1, <2>1, <2>2 DEF NewSink, SinkMade
  <2> QED
    BY <1>0, <2>3 DEF Step, Apart
<1>2. CASE Derive(t)
  <2>1. PICK o \in Streams : /\ Range(Sources[o]) \subseteq held[t] /\ NewStream(t, o)
                             /\ Begin(t, Making(t, o))
    BY <1>2 DEF Derive, Making, Close
  <2>2. Making(t, o) \in Seq(AllTasks)
    BY <1>0, MakingType
  <2>3. Does(t, <<>>, Making(t, o))
    BY <2>1, <2>2, BeginDoes
  <2>4. StreamMade(t, o)
    BY <1>2, <2>1, <2>3 DEF Derive, StreamMade
  <2> QED
    BY <1>0, <2>4 DEF Step, Apart
<1>3. CASE Listen(t)
  <2>1. PICK o \in Listeners :
          /\ maker[o] = NoThread /\ Sources[o][1] \in held[t]
          /\ maker' = [maker EXCEPT ![o] = t]
          /\ nodeRefs' = [nodeRefs EXCEPT ![o] = 1]
          /\ Begin(t, <<Now("raise", t), Task("listen", Sources[o][1], o), DropNode(o), Close(t)>>)
    BY <1>3 DEF Listen, Close
  <2> DEFINE q == Sources[o]
             e == q[1]
  <2>2. q \in Seq(Streams) /\ Len(q) = 1
    BY <1>0, SourcesAssumption
  <2> HIDE DEF q
  <2>3. Range(q) = {e} /\ Each("listen", q, o) = <<Task("listen", e, o)>>
    BY <2>2 DEF Range, Each
  <2>4. Range(Sources[o]) \subseteq held[t]
    BY <2>1, <2>3 DEF q
  <2>5. Making(t, o) = <<Now("raise", t), Task("listen", Sources[o][1], o), DropNode(o), Close(t)>>
    <3> DEFINE r == Now("raise", t)  a == Task("listen", e, o)  b == DropNode(o)  c == Close(t)
    <3>1. <<r>> \o <<a>> \o <<b, c>> = <<r, a, b, c>>
      <4> DEFINE S == {r, a, b, c}
      <4> HIDE DEF r, a, b, c
      <4>1. r \in S /\ a \in S /\ b \in S /\ c \in S
        OBVIOUS
      <4> HIDE DEF S
      <4> QED
        BY <4>1, TwoAndTwo
    <3> HIDE DEF r, a, b, c
    <3> QED
      BY <2>3, <3>1 DEF r, a, b, c, q, Making
  <2>6. Making(t, o) \in Seq(AllTasks)
    BY <1>0, MakingType
  <2>7. Does(t, <<>>, Making(t, o))
    BY <2>1, <2>5, <2>6, BeginDoes
  <2>8. ListenerMade(t, o)
    BY <1>3, <2>1, <2>4, <2>7 DEF Listen, ListenerMade
  <2> QED
    BY <1>0, <2>8 DEF Step, Apart
<1>4. CASE Unlisten(t)
  <2>1. PICK o \in Listeners :
          /\ cleanups[o] # <<>>
          /\ cleanups' = [cleanups EXCEPT ![o] = <<>>]
          /\ Begin(t, <<Task("kill", cleanups[o][1], o)>>)
    BY <1>4 DEF Unlisten
  <2> DEFINE s == cleanups[o][1]
  <2>2. cleanups[o] \in Seq(Streams) /\ s \in Streams
    BY <1>0, <2>1 DEF TypeOK
  <2>3. Does(t, <<>>, <<Task("kill", s, o)>>)
    <3>1. <<Task("kill", s, o)>> \in Seq(AllTasks)
      BY <1>0, <2>2, TaskTypes, ShortLists
    <3> QED
      BY <2>1, <3>1, BeginDoes
  <2>4. Unlistened(t, s, o)
    BY <1>4, <2>1, <2>2, <2>3 DEF Unlisten, Unlistened
  <2> QED
    BY <1>0, <2>2, <2>4 DEF Step, Apart
<1>5. CASE CopyHandle(t)
  <2>1. PICK o \in held[t], u \in Threads : /\ o \notin held[u]
                                            /\ held' = [held EXCEPT ![u] = @ \cup {o}]
                                            /\ counts' = Inc(o, "stream")
    BY <1>5 DEF CopyHandle
  <2>2. Does(t, <<>>, <<>>)
    BY <1>5, ShortLists, BeginDoes DEF CopyHandle
  <2>3. HandleCopied(t, u, o)
    BY <1>5, <2>1, <2>2 DEF CopyHandle, HandleCopied
  <2> QED
    BY <1>0, <2>3 DEF Step, Apart
<1>6. CASE DropHandle(t)
  <2>1. PICK o \in held[t] : /\ held' = [held EXCEPT ![t] = @ \ {o}]
                             /\ Begin(t, <<Release(o, "stream")>>)
    BY <1>6 DEF DropHandle
  <2>2. Does(t, <<>>, <<Release(o, "stream")>>)
    <3>1. <<Release(o, "stream")>> \in Seq(AllTasks)
      BY <1>0, SomeKinds, TaskTypes, ShortLists
    <3> QED
      BY <2>1, <3>1, BeginDoes
  <2>3. HandleDropped(t, o)
    BY <1>6, <2>1, <2>2 DEF DropHandle, HandleDropped, Begin
  <2> QED
    BY <1>0, <2>3 DEF Step, Apart
<1>7. CASE DropSink(t)
  <2>1. PICK o \in sinks : sinks' = sinks \ {o} /\ Begin(t, <<DropNode(o)>>)
    BY <1>7 DEF DropSink
  <2>2. Does(t, <<>>, <<DropNode(o)>>)
    <3>1. <<DropNode(o)>> \in Seq(AllTasks)
      BY <1>0, TaskTypes, ShortLists
    <3> QED
      BY <2>1, <3>1, BeginDoes
  <2>3. SinkDropped(t, o)
    BY <1>7, <2>1, <2>2 DEF DropSink, SinkDropped
  <2> QED
    BY <1>0, <2>3 DEF Step, Apart
<1>8. CASE OpenTransaction(t)
  <2>1. Does(t, <<>>, <<Now("raise", t)>>)
    <3>1. <<Now("raise", t)>> \in Seq(AllTasks)
      BY TaskTypes, ShortLists
    <3> QED
      BY <1>8, <3>1, BeginDoes DEF OpenTransaction
  <2> QED
    BY <1>8, <2>1 DEF OpenTransaction, Opened, Step, Apart
<1>9. CASE CloseTransaction(t)
  <2>1. Does(t, <<>>, <<Close(t)>>)
    <3>1. <<Close(t)>> \in Seq(AllTasks)
      BY TaskTypes, ShortLists
    <3> QED
      BY <1>9, <3>1, BeginDoes DEF CloseTransaction, Close
  <2> QED
    BY <1>9, <2>1 DEF CloseTransaction, Closing, Step, Apart
<1> QED
  BY <1>1, <1>2, <1>3, <1>4, <1>5, <1>6, <1>7, <1>8, <1>9 DEF Program

LEMMA CallSteps ==
  ASSUME TypeOK, NEW t \in Threads, Call(t)
  PROVE  Step(t)
<1> DEFINE o == Obj(t)  x == Arg(t)
<1>0. Streams \subseteq Objects
  BY SomeKinds
<1>a. ASSUME NEW op, Doing(t, op), NEW tasks \in Seq(AllTasks), Continue(t, tasks)
      PROVE  Does(t, <<Task(op, o, x)>>, tasks)
  <2>1. agenda[t] # <<>> /\ Head(agenda[t]) = Task(op, o, x)
    BY <1>a, FirstTask
  <2> QED
    BY <1>a, <2>1, ContinueDoes
<1>1. CASE DoRelease(t)
  <2>1. Doing(t, "release") /\ o \in Streams /\ x \in Kinds
    BY <1>1, FirstTask DEF DoRelease
  <2>2. Dec(o, x)[o] = dec(counts[o], x)
    BY <2>1 DEF Dec, TypeOK
  <2>3. CASE func[o] /\ ~active(Dec(o, x)[o])
    <3>1. /\ counts' = [Dec(o, x) EXCEPT ![o] = inc(@, "strong")]
          /\ cleanups' = [cleanups EXCEPT ![o] = <<>>]
          /\ Continue(t, Each("kill", cleanups[o], o)
                          \o <<Task("clear", o, o), Task("relock", o, o)>>)
          /\ UNCHANGED freed
      BY <1>1, <2>3 DEF DoRelease
    <3>2. counts' = [counts EXCEPT ![o] = inc(dec(@, x), "strong")]
      BY <2>1, <3>1 DEF Dec, TypeOK
    <3>3. Does(t, <<Task("release", o, x)>>, Each("kill", cleanups[o], o)
                          \o <<Task("clear", o, o), Task("relock", o, o)>>)
      <4> DEFINE l == Each("kill", cleanups[o], o) \o <<Task("clear", o, o), Task("relock", o, o)>>
      <4>1. l \in Seq(AllTasks)
        BY <2>1, CleanupType
      <4> HIDE DEF l, o, x
      <4>2. Continue(t, l)
        BY <3>1 DEF l
      <4>3. Does(t, <<Task("release", o, x)>>, l)
        BY <1>a, <2>1, <4>1, <4>2
      <4> QED
        BY <4>3 DEF l
    <3>4. CleanupStarts(t, o, x)
      BY <1>1, <2>1, <2>2, <2>3, <3>1, <3>2, <3>3 DEF DoRelease, CleanupStarts, Release
    <3> QED
      BY <1>0, <2>1, <3>4 DEF Step, Apart
  <2>4. CASE ~(func[o] /\ ~active(Dec(o, x)[o]))
    <3>1. /\ counts' = Dec(o, x)
          /\ freed' = IF alive(Dec(o, x)[o]) THEN freed ELSE freed \cup {o}
          /\ Continue(t, <<>>)
          /\ UNCHANGED cleanups
      BY <1>1, <2>4 DEF DoRelease
    <3>2. Does(t, <<Task("release", o, x)>>, <<>>)
      BY <1>a, <2>1, <3>1, ShortLists
    <3>3. Released(t, o, x)
      BY <1>1, <2>1, <2>2, <2>4, <3>1, <3>2 DEF DoRelease, Released, Release
    <3> QED
      BY <1>0, <2>1, <3>3 DEF Step, Apart
  <2> QED
    BY <2>3, <2>4
<1>2. CASE Clear(t)
  <2>1. Doing(t, "clear") /\ o \in Streams /\ x = o
    BY <1>2, FirstTask DEF Clear
  <2>2. Does(t, <<Task("clear", o, x)>>, <<>>)
    BY <1>2, <1>a, <2>1, ShortLists DEF Clear
  <2>3. Cleared(t, o)
    BY <1>2, <2>1, <2>2 DEF Clear, Cleared
  <2> QED
    BY <1>0, <2>1, <2>3 DEF Step, Apart
<1>3. CASE Relock(t)
  <2>1. Doing(t, "relock") /\ o \in Streams /\ x = o
    BY <1>3, FirstTask DEF Relock
  <2>2. Does(t, <<Task("relock", o, x)>>, <<>>)
    BY <1>3, <1>a, <2>1, ShortLists DEF Relock
  <2>3. Dec(o, "strong")[o] = dec(counts[o], "strong")
    BY <2>1 DEF Dec, TypeOK
  <2>4. Relocked(t, o)
    BY <1>3, <2>1, <2>2, <2>3 DEF Relock, Relocked
  <2> QED
    BY <1>0, <2>1, <2>4 DEF Step, Apart
<1>4. CASE DoListen(t)
  <2>1. Doing(t, "listen") /\ o \in Streams /\ x \in Objects
    BY <1>4, FirstTask DEF DoListen
  <2>2. ListenerCalls(o, x) \in Seq(AllTasks) /\ Continue(t, ListenerCalls(o, x))
    BY <1>4, <2>1, ListenerCallsType DEF DoListen, ListenerCalls
  <2>3. Does(t, <<Task("listen", o, x)>>, ListenerCalls(o, x))
    BY <1>a, <2>1, <2>2
  <2>4. ListenerAdded(t, o, x)
    BY <1>4, <2>1, <2>3 DEF DoListen, ListenerAdded
  <2> QED
    BY <1>0, <2>1, <2>4 DEF Step, Apart
<1>5. CASE Link(t)
  <2>1. Doing(t, "link") /\ o \in Streams /\ x \in Objects
    BY <1>5, FirstTask DEF Link
  <2>2. \/ /\ nodeRefs[o] > 0
           /\ nodeRefs' = [nodeRefs EXCEPT ![o] = @ + 1, ![x] = @ + 1]
           /\ targets' = [targets EXCEPT ![o] = <<x>> \o @]
           /\ sources' = [sources EXCEPT ![x] = <<o>> \o @]
           /\ counts' = Inc(o, "stream")
           /\ cleanups' = [cleanups EXCEPT ![x] = <<o>> \o @]
           /\ Continue(t, <<DropNode(o)>>)
        \/ /\ nodeRefs[o] = 0
           /\ Continue(t, <<>>)
           /\ UNCHANGED <<nodeRefs, links, counts, cleanups>>
    BY <1>5 DEF Link
  <2>3. CASE /\ nodeRefs[o] > 0
             /\ nodeRefs' = [nodeRefs EXCEPT ![o] = @ + 1, ![x] = @ + 1]
             /\ targets' = [targets EXCEPT ![o] = <<x>> \o @]
             /\ sources' = [sources EXCEPT ![x] = <<o>> \o @]
             /\ counts' = Inc(o, "stream")
             /\ cleanups' = [cleanups EXCEPT ![x] = <<o>> \o @]
             /\ Continue(t, <<DropNode(o)>>)
    <3>1. <<DropNode(o)>> \in Seq(AllTasks)
      BY <1>0, <2>1, TaskTypes, ShortLists
    <3>2. Does(t, <<Task("link", o, x)>>, <<DropNode(o)>>)
      BY <1>a, <2>1, <2>3, <3>1
    <3>3. NodesLinked(t, o, x)
      BY <1>5, <2>1, <2>3, <3>2 DEF Link, NodesLinked
    <3> QED
      BY <1>0, <2>1, <3>3 DEF Step, Apart
  <2>4. CASE nodeRefs[o] = 0 /\ Continue(t, <<>>) /\ UNCHANGED <<nodeRefs, links, counts, cleanups>>
    <3>1. Does(t, <<Task("link", o, x)>>, <<>>)
      BY <1>a, <2>1, <2>4, ShortLists
    <3>2. Skipped(t, "link", o, x)
      BY <1>5, <2>1, <2>4, <3>1 DEF Link, Skipped, links
    <3> QED
      BY <1>0, <2>1, <3>2 DEF Step, Apart
  <2> QED
    BY <2>2, <2>3, <2>4
<1>6. CASE DropNodeRef(t)
  <2>1. Doing(t, "dropNode") /\ o \in Objects /\ x = o
    BY <1>6, FirstTask DEF DropNodeRef
  <2>2. /\ nodeRefs' = [nodeRefs EXCEPT ![o] = @ - 1]
        /\ UNCHANGED <<counts, func, cleanups, freed, owners, deferral>>
        /\ \/ nodeRefs[o] > 1 /\ Continue(t, <<>>) /\ UNCHANGED links
           \/ /\ nodeRefs[o] = 1
              /\ Continue(t, Destroying(o))
              /\ sources' = [sources EXCEPT ![o] = <<>>]
              /\ targets' = [s \in Streams |-> IF s = o THEN <<>> ELSE targets[s]]
    BY <1>6 DEF DropNodeRef, Destroying, Outgoing
  <2>3. CASE nodeRefs[o] > 1 /\ Continue(t, <<>>) /\ UNCHANGED links
    <3>1. Does(t, <<Task("dropNode", o, x)>>, <<>>)
      BY <1>a, <2>1, <2>3, ShortLists
    <3>2. NodeKept(t, o)
      BY <2>1, <2>2, <2>3, <3>1 DEF NodeKept, DropNode, links
    <3> QED
      BY <2>1, <3>2 DEF Step, Apart
  <2>4. CASE /\ nodeRefs[o] = 1
             /\ Continue(t, Destroying(o))
             /\ sources' = [sources EXCEPT ![o] = <<>>]
             /\ targets' = [s \in Streams |-> IF s = o THEN <<>> ELSE targets[s]]
    <3>1. Destroying(o) \in Seq(AllTasks)
      BY <2>1, DestroyingType
    <3>2. Does(t, <<Task("dropNode", o, x)>>, Destroying(o))
      BY <1>a, <2>1, <2>4, <3>1
    <3>3. NodeGone(t, o)
      BY <2>1, <2>2, <2>4, <3>2 DEF NodeGone, DropNode
    <3> QED
      BY <2>1, <3>3 DEF Step, Apart
  <2> QED
    BY <2>2, <2>3, <2>4
<1>7. CASE Unsource(t)
  <2>1. Doing(t, "unsource") /\ o \in Streams /\ x \in Objects
    BY <1>7, FirstTask DEF Unsource
  <2>2. SourcesRemoved(o, x) \in Seq(AllTasks)
    BY <2>1, SourcesRemovedType
  <2>3. Does(t, <<Task("unsource", o, x)>>, SourcesRemoved(o, x))
    BY <1>7, <1>a, <2>1, <2>2 DEF Unsource
  <2>4. Unsourced(t, o, x)
    BY <1>7, <2>1, <2>3 DEF Unsource, Unsourced
  <2> QED
    BY <1>0, <2>1, <2>4 DEF Step, Apart
<1>8. CASE Unlink(t)
  <2>1. Doing(t, "unlink") /\ o \in Streams /\ x \in Objects
    BY <1>8, FirstTask DEF Unlink
  <2> DEFINE l == SourcesRemoved(o, x) \o <<DropNode(x), DropNode(o)>>
  <2>2. \/ /\ nodeRefs[o] > 0 /\ x \in Range(targets[o])
           /\ targets' = [targets EXCEPT ![o] = RemoveFirst(@, x)]
           /\ sources' = [sources EXCEPT ![x] = Without(@, o)]
           /\ counts' = Inc(o, "stream")
           /\ nodeRefs' = [nodeRefs EXCEPT ![o] = @ + 1]
           /\ Continue(t, l)
        \/ /\ nodeRefs[o] = 0 \/ x \notin Range(targets[o])
           /\ Continue(t, <<>>)
           /\ UNCHANGED <<links, counts, nodeRefs>>
    BY <1>8 DEF Unlink
  <2>3. CASE /\ nodeRefs[o] > 0 /\ x \in Range(targets[o])
             /\ targets' = [targets EXCEPT ![o] = RemoveFirst(@, x)]
             /\ sources' = [sources EXCEPT ![x] = Without(@, o)]
             /\ counts' = Inc(o, "stream")
             /\ nodeRefs' = [nodeRefs EXCEPT ![o] = @ + 1]
             /\ Continue(t, l)
    <3>1. l \in Seq(AllTasks)
      BY <2>1, UnlinkedType
    <3> HIDE DEF l
    <3>2. Does(t, <<Task("unlink", o, x)>>, l)
      BY <1>a, <2>1, <2>3, <3>1
    <3>3. NodesUnlinked(t, o, x)
      BY <1>8, <2>1, <2>3, <3>2 DEF Unlink, NodesUnlinked, l
    <3> QED
      BY <1>0, <2>1, <3>3 DEF Step, Apart
  <2>4. CASE /\ nodeRefs[o] = 0 \/ x \notin Range(targets[o])
             /\ Continue(t, <<>>)
             /\ UNCHANGED <<links, counts, nodeRefs>>
    <3>1. Does(t, <<Task("unlink", o, x)>>, <<>>)
      BY <1>a, <2>1, <2>4, ShortLists
    <3>2. Skipped(t, "unlink", o, x)
      BY <1>8, <2>1, <2>4, <3>1 DEF Unlink, Skipped, links
    <3> QED
      BY <1>0, <2>1, <3>2 DEF Step, Apart
  <2> QED
    BY <2>2, <2>3, <2>4
<1> QED
  BY <1>1, <1>2, <1>3, <1>4, <1>5, <1>6, <1>7, <1>8 DEF Call

\* The tasks of transactions and of process_post().
LEMMA TurnLists ==
  ASSUME NEW t \in Threads
  PROVE  /\ <<>> \in Seq(Turns) /\ <<Close(t)>> \in Seq(Turns)
         /\ \A op \in TransactionOps : <<Now(op, t)>> \in Seq(Turns)
         /\ \A p, q \in TransactionOps : <<Now(p, t)>> \o <<Now(q, t)>> \in Seq(Turns)
<1>1. \A op \in TransactionOps : Now(op, t) \in Turns
  BY DEF Turns
<1>2. ASSUME NEW a \in Turns, NEW b \in Turns PROVE <<a>> \in Seq(Turns) /\ <<a>> \o <<b>> \in Seq(Turns)
  OBVIOUS
<1> QED
  BY <1>1, <1>2, TaskTypes

LEMMA TransactionSteps ==
  ASSUME TypeOK, NEW t \in Threads, InTransaction(t)
  PROVE  Step(t)
<1> DEFINE o == Obj(t)  x == Arg(t)
<1>0. Streams \subseteq Objects
  BY SomeKinds
<1>a. ASSUME NEW op, Doing(t, op), NEW tasks \in Seq(AllTasks), Continue(t, tasks)
      PROVE  Does(t, <<Task(op, o, x)>>, tasks)
  <2>1. agenda[t] # <<>> /\ Head(agenda[t]) = Task(op, o, x)
    BY <1>a, FirstTask
  <2> QED
    BY <1>a, <2>1, ContinueDoes
<1>b. ASSUME NEW op \in TransactionOps, Doing(t, op), NEW tasks \in Seq(Turns), Continue(t, tasks),
             depth' \in Int, read' \in [Threads -> Int], processing_post' \in BOOLEAN,
             UNCHANGED <<counts, func, cleanups, nodeRefs, links, freed, owners, posts>>
      PROVE  Step(t)
  <2>1. o \in Threads /\ x = o
    BY <1>b, FirstTask
  <2>2. tasks \in Seq(AllTasks)
    BY TaskTypes
  <2>3. Does(t, <<Task(op, o, x)>>, tasks)
    BY <1>a, <1>b, <2>2
  <2>4. Paced(t, op, o, tasks)
    BY <1>b, <2>1, <2>3 DEF Paced, Now
  <2> QED
    BY <2>1, <2>4 DEF Step, Apart
<1>c. /\ depth \in Int /\ read \in [Threads -> Int] /\ processing_post \in BOOLEAN
      /\ read[t] + 1 \in Int /\ read[t] - 1 \in Int
      /\ [read EXCEPT ![t] = 0] \in [Threads -> Int] /\ [read EXCEPT ![t] = depth] \in [Threads -> Int]
  BY DEF TypeOK
<1>1. CASE Kill(t)
  <2>1. Doing(t, "kill") /\ o \in Streams /\ x \in Objects
    BY <1>1, FirstTask DEF Kill
  <2> DEFINE l == <<Now("raise", t), Task("last", o, x)>>
  <2>2. l \in Seq(AllTasks)
    <3>1. Now("raise", t) \in AllTasks /\ Task("last", o, x) \in AllTasks
      BY <2>1, TaskTypes
    <3> QED
      BY <3>1, ShortLists
  <2>3. Continue(t, l)
    BY <1>1 DEF Kill
  <2> HIDE DEF l
  <2>4. Does(t, <<Task("kill", o, x)>>, l)
    BY <1>a, <2>1, <2>2, <2>3
  <2>5. Killed(t, o, x)
    BY <1>1, <2>1, <2>4 DEF Kill, Killed, l
  <2> QED
    BY <1>0, <2>1, <2>5 DEF Step, Apart
<1>2. CASE PutOff(t)
  <2>1. Doing(t, "last") /\ o \in Streams /\ x \in Objects
    BY <1>2, FirstTask DEF PutOff
  <2>2. <<Close(t)>> \in Seq(AllTasks) /\ Continue(t, <<Close(t)>>)
    BY <1>2, TaskTypes, ShortLists DEF PutOff, Close
  <2>3. Does(t, <<Task("last", o, x)>>, <<Close(t)>>)
    BY <1>a, <2>1, <2>2
  <2>4. Deferred(t, o, x)
    BY <1>2, <2>1, <2>3 DEF PutOff, Deferred
  <2> QED
    BY <1>0, <2>1, <2>4 DEF Step, Apart
<1>3. CASE Raise(t)
  <2>1. Doing(t, "raise") /\ Continue(t, <<>>)
    BY <1>3 DEF Raise
  <2> QED
    BY <1>3, <1>b, <1>c, <2>1, TurnLists DEF Raise, TransactionOps
<1>4. CASE Fetch(t)
  <2>1. Doing(t, "fetch") /\ Continue(t, <<Now("lower", t)>>)
    BY <1>4 DEF Fetch
  <2> QED
    BY <1>4, <1>b, <1>c, <2>1, TurnLists DEF Fetch, TransactionOps, ReadDepth
<1>5. CASE Lower(t)
  <2>1. Doing(t, "lower") /\ Continue(t, <<>>)
    BY <1>5 DEF Lower
  <2> QED
    BY <1>5, <1>b, <1>c, <2>1, TurnLists DEF Lower, TransactionOps
<1>6. CASE CloseOwn(t)
  <2>1. Doing(t, "close")
    BY <1>6 DEF CloseOwn
  <2>2. PICK l \in Seq(Turns) : Continue(t, l)
    <3>1. CASE depth = 1
      <4>1. Continue(t, <<Now("fetch", t)>> \o <<Now("testPosting", t)>>)
        BY <1>6, <3>1 DEF CloseOwn
      <4>2. "fetch" \in TransactionOps /\ "testPosting" \in TransactionOps
        BY DEF TransactionOps
      <4> QED
        BY <4>1, <4>2, TurnLists
    <3>2. CASE depth # 1
      <4>1. Continue(t, <<Now("fetch", t)>>)
        BY <1>6, <3>2, ConcatEmptySeq DEF CloseOwn
      <4>2. "fetch" \in TransactionOps
        BY DEF TransactionOps
      <4> QED
        BY <4>1, <4>2, TurnLists
    <3> QED
      BY <3>1, <3>2
  <2> QED
    BY <1>6, <1>b, <1>c, <2>1, <2>2 DEF CloseOwn, TransactionOps, deferral
<1>7. CASE TestPosting(t)
  <2>1. Doing(t, "testPosting")
    BY <1>7 DEF TestPosting
  <2>2. PICK l \in Seq(Turns) : Continue(t, l)
    BY <1>7, TurnLists DEF TestPosting, TransactionOps
  <2> QED
    BY <1>7, <1>b, <1>c, <2>1, <2>2 DEF TestPosting, TransactionOps, deferral
<1>8. CASE SetPosting(t)
  <2>1. Doing(t, "setPosting") /\ Continue(t, <<Now("posts", t)>>)
    BY <1>8 DEF SetPosting
  <2> QED
    BY <1>8, <1>b, <1>c, <2>1, TurnLists DEF SetPosting, TransactionOps
<1>9. CASE RunPost(t)
  <2>1. Doing(t, "posts") /\ o \in Threads /\ x = o
    BY <1>9, FirstTask DEF RunPost, TransactionOps
  <2> DEFINE s == Head(posts)[1]  y == Head(posts)[2]
             l == <<Task("unlink", s, y), Now("posts", o)>>
  <2>2. /\ posts # <<>> /\ posts' = Tail(posts)
        /\ Continue(t, <<Task("unlink", s, y), Head(agenda[t])>>)
        /\ UNCHANGED <<counts, func, cleanups, nodeRefs, links, freed, owners, depth, read,
                       processing_post>>
    BY <1>9 DEF RunPost
  <2>3. Head(posts) = <<s, y>> /\ s \in Streams /\ y \in Objects
    <3>1. posts \in Seq(Streams \X Objects)
      BY DEF TypeOK
    <3>2. Head(posts) \in Streams \X Objects
      BY <2>2, <3>1
    <3> QED
      BY <3>2
  <2>4. l \in Seq(AllTasks)
    <3>1. Task("unlink", s, y) \in AllTasks /\ Now("posts", o) \in AllTasks
      BY <2>1, <2>3, TaskTypes
    <3> QED
      BY <3>1, ShortLists
  <2>5. Continue(t, l)
    BY <2>1, <2>2, FirstTask DEF Now
  <2> HIDE DEF l
  <2>6. Does(t, <<Task("posts", o, x)>>, l)
    BY <1>a, <2>1, <2>4, <2>5
  <2> HIDE DEF s, y
  <2>7. PostRun(t, o, s, y)
    BY <2>1, <2>2, <2>3, <2>6 DEF PostRun, l, Now
  <2> QED
    BY <2>1, <2>3, <2>7 DEF Step, Apart
<1>10. CASE NoMorePosts(t)
  <2>1. Doing(t, "posts") /\ Continue(t, <<Now("resetPosting", t)>>)
    BY <1>10 DEF NoMorePosts
  <2> QED
    BY <1>10, <1>b, <1>c, <2>1, TurnLists DEF NoMorePosts, TransactionOps, deferral
<1>11. CASE ResetPosting(t)
  <2>1. Doing(t, "resetPosting") /\ Continue(t, <<>>)
    BY <1>11 DEF ResetPosting
  <2> QED
    BY <1>11, <1>b, <1>c, <2>1, TurnLists DEF ResetPosting, TransactionOps
<1> QED
  BY <1>1, <1>2, <1>3, <1>4, <1>5, <1>6, <1>7, <1>8, <1>9, <1>10, <1>11 DEF InTransaction
-----------------------------------------------------------------------------
(* What is counted.                                                        *)

\* A task that is due is on an agenda.
LEMMA DueType ==
  TypeOK => \A X : Due(X) \in Nat /\ (Due(X) = 0 <=> Tasks \cap X = {})
<1> SUFFICES ASSUME TypeOK, NEW X PROVE Due(X) \in Nat /\ (Due(X) = 0 <=> Tasks \cap X = {})
  OBVIOUS
<1>1. agenda \in [Threads -> Seq(AllTasks)] /\ IsFiniteSet(Threads)
  BY FiniteAssumption DEF TypeOK
<1>2. Occurs(X, agenda) \in Nat /\ (Occurs(X, agenda) = 0 <=> \A u \in Threads : Range(agenda[u]) \cap X = {})
  BY <1>1, OccursType
<1>3. Tasks \cap X = {} <=> \A u \in Threads : Range(agenda[u]) \cap X = {}
  BY DEF Tasks
<1> QED
  BY <1>2, <1>3 DEF Due

HasNode(o) == IF nodeRefs[o] > 0 THEN 1 ELSE 0
HasSink(o) == IF o \in sinks THEN 1 ELSE 0

\* The parts of the numbers of references.
LEMMA RefParts ==
  TypeOK =>
    /\ \A o : /\ Handles(o) \in Nat /\ (Handles(o) = 0 <=> ~Held(o))
              /\ Occurs({o}, sources) \in Nat
              /\ Occurs({o}, sources) = 0 <=> \A x \in Objects : o \notin Range(sources[x])
              /\ Occurs({o}, targets) \in Nat
              /\ Occurs({o}, targets) = 0 <=> \A x \in Streams : o \notin Range(targets[x])
    /\ \A o \in Streams, k \in Kinds : Number(o, k) \in Nat
<1> SUFFICES ASSUME TypeOK
             PROVE  /\ \A o : /\ Handles(o) \in Nat /\ (Handles(o) = 0 <=> ~Held(o))
                              /\ Occurs({o}, sources) \in Nat
                              /\ Occurs({o}, sources) = 0 <=> \A x \in Objects : o \notin Range(sources[x])
                              /\ Occurs({o}, targets) \in Nat
                              /\ Occurs({o}, targets) = 0 <=> \A x \in Streams : o \notin Range(targets[x])
                    /\ \A o \in Streams, k \in Kinds : Number(o, k) \in Nat
  OBVIOUS
<1>1. ASSUME NEW o
      PROVE  /\ Handles(o) \in Nat /\ (Handles(o) = 0 <=> ~Held(o))
             /\ Occurs({o}, sources) \in Nat
             /\ Occurs({o}, sources) = 0 <=> \A x \in Objects : o \notin Range(sources[x])
             /\ Occurs({o}, targets) \in Nat
             /\ Occurs({o}, targets) = 0 <=> \A x \in Streams : o \notin Range(targets[x])
  <2>1. Handles(o) \in Nat /\ (Handles(o) = 0 <=> ~Held(o))
    <3> DEFINE H == {t \in Threads : o \in held[t]}
    <3>1. IsFiniteSet(H)
      <4>1. H \subseteq Threads
        OBVIOUS
      <4> HIDE DEF H
      <4> QED
        BY <4>1, FiniteAssumption, FS_Subset
    <3>2. H = {} <=> ~Held(o)
      BY DEF Held
    <3> HIDE DEF H
    <3>3. Cardinality(H) \in Nat /\ (Cardinality(H) = 0 <=> H = {})
      BY <3>1, FS_EmptySet, FS_CardinalityType
    <3> QED
      BY <3>2, <3>3 DEF Handles, H
  <2>2. /\ Occurs({o}, sources) \in Nat
        /\ Occurs({o}, sources) = 0 <=> \A x \in Objects : o \notin Range(sources[x])
    <3>1. sources \in [Objects -> Seq(Streams)] /\ IsFiniteSet(Objects)
      BY FiniteAssumption DEF TypeOK
    <3>2. /\ Occurs({o}, sources) \in Nat
          /\ Occurs({o}, sources) = 0 <=> \A x \in Objects : Range(sources[x]) \cap {o} = {}
      BY <3>1, OccursType
    <3> QED
      BY <3>2
  <2>3. /\ Occurs({o}, targets) \in Nat
        /\ Occurs({o}, targets) = 0 <=> \A x \in Streams : o \notin Range(targets[x])
    <3>1. targets \in [Streams -> Seq(Objects)] /\ IsFiniteSet(Streams)
      <4>1. Streams \subseteq Objects
        BY SomeKinds
      <4> QED
        BY <4>1, FiniteAssumption, FS_Subset DEF TypeOK
    <3>2. /\ Occurs({o}, targets) \in Nat
          /\ Occurs({o}, targets) = 0 <=> \A x \in Streams : Range(targets[x]) \cap {o} = {}
      BY <3>1, OccursType
    <3> QED
      BY <3>2
  <2> QED
    BY <2>1, <2>2, <2>3
<1>2. ASSUME NEW o \in Streams, NEW k \in Kinds PROVE Number(o, k) \in Nat
  BY DEF TypeOK, Number, CountSets
<1> QED
  BY <1>1, <1>2

\* A count is zero when nothing refers.
Referred ==
  /\ \A o \in Streams :
       /\ Number(o, "strong") = 0 <=> Tasks \cap Strong(o) = {}
       /\ Number(o, "stream") = 0 <=> /\ ~Held(o) /\ Release(o, "stream") \notin Tasks
                                      /\ \A x \in Objects : o \notin Range(sources[x])
       /\ Number(o, "node") = 0 <=> nodeRefs[o] = 0 /\ Release(o, "node") \notin Tasks
  /\ \A o \in Objects :
       nodeRefs[o] = 0 <=> /\ o \notin sinks /\ DropNode(o) \notin Tasks
                           /\ \A s \in Streams : o \notin Range(targets[s])

LEMMA NoReferences == TypeOK /\ Counted => Referred
<1> SUFFICES ASSUME TypeOK, Counted PROVE Referred
  OBVIOUS
<1>1. ASSUME NEW o \in Streams
      PROVE  /\ Number(o, "strong") = 0 <=> Tasks \cap Strong(o) = {}
             /\ Number(o, "stream") = 0 <=> /\ ~Held(o) /\ Release(o, "stream") \notin Tasks
                                            /\ \A x \in Objects : o \notin Range(sources[x])
             /\ Number(o, "node") = 0 <=> nodeRefs[o] = 0 /\ Release(o, "node") \notin Tasks
  <2>1. Number(o, "strong") = Due(Strong(o))
    BY DEF Counted, StrongRefs, Strong
  <2>2. Number(o, "stream") = Handles(o) + Occurs({o}, sources) + Due(Stream(o))
    BY DEF Counted, StreamRefs, Stream, Handles
  <2>3. Number(o, "node") = HasNode(o) + Due(Node(o))
    BY DEF Counted, NodeRefs, Node, HasNode
  <2>4. /\ Due(Strong(o)) \in Nat /\ (Due(Strong(o)) = 0 <=> Tasks \cap Strong(o) = {})
        /\ Due(Stream(o)) \in Nat /\ (Due(Stream(o)) = 0 <=> Tasks \cap Stream(o) = {})
        /\ Due(Node(o)) \in Nat /\ (Due(Node(o)) = 0 <=> Tasks \cap Node(o) = {})
    BY DueType
  <2>5. /\ Tasks \cap Stream(o) = {} <=> Release(o, "stream") \notin Tasks
        /\ Tasks \cap Node(o) = {} <=> Release(o, "node") \notin Tasks
    BY DEF Stream, Node
  <2>6. /\ Handles(o) \in Nat /\ (Handles(o) = 0 <=> ~Held(o))
        /\ Occurs({o}, sources) \in Nat
        /\ Occurs({o}, sources) = 0 <=> \A x \in Objects : o \notin Range(sources[x])
    BY RefParts
  <2>7. HasNode(o) \in Nat /\ (HasNode(o) = 0 <=> nodeRefs[o] = 0)
    BY SomeKinds DEF HasNode, TypeOK
  <2> DEFINE a == Handles(o)  b == Occurs({o}, sources)  c == Due(Stream(o))
             d == HasNode(o)  e == Due(Node(o))
  <2>8. a + b + c = 0 <=> a = 0 /\ b = 0 /\ c = 0
    <3>1. a \in Nat /\ b \in Nat /\ c \in Nat
      BY <2>4, <2>6
    <3> HIDE DEF a, b, c
    <3> QED
      BY <3>1
  <2>9. d + e = 0 <=> d = 0 /\ e = 0
    <3>1. d \in Nat /\ e \in Nat
      BY <2>4, <2>7
    <3> HIDE DEF d, e
    <3> QED
      BY <3>1
  <2>10. Number(o, "strong") = 0 <=> Tasks \cap Strong(o) = {}
    BY <2>1, <2>4
  <2>11. Number(o, "stream") = 0 <=> a = 0 /\ b = 0 /\ c = 0
    BY <2>2, <2>8
  <2>12. Number(o, "node") = 0 <=> d = 0 /\ e = 0
    BY <2>3, <2>9
  <2> QED
    BY <2>4, <2>5, <2>6, <2>7, <2>10, <2>11, <2>12
<1>2. ASSUME NEW o \in Objects
      PROVE  nodeRefs[o] = 0 <=> /\ o \notin sinks /\ DropNode(o) \notin Tasks
                                 /\ \A s \in Streams : o \notin Range(targets[s])
  <2>1. nodeRefs[o] = HasSink(o) + Occurs({o}, targets) + Due(Drops(o))
    BY DEF Counted, Users, Drops, HasSink
  <2>2. Due(Drops(o)) \in Nat /\ (Due(Drops(o)) = 0 <=> DropNode(o) \notin Tasks)
    <3>1. Due(Drops(o)) \in Nat /\ (Due(Drops(o)) = 0 <=> Tasks \cap Drops(o) = {})
      BY DueType
    <3> QED
      BY <3>1 DEF Drops
  <2>3. /\ Occurs({o}, targets) \in Nat
        /\ Occurs({o}, targets) = 0 <=> \A x \in Streams : o \notin Range(targets[x])
    BY RefParts
  <2>4. HasSink(o) \in Nat /\ (HasSink(o) = 0 <=> o \notin sinks)
    BY DEF HasSink
  <2> DEFINE a == HasSink(o)  b == Occurs({o}, targets)  c == Due(Drops(o))
  <2>5. a + b + c = 0 <=> a = 0 /\ b = 0 /\ c = 0
    <3>1. a \in Nat /\ b \in Nat /\ c \in Nat
      BY <2>2, <2>3, <2>4
    <3> HIDE DEF a, b, c
    <3> QED
      BY <3>1
  <2>6. nodeRefs[o] = 0 <=> a = 0 /\ b = 0 /\ c = 0
    BY <2>1, <2>5
  <2> QED
    BY <2>2, <2>3, <2>4, <2>6
<1> QED
  BY <1>1, <1>2 DEF Referred

LEMMA NoReferencesNext == TypeOK' /\ Counted' => Referred'
BY NoReferences, PTL

\* A reference is taken, and let go.
LEMMA OneMore ==
  ASSUME TypeOK, NEW o \in Streams, NEW k \in Kinds, Number(o, k) < LargeMax, counts' = Inc(o, k)
  PROVE  /\ counts' \in [Streams -> CountSets]
         /\ \A p \in Streams, j \in Kinds : Number(p, j)' = Number(p, j) + Bit(p = o /\ j = k)
<1>1. counts \in [Streams -> CountSets] /\ counts[o] \in CountSets
  BY DEF TypeOK
<1>2. /\ inc(counts[o], k) \in CountSets
      /\ inc(counts[o], k).count = [counts[o].count EXCEPT ![k] = @ + 1]
  BY <1>1, IncAddsOne DEF Number
<1>3. counts' = [counts EXCEPT ![o] = inc(counts[o], k)]
  BY <1>1 DEF Inc
<1>4. ASSUME NEW p \in Streams, NEW j \in Kinds
      PROVE  Number(p, j)' = Number(p, j) + Bit(p = o /\ j = k)
  <2>1. counts[p].count \in [Kinds -> Nat] /\ Number(p, j) \in Nat
    BY <1>1 DEF CountSets, Number
  <2>2. CASE p = o
    <3>1. Number(p, j)' = [counts[o].count EXCEPT ![k] = @ + 1][j]
      BY <1>1, <1>2, <1>3, <2>2 DEF Number
    <3> QED
      BY <2>1, <2>2, <3>1 DEF Number, Bit
  <2>3. CASE p # o
    BY <1>3, <2>1, <2>3 DEF Number, Bit
  <2> QED
    BY <2>2, <2>3
<1> QED
  BY <1>1, <1>2, <1>3, <1>4

LEMMA OneLessRef ==
  ASSUME TypeOK, NEW o \in Streams, NEW k \in Kinds, Number(o, k) # 0
  PROVE  /\ dec(counts[o], k) \in CountSets
         /\ Dec(o, k) \in [Streams -> CountSets]
         /\ \A p \in Streams : Dec(o, k)[p] = IF p = o THEN dec(counts[o], k) ELSE counts[p]
         /\ \A p \in Streams, j \in Kinds :
              Number(p, j) \in Nat /\ Dec(o, k)[p].count[j] = Number(p, j) - Bit(p = o /\ j = k)
<1>1. counts \in [Streams -> CountSets] /\ counts[o] \in CountSets
  BY DEF TypeOK
<1>2. Number(o, k) \in Nat
  BY RefParts
<1>3. /\ dec(counts[o], k) \in CountSets
      /\ dec(counts[o], k).count = [counts[o].count EXCEPT ![k] = @ - 1]
  BY <1>1, <1>2, DecTakesOne DEF Number
<1>4. Dec(o, k) = [counts EXCEPT ![o] = dec(counts[o], k)]
  BY <1>1 DEF Dec
<1>5. ASSUME NEW p \in Streams, NEW j \in Kinds
      PROVE  Number(p, j) \in Nat /\ Dec(o, k)[p].count[j] = Number(p, j) - Bit(p = o /\ j = k)
  <2>1. counts[p].count \in [Kinds -> Nat] /\ Number(p, j) \in Nat
    BY <1>1 DEF CountSets, Number
  <2>2. CASE p = o
    <3>1. Dec(o, k)[p].count[j] = [counts[o].count EXCEPT ![k] = @ - 1][j]
      BY <1>1, <1>3, <1>4, <2>2
    <3> QED
      BY <2>1, <2>2, <3>1 DEF Number, Bit
  <2>3. CASE p # o
    BY <1>4, <2>1, <2>3 DEF Number, Bit
  <2> QED
    BY <2>1, <2>2, <2>3
<1> QED
  BY <1>1, <1>3, <1>4, <1>5

\* The references to p in a list of tasks: strong, stream, node and users.
Weighs(l, p, a, b, c, d) ==
  /\ Count(Strong(p), l) = a
  /\ Count(Stream(p), l) = b
  /\ Count(Node(p), l) = c
  /\ Count(Drops(p), l) = d

LEMMA WeighsEmpty == \A p : Weighs(<<>>, p, 0, 0, 0, 0)
BY CountEmpty DEF Weighs

LEMMA WeighsConcat ==
  ASSUME NEW l \in Seq(AllTasks), NEW m \in Seq(AllTasks), NEW p,
         NEW a, NEW b, NEW c, NEW d, NEW e, NEW f, NEW g, NEW h,
         Weighs(l, p, a, b, c, d), Weighs(m, p, e, f, g, h)
  PROVE  Weighs(l \o m, p, a + e, b + f, c + g, d + h)
<1>1. /\ Count(Strong(p), l \o m) = Count(Strong(p), l) + Count(Strong(p), m)
      /\ Count(Stream(p), l \o m) = Count(Stream(p), l) + Count(Stream(p), m)
      /\ Count(Node(p), l \o m) = Count(Node(p), l) + Count(Node(p), m)
      /\ Count(Drops(p), l \o m) = Count(Drops(p), l) + Count(Drops(p), m)
  BY CountConcat
<1> QED
  BY <1>1 DEF Weighs

\* A single task.
LEMMA WeighsRelease ==
  \A p, o, k : Weighs(<<Release(o, k)>>, p, Bit(p = o /\ k = "strong"), Bit(p = o /\ k = "stream"),
                      Bit(p = o /\ k = "node"), 0)
<1> SUFFICES ASSUME NEW p, NEW o, NEW k
             PROVE  Weighs(<<Release(o, k)>>, p, Bit(p = o /\ k = "strong"),
                           Bit(p = o /\ k = "stream"), Bit(p = o /\ k = "node"), 0)
  OBVIOUS
<1> DEFINE a == Release(o, k)
<1>1. /\ a \in Strong(p) <=> p = o /\ k = "strong"
      /\ a \in Stream(p) <=> p = o /\ k = "stream"
      /\ a \in Node(p) <=> p = o /\ k = "node"
      /\ ~(a \in Drops(p))
  BY DEF Release, Task, Strong, Stream, Node, Drops, DropNode
<1> HIDE DEF a
<1> QED
  BY <1>1, CountOne DEF Weighs, Bit, a

LEMMA WeighsDrop == \A p, o : Weighs(<<DropNode(o)>>, p, 0, 0, 0, Bit(p = o))
<1> SUFFICES ASSUME NEW p, NEW o PROVE Weighs(<<DropNode(o)>>, p, 0, 0, 0, Bit(p = o))
  OBVIOUS
<1> DEFINE a == DropNode(o)
<1>1. /\ ~(a \in Strong(p)) /\ ~(a \in Stream(p)) /\ ~(a \in Node(p))
      /\ a \in Drops(p) <=> p = o
  BY DEF Release, Task, Strong, Stream, Node, Drops, DropNode
<1> HIDE DEF a
<1> QED
  BY <1>1, CountOne DEF Weighs, Bit, a

LEMMA WeighsRelock == \A p, o : Weighs(<<Task("relock", o, o)>>, p, Bit(p = o), 0, 0, 0)
<1> SUFFICES ASSUME NEW p, NEW o PROVE Weighs(<<Task("relock", o, o)>>, p, Bit(p = o), 0, 0, 0)
  OBVIOUS
<1> DEFINE a == Task("relock", o, o)
<1>1. /\ a \in Strong(p) <=> p = o
      /\ ~(a \in Stream(p)) /\ ~(a \in Node(p)) /\ ~(a \in Drops(p))
  BY DEF Release, Task, Strong, Stream, Node, Drops, DropNode
<1> HIDE DEF a
<1> QED
  BY <1>1, CountOne DEF Weighs, Bit, a

\* A list without references.
LEMMA WeighsNothing ==
  ASSUME NEW l \in Seq(AllTasks), \A a \in Range(l) : a.op \notin {"release", "relock", "dropNode"}
  PROVE  \A p : Weighs(l, p, 0, 0, 0, 0)
<1> TAKE p
<1>1. \A a \in Strong(p) \cup Stream(p) \cup Node(p) \cup Drops(p) :
        a.op \in {"release", "relock", "dropNode"}
  BY DEF Release, Task, Strong, Stream, Node, Drops, DropNode
<1>2. /\ Range(l) \cap Strong(p) = {} /\ Range(l) \cap Stream(p) = {}
      /\ Range(l) \cap Node(p) = {} /\ Range(l) \cap Drops(p) = {}
  BY <1>1
<1>3. /\ Count(Strong(p), l) = 0 <=> Range(l) \cap Strong(p) = {}
      /\ Count(Stream(p), l) = 0 <=> Range(l) \cap Stream(p) = {}
      /\ Count(Node(p), l) = 0 <=> Range(l) \cap Node(p) = {}
      /\ Count(Drops(p), l) = 0 <=> Range(l) \cap Drops(p) = {}
  BY CountType
<1> QED
  BY <1>2, <1>3 DEF Weighs

\* The new tasks of the steps.
LEMMA WeighsMaking ==
  ASSUME NEW t \in Threads, NEW o \in Objects
  PROVE  \A p : Weighs(Making(t, o), p, 0, 0, 0, Bit(p = o))
<1> TAKE p
<1> DEFINE r == <<Now("raise", t)>> \o Each("listen", Sources[o], o)
           b == <<DropNode(o)>>  c == <<Close(t)>>
<1>1. /\ r \in Seq(AllTasks) /\ b \in Seq(AllTasks) /\ c \in Seq(AllTasks)
      /\ Making(t, o) = r \o (b \o c) /\ b \o c \in Seq(AllTasks)
  <2>1. DropNode(o) \in AllTasks /\ Close(t) \in AllTasks
    BY TaskTypes
  <2>2. <<DropNode(o), Close(t)>> = b \o c /\ b \in Seq(AllTasks) /\ c \in Seq(AllTasks)
    BY <2>1, ShortLists
  <2> QED
    BY <2>2, MakingType DEF Making
<1>2. Weighs(r, p, 0, 0, 0, 0)
  <2> DEFINE f == <<Now("raise", t)>>  a == Each("listen", Sources[o], o)
  <2>1. /\ f \in Seq(AllTasks) /\ a \in Seq(AllTasks)
        /\ Range(a) = {Task("listen", s, o) : s \in Range(Sources[o])}
        /\ Range(f) = {Now("raise", t)}
    <3>1. Now("raise", t) \in AllTasks
      BY TaskTypes
    <3> QED
      BY <3>1, MakingType, ShortLists
  <2>2. \A e \in Range(f) \cup Range(a) : e.op \notin {"release", "relock", "dropNode"}
    <3> HIDE DEF f, a
    <3> QED
      BY <2>1 DEF Task, Now
  <2>3. r = f \o a
    OBVIOUS
  <2> HIDE DEF f, a, r
  <2>4. Range(r) = Range(f) \cup Range(a)
    BY <2>1, <2>3, RangeOfConcat
  <2> QED
    BY <1>1, <2>2, <2>4, WeighsNothing
<1>3. Weighs(c, p, 0, 0, 0, 0)
  <2>1. \A e \in Range(c) : e.op \notin {"release", "relock", "dropNode"}
    BY DEF Range, Close, Now, Task
  <2> HIDE DEF c
  <2> QED
    BY <1>1, <2>1, WeighsNothing
<1>4. Weighs(b, p, 0, 0, 0, Bit(p = o))
  BY WeighsDrop
<1> HIDE DEF r, b, c
<1>5. Weighs(b \o c, p, 0 + 0, 0 + 0, 0 + 0, Bit(p = o) + 0)
  <2>1. b \in Seq(AllTasks) /\ c \in Seq(AllTasks)
    BY <1>1
  <2> QED
    BY <1>3, <1>4, <2>1, WeighsConcat
<1>6. Weighs(r \o (b \o c), p, 0 + (0 + 0), 0 + (0 + 0), 0 + (0 + 0), 0 + (Bit(p = o) + 0))
  <2> DEFINE q == b \o c
  <2>1. q \in Seq(AllTasks) /\ Weighs(q, p, 0 + 0, 0 + 0, 0 + 0, Bit(p = o) + 0)
    BY <1>1, <1>5
  <2> HIDE DEF q
  <2>2. Weighs(r \o q, p, 0 + (0 + 0), 0 + (0 + 0), 0 + (0 + 0), 0 + (Bit(p = o) + 0))
    BY <1>1, <1>2, <2>1, WeighsConcat
  <2> QED
    BY <2>2 DEF q
<1> QED
  BY <1>1, <1>6 DEF Weighs, Bit

LEMMA WeighsCleanup ==
  ASSUME TypeOK, NEW o \in Streams
  PROVE  \A p : Weighs(Each("kill", cleanups[o], o) \o <<Task("clear", o, o), Task("relock", o, o)>>,
                       p, Bit(p = o), 0, 0, 0)
<1> TAKE p
<1> DEFINE a == Each("kill", cleanups[o], o)  b == <<Task("clear", o, o)>>
           c == <<Task("relock", o, o)>>  q == <<Task("clear", o, o), Task("relock", o, o)>>
<1>1. a \in Seq(AllTasks) /\ q \in Seq(AllTasks)
      /\ Range(a) = {Task("kill", s, o) : s \in Range(cleanups[o])}
  BY CleanupType
<1>2. b \in Seq(AllTasks) /\ c \in Seq(AllTasks) /\ q = b \o c /\ Range(b) = {Task("clear", o, o)}
  BY TaskTypes, ShortLists
<1>3. Weighs(a, p, 0, 0, 0, 0)
  <2>1. \A e \in Range(a) : e.op \notin {"release", "relock", "dropNode"}
    BY <1>1 DEF Task
  <2> HIDE DEF a
  <2> QED
    BY <1>1, <2>1, WeighsNothing
<1>4. Weighs(b, p, 0, 0, 0, 0)
  <2>1. \A e \in Range(b) : e.op \notin {"release", "relock", "dropNode"}
    BY <1>2 DEF Task
  <2> HIDE DEF b
  <2> QED
    BY <1>2, <2>1, WeighsNothing
<1>5. Weighs(c, p, Bit(p = o), 0, 0, 0)
  BY WeighsRelock
<1> HIDE DEF a, b, c, q
<1>6. Weighs(b \o c, p, 0 + Bit(p = o), 0 + 0, 0 + 0, 0 + 0)
  BY <1>2, <1>4, <1>5, WeighsConcat
<1>7. Weighs(a \o q, p, 0 + (0 + Bit(p = o)), 0 + (0 + 0), 0 + (0 + 0), 0 + (0 + 0))
  BY <1>1, <1>2, <1>3, <1>6, WeighsConcat
<1> QED
  BY <1>7 DEF Weighs, Bit, a, q

LEMMA WeighsListener ==
  ASSUME NEW s \in Streams, NEW o \in Objects
  PROVE  \A p : Weighs(ListenerCalls(s, o), p, Bit(p = s), 0, 0, 0)
<1> TAKE p
<1> DEFINE a == IF func[s] THEN <<Task("link", s, o)>> ELSE <<>>  b == <<Release(s, "strong")>>
<1>1. Task("link", s, o) \in AllTasks /\ Release(s, "strong") \in AllTasks
  BY TaskTypes, SomeKinds
<1>2. /\ a \in Seq(AllTasks) /\ b \in Seq(AllTasks) /\ ListenerCalls(s, o) = a \o b
      /\ \A e \in Range(a) : e.op \notin {"release", "relock", "dropNode"}
  BY <1>1, ShortLists DEF ListenerCalls, Task
<1>3. Weighs(b, p, Bit(p = s /\ "strong" = "strong"), Bit(p = s /\ "strong" = "stream"),
             Bit(p = s /\ "strong" = "node"), 0)
  BY WeighsRelease
<1> HIDE DEF a, b
<1>4. Weighs(a, p, 0, 0, 0, 0)
  BY <1>2, WeighsNothing
<1>5. Weighs(a \o b, p, 0 + Bit(p = s /\ "strong" = "strong"), 0 + Bit(p = s /\ "strong" = "stream"),
             0 + Bit(p = s /\ "strong" = "node"), 0 + 0)
  BY <1>2, <1>3, <1>4, WeighsConcat
<1> QED
  BY <1>2, <1>5 DEF Weighs, Bit

LEMMA WeighsSources ==
  ASSUME TypeOK, NEW s \in Streams, NEW o \in Objects
  PROVE  \A p : Weighs(SourcesRemoved(s, o), p, 0,
                       IF p = s THEN Count({s}, sources[o]) + 1 ELSE 0, 0, 0)
<1> TAKE p
<1> DEFINE r == Release(s, "stream")
<1>1. /\ r \in Stream(p) <=> p = s
      /\ r \notin Strong(p) /\ r \notin Node(p) /\ r \notin Drops(p)
  BY DEF Release, Task, Strong, Stream, Node, Drops, DropNode
<1>2. \A X : Count(X, SourcesRemoved(s, o)) = IF r \in X THEN Count({s}, sources[o]) + 1 ELSE 0
  BY SourcesRemovedType
<1> HIDE DEF r
<1> QED
  BY <1>1, <1>2 DEF Weighs

LEMMA WeighsUnlinked ==
  ASSUME TypeOK, NEW s \in Streams, NEW o \in Objects
  PROVE  \A p : Weighs(SourcesRemoved(s, o) \o <<DropNode(o), DropNode(s)>>, p, 0,
                       IF p = s THEN Count({s}, sources[o]) + 1 ELSE 0, 0, Bit(p = o) + Bit(p = s))
<1> TAKE p
<1> DEFINE n == IF p = s THEN Count({s}, sources[o]) + 1 ELSE 0
           a == SourcesRemoved(s, o)  b == <<DropNode(o)>>  c == <<DropNode(s)>>
           q == <<DropNode(o), DropNode(s)>>
           x == Bit(p = o)  y == Bit(p = s)
<1>1. a \in Seq(AllTasks) /\ Weighs(a, p, 0, n, 0, 0) /\ n \in Nat
  <2>1. a \in Seq(AllTasks) /\ Count({s}, sources[o]) \in Nat
    BY SourcesRemovedType
  <2>2. Weighs(a, p, 0, n, 0, 0)
    BY WeighsSources
  <2> QED
    BY <2>1, <2>2
<1>2. b \in Seq(AllTasks) /\ c \in Seq(AllTasks) /\ q \in Seq(AllTasks) /\ q = b \o c
  BY SomeKinds, TaskTypes, ShortLists
<1>3. Weighs(b, p, 0, 0, 0, x) /\ Weighs(c, p, 0, 0, 0, y) /\ x \in Nat /\ y \in Nat
  BY WeighsDrop DEF Bit
<1> HIDE DEF a, b, c, q, n, x, y
<1>4. Weighs(b \o c, p, 0 + 0, 0 + 0, 0 + 0, x + y)
  BY <1>2, <1>3, WeighsConcat
<1>5. Weighs(a \o q, p, 0 + (0 + 0), n + (0 + 0), 0 + (0 + 0), 0 + (x + y))
  BY <1>1, <1>2, <1>4, WeighsConcat
<1>6. Weighs(a \o q, p, 0, n, 0, x + y)
  BY <1>1, <1>3, <1>5 DEF Weighs
<1> QED
  BY <1>6 DEF a, q, n, x, y

LEMMA WeighsDestroying ==
  ASSUME TypeOK, NEW o \in Objects
  PROVE  \A p : Weighs(Destroying(o), p, 0, Count({p}, sources[o]),
                       Bit(o \in Streams /\ p = o), Count({p}, Outgoing(o)))
<1> TAKE p
<1> DEFINE out == Outgoing(o)
           q == sources[o]
           a == WithEach("unsource", o, out)
           b == IF o \in Streams THEN <<Release(o, "node")>> ELSE <<>>
           c == Each("release", q, "stream")
           d == DropNodes(out)
<1>1. /\ out \in Seq(Objects) /\ q \in Seq(Streams)
      /\ a \in Seq(AllTasks) /\ b \in Seq(AllTasks) /\ c \in Seq(AllTasks) /\ d \in Seq(AllTasks)
      /\ Destroying(o) = a \o b \o c \o d
      /\ Range(a) = {Task("unsource", o, x) : x \in Range(out)}
      /\ Range(c) = {Release(s, "stream") : s \in Range(q)}
      /\ Range(d) = {DropNode(x) : x \in Range(out)}
      /\ a \o b \in Seq(AllTasks) /\ a \o b \o c \in Seq(AllTasks)
  BY DestroyingType DEF TypeOK
<1>2. Weighs(a, p, 0, 0, 0, 0)
  <2>1. \A e \in Range(a) : e.op \notin {"release", "relock", "dropNode"}
    BY <1>1 DEF Task
  <2> HIDE DEF a
  <2> QED
    BY <1>1, <2>1, WeighsNothing
<1>3. Weighs(b, p, 0, 0, Bit(o \in Streams /\ p = o), 0)
  <2>1. CASE o \in Streams
    <3>1. Weighs(<<Release(o, "node")>>, p, Bit(p = o /\ "node" = "strong"),
                 Bit(p = o /\ "node" = "stream"), Bit(p = o /\ "node" = "node"), 0)
      BY WeighsRelease
    <3> QED
      BY <2>1, <3>1 DEF Weighs, Bit
  <2>2. CASE o \notin Streams
    <3>1. Weighs(<<>>, p, 0, 0, 0, 0)
      BY WeighsEmpty
    <3> QED
      BY <2>2, <3>1 DEF Bit
  <2> QED
    BY <2>1, <2>2
<1>4. Weighs(c, p, 0, Count({p}, q), 0, 0)
  <2>1. Count(Stream(p), c) = Count({p}, q)
    <3>1. DOMAIN c = DOMAIN q
      BY DEF Each
    <3>2. \A k \in DOMAIN q : c[k] \in Stream(p) <=> q[k] \in {p}
      BY DEF Each, Stream, Release, Task
    <3> HIDE DEF c, q
    <3> QED
      BY <3>1, <3>2, CountMapped
  <2>2. Range(c) \cap Strong(p) = {} /\ Range(c) \cap Node(p) = {} /\ Range(c) \cap Drops(p) = {}
    <3>1. \A x : /\ Release(x, "stream") \notin Strong(p)
                 /\ Release(x, "stream") \notin Node(p)
                 /\ Release(x, "stream") \notin Drops(p)
      BY DEF Release, Task, Strong, Stream, Node, Drops, DropNode
    <3> HIDE DEF c, q
    <3> QED
      BY <1>1, <3>1
  <2> HIDE DEF c, q
  <2>3. /\ Count(Strong(p), c) = 0 <=> Range(c) \cap Strong(p) = {}
        /\ Count(Node(p), c) = 0 <=> Range(c) \cap Node(p) = {}
        /\ Count(Drops(p), c) = 0 <=> Range(c) \cap Drops(p) = {}
    BY <1>1, CountType
  <2> QED
    BY <2>1, <2>2, <2>3 DEF Weighs
<1>5. Weighs(d, p, 0, 0, 0, Count({p}, out))
  <2>1. Count(Drops(p), d) = Count({p}, out)
    <3>1. DOMAIN d = DOMAIN out
      BY DEF DropNodes
    <3>2. \A k \in DOMAIN out : d[k] \in Drops(p) <=> out[k] \in {p}
      BY DEF DropNodes, Drops, DropNode, Task
    <3> HIDE DEF d, out
    <3> QED
      BY <3>1, <3>2, CountMapped
  <2>2. Range(d) \cap Strong(p) = {} /\ Range(d) \cap Stream(p) = {} /\ Range(d) \cap Node(p) = {}
    <3>1. \A x : /\ DropNode(x) \notin Strong(p)
                 /\ DropNode(x) \notin Stream(p)
                 /\ DropNode(x) \notin Node(p)
      BY DEF Release, Task, Strong, Stream, Node, Drops, DropNode
    <3> HIDE DEF d, out
    <3> QED
      BY <1>1, <3>1
  <2> HIDE DEF d, out
  <2>3. /\ Count(Strong(p), d) = 0 <=> Range(d) \cap Strong(p) = {}
        /\ Count(Stream(p), d) = 0 <=> Range(d) \cap Stream(p) = {}
        /\ Count(Node(p), d) = 0 <=> Range(d) \cap Node(p) = {}
    BY <1>1, CountType
  <2> QED
    BY <2>1, <2>2, <2>3 DEF Weighs
<1> DEFINE n == Count({p}, q)  k == Bit(o \in Streams /\ p = o)  m == Count({p}, out)
<1>6. n \in Nat /\ k \in Nat /\ m \in Nat
  <2> HIDE DEF q, out
  <2> QED
    BY <1>1, CountType DEF Bit
<1> HIDE DEF a, b, c, d, q, out
<1>7. Weighs(a \o b, p, 0 + 0, 0 + 0, 0 + k, 0 + 0)
  BY <1>1, <1>2, <1>3, WeighsConcat
<1>8. Weighs((a \o b) \o c, p, (0 + 0) + 0, (0 + 0) + n, (0 + k) + 0, (0 + 0) + 0)
  <2> DEFINE e == a \o b
  <2>1. e \in Seq(AllTasks) /\ Weighs(e, p, 0 + 0, 0 + 0, 0 + k, 0 + 0)
    BY <1>1, <1>7
  <2> HIDE DEF e
  <2>2. Weighs(e \o c, p, (0 + 0) + 0, (0 + 0) + n, (0 + k) + 0, (0 + 0) + 0)
    BY <1>1, <1>4, <2>1, WeighsConcat
  <2> QED
    BY <2>2 DEF e
<1>9. Weighs(((a \o b) \o c) \o d, p, ((0 + 0) + 0) + 0, ((0 + 0) + n) + 0, ((0 + k) + 0) + 0,
             ((0 + 0) + 0) + m)
  <2> DEFINE e == (a \o b) \o c
  <2>1. e \in Seq(AllTasks) /\ Weighs(e, p, (0 + 0) + 0, (0 + 0) + n, (0 + k) + 0, (0 + 0) + 0)
    BY <1>1, <1>8
  <2> HIDE DEF e
  <2>2. Weighs(e \o d, p, ((0 + 0) + 0) + 0, ((0 + 0) + n) + 0, ((0 + k) + 0) + 0, ((0 + 0) + 0) + m)
    BY <1>1, <1>5, <2>1, WeighsConcat
  <2> QED
    BY <2>2 DEF e
<1> HIDE DEF n, k, m
<1>10. Weighs(((a \o b) \o c) \o d, p, 0, n, k, m)
  BY <1>6, <1>9 DEF Weighs
<1> QED
  BY <1>1, <1>10 DEF n, k, m, q, out

LEMMA WeighsTurns ==
  ASSUME NEW l \in Seq(Turns)
  PROVE  \A p : Weighs(l, p, 0, 0, 0, 0)
<1>1. l \in Seq(AllTasks)
  BY TaskTypes
<1>2. Range(l) \subseteq Turns
  BY DEF Range
<1>3. \A e \in Turns : e.op \notin {"release", "relock", "dropNode"}
  BY DEF Turns, Now, Task, TransactionOps
<1> QED
  BY <1>1, <1>2, <1>3, WeighsNothing

\* Other tasks have no references.
LEMMA WeighsOther ==
  \A op, x, y : op \notin {"release", "relock", "dropNode"} /\ Task(op, x, y) \in AllTasks =>
    \A p : Weighs(<<Task(op, x, y)>>, p, 0, 0, 0, 0)
<1> SUFFICES ASSUME NEW op, NEW x, NEW y, op \notin {"release", "relock", "dropNode"},
                    Task(op, x, y) \in AllTasks
             PROVE  \A p : Weighs(<<Task(op, x, y)>>, p, 0, 0, 0, 0)
  OBVIOUS
<1> DEFINE a == Task(op, x, y)
<1>1. <<a>> \in Seq(AllTasks) /\ Range(<<a>>) = {a}
  BY ShortLists
<1>2. a.op \notin {"release", "relock", "dropNode"}
  BY DEF Task
<1> HIDE DEF a
<1>3. \A p : Weighs(<<a>>, p, 0, 0, 0, 0)
  BY <1>1, <1>2, WeighsNothing
<1> QED
  BY <1>3 DEF a

-----------------------------------------------------------------------------
(* Every step keeps the types, and counts the references right.            *)

LEMMA NewCounts ==
  LET c == inc(inc(empty, "node"), "stream") IN
    /\ c \in CountSets
    /\ c.count["strong"] = 0 /\ c.count["stream"] = 1 /\ c.count["node"] = 1
<1> DEFINE c == inc(empty, "node")  d == inc(c, "stream")
<1>1. /\ "strong" \in Kinds /\ "stream" \in Kinds /\ "node" \in Kinds
      /\ 0 < LargeMax
  BY LimitsAssumption DEF Kinds
<1>2. empty \in CountSets /\ empty.count = [k \in Kinds |-> 0]
  <2>1. empty.small = TRUE /\ empty.count = [k \in Kinds |-> 0]
        /\ empty \in [small : BOOLEAN, count : [Kinds -> Nat]]
    BY DEF empty
  <2>2. \A k \in Kinds : empty.count[k] <= Limit(empty, k)
    BY <2>1, LimitsAssumption DEF Limit
  <2> QED
    BY <2>1, <2>2 DEF CountSets
<1>3. c \in CountSets /\ c.count = [[k \in Kinds |-> 0] EXCEPT !["node"] = @ + 1]
  <2>1. empty.count["node"] < LargeMax
    BY <1>1, <1>2
  <2> QED
    BY <1>1, <1>2, <2>1, IncAddsOne
<1>4. c.count["strong"] = 0 /\ c.count["stream"] = 0 /\ c.count["node"] = 1
      /\ c.count \in [Kinds -> Nat]
  BY <1>1, <1>3
<1> HIDE DEF c
<1>5. d \in CountSets /\ d.count = [c.count EXCEPT !["stream"] = @ + 1]
  <2>1. c.count["stream"] < LargeMax
    BY <1>1, <1>4
  <2> QED
    BY <1>1, <1>3, <2>1, IncAddsOne
<1>6. d.count["strong"] = 0 /\ d.count["stream"] = 1 /\ d.count["node"] = 1
  BY <1>1, <1>4, <1>5
<1> QED
  BY <1>5, <1>6 DEF d, c

\* The sources of an object, or the targets of a node, change.
LEMMA SourcesDiffer ==
  ASSUME TypeOK, NEW o \in Objects, NEW q \in Seq(Streams), sources' = [sources EXCEPT ![o] = q]
  PROVE  /\ sources' \in [Objects -> Seq(Streams)]
         /\ \A p : /\ Occurs({p}, sources)' \in Nat /\ Occurs({p}, sources) \in Nat
                   /\ Count({p}, sources[o]) \in Nat /\ Count({p}, q) \in Nat
                   /\ Occurs({p}, sources)' = Occurs({p}, sources) + Count({p}, q)
                                                - Count({p}, sources[o])
<1> DEFINE f == sources  g == sources'
<1>1. /\ f \in [Objects -> Seq(Streams)] /\ g \in [Objects -> Seq(Streams)] /\ IsFiniteSet(Objects)
      /\ g[o] = q /\ OneDiffers(Objects, f, g, o)
  BY FiniteAssumption DEF TypeOK, OneDiffers
<1> HIDE DEF f, g
<1>2. ASSUME NEW p
      PROVE  /\ Occurs({p}, g) \in Nat /\ Occurs({p}, f) \in Nat
             /\ Count({p}, f[o]) \in Nat /\ Count({p}, q) \in Nat
             /\ Occurs({p}, g) = Occurs({p}, f) + Count({p}, q) - Count({p}, f[o])
  <2>1. Differ({p}, f, g, o)
    BY <1>1, OneChanges
  <2>2. Occurs({p}, g) \in Nat
    BY <1>1, OccursType
  <2>3. Occurs({p}, f) \in Nat
    BY <1>1, OccursType
  <2>4. f[o] \in Seq(Streams)
    BY <1>1
  <2>5. Count({p}, f[o]) \in Nat /\ Count({p}, q) \in Nat
    BY <2>4, CountType
  <2>6. Occurs({p}, g) + Count({p}, f[o]) = Occurs({p}, f) + Count({p}, q)
    BY <1>1, <2>1 DEF Differ
  <2> DEFINE x == Occurs({p}, g)  y == Occurs({p}, f)  m == Count({p}, f[o])  n == Count({p}, q)
  <2>7. x \in Nat /\ y \in Nat /\ m \in Nat /\ n \in Nat /\ x + m = y + n
    BY <2>2, <2>3, <2>5, <2>6
  <2> HIDE DEF x, y, m, n
  <2>8. x = y + n - m
    BY <2>7
  <2> QED
    BY <2>7, <2>8 DEF x, y, m, n
<1> QED
  BY <1>1, <1>2 DEF f, g

LEMMA TargetsDiffer ==
  ASSUME TypeOK, NEW s \in Streams, NEW q \in Seq(Objects), targets' = [targets EXCEPT ![s] = q]
  PROVE  /\ targets' \in [Streams -> Seq(Objects)]
         /\ \A p : /\ Occurs({p}, targets)' \in Nat /\ Occurs({p}, targets) \in Nat
                   /\ Count({p}, targets[s]) \in Nat /\ Count({p}, q) \in Nat
                   /\ Occurs({p}, targets)' = Occurs({p}, targets) + Count({p}, q)
                                                - Count({p}, targets[s])
<1> DEFINE f == targets  g == targets'
<1>0. IsFiniteSet(Streams)
  BY SomeKinds, FiniteAssumption, FS_Subset
<1>1. /\ f \in [Streams -> Seq(Objects)] /\ g \in [Streams -> Seq(Objects)]
      /\ g[s] = q /\ OneDiffers(Streams, f, g, s)
  BY DEF TypeOK, OneDiffers
<1> HIDE DEF f, g
<1>2. ASSUME NEW p
      PROVE  /\ Occurs({p}, g) \in Nat /\ Occurs({p}, f) \in Nat
             /\ Count({p}, f[s]) \in Nat /\ Count({p}, q) \in Nat
             /\ Occurs({p}, g) = Occurs({p}, f) + Count({p}, q) - Count({p}, f[s])
  <2>1. Differ({p}, f, g, s)
    BY <1>0, <1>1, OneChanges
  <2>2. Occurs({p}, g) \in Nat
    BY <1>0, <1>1, OccursType
  <2>3. Occurs({p}, f) \in Nat
    BY <1>0, <1>1, OccursType
  <2>4. f[s] \in Seq(Objects)
    BY <1>1
  <2>5. Count({p}, f[s]) \in Nat /\ Count({p}, q) \in Nat
    BY <2>4, CountType
  <2>6. Occurs({p}, g) + Count({p}, f[s]) = Occurs({p}, f) + Count({p}, q)
    BY <1>1, <2>1 DEF Differ
  <2> DEFINE x == Occurs({p}, g)  y == Occurs({p}, f)  m == Count({p}, f[s])  n == Count({p}, q)
  <2>7. x \in Nat /\ y \in Nat /\ m \in Nat /\ n \in Nat /\ x + m = y + n
    BY <2>2, <2>3, <2>5, <2>6
  <2> HIDE DEF x, y, m, n
  <2>8. x = y + n - m
    BY <2>7
  <2> QED
    BY <2>7, <2>8 DEF x, y, m, n
<1> QED
  BY <1>1, <1>2 DEF f, g

\* What a step does to the numbers and to the references is the same.
Balanced(p, done, tasks) ==
  /\ p \in Streams =>
       /\ Number(p, "strong")' + Count(Strong(p), done) = Number(p, "strong") + Count(Strong(p), tasks)
       /\ Number(p, "stream")' + Count(Stream(p), done) + Handles(p) + Occurs({p}, sources)
            = Number(p, "stream") + Count(Stream(p), tasks) + Handles(p)' + Occurs({p}, sources)'
       /\ Number(p, "node")' + Count(Node(p), done) + HasNode(p)
            = Number(p, "node") + Count(Node(p), tasks) + HasNode(p)'
  /\ nodeRefs'[p] + Count(Drops(p), done) + HasSink(p) + Occurs({p}, targets)
       = nodeRefs[p] + Count(Drops(p), tasks) + HasSink(p)' + Occurs({p}, targets)'

LEMMA RefPartsNext ==
  TypeOK' =>
    (/\ \A o : /\ Handles(o) \in Nat /\ (Handles(o) = 0 <=> ~Held(o))
               /\ Occurs({o}, sources) \in Nat
               /\ Occurs({o}, sources) = 0 <=> \A x \in Objects : o \notin Range(sources[x])
               /\ Occurs({o}, targets) \in Nat
               /\ Occurs({o}, targets) = 0 <=> \A x \in Streams : o \notin Range(targets[x])
     /\ \A o \in Streams, k \in Kinds : Number(o, k) \in Nat)'
BY RefParts, PTL

LEMMA Balance ==
  ASSUME TypeOK, Counted, TypeOK', NEW t \in Threads,
         NEW done \in Seq(AllTasks), NEW tasks \in Seq(AllTasks), Does(t, done, tasks),
         \A p \in Objects : Balanced(p, done, tasks)
  PROVE  Counted'
<1>0. \A X : /\ Due(X) \in Nat /\ Due(X)' \in Nat
             /\ Count(X, done) \in Nat /\ Count(X, tasks) \in Nat
             /\ Due(X)' + Count(X, done) = Due(X) + Count(X, tasks)
  BY AgendaAfter
<1>1. ASSUME NEW p \in Streams
      PROVE  (/\ Number(p, "strong") = StrongRefs(p)
              /\ Number(p, "stream") = StreamRefs(p)
              /\ Number(p, "node") = NodeRefs(p))'
  <2>0. p \in Objects /\ Balanced(p, done, tasks)
    BY SomeKinds
  <2>1. (Number(p, "strong") = StrongRefs(p))'
    <3> DEFINE x == Number(p, "strong")  y == Number(p, "strong")'  X == Strong(p)
               d == Due(X)  e == Due(X)'  m == Count(X, done)  n == Count(X, tasks)
    <3>1. x = d
      BY DEF Counted, StrongRefs, Strong
    <3>2. y + m = x + n
      BY <2>0 DEF Balanced
    <3>3. e + m = d + n /\ d \in Nat /\ e \in Nat /\ m \in Nat /\ n \in Nat
      BY <1>0
    <3>4. y \in Nat
      BY RefPartsNext, SomeKinds
    <3>5. StrongRefs(p)' = e
      BY DEF StrongRefs, Strong
    <3> HIDE DEF x, y, X, d, e, m, n
    <3>6. y = e
      BY <3>1, <3>2, <3>3, <3>4
    <3> QED
      BY <3>5, <3>6 DEF y
  <2>2. (Number(p, "stream") = StreamRefs(p))'
    <3> DEFINE x == Number(p, "stream")  y == Number(p, "stream")'  X == Stream(p)
               d == Due(X)  e == Due(X)'  m == Count(X, done)  n == Count(X, tasks)
               h == Handles(p)  i == Handles(p)'  q == Occurs({p}, sources)  r == Occurs({p}, sources)'
    <3>1. x = h + q + d
      BY DEF Counted, StreamRefs, Stream, Handles
    <3>2. y + m + h + q = x + n + i + r
      BY <2>0 DEF Balanced
    <3>3. e + m = d + n /\ d \in Nat /\ e \in Nat /\ m \in Nat /\ n \in Nat
      BY <1>0
    <3>4. y \in Nat /\ h \in Nat /\ i \in Nat /\ q \in Nat /\ r \in Nat
      BY RefParts, RefPartsNext, SomeKinds
    <3>5. StreamRefs(p)' = i + r + e
      BY DEF StreamRefs, Stream, Handles
    <3> HIDE DEF x, y, X, d, e, m, n, h, i, q, r
    <3>6. y = i + r + e
      BY <3>1, <3>2, <3>3, <3>4
    <3> QED
      BY <3>5, <3>6 DEF y
  <2>3. (Number(p, "node") = NodeRefs(p))'
    <3> DEFINE x == Number(p, "node")  y == Number(p, "node")'  X == Node(p)
               d == Due(X)  e == Due(X)'  m == Count(X, done)  n == Count(X, tasks)
               h == HasNode(p)  i == HasNode(p)'
    <3>1. x = h + d
      BY DEF Counted, NodeRefs, Node, HasNode
    <3>2. y + m + h = x + n + i
      BY <2>0 DEF Balanced
    <3>3. e + m = d + n /\ d \in Nat /\ e \in Nat /\ m \in Nat /\ n \in Nat
      BY <1>0
    <3>4. y \in Nat /\ h \in Nat /\ i \in Nat
      BY RefPartsNext, SomeKinds DEF HasNode
    <3>5. NodeRefs(p)' = i + e
      BY DEF NodeRefs, Node, HasNode
    <3> HIDE DEF x, y, X, d, e, m, n, h, i
    <3>6. y = i + e
      BY <3>1, <3>2, <3>3, <3>4
    <3> QED
      BY <3>5, <3>6 DEF y
  <2> QED
    BY <2>1, <2>2, <2>3
<1>2. ASSUME NEW p \in Objects
      PROVE  (nodeRefs[p] = Users(p))'
  <2> DEFINE x == nodeRefs[p]  y == nodeRefs'[p]  X == Drops(p)
             d == Due(X)  e == Due(X)'  m == Count(X, done)  n == Count(X, tasks)
             h == HasSink(p)  i == HasSink(p)'  q == Occurs({p}, targets)  r == Occurs({p}, targets)'
  <2>1. x = h + q + d
    BY DEF Counted, Users, Drops, HasSink
  <2>2. y + m + h + q = x + n + i + r
    BY DEF Balanced
  <2>3. e + m = d + n /\ d \in Nat /\ e \in Nat /\ m \in Nat /\ n \in Nat
    BY <1>0
  <2>4. y \in Nat /\ h \in Nat /\ i \in Nat /\ q \in Nat /\ r \in Nat
    BY RefParts, RefPartsNext DEF HasSink, TypeOK
  <2>5. Users(p)' = i + r + e
    BY DEF Users, Drops, HasSink
  <2> HIDE DEF x, y, X, d, e, m, n, h, i, q, r
  <2>6. y = i + r + e
    BY <2>1, <2>2, <2>3, <2>4
  <2> QED
    BY <2>5, <2>6 DEF y
<1> QED
  BY <1>1, <1>2 DEF Counted

References == <<counts, held, sources, targets, sinks, nodeRefs>>

LEMMA BalancedQuiet ==
  ASSUME UNCHANGED References, NEW p, NEW done, NEW tasks, NEW a, NEW b, NEW c, NEW d,
         Weighs(done, p, a, b, c, d), Weighs(tasks, p, a, b, c, d)
  PROVE  Balanced(p, done, tasks)
<1>1. /\ Number(p, "strong")' = Number(p, "strong") /\ Number(p, "stream")' = Number(p, "stream")
      /\ Number(p, "node")' = Number(p, "node") /\ Handles(p)' = Handles(p)
      /\ Occurs({p}, sources)' = Occurs({p}, sources) /\ Occurs({p}, targets)' = Occurs({p}, targets)
      /\ HasNode(p)' = HasNode(p) /\ HasSink(p)' = HasSink(p) /\ nodeRefs'[p] = nodeRefs[p]
  BY DEF References, Number, Handles, HasNode, HasSink
<1> QED
  BY <1>1 DEF Balanced, Weighs

\* Steps that leave the references alone.
LEMMA QuietCounts ==
  ASSUME TypeOK, Counted, TypeOK', UNCHANGED References, NEW t \in Threads,
         NEW done \in Seq(AllTasks), NEW tasks \in Seq(AllTasks), Does(t, done, tasks),
         \A p : Weighs(done, p, 0, 0, 0, 0), \A p : Weighs(tasks, p, 0, 0, 0, 0)
  PROVE  Counted'
<1>1. \A p \in Objects : Balanced(p, done, tasks)
  BY BalancedQuiet
<1> QED
  BY <1>1, Balance

LEMMA UnlistenedCounts ==
  ASSUME TypeOK, Counted, NEW t \in Threads, NEW s, NEW o, Unlistened(t, s, o)
  PROVE  TypeOK' /\ Counted'
<1> DEFINE done == <<>>  a == Task("kill", s, o)  tasks == <<a>>
<1> USE DEF Unlistened
<1>1. a \in AllTasks /\ done \in Seq(AllTasks) /\ tasks \in Seq(AllTasks) /\ Does(t, done, tasks)
  BY SomeKinds, TaskTypes, ShortLists
<1>2. \A p : Weighs(done, p, 0, 0, 0, 0) /\ Weighs(tasks, p, 0, 0, 0, 0)
  BY <1>1, WeighsEmpty, WeighsOther
<1> HIDE DEF done, tasks
<1>3. agenda' \in [Threads -> Seq(AllTasks)]
  BY <1>1, AgendaAfter
<1>4. TypeOK'
  <2>1. cleanups' \in [Objects -> Seq(Streams)]
    BY SomeKinds DEF TypeOK
  <2> QED
    BY <1>3, <2>1 DEF TypeOK, links, owners, deferral
<1>5. UNCHANGED References
  BY DEF References, links, owners
<1> QED
  BY <1>1, <1>2, <1>4, <1>5, QuietCounts

LEMMA OpenedCounts ==
  ASSUME TypeOK, Counted, NEW t \in Threads, Opened(t) \/ Closing(t)
  PROVE  TypeOK' /\ Counted'
<1> DEFINE done == <<>>
<1>1. PICK tasks \in {<<Now("raise", t)>>, <<Close(t)>>} : Does(t, done, tasks)
  BY DEF Opened, Closing
<1>2. /\ "raise" \in TransactionOps /\ "close" \in TransactionOps
      /\ Close(t) = Now("close", t) /\ done \in Seq(AllTasks)
  BY ShortLists DEF TransactionOps, Close
<1>3. tasks \in Seq(Turns) /\ tasks \in Seq(AllTasks)
  <2>1. tasks \in Seq(Turns)
    BY <1>1, <1>2, TurnLists
  <2> QED
    BY <2>1, TaskTypes
<1>4. \A p : Weighs(done, p, 0, 0, 0, 0) /\ Weighs(tasks, p, 0, 0, 0, 0)
  BY <1>3, WeighsEmpty, WeighsTurns
<1> HIDE DEF done
<1>5. agenda' \in [Threads -> Seq(AllTasks)]
  BY <1>1, <1>2, <1>3, AgendaAfter
<1>6. depth' = depth /\ read' \in [Threads -> Int]
  BY DEF TypeOK, Opened, Closing, ReadDepth, deferral
<1>7. TypeOK' /\ UNCHANGED References
  BY <1>5, <1>6 DEF TypeOK, links, owners, deferral, References, Opened, Closing
<1> QED
  BY <1>1, <1>2, <1>3, <1>4, <1>7, QuietCounts

LEMMA ClearedCounts ==
  ASSUME TypeOK, Counted, NEW t \in Threads, NEW o, Cleared(t, o)
  PROVE  TypeOK' /\ Counted'
<1> DEFINE a == Task("clear", o, o)  done == <<a>>  tasks == <<>>
<1> USE DEF Cleared
<1>1. a \in AllTasks /\ done \in Seq(AllTasks) /\ tasks \in Seq(AllTasks) /\ Does(t, done, tasks)
  BY TaskTypes, ShortLists
<1>2. \A p : Weighs(done, p, 0, 0, 0, 0) /\ Weighs(tasks, p, 0, 0, 0, 0)
  BY <1>1, WeighsEmpty, WeighsOther
<1> HIDE DEF done, tasks
<1>3. agenda' \in [Threads -> Seq(AllTasks)]
  BY <1>1, AgendaAfter
<1>4. TypeOK'
  BY <1>3 DEF TypeOK, links, owners, deferral
<1>5. UNCHANGED References
  BY DEF References, links, owners
<1> QED
  BY <1>1, <1>2, <1>4, <1>5, QuietCounts

LEMMA SkippedCounts ==
  ASSUME TypeOK, Counted, NEW t \in Threads, NEW op \in {"link", "unlink"}, NEW s, NEW o,
         Skipped(t, op, s, o)
  PROVE  TypeOK' /\ Counted'
<1> DEFINE a == Task(op, s, o)  done == <<a>>  tasks == <<>>
<1> USE DEF Skipped
<1>1. a \in AllTasks /\ done \in Seq(AllTasks) /\ tasks \in Seq(AllTasks) /\ Does(t, done, tasks)
  BY TaskTypes, ShortLists
<1>2. \A p : Weighs(done, p, 0, 0, 0, 0) /\ Weighs(tasks, p, 0, 0, 0, 0)
  BY <1>1, WeighsEmpty, WeighsOther
<1> HIDE DEF done, tasks
<1>3. agenda' \in [Threads -> Seq(AllTasks)]
  BY <1>1, AgendaAfter
<1>4. TypeOK'
  BY <1>3 DEF TypeOK, links, owners, deferral
<1>5. UNCHANGED References
  BY DEF References, links, owners
<1> QED
  BY <1>1, <1>2, <1>4, <1>5, QuietCounts

LEMMA KilledCounts ==
  ASSUME TypeOK, Counted, NEW t \in Threads, NEW s, NEW o, Killed(t, s, o)
  PROVE  TypeOK' /\ Counted'
<1> DEFINE a == Task("kill", s, o)  b == Now("raise", t)  c == Task("last", s, o)
           done == <<a>>  tasks == <<b, c>>
<1> USE DEF Killed
<1>1. /\ a \in AllTasks /\ b \in AllTasks /\ c \in AllTasks /\ done \in Seq(AllTasks)
      /\ tasks \in Seq(AllTasks) /\ Does(t, done, tasks) /\ Range(tasks) = {b, c}
  BY TaskTypes, ShortLists
<1>2. \A p : Weighs(done, p, 0, 0, 0, 0) /\ Weighs(tasks, p, 0, 0, 0, 0)
  <2>1. \A e \in Range(tasks) : e.op \notin {"release", "relock", "dropNode"}
    <3>1. Range(tasks) = {b, c} /\ b.op = "raise" /\ c.op = "last"
      BY <1>1 DEF Now, Task
    <3> HIDE DEF b, c, tasks
    <3> QED
      BY <3>1
  <2> HIDE DEF tasks
  <2> QED
    BY <1>1, <2>1, WeighsOther, WeighsNothing
<1> HIDE DEF done, tasks
<1>3. agenda' \in [Threads -> Seq(AllTasks)]
  BY <1>1, AgendaAfter
<1>4. read' \in [Threads -> Int]
  BY DEF TypeOK, ReadDepth
<1>5. TypeOK'
  BY <1>3, <1>4 DEF TypeOK, links, owners
<1>6. UNCHANGED References
  BY DEF References, links, owners
<1> QED
  BY <1>1, <1>2, <1>5, <1>6, QuietCounts

LEMMA DeferredCounts ==
  ASSUME TypeOK, Counted, NEW t \in Threads, NEW s, NEW o, Deferred(t, s, o)
  PROVE  TypeOK' /\ Counted'
<1> DEFINE a == Task("last", s, o)  done == <<a>>  tasks == <<Close(t)>>
<1> USE DEF Deferred
<1>1. a \in AllTasks /\ done \in Seq(AllTasks) /\ tasks \in Seq(AllTasks) /\ Does(t, done, tasks)
  BY TaskTypes, ShortLists
<1>2. \A p : Weighs(done, p, 0, 0, 0, 0) /\ Weighs(tasks, p, 0, 0, 0, 0)
  <2>1. tasks \in Seq(Turns)
    BY TurnLists
  <2> QED
    BY <1>1, <2>1, WeighsOther, WeighsTurns
<1> HIDE DEF done, tasks
<1>3. agenda' \in [Threads -> Seq(AllTasks)]
  BY <1>1, AgendaAfter
<1>4. posts' \in Seq(Streams \X Objects)
  BY DEF TypeOK
<1>5. TypeOK'
  BY <1>3, <1>4 DEF TypeOK, links, owners
<1>6. UNCHANGED References
  BY DEF References, links, owners
<1> QED
  BY <1>1, <1>2, <1>5, <1>6, QuietCounts

LEMMA PacedCounts ==
  ASSUME TypeOK, Counted, NEW t \in Threads, NEW op, NEW u, NEW tasks, Paced(t, op, u, tasks)
  PROVE  TypeOK' /\ Counted'
<1> DEFINE a == Now(op, u)  done == <<a>>
<1> USE DEF Paced
<1>1. a \in AllTasks /\ a \in Turns /\ tasks \in Seq(AllTasks) /\ Does(t, done, tasks)
  <2>1. tasks \in Seq(AllTasks) /\ Does(t, done, tasks)
    BY TaskTypes
  <2>2. a \in Turns
    BY DEF Turns
  <2> QED
    BY <2>1, <2>2, TaskTypes
<1>2. done \in Seq(Turns) /\ done \in Seq(AllTasks)
  <2> HIDE DEF a
  <2> QED
    BY <1>1
<1>3. \A p : Weighs(done, p, 0, 0, 0, 0) /\ Weighs(tasks, p, 0, 0, 0, 0)
  BY <1>2, WeighsTurns
<1> HIDE DEF done
<1>4. agenda' \in [Threads -> Seq(AllTasks)]
  BY <1>1, <1>2, AgendaAfter
<1>5. TypeOK'
  BY <1>4 DEF TypeOK, links, owners
<1>6. UNCHANGED References
  BY DEF References, links, owners
<1> QED
  BY <1>1, <1>2, <1>3, <1>5, <1>6, QuietCounts

LEMMA PostRunCounts ==
  ASSUME TypeOK, Counted, NEW t \in Threads, NEW u, NEW s, NEW o, PostRun(t, u, s, o)
  PROVE  TypeOK' /\ Counted'
<1> DEFINE a == Now("posts", u)  b == Task("unlink", s, o)  done == <<a>>  tasks == <<b, a>>
<1> USE DEF PostRun
<1>1. /\ a \in AllTasks /\ b \in AllTasks /\ done \in Seq(AllTasks) /\ tasks \in Seq(AllTasks)
      /\ Does(t, done, tasks) /\ Range(tasks) = {b, a}
  BY TaskTypes, ShortLists
<1>2. \A p : Weighs(done, p, 0, 0, 0, 0) /\ Weighs(tasks, p, 0, 0, 0, 0)
  <2>1. \A e \in Range(tasks) : e.op \notin {"release", "relock", "dropNode"}
    <3>1. Range(tasks) = {b, a} /\ a.op = "posts" /\ b.op = "unlink"
      BY <1>1 DEF Task, Now
    <3> HIDE DEF a, b, tasks
    <3> QED
      BY <3>1
  <2> HIDE DEF tasks
  <2> QED
    <3>1. \A p : Weighs(done, p, 0, 0, 0, 0)
      BY <1>1, WeighsOther DEF Now
    <3>2. \A p : Weighs(tasks, p, 0, 0, 0, 0)
      BY <1>1, <2>1, WeighsNothing
    <3> QED
      BY <3>1, <3>2
<1> HIDE DEF done, tasks
<1>3. agenda' \in [Threads -> Seq(AllTasks)]
  BY <1>1, AgendaAfter
<1>4. posts' \in Seq(Streams \X Objects)
  BY DEF TypeOK
<1>5. TypeOK'
  BY <1>3, <1>4 DEF TypeOK, links, owners
<1>6. UNCHANGED References
  BY DEF References, links, owners
<1> QED
  BY <1>1, <1>2, <1>5, <1>6, QuietCounts

\* Handles come and go.
LEMMA HandleMore ==
  ASSUME TypeOK, NEW u \in Threads, NEW o, o \notin held[u], held' = [held EXCEPT ![u] = @ \cup {o}]
  PROVE  \A p : Handles(p)' = Handles(p) + Bit(p = o)
<1> TAKE p
<1> DEFINE H == {t \in Threads : p \in held[t]}  G == {t \in Threads : p \in held'[t]}
<1>1. IsFiniteSet(H)
  <2>1. H \subseteq Threads
    OBVIOUS
  <2> HIDE DEF H
  <2> QED
    BY <2>1, FiniteAssumption, FS_Subset
<1>2. IF p = o THEN u \notin H /\ G = H \cup {u} ELSE G = H
  BY DEF TypeOK
<1> HIDE DEF H, G
<1>3. Cardinality(G) = Cardinality(H) + Bit(p = o)
  BY <1>1, <1>2, FS_AddElement, FS_CardinalityType DEF Bit
<1> QED
  BY <1>3 DEF Handles, H, G

LEMMA HandleLess ==
  ASSUME TypeOK, NEW u \in Threads, NEW o \in held[u], held' = [held EXCEPT ![u] = @ \ {o}]
  PROVE  \A p : Handles(p) = Handles(p)' + Bit(p = o)
<1> TAKE p
<1> DEFINE H == {t \in Threads : p \in held[t]}  G == {t \in Threads : p \in held'[t]}
<1>1. IsFiniteSet(G)
  <2>1. G \subseteq Threads
    OBVIOUS
  <2> HIDE DEF G
  <2> QED
    BY <2>1, FiniteAssumption, FS_Subset
<1>2. IF p = o THEN u \notin G /\ H = G \cup {u} ELSE G = H
  BY DEF TypeOK
<1> HIDE DEF H, G
<1>3. Cardinality(H) = Cardinality(G) + Bit(p = o)
  BY <1>1, <1>2, FS_AddElement, FS_CardinalityType DEF Bit
<1> QED
  BY <1>3 DEF Handles, H, G

LEMMA HandleCopiedCounts ==
  ASSUME TypeOK, Counted, Room, NEW t \in Threads, NEW u, NEW o, HandleCopied(t, u, o)
  PROVE  TypeOK' /\ Counted'
<1> USE DEF HandleCopied
<1>1. o \in Streams /\ u \in Threads /\ Number(o, "stream") < LargeMax
  BY SomeKinds DEF TypeOK, Room
<1>2. /\ counts' \in [Streams -> CountSets]
      /\ \A p \in Streams, j \in Kinds : Number(p, j)' = Number(p, j) + Bit(p = o /\ j = "stream")
  BY <1>1, OneMore, SomeKinds
<1>3. \A p : Handles(p)' = Handles(p) + Bit(p = o)
  BY <1>1, HandleMore
<1> DEFINE done == <<>>
<1>4. done \in Seq(AllTasks) /\ Does(t, done, done) /\ \A p : Weighs(done, p, 0, 0, 0, 0)
  BY ShortLists, WeighsEmpty
<1> HIDE DEF done
<1>5. agenda' \in [Threads -> Seq(AllTasks)]
  BY <1>4, AgendaAfter
<1>6. TypeOK'
  BY <1>1, <1>2, <1>5 DEF TypeOK, links, deferral
<1>7. ASSUME NEW p \in Objects PROVE Balanced(p, done, done)
  <2>1. Weighs(done, p, 0, 0, 0, 0)
    BY <1>4
  <2>2. /\ Occurs({p}, sources)' = Occurs({p}, sources) /\ Occurs({p}, targets)' = Occurs({p}, targets)
        /\ HasNode(p)' = HasNode(p) /\ HasSink(p)' = HasSink(p) /\ nodeRefs'[p] = nodeRefs[p]
    BY DEF links, HasNode, HasSink
  <2>3. ASSUME p \in Streams
        PROVE  /\ Number(p, "strong")' = Number(p, "strong") /\ Number(p, "node")' = Number(p, "node")
               /\ Number(p, "stream")' = Number(p, "stream") + Bit(p = o)
               /\ Number(p, "stream") \in Nat /\ Number(p, "strong") \in Nat /\ Number(p, "node") \in Nat
               /\ Handles(p) \in Nat /\ Occurs({p}, sources) \in Nat /\ Bit(p = o) \in Nat
    <3>1. /\ Number(p, "strong")' = Number(p, "strong") + Bit(p = o /\ "strong" = "stream")
          /\ Number(p, "stream")' = Number(p, "stream") + Bit(p = o /\ "stream" = "stream")
          /\ Number(p, "node")' = Number(p, "node") + Bit(p = o /\ "node" = "stream")
      BY <1>2, <2>3, SomeKinds
    <3>2. /\ Number(p, "stream") \in Nat /\ Number(p, "strong") \in Nat /\ Number(p, "node") \in Nat
          /\ Handles(p) \in Nat /\ Occurs({p}, sources) \in Nat
      BY <2>3, RefParts, SomeKinds
    <3> QED
      BY <3>1, <3>2 DEF Bit
  <2> QED
    BY <1>3, <2>1, <2>2, <2>3 DEF Balanced, Weighs
<1> QED
  BY <1>4, <1>6, <1>7, Balance

LEMMA HandleDroppedCounts ==
  ASSUME TypeOK, Counted, NEW t \in Threads, NEW o, HandleDropped(t, o)
  PROVE  TypeOK' /\ Counted'
<1> USE DEF HandleDropped
<1>1. o \in Streams
  BY DEF TypeOK
<1>3. \A p : Handles(p) = Handles(p)' + Bit(p = o)
  BY HandleLess
<1> DEFINE done == <<>>  tasks == <<Release(o, "stream")>>
<1>4. /\ done \in Seq(AllTasks) /\ tasks \in Seq(AllTasks) /\ Does(t, done, tasks)
      /\ \A p : Weighs(done, p, 0, 0, 0, 0)
      /\ \A p : Weighs(tasks, p, Bit(p = o /\ "stream" = "strong"), Bit(p = o /\ "stream" = "stream"),
                       Bit(p = o /\ "stream" = "node"), 0)
  BY <1>1, ShortLists, TaskTypes, SomeKinds, WeighsEmpty, WeighsRelease
<1> HIDE DEF done, tasks
<1>5. agenda' \in [Threads -> Seq(AllTasks)]
  BY <1>4, AgendaAfter
<1>6. TypeOK'
  BY <1>1, <1>5 DEF TypeOK, links, deferral
<1>7. ASSUME NEW p \in Objects PROVE Balanced(p, done, tasks)
  <2>1. Weighs(done, p, 0, 0, 0, 0) /\ Weighs(tasks, p, 0, Bit(p = o), 0, 0)
    BY <1>4 DEF Bit
  <2>2. /\ Occurs({p}, sources)' = Occurs({p}, sources) /\ Occurs({p}, targets)' = Occurs({p}, targets)
        /\ HasNode(p)' = HasNode(p) /\ HasSink(p)' = HasSink(p) /\ nodeRefs'[p] = nodeRefs[p]
    BY DEF links, HasNode, HasSink
  <2>3. /\ Number(p, "strong")' = Number(p, "strong") /\ Number(p, "node")' = Number(p, "node")
        /\ Number(p, "stream")' = Number(p, "stream")
    BY DEF Number
  <2>4. /\ p \in Streams => Number(p, "stream") \in Nat
        /\ Handles(p)' \in Nat /\ Occurs({p}, sources) \in Nat /\ Bit(p = o) \in Nat
    BY <1>6, RefParts, RefPartsNext, SomeKinds DEF Bit
  <2> QED
    BY <1>3, <2>1, <2>2, <2>3, <2>4 DEF Balanced, Weighs
<1> QED
  BY <1>4, <1>6, <1>7, Balance

LEMMA SinkDroppedCounts ==
  ASSUME TypeOK, Counted, NEW t \in Threads, NEW o, SinkDropped(t, o)
  PROVE  TypeOK' /\ Counted'
<1> USE DEF SinkDropped
<1>1. o \in Objects
  BY SomeKinds DEF TypeOK
<1> DEFINE done == <<>>  tasks == <<DropNode(o)>>
<1>4. /\ done \in Seq(AllTasks) /\ tasks \in Seq(AllTasks) /\ Does(t, done, tasks)
      /\ \A p : Weighs(done, p, 0, 0, 0, 0)
      /\ \A p : Weighs(tasks, p, 0, 0, 0, Bit(p = o))
  BY <1>1, ShortLists, TaskTypes, WeighsEmpty, WeighsDrop
<1> HIDE DEF done, tasks
<1>5. agenda' \in [Threads -> Seq(AllTasks)]
  BY <1>4, AgendaAfter
<1>6. TypeOK'
  BY <1>1, <1>5 DEF TypeOK, links, deferral
<1>7. ASSUME NEW p \in Objects PROVE Balanced(p, done, tasks)
  <2>1. Weighs(done, p, 0, 0, 0, 0) /\ Weighs(tasks, p, 0, 0, 0, Bit(p = o))
    BY <1>4
  <2>2. /\ Occurs({p}, sources)' = Occurs({p}, sources) /\ Occurs({p}, targets)' = Occurs({p}, targets)
        /\ HasNode(p)' = HasNode(p) /\ nodeRefs'[p] = nodeRefs[p] /\ Handles(p)' = Handles(p)
    BY DEF links, HasNode, Handles
  <2>3. /\ Number(p, "strong")' = Number(p, "strong") /\ Number(p, "node")' = Number(p, "node")
        /\ Number(p, "stream")' = Number(p, "stream")
    BY DEF Number
  <2>4. HasSink(p) = HasSink(p)' + Bit(p = o) /\ HasSink(p)' \in Nat /\ Bit(p = o) \in Nat
    BY DEF HasSink, Bit
  <2>5. nodeRefs[p] \in Nat /\ Occurs({p}, targets) \in Nat
    BY RefParts DEF TypeOK
  <2> QED
    BY <2>1, <2>2, <2>3, <2>4, <2>5 DEF Balanced, Weighs
<1> QED
  BY <1>4, <1>6, <1>7, Balance

\* A new stream.
LEMMA NewStreamRefs ==
  ASSUME TypeOK, Counted, Fresh, NEW t \in Threads, NEW o \in Streams, NewStream(t, o)
  PROVE  /\ counts' \in [Streams -> CountSets] /\ func' \in [Streams -> BOOLEAN]
         /\ maker' \in [Objects -> Threads \cup {NoThread}] /\ held' \in [Threads -> SUBSET Streams]
         /\ nodeRefs' \in [Objects -> Nat]
         /\ \A p \in Streams : /\ Number(p, "strong")' = Number(p, "strong")
                               /\ Number(p, "stream")' = Number(p, "stream") + Bit(p = o)
                               /\ Number(p, "node")' = Number(p, "node") + Bit(p = o)
         /\ \A p \in Objects : /\ Handles(p)' = Handles(p) + Bit(p = o)
                               /\ HasNode(p)' = HasNode(p) + Bit(p = o)
                               /\ nodeRefs'[p] = nodeRefs[p] + Bit(p = o)
         /\ o \notin sinks
<1> USE DEF NewStream
<1>1. o \in Objects /\ nodeRefs[o] = 0 /\ Zero(o)
  BY SomeKinds DEF Fresh, Made
<1>2. Referred
  BY NoReferences
<1>3. ~Held(o) /\ o \notin sinks
  BY <1>1, <1>2, SomeKinds DEF Referred, Zero
<1> DEFINE c == inc(inc(empty, "node"), "stream")
<1>4. /\ c \in CountSets
      /\ c.count["strong"] = 0 /\ c.count["stream"] = 1 /\ c.count["node"] = 1
  BY NewCounts
<1>5. counts' = [counts EXCEPT ![o] = c]
  OBVIOUS
<1> HIDE DEF c
<1>6. counts' \in [Streams -> CountSets]
  BY <1>4, <1>5 DEF TypeOK
<1>7. ASSUME NEW p \in Streams
      PROVE  /\ Number(p, "strong")' = Number(p, "strong")
             /\ Number(p, "stream")' = Number(p, "stream") + Bit(p = o)
             /\ Number(p, "node")' = Number(p, "node") + Bit(p = o)
  <2>1. CASE p = o
    <3>1. Number(p, "strong") = 0 /\ Number(p, "stream") = 0 /\ Number(p, "node") = 0
      BY <1>1, <2>1, SomeKinds DEF Zero
    <3>2. counts'[p] = c
      BY <1>5, <2>1 DEF TypeOK
    <3>3. Number(p, "strong")' = 0 /\ Number(p, "stream")' = 1 /\ Number(p, "node")' = 1
      BY <1>4, <3>2 DEF Number
    <3> QED
      BY <2>1, <3>1, <3>3 DEF Bit
  <2>2. CASE p # o
    <3>1. counts'[p] = counts[p]
      BY <1>5, <2>2 DEF TypeOK
    <3>2. /\ Number(p, "strong")' = Number(p, "strong") /\ Number(p, "stream")' = Number(p, "stream")
          /\ Number(p, "node")' = Number(p, "node")
      BY <3>1 DEF Number
    <3>3. Number(p, "stream") \in Nat /\ Number(p, "node") \in Nat
      BY RefParts, SomeKinds
    <3> QED
      BY <2>2, <3>2, <3>3 DEF Bit
  <2> QED
    BY <2>1, <2>2
<1>8. \A p : Handles(p)' = Handles(p) + Bit(p = o)
  <2>1. o \notin held[t]
    BY <1>3 DEF Held
  <2> QED
    BY <2>1, HandleMore
<1>9. ASSUME NEW p \in Objects
      PROVE  HasNode(p)' = HasNode(p) + Bit(p = o) /\ nodeRefs'[p] = nodeRefs[p] + Bit(p = o)
  BY <1>1 DEF TypeOK, HasNode, Bit
<1>10. /\ func' \in [Streams -> BOOLEAN] /\ nodeRefs' \in [Objects -> Nat]
       /\ maker' \in [Objects -> Threads \cup {NoThread}] /\ held' \in [Threads -> SUBSET Streams]
  BY <1>1 DEF TypeOK
<1> QED
  BY <1>3, <1>6, <1>7, <1>8, <1>9, <1>10

LEMMA SinkMadeCounts ==
  ASSUME TypeOK, Counted, Fresh, NEW t \in Threads, NEW o, SinkMade(t, o)
  PROVE  TypeOK' /\ Counted'
<1> USE DEF SinkMade
<1> DEFINE done == <<>>
<1>4. done \in Seq(AllTasks) /\ Does(t, done, done) /\ \A p : Weighs(done, p, 0, 0, 0, 0)
  BY ShortLists, WeighsEmpty
<1> HIDE DEF done
<1>5. agenda' \in [Threads -> Seq(AllTasks)]
  BY <1>4, AgendaAfter
<1>6. TypeOK'
  BY <1>5, NewStreamRefs DEF TypeOK, links, deferral
<1>7. ASSUME NEW p \in Objects PROVE Balanced(p, done, done)
  <2>1. Weighs(done, p, 0, 0, 0, 0)
    BY <1>4
  <2>2. Occurs({p}, sources)' = Occurs({p}, sources) /\ Occurs({p}, targets)' = Occurs({p}, targets)
    BY DEF links
  <2>3. /\ p \in Streams => /\ Number(p, "strong")' = Number(p, "strong")
                            /\ Number(p, "stream")' = Number(p, "stream") + Bit(p = o)
                            /\ Number(p, "node")' = Number(p, "node") + Bit(p = o)
                            /\ Number(p, "stream") \in Nat /\ Number(p, "node") \in Nat
                            /\ Number(p, "strong") \in Nat
        /\ Handles(p)' = Handles(p) + Bit(p = o)
        /\ HasNode(p)' = HasNode(p) + Bit(p = o)
        /\ nodeRefs'[p] = nodeRefs[p] + Bit(p = o)
    BY NewStreamRefs, RefParts, SomeKinds
  <2>4. HasSink(p)' = HasSink(p) + Bit(p = o)
    BY NewStreamRefs DEF HasSink, Bit
  <2>5. /\ Handles(p) \in Nat /\ Occurs({p}, sources) \in Nat /\ Bit(p = o) \in Nat
        /\ HasNode(p) \in Nat /\ HasSink(p) \in Nat /\ Occurs({p}, targets) \in Nat /\ nodeRefs[p] \in Nat
    BY RefParts DEF Bit, HasNode, HasSink, TypeOK
  <2> HIDE DEF SinkMade
  <2>6. /\ Count(Strong(p), done) = 0 /\ Count(Stream(p), done) = 0
        /\ Count(Node(p), done) = 0 /\ Count(Drops(p), done) = 0
    BY <2>1 DEF Weighs
  <2> QED
    BY <2>2, <2>3, <2>4, <2>5, <2>6 DEF Balanced
<1> QED
  BY <1>4, <1>6, <1>7, Balance

LEMMA StreamMadeCounts ==
  ASSUME TypeOK, Counted, Fresh, NEW t \in Threads, NEW o, StreamMade(t, o)
  PROVE  TypeOK' /\ Counted'
<1> USE DEF StreamMade
<1> DEFINE done == <<>>  tasks == Making(t, o)
<1>0. o \in Objects
  BY SomeKinds
<1>4. /\ done \in Seq(AllTasks) /\ tasks \in Seq(AllTasks) /\ Does(t, done, tasks)
      /\ \A p : Weighs(done, p, 0, 0, 0, 0) /\ Weighs(tasks, p, 0, 0, 0, Bit(p = o))
  BY <1>0, ShortLists, MakingType, WeighsEmpty, WeighsMaking
<1> HIDE DEF done, tasks
<1>5. agenda' \in [Threads -> Seq(AllTasks)]
  BY <1>4, AgendaAfter
<1>6. TypeOK'
  <2>1. read' \in [Threads -> Int] /\ UNCHANGED <<depth, posts, processing_post>>
    BY DEF TypeOK, ReadDepth
  <2> QED
    BY <1>5, <2>1, NewStreamRefs DEF TypeOK, links
<1>7. ASSUME NEW p \in Objects PROVE Balanced(p, done, tasks)
  <2>1. Weighs(done, p, 0, 0, 0, 0) /\ Weighs(tasks, p, 0, 0, 0, Bit(p = o))
    BY <1>4
  <2>2. /\ Occurs({p}, sources)' = Occurs({p}, sources) /\ Occurs({p}, targets)' = Occurs({p}, targets)
        /\ HasSink(p)' = HasSink(p)
    BY DEF links, HasSink
  <2>3. /\ p \in Streams => /\ Number(p, "strong")' = Number(p, "strong")
                            /\ Number(p, "stream")' = Number(p, "stream") + Bit(p = o)
                            /\ Number(p, "node")' = Number(p, "node") + Bit(p = o)
                            /\ Number(p, "stream") \in Nat /\ Number(p, "node") \in Nat
                            /\ Number(p, "strong") \in Nat
        /\ Handles(p)' = Handles(p) + Bit(p = o)
        /\ HasNode(p)' = HasNode(p) + Bit(p = o)
        /\ nodeRefs'[p] = nodeRefs[p] + Bit(p = o)
    BY NewStreamRefs, RefParts, SomeKinds
  <2>5. /\ Handles(p) \in Nat /\ Occurs({p}, sources) \in Nat /\ Bit(p = o) \in Nat
        /\ HasNode(p) \in Nat /\ HasSink(p) \in Nat /\ Occurs({p}, targets) \in Nat /\ nodeRefs[p] \in Nat
    BY RefParts DEF Bit, HasNode, HasSink, TypeOK
  <2> HIDE DEF StreamMade
  <2>6. /\ Count(Strong(p), done) = 0 /\ Count(Stream(p), done) = 0
        /\ Count(Node(p), done) = 0 /\ Count(Drops(p), done) = 0
        /\ Count(Strong(p), tasks) = 0 /\ Count(Stream(p), tasks) = 0
        /\ Count(Node(p), tasks) = 0 /\ Count(Drops(p), tasks) = Bit(p = o)
    BY <2>1 DEF Weighs
  <2> QED
    BY <2>2, <2>3, <2>5, <2>6 DEF Balanced
<1> QED
  BY <1>4, <1>6, <1>7, Balance

LEMMA ListenerMadeCounts ==
  ASSUME TypeOK, Counted, Fresh, NEW t \in Threads, NEW o, ListenerMade(t, o)
  PROVE  TypeOK' /\ Counted'
<1> USE DEF ListenerMade
<1> DEFINE done == <<>>  tasks == Making(t, o)
<1>0. o \in Objects /\ o \notin Streams /\ nodeRefs[o] = 0
  BY SomeKinds, ObjectsAssumption DEF Fresh
<1>4. /\ done \in Seq(AllTasks) /\ tasks \in Seq(AllTasks) /\ Does(t, done, tasks)
      /\ \A p : Weighs(done, p, 0, 0, 0, 0) /\ Weighs(tasks, p, 0, 0, 0, Bit(p = o))
  BY <1>0, ShortLists, MakingType, WeighsEmpty, WeighsMaking
<1> HIDE DEF done, tasks
<1>5. agenda' \in [Threads -> Seq(AllTasks)]
  BY <1>4, AgendaAfter
<1>6. TypeOK'
  <2>1. read' \in [Threads -> Int]
    BY DEF TypeOK, ReadDepth
  <2> QED
    BY <1>0, <1>5, <2>1 DEF TypeOK, links
<1>7. ASSUME NEW p \in Objects PROVE Balanced(p, done, tasks)
  <2>1. Weighs(done, p, 0, 0, 0, 0) /\ Weighs(tasks, p, 0, 0, 0, Bit(p = o))
    BY <1>4
  <2>2. /\ Occurs({p}, sources)' = Occurs({p}, sources) /\ Occurs({p}, targets)' = Occurs({p}, targets)
        /\ HasSink(p)' = HasSink(p) /\ Handles(p)' = Handles(p)
        /\ Number(p, "strong")' = Number(p, "strong") /\ Number(p, "node")' = Number(p, "node")
        /\ Number(p, "stream")' = Number(p, "stream")
    BY DEF links, HasSink, Handles, Number
  <2>3. p \in Streams => HasNode(p)' = HasNode(p)
    BY <1>0 DEF HasNode, TypeOK
  <2>4. nodeRefs'[p] = nodeRefs[p] + Bit(p = o)
    BY <1>0 DEF TypeOK, Bit
  <2>5. /\ Bit(p = o) \in Nat
        /\ HasSink(p) \in Nat /\ Occurs({p}, targets) \in Nat /\ nodeRefs[p] \in Nat
    BY RefParts DEF Bit, HasSink, TypeOK
  <2> QED
    BY <2>1, <2>2, <2>3, <2>4, <2>5 DEF Balanced, Weighs
<1> QED
  BY <1>4, <1>6, <1>7, Balance

\* What is taken off an agenda was on it.
LEMMA DoneIsDue ==
  ASSUME TypeOK, NEW t \in Threads, NEW a \in AllTasks, NEW tasks \in Seq(AllTasks),
         Does(t, <<a>>, tasks)
  PROVE  a \in Tasks /\ a \in Range(agenda[t])
<1> DEFINE done == <<a>>
<1>1. done \in Seq(AllTasks) /\ Range(done) = {a}
  BY ShortLists
<1> HIDE DEF done
<1>2. Range(done) \subseteq Range(agenda[t])
  BY <1>1, AgendaAfter DEF done
<1> QED
  BY <1>1, <1>2 DEF Tasks

\* A reference that is to go is counted.
LEMMA ReleaseCounted ==
  ASSUME TypeOK, Counted, NEW o \in Streams
  PROVE  /\ \A k \in Kinds : Release(o, k) \in Tasks => Number(o, k) # 0
         /\ Task("relock", o, o) \in Tasks => Number(o, "strong") # 0
<1>1. Referred
  BY NoReferences
<1>2. Release(o, "strong") \in Strong(o) /\ Task("relock", o, o) \in Strong(o)
  BY DEF Strong
<1>3. Release(o, "strong") \in Tasks \/ Task("relock", o, o) \in Tasks => Number(o, "strong") # 0
  BY <1>1, <1>2 DEF Referred
<1>4. Release(o, "stream") \in Tasks => Number(o, "stream") # 0
  BY <1>1 DEF Referred
<1>5. Release(o, "node") \in Tasks => Number(o, "node") # 0
  BY <1>1 DEF Referred
<1> QED
  BY <1>3, <1>4, <1>5 DEF Kinds

\* Only counts and an agenda change.
LEMMA CountsChange ==
  ASSUME TypeOK, Counted, TypeOK', UNCHANGED <<held, sources, targets, sinks, nodeRefs>>,
         NEW t \in Threads, NEW done \in Seq(AllTasks), NEW tasks \in Seq(AllTasks),
         Does(t, done, tasks),
         \A p \in Streams :
           /\ Number(p, "strong")' + Count(Strong(p), done) = Number(p, "strong") + Count(Strong(p), tasks)
           /\ Number(p, "stream")' + Count(Stream(p), done) = Number(p, "stream") + Count(Stream(p), tasks)
           /\ Number(p, "node")' + Count(Node(p), done) = Number(p, "node") + Count(Node(p), tasks),
         \A p \in Objects : Count(Drops(p), done) = Count(Drops(p), tasks)
  PROVE  Counted'
<1>1. ASSUME NEW p \in Objects PROVE Balanced(p, done, tasks)
  <2>1. /\ Occurs({p}, sources)' = Occurs({p}, sources) /\ Occurs({p}, targets)' = Occurs({p}, targets)
        /\ HasSink(p)' = HasSink(p) /\ Handles(p)' = Handles(p) /\ HasNode(p)' = HasNode(p)
        /\ nodeRefs'[p] = nodeRefs[p]
    BY DEF HasSink, Handles, HasNode
  <2>2. Count(Drops(p), done) = Count(Drops(p), tasks)
    OBVIOUS
  <2>3. ASSUME p \in Streams
        PROVE  Number(p, "stream")' + Count(Stream(p), done) + Handles(p) + Occurs({p}, sources)
                 = Number(p, "stream") + Count(Stream(p), tasks) + Handles(p)' + Occurs({p}, sources)'
    <3>1. Number(p, "stream")' + Count(Stream(p), done) = Number(p, "stream") + Count(Stream(p), tasks)
      BY <2>3
    <3> QED
      BY <2>1, <3>1
  <2> QED
    BY <2>1, <2>2, <2>3 DEF Balanced
<1> QED
  BY <1>1, Balance

LEMMA CleanupStartsCounts ==
  ASSUME TypeOK, Counted, NEW t \in Threads, NEW o, NEW k, CleanupStarts(t, o, k), Room
  PROVE  /\ TypeOK' /\ Counted'
         /\ Number(o, k) # 0
         /\ \A p \in Streams, j \in Kinds :
              Number(p, j)' = Number(p, j) - Bit(p = o /\ j = k) + Bit(p = o /\ j = "strong")
         /\ Number(o, "strong")' = 1
         /\ Number(o, "stream")' = 0 \/ Number(o, "node")' = 0
<1> USE DEF CleanupStarts
<1> DEFINE a == Release(o, k)  done == <<a>>
           tasks == Each("kill", cleanups[o], o) \o <<Task("clear", o, o), Task("relock", o, o)>>
<1>1. /\ a \in AllTasks /\ done \in Seq(AllTasks) /\ tasks \in Seq(AllTasks) /\ Does(t, done, tasks)
      /\ o \in Objects
  BY TaskTypes, ShortLists, CleanupType, SomeKinds
<1>2. \A p : /\ Weighs(done, p, Bit(p = o /\ k = "strong"), Bit(p = o /\ k = "stream"),
                       Bit(p = o /\ k = "node"), 0)
             /\ Weighs(tasks, p, Bit(p = o), 0, 0, 0)
  BY WeighsRelease, WeighsCleanup
<1>3. a \in Tasks
  <2> HIDE DEF tasks, a
  <2> QED
    BY <1>1, DoneIsDue DEF done
<1>4. Number(o, k) # 0
  BY <1>3, ReleaseCounted
<1> DEFINE c == dec(counts[o], k)
<1>5. /\ c \in CountSets
      /\ \A j \in Kinds : Number(o, j) \in Nat /\ c.count[j] = Number(o, j) - Bit(j = k)
  <2>1. /\ c \in CountSets
        /\ Dec(o, k)[o] = c
        /\ \A j \in Kinds : Number(o, j) \in Nat /\ Dec(o, k)[o].count[j] = Number(o, j) - Bit(o = o /\ j = k)
    BY <1>4, OneLessRef
  <2> HIDE DEF c
  <2> QED
    BY <2>1
<1>6. counts' = [counts EXCEPT ![o] = inc(c, "strong")] /\ ~active(c)
  BY DEF TypeOK
<1> HIDE DEF done, tasks, c
<1>7. /\ c.count["strong"] < LargeMax /\ c.count \in [Kinds -> Nat]
      /\ c.count["strong"] = 0 /\ (c.count["stream"] = 0 \/ c.count["node"] = 0)
  <2>1. c.count \in [Kinds -> Nat]
    BY <1>5 DEF CountSets
  <2>2. c.count["strong"] = 0 /\ (c.count["stream"] = 0 \/ c.count["node"] = 0)
    <3>1. c.count["strong"] \in Nat /\ c.count["stream"] \in Nat /\ c.count["node"] \in Nat
      BY <2>1, SomeKinds
    <3> QED
      BY <1>6, <3>1 DEF active
  <2>3. 0 < LargeMax
    BY LimitsAssumption, SomeKinds
  <2> QED
    BY <2>1, <2>2, <2>3
<1>8. /\ inc(c, "strong") \in CountSets
      /\ inc(c, "strong").count = [c.count EXCEPT !["strong"] = @ + 1]
  BY <1>5, <1>7, IncAddsOne, SomeKinds
<1>9. counts' \in [Streams -> CountSets]
  BY <1>6, <1>8 DEF TypeOK
<1>10. ASSUME NEW p \in Streams, NEW j \in Kinds
       PROVE  Number(p, j)' = Number(p, j) - Bit(p = o /\ j = k) + Bit(p = o /\ j = "strong")
  <2>0. Number(p, j) \in Nat
    BY RefParts
  <2>1. CASE p = o
    <3>1. counts'[p] = inc(c, "strong")
      BY <1>6, <2>1 DEF TypeOK
    <3>2. Number(p, j)' = [c.count EXCEPT !["strong"] = @ + 1][j]
      BY <1>8, <3>1 DEF Number
    <3>3. [c.count EXCEPT !["strong"] = @ + 1][j] = c.count[j] + Bit(j = "strong")
      BY <1>7 DEF Bit
    <3>4. c.count[j] = Number(p, j) - Bit(j = k)
      BY <1>5, <2>1
    <3> QED
      BY <2>0, <2>1, <3>2, <3>3, <3>4 DEF Bit
  <2>2. CASE p # o
    <3>1. counts'[p] = counts[p]
      BY <1>6, <2>2 DEF TypeOK
    <3> QED
      BY <2>0, <2>2, <3>1 DEF Number, Bit
  <2> QED
    BY <2>1, <2>2
<1>11. agenda' \in [Threads -> Seq(AllTasks)]
  BY <1>1, AgendaAfter DEF done, tasks
<1>12. TypeOK'
  <2>1. cleanups' \in [Objects -> Seq(Streams)]
    BY <1>1 DEF TypeOK
  <2> QED
    BY <1>9, <1>11, <2>1 DEF TypeOK, links, owners, deferral
<1>13. ASSUME NEW p \in Streams
       PROVE  /\ Number(p, "strong")' + Count(Strong(p), done) = Number(p, "strong") + Count(Strong(p), tasks)
              /\ Number(p, "stream")' + Count(Stream(p), done) = Number(p, "stream") + Count(Stream(p), tasks)
              /\ Number(p, "node")' + Count(Node(p), done) = Number(p, "node") + Count(Node(p), tasks)
  <2>1. /\ Number(p, "strong")' = Number(p, "strong") - Bit(p = o /\ "strong" = k)
                                    + Bit(p = o /\ "strong" = "strong")
        /\ Number(p, "stream")' = Number(p, "stream") - Bit(p = o /\ "stream" = k)
                                    + Bit(p = o /\ "stream" = "strong")
        /\ Number(p, "node")' = Number(p, "node") - Bit(p = o /\ "node" = k)
                                    + Bit(p = o /\ "node" = "strong")
    BY <1>10, SomeKinds
  <2>2. Number(p, "strong") \in Nat /\ Number(p, "stream") \in Nat /\ Number(p, "node") \in Nat
    BY RefParts, SomeKinds
  <2>3. /\ Weighs(done, p, Bit(p = o /\ k = "strong"), Bit(p = o /\ k = "stream"),
                  Bit(p = o /\ k = "node"), 0)
        /\ Weighs(tasks, p, Bit(p = o), 0, 0, 0)
    BY <1>2 DEF done, tasks
  <2> QED
    BY <2>1, <2>2, <2>3 DEF Weighs, Bit
<1>14. \A p \in Objects : Count(Drops(p), done) = Count(Drops(p), tasks)
  BY <1>2 DEF Weighs, done, tasks
<1>15. Counted'
  <2>1. UNCHANGED <<held, sources, targets, sinks, nodeRefs>>
    BY DEF links, owners
  <2>2. done \in Seq(AllTasks) /\ tasks \in Seq(AllTasks) /\ Does(t, done, tasks)
    BY <1>1 DEF done, tasks
  <2> QED
    BY <1>12, <1>13, <1>14, <2>1, <2>2, CountsChange
<1>16. Number(o, "strong")' = 1 /\ (Number(o, "stream")' = 0 \/ Number(o, "node")' = 0)
  <2>1. counts'[o] = inc(c, "strong")
    BY <1>6 DEF TypeOK
  <2>2. /\ Number(o, "strong")' = c.count["strong"] + 1
        /\ Number(o, "stream")' = c.count["stream"] /\ Number(o, "node")' = c.count["node"]
    BY <1>7, <1>8, <2>1, SomeKinds DEF Number
  <2> QED
    BY <1>7, <2>2
<1> QED
  BY <1>4, <1>10, <1>12, <1>15, <1>16

LEMMA ReleasedCounts ==
  ASSUME TypeOK, Counted, NEW t \in Threads, NEW o, NEW k, Released(t, o, k)
  PROVE  /\ TypeOK' /\ Counted'
         /\ Number(o, k) # 0
         /\ \A p \in Streams, j \in Kinds : Number(p, j)' = Number(p, j) - Bit(p = o /\ j = k)
<1> USE DEF Released
<1> DEFINE a == Release(o, k)  done == <<a>>  tasks == <<>>
<1>1. a \in AllTasks /\ done \in Seq(AllTasks) /\ tasks \in Seq(AllTasks) /\ Does(t, done, tasks)
  BY TaskTypes, ShortLists
<1>2. \A p : /\ Weighs(done, p, Bit(p = o /\ k = "strong"), Bit(p = o /\ k = "stream"),
                       Bit(p = o /\ k = "node"), 0)
             /\ Weighs(tasks, p, 0, 0, 0, 0)
  BY WeighsRelease, WeighsEmpty
<1>3. a \in Tasks
  <2> HIDE DEF tasks, a
  <2> QED
    BY <1>1, DoneIsDue DEF done
<1>4. Number(o, k) # 0
  BY <1>3, ReleaseCounted
<1>5. /\ counts' \in [Streams -> CountSets]
      /\ \A p \in Streams, j \in Kinds : Number(p, j) \in Nat /\ Number(p, j)' = Number(p, j) - Bit(p = o /\ j = k)
  BY <1>4, OneLessRef DEF Number
<1> HIDE DEF done, tasks
<1>6. agenda' \in [Threads -> Seq(AllTasks)]
  BY <1>1, AgendaAfter DEF done, tasks
<1>7. TypeOK'
  BY <1>5, <1>6 DEF TypeOK, links, owners, deferral
<1>8. ASSUME NEW p \in Streams
      PROVE  /\ Number(p, "strong")' + Count(Strong(p), done) = Number(p, "strong") + Count(Strong(p), tasks)
             /\ Number(p, "stream")' + Count(Stream(p), done) = Number(p, "stream") + Count(Stream(p), tasks)
             /\ Number(p, "node")' + Count(Node(p), done) = Number(p, "node") + Count(Node(p), tasks)
  <2>1. /\ Number(p, "strong")' = Number(p, "strong") - Bit(p = o /\ "strong" = k)
        /\ Number(p, "stream")' = Number(p, "stream") - Bit(p = o /\ "stream" = k)
        /\ Number(p, "node")' = Number(p, "node") - Bit(p = o /\ "node" = k)
        /\ Number(p, "strong") \in Nat /\ Number(p, "stream") \in Nat /\ Number(p, "node") \in Nat
    BY <1>5, SomeKinds
  <2>2. /\ Weighs(done, p, Bit(p = o /\ k = "strong"), Bit(p = o /\ k = "stream"),
                  Bit(p = o /\ k = "node"), 0)
        /\ Weighs(tasks, p, 0, 0, 0, 0)
    BY <1>2 DEF done, tasks
  <2> QED
    BY <2>1, <2>2 DEF Weighs, Bit
<1>9. \A p \in Objects : Count(Drops(p), done) = Count(Drops(p), tasks)
  BY <1>2 DEF Weighs, done, tasks
<1>10. Counted'
  <2>1. UNCHANGED <<held, sources, targets, sinks, nodeRefs>>
    BY DEF links, owners
  <2>2. done \in Seq(AllTasks) /\ tasks \in Seq(AllTasks) /\ Does(t, done, tasks)
    BY <1>1 DEF done, tasks
  <2> QED
    BY <1>7, <1>8, <1>9, <2>1, <2>2, CountsChange
<1> QED
  BY <1>4, <1>5, <1>7, <1>10

LEMMA RelockedCounts ==
  ASSUME TypeOK, Counted, NEW t \in Threads, NEW o, Relocked(t, o)
  PROVE  /\ TypeOK' /\ Counted'
         /\ Number(o, "strong") # 0
         /\ \A p \in Streams, j \in Kinds : Number(p, j)' = Number(p, j) - Bit(p = o /\ j = "strong")
<1> USE DEF Relocked
<1> DEFINE a == Task("relock", o, o)  done == <<a>>  tasks == <<>>
<1>1. a \in AllTasks /\ done \in Seq(AllTasks) /\ tasks \in Seq(AllTasks) /\ Does(t, done, tasks)
  BY TaskTypes, ShortLists
<1>2. \A p : Weighs(done, p, Bit(p = o), 0, 0, 0) /\ Weighs(tasks, p, 0, 0, 0, 0)
  BY WeighsRelock, WeighsEmpty
<1>3. a \in Tasks
  <2> HIDE DEF tasks, a
  <2> QED
    BY <1>1, DoneIsDue DEF done
<1>4. Number(o, "strong") # 0
  BY <1>3, ReleaseCounted
<1>5. /\ counts' \in [Streams -> CountSets]
      /\ \A p \in Streams, j \in Kinds :
           Number(p, j) \in Nat /\ Number(p, j)' = Number(p, j) - Bit(p = o /\ j = "strong")
  BY <1>4, OneLessRef, SomeKinds DEF Number
<1> HIDE DEF done, tasks
<1>6. agenda' \in [Threads -> Seq(AllTasks)]
  BY <1>1, AgendaAfter DEF done, tasks
<1>7. TypeOK'
  BY <1>5, <1>6 DEF TypeOK, links, owners, deferral
<1>8. ASSUME NEW p \in Streams
      PROVE  /\ Number(p, "strong")' + Count(Strong(p), done) = Number(p, "strong") + Count(Strong(p), tasks)
             /\ Number(p, "stream")' + Count(Stream(p), done) = Number(p, "stream") + Count(Stream(p), tasks)
             /\ Number(p, "node")' + Count(Node(p), done) = Number(p, "node") + Count(Node(p), tasks)
  <2>1. /\ Number(p, "strong")' = Number(p, "strong") - Bit(p = o /\ "strong" = "strong")
        /\ Number(p, "stream")' = Number(p, "stream") - Bit(p = o /\ "stream" = "strong")
        /\ Number(p, "node")' = Number(p, "node") - Bit(p = o /\ "node" = "strong")
        /\ Number(p, "strong") \in Nat /\ Number(p, "stream") \in Nat /\ Number(p, "node") \in Nat
    BY <1>5, SomeKinds
  <2>2. Weighs(done, p, Bit(p = o), 0, 0, 0) /\ Weighs(tasks, p, 0, 0, 0, 0)
    BY <1>2 DEF done, tasks
  <2> QED
    BY <2>1, <2>2 DEF Weighs, Bit
<1>9. \A p \in Objects : Count(Drops(p), done) = Count(Drops(p), tasks)
  BY <1>2 DEF Weighs, done, tasks
<1>10. Counted'
  <2>1. UNCHANGED <<held, sources, targets, sinks, nodeRefs>>
    BY DEF links, owners
  <2>2. done \in Seq(AllTasks) /\ tasks \in Seq(AllTasks) /\ Does(t, done, tasks)
    BY <1>1 DEF done, tasks
  <2> QED
    BY <1>7, <1>8, <1>9, <2>1, <2>2, CountsChange
<1> QED
  BY <1>4, <1>5, <1>7, <1>10

LEMMA ListenerAddedCounts ==
  ASSUME TypeOK, Counted, NEW t \in Threads, NEW s, NEW o, ListenerAdded(t, s, o), Room
  PROVE  /\ TypeOK' /\ Counted'
         /\ \A p \in Streams, j \in Kinds : Number(p, j)' = Number(p, j) + Bit(p = s /\ j = "strong")
<1> USE DEF ListenerAdded
<1> DEFINE a == Task("listen", s, o)  done == <<a>>  tasks == ListenerCalls(s, o)
<1>1. a \in AllTasks /\ done \in Seq(AllTasks) /\ tasks \in Seq(AllTasks) /\ Does(t, done, tasks)
  BY TaskTypes, ShortLists, ListenerCallsType
<1>2. \A p : Weighs(done, p, 0, 0, 0, 0) /\ Weighs(tasks, p, Bit(p = s), 0, 0, 0)
  BY <1>1, WeighsOther, WeighsListener
<1>5. /\ counts' \in [Streams -> CountSets]
      /\ \A p \in Streams, j \in Kinds : Number(p, j)' = Number(p, j) + Bit(p = s /\ j = "strong")
  BY OneMore, SomeKinds DEF Room
<1> HIDE DEF done, tasks
<1>6. agenda' \in [Threads -> Seq(AllTasks)]
  BY <1>1, AgendaAfter DEF done, tasks
<1>7. TypeOK'
  BY <1>5, <1>6 DEF TypeOK, links, owners, deferral
<1>8. ASSUME NEW p \in Streams
      PROVE  /\ Number(p, "strong")' + Count(Strong(p), done) = Number(p, "strong") + Count(Strong(p), tasks)
             /\ Number(p, "stream")' + Count(Stream(p), done) = Number(p, "stream") + Count(Stream(p), tasks)
             /\ Number(p, "node")' + Count(Node(p), done) = Number(p, "node") + Count(Node(p), tasks)
  <2>1. /\ Number(p, "strong")' = Number(p, "strong") + Bit(p = s /\ "strong" = "strong")
        /\ Number(p, "stream")' = Number(p, "stream") + Bit(p = s /\ "stream" = "strong")
        /\ Number(p, "node")' = Number(p, "node") + Bit(p = s /\ "node" = "strong")
    BY <1>5, SomeKinds
  <2>2. Number(p, "strong") \in Nat /\ Number(p, "stream") \in Nat /\ Number(p, "node") \in Nat
    BY RefParts, SomeKinds
  <2>3. Weighs(done, p, 0, 0, 0, 0) /\ Weighs(tasks, p, Bit(p = s), 0, 0, 0)
    BY <1>2 DEF done, tasks
  <2> QED
    BY <2>1, <2>2, <2>3 DEF Weighs, Bit
<1>9. \A p \in Objects : Count(Drops(p), done) = Count(Drops(p), tasks)
  BY <1>2 DEF Weighs, done, tasks
<1>10. Counted'
  <2>1. UNCHANGED <<held, sources, targets, sinks, nodeRefs>>
    BY DEF links, owners
  <2>2. done \in Seq(AllTasks) /\ tasks \in Seq(AllTasks) /\ Does(t, done, tasks)
    BY <1>1 DEF done, tasks
  <2> QED
    BY <1>7, <1>8, <1>9, <2>1, <2>2, CountsChange
<1> QED
  BY <1>5, <1>7, <1>10


\* Links come and go.
LEMMA NodesLinkedCounts ==
  ASSUME TypeOK, Counted, Room, NEW t \in Threads, NEW s, NEW o, NodesLinked(t, s, o), nodeRefs[o] > 0,
         s # o
  PROVE  TypeOK' /\ Counted'
<1> USE DEF NodesLinked
<1> DEFINE a == Task("link", s, o)  done == <<a>>  tasks == <<DropNode(s)>>
<1>1. /\ a \in AllTasks /\ done \in Seq(AllTasks) /\ tasks \in Seq(AllTasks) /\ Does(t, done, tasks)
      /\ s \in Objects
  BY TaskTypes, ShortLists, SomeKinds
<1>2. \A p : Weighs(done, p, 0, 0, 0, 0) /\ Weighs(tasks, p, 0, 0, 0, Bit(p = s))
  BY <1>1, WeighsOther, WeighsDrop
<1>3. /\ counts' \in [Streams -> CountSets]
      /\ \A p \in Streams, j \in Kinds : Number(p, j)' = Number(p, j) + Bit(p = s /\ j = "stream")
  BY OneMore, SomeKinds DEF Room
<1> HIDE DEF done, tasks
<1>4. agenda' \in [Threads -> Seq(AllTasks)]
  BY <1>1, AgendaAfter DEF done, tasks
<1> DEFINE q == <<s>> \o sources[o]  r == <<o>> \o targets[s]
<1>5. /\ q \in Seq(Streams) /\ r \in Seq(Objects)
      /\ \A p : Count({p}, q) = Bit(p = s) + Count({p}, sources[o])
      /\ \A p : Count({p}, r) = Bit(p = o) + Count({p}, targets[s])
  <2>1. sources[o] \in Seq(Streams) /\ targets[s] \in Seq(Objects)
    BY DEF TypeOK
  <2>2. <<s>> \in Seq(Streams) /\ <<o>> \in Seq(Objects)
    OBVIOUS
  <2>3. ASSUME NEW p PROVE Count({p}, q) = Bit(p = s) + Count({p}, sources[o])
    <3>1. Count({p}, <<s>> \o sources[o]) = Count({p}, <<s>>) + Count({p}, sources[o])
      BY <2>1, <2>2, CountConcat
    <3>2. Count({p}, <<s>>) = Bit(p = s)
      BY CountOne DEF Bit
    <3> QED
      BY <3>1, <3>2
  <2>4. ASSUME NEW p PROVE Count({p}, r) = Bit(p = o) + Count({p}, targets[s])
    <3>1. Count({p}, <<o>> \o targets[s]) = Count({p}, <<o>>) + Count({p}, targets[s])
      BY <2>1, <2>2, CountConcat
    <3>2. Count({p}, <<o>>) = Bit(p = o)
      BY CountOne DEF Bit
    <3> QED
      BY <3>1, <3>2
  <2>5. q \in Seq(Streams) /\ r \in Seq(Objects)
    BY <2>1, <2>2
  <2> HIDE DEF q, r
  <2> QED
    BY <2>3, <2>4, <2>5
<1>6. /\ sources' = [sources EXCEPT ![o] = q] /\ targets' = [targets EXCEPT ![s] = r]
      /\ cleanups' \in [Objects -> Seq(Streams)]
  BY DEF TypeOK
<1> HIDE DEF q, r
<1>6a. s \in Streams /\ o \in Objects
  OBVIOUS
<1> HIDE DEF NodesLinked
<1>6b. q \in Seq(Streams) /\ r \in Seq(Objects)
  BY <1>5
<1>7. /\ sources' \in [Objects -> Seq(Streams)]
      /\ \A p : /\ Occurs({p}, sources)' \in Nat /\ Occurs({p}, sources) \in Nat
                /\ Count({p}, sources[o]) \in Nat
                /\ Occurs({p}, sources)' = Occurs({p}, sources) + Count({p}, q)
                                             - Count({p}, sources[o])
  BY <1>6, <1>6a, <1>6b, SourcesDiffer
<1>8. /\ targets' \in [Streams -> Seq(Objects)]
      /\ \A p : /\ Occurs({p}, targets)' \in Nat /\ Occurs({p}, targets) \in Nat
                /\ Count({p}, targets[s]) \in Nat
                /\ Occurs({p}, targets)' = Occurs({p}, targets) + Count({p}, r)
                                             - Count({p}, targets[s])
  BY <1>6, <1>6a, <1>6b, TargetsDiffer
<1>9. ASSUME NEW p \in Objects
      PROVE  nodeRefs'[p] = nodeRefs[p] + Bit(p = s) + Bit(p = o)
  <2>1. nodeRefs' = [nodeRefs EXCEPT ![s] = @ + 1, ![o] = @ + 1] /\ nodeRefs \in [Objects -> Nat]
    BY DEF TypeOK, NodesLinked
  <2>3. CASE p = s /\ p # o
    BY <1>1, <1>6a, <2>1, <2>3 DEF Bit
  <2>4. CASE p # s /\ p = o
    BY <1>1, <1>6a, <2>1, <2>4 DEF Bit
  <2>5. CASE p # s /\ p # o
    BY <1>1, <1>6a, <2>1, <2>5 DEF Bit
  <2> QED
    BY <2>3, <2>4, <2>5
<1>10. nodeRefs' \in [Objects -> Nat] /\ \A p \in Objects : HasNode(p)' = HasNode(p)
  <2>1. nodeRefs \in [Objects -> Nat] /\ nodeRefs[s] > 0 /\ DOMAIN nodeRefs' = Objects
        /\ nodeRefs' = [p \in Objects |-> nodeRefs'[p]]
    BY DEF TypeOK, NodesLinked
  <2>2. \A p \in Objects : nodeRefs'[p] \in Nat /\ (nodeRefs'[p] > 0 <=> nodeRefs[p] > 0)
    BY <1>1, <1>6a, <1>9, <2>1 DEF Bit
  <2> QED
    BY <2>1, <2>2 DEF HasNode
<1>11. TypeOK'
  BY <1>3, <1>4, <1>6, <1>7, <1>8, <1>10 DEF TypeOK, owners, deferral, NodesLinked
<1>12. ASSUME NEW p \in Objects PROVE Balanced(p, done, tasks)
  <2>1. Weighs(done, p, 0, 0, 0, 0) /\ Weighs(tasks, p, 0, 0, 0, Bit(p = s))
    BY <1>2 DEF done, tasks
  <2>2. HasSink(p)' = HasSink(p) /\ Handles(p)' = Handles(p) /\ HasNode(p)' = HasNode(p)
    BY <1>10 DEF owners, HasSink, Handles, NodesLinked
  <2>3. /\ Occurs({p}, sources)' = Occurs({p}, sources) + Bit(p = s)
        /\ Occurs({p}, targets)' = Occurs({p}, targets) + Bit(p = o)
    <3> DEFINE x == Occurs({p}, sources)  y == Occurs({p}, sources)'
               z == Count({p}, sources[o])  w == Count({p}, q)  b == Bit(p = s)
               u == Occurs({p}, targets)  v == Occurs({p}, targets)'
               g == Count({p}, targets[s])  h == Count({p}, r)  c == Bit(p = o)
    <3>1. b \in Nat /\ c \in Nat
      BY DEF Bit
    <3>2. /\ x \in Nat /\ y \in Nat /\ z \in Nat /\ w = b + z /\ y = x + w - z
          /\ u \in Nat /\ v \in Nat /\ g \in Nat /\ h = c + g /\ v = u + h - g
      BY <1>5, <1>7, <1>8
    <3> HIDE DEF x, y, z, w, b, u, v, g, h, c
    <3>3. y = x + b /\ v = u + c
      BY <3>1, <3>2
    <3> QED
      BY <3>3 DEF x, y, b, u, v, c
  <2>4. p \in Streams => /\ Number(p, "strong")' = Number(p, "strong")
                         /\ Number(p, "node")' = Number(p, "node")
                         /\ Number(p, "stream")' = Number(p, "stream") + Bit(p = s)
    <3>1. p \in Streams => /\ Number(p, "strong")' = Number(p, "strong") + Bit(p = s /\ "strong" = "stream")
                           /\ Number(p, "node")' = Number(p, "node") + Bit(p = s /\ "node" = "stream")
                           /\ Number(p, "stream")' = Number(p, "stream") + Bit(p = s /\ "stream" = "stream")
                           /\ Number(p, "strong") \in Nat /\ Number(p, "node") \in Nat
      BY <1>3, RefParts, SomeKinds
    <3> QED
      BY <3>1 DEF Bit
  <2>5. /\ p \in Streams => /\ Number(p, "stream") \in Nat /\ Number(p, "node") \in Nat
                            /\ Number(p, "strong") \in Nat
        /\ Handles(p) \in Nat /\ Occurs({p}, sources) \in Nat /\ Bit(p = o) \in Nat /\ Bit(p = s) \in Nat
        /\ HasNode(p) \in Nat /\ HasSink(p) \in Nat /\ Occurs({p}, targets) \in Nat /\ nodeRefs[p] \in Nat
    BY RefParts, SomeKinds DEF Bit, HasNode, HasSink, TypeOK
  <2>6. nodeRefs'[p] = nodeRefs[p] + Bit(p = s) + Bit(p = o)
    BY <1>9
  <2>7. nodeRefs'[p] + Count(Drops(p), done) + HasSink(p) + Occurs({p}, targets)
         = nodeRefs[p] + Count(Drops(p), tasks) + HasSink(p)' + Occurs({p}, targets)'
    <3>1. Count(Drops(p), done) = 0 /\ Count(Drops(p), tasks) = Bit(p = s)
      BY <2>1 DEF Weighs
    <3> QED
      BY <2>2, <2>3, <2>5, <2>6, <3>1
  <2>8. p \in Streams =>
          Number(p, "stream")' + Count(Stream(p), done) + Handles(p) + Occurs({p}, sources)
            = Number(p, "stream") + Count(Stream(p), tasks) + Handles(p)' + Occurs({p}, sources)'
    <3>1. Count(Stream(p), done) = 0 /\ Count(Stream(p), tasks) = 0
      BY <2>1 DEF Weighs
    <3> QED
      BY <2>2, <2>3, <2>4, <2>5, <3>1
  <2>9. p \in Streams =>
          /\ Number(p, "strong")' + Count(Strong(p), done) = Number(p, "strong") + Count(Strong(p), tasks)
          /\ Number(p, "node")' + Count(Node(p), done) + HasNode(p)
               = Number(p, "node") + Count(Node(p), tasks) + HasNode(p)'
    BY <2>1, <2>2, <2>4 DEF Weighs
  <2> QED
    BY <2>7, <2>8, <2>9 DEF Balanced
<1> QED
  BY <1>1, <1>11, <1>12, Balance DEF done, tasks

LEMMA NodeKeptCounts ==
  ASSUME TypeOK, Counted, NEW t \in Threads, NEW o, NodeKept(t, o)
  PROVE  TypeOK' /\ Counted'
<1> USE DEF NodeKept
<1> DEFINE a == DropNode(o)  done == <<a>>  tasks == <<>>
<1>1. a \in AllTasks /\ done \in Seq(AllTasks) /\ tasks \in Seq(AllTasks) /\ Does(t, done, tasks)
  BY TaskTypes, ShortLists
<1>2. \A p : Weighs(done, p, 0, 0, 0, Bit(p = o)) /\ Weighs(tasks, p, 0, 0, 0, 0)
  BY WeighsEmpty, WeighsDrop
<1> HIDE DEF done, tasks
<1>3. agenda' \in [Threads -> Seq(AllTasks)]
  BY <1>1, AgendaAfter DEF done, tasks
<1>4. nodeRefs' \in [Objects -> Nat]
  BY DEF TypeOK
<1>5. TypeOK'
  BY <1>3, <1>4 DEF TypeOK, links, owners, deferral
<1>6. ASSUME NEW p \in Objects PROVE Balanced(p, done, tasks)
  <2>1. Weighs(done, p, 0, 0, 0, Bit(p = o)) /\ Weighs(tasks, p, 0, 0, 0, 0)
    BY <1>2 DEF done, tasks
  <2>2. HasSink(p)' = HasSink(p) /\ Handles(p)' = Handles(p) /\ HasNode(p)' = HasNode(p)
        /\ Occurs({p}, sources)' = Occurs({p}, sources) /\ Occurs({p}, targets)' = Occurs({p}, targets)
        /\ Number(p, "strong")' = Number(p, "strong") /\ Number(p, "node")' = Number(p, "node")
        /\ Number(p, "stream")' = Number(p, "stream")
    BY DEF TypeOK, owners, links, HasSink, Handles, HasNode, Number
  <2>3. nodeRefs'[p] = nodeRefs[p] - Bit(p = o) /\ nodeRefs[p] \in Nat
    BY DEF TypeOK, Bit
  <2>4. Bit(p = o) \in Nat /\ HasSink(p) \in Nat /\ Occurs({p}, targets) \in Nat
    BY RefParts DEF Bit, HasSink
  <2> QED
    BY <2>1, <2>2, <2>3, <2>4 DEF Balanced, Weighs
<1> QED
  BY <1>1, <1>5, <1>6, Balance DEF done, tasks

LEMMA NodeGoneCounts ==
  ASSUME TypeOK, Counted, NEW t \in Threads, NEW o, NodeGone(t, o)
  PROVE  TypeOK' /\ Counted'
<1> USE DEF NodeGone
<1> DEFINE a == DropNode(o)  done == <<a>>  tasks == Destroying(o)  e == <<>>
<1>1. a \in AllTasks /\ done \in Seq(AllTasks) /\ tasks \in Seq(AllTasks) /\ Does(t, done, tasks)
  BY TaskTypes, ShortLists, DestroyingType
<1>2. \A p : /\ Weighs(done, p, 0, 0, 0, Bit(p = o))
             /\ Weighs(tasks, p, 0, Count({p}, sources[o]), Bit(o \in Streams /\ p = o), Count({p}, Outgoing(o)))
  BY WeighsDestroying, WeighsDrop
<1> HIDE DEF done, tasks
<1>3. agenda' \in [Threads -> Seq(AllTasks)]
  BY <1>1, AgendaAfter DEF done, tasks
<1>4. nodeRefs' \in [Objects -> Nat]
  BY DEF TypeOK
<1>5. e \in Seq(Streams) /\ e \in Seq(Objects) /\ sources' = [sources EXCEPT ![o] = e]
      /\ \A p : Count({p}, e) = 0
  BY CountEmpty
<1> HIDE DEF e
<1>6. /\ sources' \in [Objects -> Seq(Streams)]
      /\ \A p : /\ Occurs({p}, sources)' \in Nat /\ Occurs({p}, sources) \in Nat
                /\ Count({p}, sources[o]) \in Nat
                /\ Occurs({p}, sources)' = Occurs({p}, sources) + Count({p}, e)
                                             - Count({p}, sources[o])
  BY <1>5, SourcesDiffer
<1>7. /\ targets' \in [Streams -> Seq(Objects)]
      /\ \A p : /\ Occurs({p}, targets)' \in Nat /\ Occurs({p}, targets) \in Nat
                /\ Count({p}, Outgoing(o)) \in Nat
                /\ Occurs({p}, targets) = Occurs({p}, targets)' + Count({p}, Outgoing(o))
  <2>1. CASE o \in Streams
    <3>1. targets' = [targets EXCEPT ![o] = e]
      BY <2>1 DEF TypeOK, e
    <3>2. Outgoing(o) = targets[o]
      BY <2>1 DEF Outgoing
    <3>3. /\ targets' \in [Streams -> Seq(Objects)]
          /\ \A p : /\ Occurs({p}, targets)' \in Nat /\ Occurs({p}, targets) \in Nat
                    /\ Count({p}, targets[o]) \in Nat
                    /\ Occurs({p}, targets)' = Occurs({p}, targets) + Count({p}, e)
                                                 - Count({p}, targets[o])
      BY <1>5, <2>1, <3>1, TargetsDiffer
    <3>4. ASSUME NEW p PROVE Occurs({p}, targets) = Occurs({p}, targets)' + Count({p}, targets[o])
      <4> DEFINE x == Occurs({p}, targets)  y == Occurs({p}, targets)'  z == Count({p}, targets[o])
      <4>1. x \in Nat /\ y \in Nat /\ z \in Nat /\ y = x + 0 - z
        BY <1>5, <3>3
      <4> HIDE DEF x, y, z
      <4>2. x = y + z
        BY <4>1
      <4> QED
        BY <4>2 DEF x, y, z
    <3> QED
      BY <3>2, <3>3, <3>4
  <2>2. CASE o \notin Streams
    <3>1. targets' = targets
      BY <2>2 DEF TypeOK
    <3>2. \A p : Count({p}, Outgoing(o)) = 0
      BY <2>2, CountEmpty DEF Outgoing
    <3>3. \A p : Occurs({p}, targets) \in Nat /\ Occurs({p}, targets)' = Occurs({p}, targets)
      BY <3>1, RefParts
    <3>4. targets' \in [Streams -> Seq(Objects)]
      BY <3>1 DEF TypeOK
    <3>5. ASSUME NEW p
          PROVE  /\ Occurs({p}, targets)' \in Nat /\ Occurs({p}, targets) \in Nat
                 /\ Count({p}, Outgoing(o)) \in Nat
                 /\ Occurs({p}, targets) = Occurs({p}, targets)' + Count({p}, Outgoing(o))
      <4> DEFINE x == Occurs({p}, targets)  y == Occurs({p}, targets)'  z == Count({p}, Outgoing(o))
      <4>1. x \in Nat /\ y = x /\ z = 0
        BY <3>2, <3>3
      <4>2. y \in Nat /\ z \in Nat
        BY <4>1
      <4> HIDE DEF x, y, z
      <4>3. x = y + z
        BY <4>1
      <4> QED
        BY <4>1, <4>2, <4>3 DEF x, y, z
    <3> QED
      BY <3>4, <3>5
  <2> QED
    BY <2>1, <2>2
<1>8. TypeOK'
  BY <1>3, <1>4, <1>6, <1>7 DEF TypeOK, owners, deferral
<1>9. ASSUME NEW p \in Objects PROVE Balanced(p, done, tasks)
  <2>1. /\ Weighs(done, p, 0, 0, 0, Bit(p = o))
        /\ Weighs(tasks, p, 0, Count({p}, sources[o]), Bit(o \in Streams /\ p = o), Count({p}, Outgoing(o)))
    BY <1>2 DEF done, tasks
  <2>2. HasSink(p)' = HasSink(p) /\ Handles(p)' = Handles(p)
        /\ Number(p, "strong")' = Number(p, "strong") /\ Number(p, "node")' = Number(p, "node")
        /\ Number(p, "stream")' = Number(p, "stream")
    BY DEF owners, HasSink, Handles, Number
  <2>3. nodeRefs'[p] = nodeRefs[p] - Bit(p = o) /\ nodeRefs[p] \in Nat /\ HasNode(p) = HasNode(p)' + Bit(p = o)
    BY DEF TypeOK, Bit, HasNode
  <2>4. /\ Bit(p = o) \in Nat /\ HasSink(p) \in Nat /\ HasNode(p) \in Nat /\ HasNode(p)' \in Nat
        /\ Handles(p) \in Nat
        /\ p \in Streams => /\ Number(p, "stream") \in Nat /\ Number(p, "node") \in Nat
                            /\ Number(p, "strong") \in Nat
                            /\ Bit(o \in Streams /\ p = o) = Bit(p = o)
    BY RefParts, SomeKinds DEF Bit, HasSink, HasNode
  <2>5. /\ Occurs({p}, sources)' \in Nat /\ Occurs({p}, sources) \in Nat /\ Count({p}, sources[o]) \in Nat
        /\ Occurs({p}, sources)' = Occurs({p}, sources) + 0 - Count({p}, sources[o])
        /\ Occurs({p}, targets)' \in Nat /\ Occurs({p}, targets) \in Nat /\ Count({p}, Outgoing(o)) \in Nat
        /\ Occurs({p}, targets) = Occurs({p}, targets)' + Count({p}, Outgoing(o))
    BY <1>5, <1>6, <1>7
  <2>6. nodeRefs'[p] + Count(Drops(p), done) + HasSink(p) + Occurs({p}, targets)
         = nodeRefs[p] + Count(Drops(p), tasks) + HasSink(p)' + Occurs({p}, targets)'
    <3>1. Count(Drops(p), done) = Bit(p = o) /\ Count(Drops(p), tasks) = Count({p}, Outgoing(o))
      BY <2>1 DEF Weighs
    <3> DEFINE x == Occurs({p}, targets)  y == Occurs({p}, targets)'  z == Count({p}, Outgoing(o))
               u == nodeRefs[p]  v == nodeRefs'[p]  b == Bit(p = o)  h == HasSink(p)
    <3>2. x = y + z /\ y \in Nat /\ z \in Nat /\ u \in Nat /\ b \in Nat /\ h \in Nat /\ v = u - b
      BY <2>3, <2>4, <2>5
    <3> HIDE DEF x, y, z, u, v, b, h
    <3>3. v + b + h + x = u + z + h + y
      BY <3>2
    <3> QED
      BY <2>2, <3>1, <3>3 DEF x, y, z, u, v, b, h
  <2>7. p \in Streams =>
          Number(p, "stream")' + Count(Stream(p), done) + Handles(p) + Occurs({p}, sources)
            = Number(p, "stream") + Count(Stream(p), tasks) + Handles(p)' + Occurs({p}, sources)'
    <3>1. Count(Stream(p), done) = 0 /\ Count(Stream(p), tasks) = Count({p}, sources[o])
      BY <2>1 DEF Weighs
    <3> DEFINE x == Occurs({p}, sources)  y == Occurs({p}, sources)'  z == Count({p}, sources[o])
    <3>2. x \in Nat /\ y \in Nat /\ z \in Nat /\ y = x + 0 - z
      BY <2>5
    <3> HIDE DEF x, y, z
    <3>3. x = z + y
      BY <3>2
    <3>4. p \in Streams => Number(p, "stream") + 0 + Handles(p) + x = Number(p, "stream") + z + Handles(p) + y
      <4> DEFINE u == Number(p, "stream")  h == Handles(p)
      <4>1. p \in Streams => u \in Nat /\ h \in Nat
        BY <2>4
      <4> HIDE DEF u, h, NodeGone
      <4>2. p \in Streams => u + 0 + h + x = u + z + h + y
        BY <3>2, <3>3, <4>1
      <4> QED
        BY <4>2 DEF u, h
    <3> QED
      BY <2>2, <3>1, <3>4 DEF x, y, z
  <2>8. p \in Streams =>
          /\ Number(p, "strong")' + Count(Strong(p), done) = Number(p, "strong") + Count(Strong(p), tasks)
          /\ Number(p, "node")' + Count(Node(p), done) + HasNode(p)
               = Number(p, "node") + Count(Node(p), tasks) + HasNode(p)'
    <3>1. p \in Streams => Count(Node(p), done) = 0 /\ Count(Node(p), tasks) = Bit(p = o)
      BY <2>1, <2>4 DEF Weighs
    <3> QED
      BY <2>1, <2>2, <2>3, <2>4, <3>1 DEF Weighs
  <2> QED
    BY <2>6, <2>7, <2>8 DEF Balanced
<1> QED
  BY <1>1, <1>8, <1>9, Balance DEF done, tasks

\* The sources of o without s.
LEMMA SourceGone ==
  ASSUME TypeOK, NEW s \in Streams, NEW o \in Objects,
         sources' = [sources EXCEPT ![o] = Without(@, s)]
  PROVE  /\ sources' \in [Objects -> Seq(Streams)]
         /\ \A p : /\ Occurs({p}, sources)' \in Nat /\ Occurs({p}, sources) \in Nat
                   /\ Count({s}, sources[o]) \in Nat
                   /\ Occurs({p}, sources) = Occurs({p}, sources)' + IF p = s THEN Count({s}, sources[o]) ELSE 0
<1> DEFINE q == Without(sources[o], s)
<1>0. sources[o] \in Seq(Streams)
  BY DEF TypeOK
<1>1. q \in Seq(Streams) /\ \A p : Count({p}, q) = Count({p} \ {s}, sources[o])
  BY <1>0, WithoutType
<1>2. sources' = [sources EXCEPT ![o] = q]
  BY DEF TypeOK
<1> HIDE DEF q
<1>3. /\ sources' \in [Objects -> Seq(Streams)]
      /\ \A p : /\ Occurs({p}, sources)' \in Nat /\ Occurs({p}, sources) \in Nat
                /\ Count({p}, sources[o]) \in Nat
                /\ Occurs({p}, sources)' = Occurs({p}, sources) + Count({p}, q)
                                             - Count({p}, sources[o])
  BY <1>1, <1>2, SourcesDiffer
<1>4. Count({}, sources[o]) = 0
  <2>1. Count({}, sources[o]) = 0 <=> Range(sources[o]) \cap {} = {}
    BY <1>0, CountType
  <2> QED
    BY <2>1
<1>5. ASSUME NEW p
      PROVE  Occurs({p}, sources) = Occurs({p}, sources)' + IF p = s THEN Count({s}, sources[o]) ELSE 0
  <2>1. CASE p = s
    <3>1. Count({p}, q) = 0
      <4>1. {p} \ {s} = {}
        BY <2>1
      <4> QED
        BY <1>1, <1>4, <4>1
    <3> DEFINE x == Occurs({p}, sources)  y == Occurs({p}, sources)'  z == Count({s}, sources[o])
    <3>2. x \in Nat /\ y \in Nat /\ z \in Nat /\ y = x + 0 - z
      BY <1>3, <2>1, <3>1
    <3> HIDE DEF x, y, z
    <3>3. x = y + z
      BY <3>2
    <3> QED
      BY <2>1, <3>3 DEF x, y, z
  <2>2. CASE p # s
    <3>1. Count({p}, q) = Count({p}, sources[o])
      <4>1. {p} \ {s} = {p}
        BY <2>2
      <4> QED
        BY <1>1, <4>1
    <3> DEFINE x == Occurs({p}, sources)  y == Occurs({p}, sources)'  z == Count({p}, sources[o])
    <3>2. x \in Nat /\ y \in Nat /\ z \in Nat /\ y = x + z - z
      BY <1>3, <3>1
    <3> HIDE DEF x, y, z
    <3>3. x = y + 0
      BY <3>2
    <3> QED
      BY <2>2, <3>3 DEF x, y
  <2> QED
    BY <2>1, <2>2
<1>6. Count({s}, sources[o]) \in Nat
  BY <1>3
<1> QED
  BY <1>3, <1>5, <1>6

LEMMA UnsourcedCounts ==
  ASSUME TypeOK, Counted, Room, NEW t \in Threads, NEW s, NEW o, Unsourced(t, s, o)
  PROVE  TypeOK' /\ Counted'
<1> USE DEF Unsourced
<1> DEFINE a == Task("unsource", s, o)  done == <<a>>  tasks == SourcesRemoved(s, o)
           n == Count({s}, sources[o])
<1>1. a \in AllTasks /\ done \in Seq(AllTasks) /\ tasks \in Seq(AllTasks) /\ Does(t, done, tasks)
  BY TaskTypes, ShortLists, SourcesRemovedType
<1>2. \A p : Weighs(done, p, 0, 0, 0, 0) /\ Weighs(tasks, p, 0, IF p = s THEN n + 1 ELSE 0, 0, 0)
  BY <1>1, WeighsOther, WeighsSources
<1>3. /\ counts' \in [Streams -> CountSets]
      /\ \A p \in Streams, j \in Kinds : Number(p, j)' = Number(p, j) + Bit(p = s /\ j = "stream")
  BY OneMore, SomeKinds DEF Room
<1> HIDE DEF done, tasks, n
<1>4. agenda' \in [Threads -> Seq(AllTasks)]
  BY <1>1, AgendaAfter DEF done, tasks
<1>5. /\ sources' \in [Objects -> Seq(Streams)] /\ n \in Nat
      /\ \A p : /\ Occurs({p}, sources)' \in Nat /\ Occurs({p}, sources) \in Nat
                /\ Occurs({p}, sources) = Occurs({p}, sources)' + IF p = s THEN n ELSE 0
  BY SourceGone DEF n
<1>6. TypeOK'
  BY <1>3, <1>4, <1>5 DEF TypeOK, owners, deferral
<1>7. ASSUME NEW p \in Objects PROVE Balanced(p, done, tasks)
  <2>1. Weighs(done, p, 0, 0, 0, 0) /\ Weighs(tasks, p, 0, IF p = s THEN n + 1 ELSE 0, 0, 0)
    BY <1>2 DEF done, tasks, n
  <2>2. /\ HasSink(p)' = HasSink(p) /\ Handles(p)' = Handles(p) /\ HasNode(p)' = HasNode(p)
        /\ nodeRefs'[p] = nodeRefs[p] /\ Occurs({p}, targets)' = Occurs({p}, targets)
    BY DEF owners, HasSink, Handles, HasNode
  <2>3. p \in Streams => /\ Number(p, "strong")' = Number(p, "strong")
                         /\ Number(p, "node")' = Number(p, "node")
                         /\ Number(p, "stream")' = Number(p, "stream") + Bit(p = s)
    <3>1. p \in Streams => /\ Number(p, "strong")' = Number(p, "strong") + Bit(p = s /\ "strong" = "stream")
                           /\ Number(p, "node")' = Number(p, "node") + Bit(p = s /\ "node" = "stream")
                           /\ Number(p, "stream")' = Number(p, "stream") + Bit(p = s /\ "stream" = "stream")
                           /\ Number(p, "strong") \in Nat /\ Number(p, "node") \in Nat
      BY <1>3, RefParts, SomeKinds
    <3> QED
      BY <3>1 DEF Bit
  <2>4. /\ p \in Streams => /\ Number(p, "stream") \in Nat /\ Number(p, "node") \in Nat
                            /\ Number(p, "strong") \in Nat
        /\ Handles(p) \in Nat
    BY RefParts, SomeKinds
  <2>5. /\ Occurs({p}, sources)' \in Nat /\ Occurs({p}, sources) \in Nat
        /\ Occurs({p}, sources) = Occurs({p}, sources)' + IF p = s THEN n ELSE 0
    BY <1>5
  <2>6. CASE p = s
    BY <1>5, <2>1, <2>2, <2>3, <2>4, <2>5, <2>6 DEF Balanced, Weighs, Bit
  <2>7. CASE p # s
    BY <1>5, <2>1, <2>2, <2>3, <2>4, <2>5, <2>7 DEF Balanced, Weighs, Bit
  <2> QED
    BY <2>6, <2>7
<1> QED
  BY <1>1, <1>6, <1>7, Balance DEF done, tasks

LEMMA NodesUnlinkedCounts ==
  ASSUME TypeOK, Counted, Room, NEW t \in Threads, NEW s, NEW o, NodesUnlinked(t, s, o)
  PROVE  TypeOK' /\ Counted'
<1> USE DEF NodesUnlinked
<1> DEFINE a == Task("unlink", s, o)  done == <<a>>
           tasks == SourcesRemoved(s, o) \o <<DropNode(o), DropNode(s)>>
           n == Count({s}, sources[o])  r == RemoveFirst(targets[s], o)
<1>1. /\ a \in AllTasks /\ done \in Seq(AllTasks) /\ tasks \in Seq(AllTasks) /\ Does(t, done, tasks)
      /\ s \in Objects
  BY TaskTypes, ShortLists, UnlinkedType, SomeKinds
<1>2. \A p : /\ Weighs(done, p, 0, 0, 0, 0)
             /\ Weighs(tasks, p, 0, IF p = s THEN n + 1 ELSE 0, 0, Bit(p = o) + Bit(p = s))
  BY <1>1, WeighsOther, WeighsUnlinked
<1>3. /\ counts' \in [Streams -> CountSets]
      /\ \A p \in Streams, j \in Kinds : Number(p, j)' = Number(p, j) + Bit(p = s /\ j = "stream")
  BY OneMore, SomeKinds DEF Room
<1> HIDE DEF done, tasks, n
<1>4. agenda' \in [Threads -> Seq(AllTasks)]
  BY <1>1, AgendaAfter DEF done, tasks
<1>5. /\ sources' \in [Objects -> Seq(Streams)] /\ n \in Nat
      /\ \A p : /\ Occurs({p}, sources)' \in Nat /\ Occurs({p}, sources) \in Nat
                /\ Occurs({p}, sources) = Occurs({p}, sources)' + IF p = s THEN n ELSE 0
  BY SourceGone DEF n
<1>6. /\ r \in Seq(Objects) /\ targets' = [targets EXCEPT ![s] = r]
      /\ \A X : Count(X, targets[s]) = Count(X, r) + Bit(o \in X)
  <2>1. targets[s] \in Seq(Objects)
    BY DEF TypeOK
  <2>2. /\ r \in Seq(Objects)
        /\ \A X : Count(X, targets[s]) = Count(X, r) + Bit(o \in X)
    BY <2>1, FirstRemoved
  <2> QED
    BY <2>2 DEF TypeOK
<1> HIDE DEF r
<1>7. /\ targets' \in [Streams -> Seq(Objects)]
      /\ \A p : /\ Occurs({p}, targets)' \in Nat /\ Occurs({p}, targets) \in Nat
                /\ Count({p}, targets[s]) \in Nat /\ Count({p}, r) \in Nat
                /\ Occurs({p}, targets)' = Occurs({p}, targets) + Count({p}, r)
                                             - Count({p}, targets[s])
  BY <1>6, TargetsDiffer
<1>8a. /\ nodeRefs' = [nodeRefs EXCEPT ![s] = @ + 1] /\ nodeRefs \in [Objects -> Nat]
       /\ s \in Objects /\ nodeRefs[s] > 0
  BY <1>1 DEF TypeOK
<1> HIDE DEF NodesUnlinked
<1>8. nodeRefs' \in [Objects -> Nat] /\ \A p : HasNode(p)' = HasNode(p)
  <2>1. nodeRefs' \in [Objects -> Nat] /\ nodeRefs'[s] > 0 /\ \A p : p # s => nodeRefs'[p] = nodeRefs[p]
    BY <1>8a
  <2> QED
    BY <1>8a, <2>1 DEF HasNode
<1>9. TypeOK'
  BY <1>3, <1>4, <1>5, <1>7, <1>8 DEF NodesUnlinked, TypeOK, owners, deferral
<1>10. ASSUME NEW p \in Objects PROVE Balanced(p, done, tasks)
  <2>1. /\ Weighs(done, p, 0, 0, 0, 0)
        /\ Weighs(tasks, p, 0, IF p = s THEN n + 1 ELSE 0, 0, Bit(p = o) + Bit(p = s))
    BY <1>2 DEF done, tasks, n
  <2>2. HasSink(p)' = HasSink(p) /\ Handles(p)' = Handles(p) /\ HasNode(p)' = HasNode(p)
    BY <1>8 DEF NodesUnlinked, owners, HasSink, Handles
  <2>3. p \in Streams => /\ Number(p, "strong")' = Number(p, "strong")
                         /\ Number(p, "node")' = Number(p, "node")
                         /\ Number(p, "stream")' = Number(p, "stream") + Bit(p = s)
    <3>1. p \in Streams => /\ Number(p, "strong")' = Number(p, "strong") + Bit(p = s /\ "strong" = "stream")
                           /\ Number(p, "node")' = Number(p, "node") + Bit(p = s /\ "node" = "stream")
                           /\ Number(p, "stream")' = Number(p, "stream") + Bit(p = s /\ "stream" = "stream")
                           /\ Number(p, "strong") \in Nat /\ Number(p, "node") \in Nat
      BY <1>3, RefParts, SomeKinds
    <3> QED
      BY <3>1 DEF Bit
  <2>4. /\ p \in Streams => /\ Number(p, "stream") \in Nat /\ Number(p, "node") \in Nat
                            /\ Number(p, "strong") \in Nat
        /\ Handles(p) \in Nat /\ HasSink(p) \in Nat /\ Bit(p = o) \in Nat /\ Bit(p = s) \in Nat
    BY RefParts, SomeKinds DEF HasSink, Bit
  <2>5. /\ Occurs({p}, sources)' \in Nat /\ Occurs({p}, sources) \in Nat
        /\ Occurs({p}, sources) = Occurs({p}, sources)' + IF p = s THEN n ELSE 0
    BY <1>5
  <2>6. nodeRefs'[p] = nodeRefs[p] + Bit(p = s) /\ nodeRefs[p] \in Nat
    BY <1>8a DEF Bit
  <2>7. /\ Occurs({p}, targets) = Occurs({p}, targets)' + Bit(p = o)
        /\ Occurs({p}, targets)' \in Nat /\ Occurs({p}, targets) \in Nat
    <3> DEFINE x == Occurs({p}, targets)  y == Occurs({p}, targets)'
               z == Count({p}, targets[s])  w == Count({p}, r)  b == Bit(p = o)
    <3>1. z = w + b
      <4>1. Bit(o \in {p}) = Bit(p = o)
        BY DEF Bit
      <4> QED
        BY <1>6, <4>1
    <3>2. x \in Nat /\ y \in Nat /\ z \in Nat /\ w \in Nat /\ y = x + w - z /\ b \in Nat
      BY <1>7, <2>4
    <3> HIDE DEF x, y, z, w, b
    <3>3. x = y + b
      BY <3>1, <3>2
    <3> QED
      BY <3>2, <3>3 DEF x, y, b
  <2>8. nodeRefs'[p] + Count(Drops(p), done) + HasSink(p) + Occurs({p}, targets)
         = nodeRefs[p] + Count(Drops(p), tasks) + HasSink(p)' + Occurs({p}, targets)'
    BY <2>1, <2>2, <2>4, <2>6, <2>7 DEF Weighs
  <2>9. p \in Streams =>
          Number(p, "stream")' + Count(Stream(p), done) + Handles(p) + Occurs({p}, sources)
            = Number(p, "stream") + Count(Stream(p), tasks) + Handles(p)' + Occurs({p}, sources)'
    <3>1. Count(Stream(p), done) = 0 /\ Count(Stream(p), tasks) = IF p = s THEN n + 1 ELSE 0
      BY <2>1 DEF Weighs
    <3> DEFINE x == Occurs({p}, sources)  y == Occurs({p}, sources)'  h == Handles(p)
               u == Number(p, "stream")  v == Number(p, "stream")'
               c == Count(Stream(p), done)  d == Count(Stream(p), tasks)
    <3>2. /\ n \in Nat /\ x \in Nat /\ y \in Nat /\ h \in Nat /\ Handles(p)' = h
          /\ x = y + IF p = s THEN n ELSE 0
          /\ c = 0 /\ d = IF p = s THEN n + 1 ELSE 0
          /\ p \in Streams => u \in Nat /\ v = u + Bit(p = s)
      BY <1>5, <2>2, <2>3, <2>4, <2>5, <3>1
    <3> HIDE DEF x, y, h, u, v, c, d
    <3>3. p \in Streams => v + c + h + x = u + d + h + y
      <4>1. CASE p = s
        BY <3>2, <4>1 DEF Bit
      <4>2. CASE p # s
        BY <3>2, <4>2 DEF Bit
      <4> QED
        BY <4>1, <4>2
    <3> QED
      BY <3>2, <3>3 DEF x, y, u, v, c, d, h
  <2>10. p \in Streams =>
          /\ Number(p, "strong")' + Count(Strong(p), done) = Number(p, "strong") + Count(Strong(p), tasks)
          /\ Number(p, "node")' + Count(Node(p), done) + HasNode(p)
               = Number(p, "node") + Count(Node(p), tasks) + HasNode(p)'
    BY <2>1, <2>2, <2>3 DEF Weighs
  <2> QED
    BY <2>8, <2>9, <2>10 DEF Balanced
<1> QED
  BY <1>1, <1>9, <1>10, Balance DEF done, tasks

-----------------------------------------------------------------------------
(* What comes onto agendas and what goes.                                  *)

\* Thread t does tasks with operations in D, and gets some with operations in T.
Moves(t, D, T) ==
  \E done, tasks \in Seq(AllTasks) :
    /\ Does(t, done, tasks)
    /\ \A a \in Range(done) : a.op \in D
    /\ \A a \in Range(tasks) : a.op \in T

LEMMA MovesAfter ==
  ASSUME TypeOK, NEW t \in Threads, NEW D, NEW T, Moves(t, D, T)
  PROVE  /\ \A a \in Tasks' : a.op \notin T => a \in Tasks
         /\ \A a \in Tasks : a.op \notin D => a \in Tasks'
         /\ \A u \in Threads : \A a \in Range(agenda'[u]) : a.op \notin T => a \in Range(agenda[u])
         /\ \A u \in Threads : \A a \in Range(agenda[u]) : a.op \notin D => a \in Range(agenda'[u])
         /\ \A X : Due(X) \in Nat /\ Due(X)' \in Nat
         /\ \A X : (\A a \in X : a.op \notin D) => Due(X) <= Due(X)'
         /\ \A X : (\A a \in X : a.op \notin T) => Due(X)' <= Due(X)
         /\ \A a, b : a.op \notin T /\ (\A u \in Threads : Ahead(agenda[u], a, b))
                        => \A u \in Threads : Ahead(agenda'[u], a, b)
<1>1. PICK done \in Seq(AllTasks), tasks \in Seq(AllTasks) :
        /\ Does(t, done, tasks)
        /\ \A a \in Range(done) : a.op \in D
        /\ \A a \in Range(tasks) : a.op \in T
  BY DEF Moves
<1>2. /\ \A X : /\ Due(X) \in Nat /\ Due(X)' \in Nat
                /\ Count(X, done) \in Nat /\ Count(X, tasks) \in Nat
                /\ Due(X)' + Count(X, done) = Due(X) + Count(X, tasks)
      /\ Tasks' \subseteq Tasks \cup Range(tasks)
      /\ Range(agenda'[t]) \subseteq Range(agenda[t]) \cup Range(tasks)
      /\ Range(agenda[t]) \ Range(done) \subseteq Range(agenda'[t])
      /\ \A u \in Threads \ {t} : agenda'[u] = agenda[u]
      /\ Tasks \ Range(done) \subseteq Tasks'
  BY <1>1, AgendaAfter
<1>3. ASSUME NEW X
      PROVE  /\ (\A a \in X : a.op \notin D) => Due(X) <= Due(X)'
             /\ (\A a \in X : a.op \notin T) => Due(X)' <= Due(X)
  <2>1. /\ (\A a \in X : a.op \notin D) => Count(X, done) = 0
        /\ (\A a \in X : a.op \notin T) => Count(X, tasks) = 0
    <3>1. Count(X, done) = 0 <=> Range(done) \cap X = {}
      BY CountType
    <3>2. Count(X, tasks) = 0 <=> Range(tasks) \cap X = {}
      BY CountType
    <3> QED
      BY <1>1, <3>1, <3>2
  <2> DEFINE x == Due(X)  y == Due(X)'  m == Count(X, done)  n == Count(X, tasks)
  <2>2. x \in Nat /\ y \in Nat /\ m \in Nat /\ n \in Nat /\ y + m = x + n
    BY <1>2
  <2> HIDE DEF x, y, m, n
  <2>3. (m = 0 => x <= y) /\ (n = 0 => y <= x)
    BY <2>2
  <2> QED
    BY <2>1, <2>3 DEF x, y, m, n
<1>4. ASSUME NEW a, NEW b, a.op \notin T, \A u \in Threads : Ahead(agenda[u], a, b), NEW u \in Threads
      PROVE  Ahead(agenda'[u], a, b)
  <2>1. CASE u # t
    BY <1>2, <1>4, <2>1
  <2>2. CASE u = t
    <3>1. PICK rest \in Seq(AllTasks) : /\ agenda[t] = done \o rest
                                        /\ agenda' = [agenda EXCEPT ![t] = tasks \o rest]
      BY <1>1 DEF Does
    <3>2. agenda'[t] = tasks \o rest
      BY <3>1 DEF TypeOK
    <3>3. Ahead(rest, a, b)
      <4>1. Ahead(done \o rest, a, b)
        BY <1>4, <3>1
      <4> QED
        BY <4>1, AheadConcat
    <3>4. a \notin Range(tasks)
      BY <1>1, <1>4
    <3>5. Ahead(tasks \o rest, a, b)
      BY <3>3, <3>4, AheadConcat
    <3> QED
      BY <2>2, <3>2, <3>5
  <2> QED
    BY <2>1, <2>2
<1>5. \A u \in Threads : \A a \in Range(agenda'[u]) : a.op \notin T => a \in Range(agenda[u])
  BY <1>1, <1>2
<1>6. \A u \in Threads : \A a \in Range(agenda[u]) : a.op \notin D => a \in Range(agenda'[u])
  BY <1>1, <1>2
<1>7. /\ \A a \in Tasks' : a.op \notin T => a \in Tasks
      /\ \A a \in Tasks : a.op \notin D => a \in Tasks'
  BY <1>1, <1>2
<1> QED
  BY <1>2, <1>3, <1>4, <1>5, <1>6, <1>7

LEMMA MovesLists ==
  ASSUME NEW t, NEW done \in Seq(AllTasks), NEW tasks \in Seq(AllTasks), NEW D, NEW T,
         Does(t, done, tasks),
         \A a \in Range(done) : a.op \in D, \A a \in Range(tasks) : a.op \in T
  PROVE  Moves(t, D, T)
BY DEF Moves

LEMMA OpOf ==
  /\ \A op, x, y : Task(op, x, y).op = op
  /\ \A x, y : Release(x, y).op = "release"
  /\ \A x : DropNode(x).op = "dropNode" /\ Close(x).op = "close"
  /\ \A op, x : Now(op, x).op = op
BY DEF Task, Release, DropNode, Close, Now

\* The operations of what each step does and brings.
LEMMA ProgramMoves ==
  ASSUME TypeOK, NEW t \in Threads, NEW o \in Objects, NEW u \in Threads, NEW s \in Streams
  PROVE  /\ SinkMade(t, o) => Moves(t, {}, {})
         /\ StreamMade(t, o) \/ ListenerMade(t, o) => Moves(t, {}, {"raise", "listen", "dropNode", "close"})
         /\ Unlistened(t, s, o) => Moves(t, {}, {"kill"})
         /\ HandleCopied(t, u, o) => Moves(t, {}, {})
         /\ HandleDropped(t, o) => Moves(t, {}, {"release"})
         /\ SinkDropped(t, o) => Moves(t, {}, {"dropNode"})
<1> DEFINE none == <<>>
<1>1. none \in Seq(AllTasks) /\ Range(none) = {}
  BY ShortLists
<1> HIDE DEF none
<1>2. SinkMade(t, o) => Moves(t, {}, {})
  <2>1. SinkMade(t, o) => Does(t, none, none)
    BY DEF SinkMade, none
  <2> QED
    BY <1>1, <2>1, MovesLists
<1>3. StreamMade(t, o) \/ ListenerMade(t, o) => Moves(t, {}, {"raise", "listen", "dropNode", "close"})
  <2> DEFINE l == Making(t, o)
  <2>1. StreamMade(t, o) \/ ListenerMade(t, o) => Does(t, none, l)
    BY DEF StreamMade, ListenerMade, none
  <2>2. l \in Seq(AllTasks) /\ \A a \in Range(l) : a.op \in {"raise", "listen", "dropNode", "close"}
    BY MakingType, OpOf
  <2> HIDE DEF l
  <2> QED
    BY <1>1, <2>1, <2>2, MovesLists
<1>4. Unlistened(t, s, o) => Moves(t, {}, {"kill"})
  <2> DEFINE l == <<Task("kill", s, o)>>
  <2>1. Unlistened(t, s, o) => Does(t, none, l)
    BY DEF Unlistened, none
  <2>2. l \in Seq(AllTasks) /\ \A a \in Range(l) : a.op \in {"kill"}
    BY TaskTypes, ShortLists, OpOf
  <2> HIDE DEF l
  <2> QED
    BY <1>1, <2>1, <2>2, MovesLists
<1>5. HandleCopied(t, u, o) => Moves(t, {}, {})
  <2>1. HandleCopied(t, u, o) => Does(t, none, none)
    BY DEF HandleCopied, none
  <2> QED
    BY <1>1, <2>1, MovesLists
<1>6. HandleDropped(t, o) => Moves(t, {}, {"release"})
  <2> SUFFICES ASSUME HandleDropped(t, o) PROVE Moves(t, {}, {"release"})
    OBVIOUS
  <2> DEFINE l == <<Release(o, "stream")>>
  <2>1. Does(t, none, l) /\ o \in Streams
    BY DEF HandleDropped, none, TypeOK
  <2>2. l \in Seq(AllTasks) /\ \A a \in Range(l) : a.op \in {"release"}
    BY <2>1, TaskTypes, ShortLists, SomeKinds, OpOf
  <2> HIDE DEF l
  <2> QED
    BY <1>1, <2>1, <2>2, MovesLists
<1>7. SinkDropped(t, o) => Moves(t, {}, {"dropNode"})
  <2> DEFINE l == <<DropNode(o)>>
  <2>1. SinkDropped(t, o) => Does(t, none, l)
    BY DEF SinkDropped, none
  <2>2. l \in Seq(AllTasks) /\ \A a \in Range(l) : a.op \in {"dropNode"}
    BY TaskTypes, ShortLists, OpOf
  <2> HIDE DEF l
  <2> QED
    BY <1>1, <2>1, <2>2, MovesLists
<1> QED
  BY <1>2, <1>3, <1>4, <1>5, <1>6, <1>7

\* The task of a call, and what it brings.
LEMMA OneMoves ==
  ASSUME TypeOK, NEW t \in Threads, NEW a \in AllTasks, NEW tasks \in Seq(AllTasks), NEW op, NEW T,
         Does(t, <<a>>, tasks), a.op = op, \A b \in Range(tasks) : b.op \in T
  PROVE  Moves(t, {op}, T)
<1> DEFINE done == <<a>>
<1>1. done \in Seq(AllTasks) /\ Range(done) = {a} /\ Does(t, done, tasks)
  BY ShortLists
<1> HIDE DEF done
<1> QED
  BY <1>1, MovesLists

LEMMA CallMoves ==
  ASSUME TypeOK, NEW t \in Threads, NEW o \in Objects, NEW s \in Streams, NEW k \in Kinds
  PROVE  /\ CleanupStarts(t, o, k) => Moves(t, {"release"}, {"kill", "clear", "relock"})
         /\ Released(t, o, k) => Moves(t, {"release"}, {})
         /\ Cleared(t, o) => Moves(t, {"clear"}, {})
         /\ Relocked(t, o) => Moves(t, {"relock"}, {})
         /\ ListenerAdded(t, s, o) => Moves(t, {"listen"}, {"link", "release"})
         /\ NodesLinked(t, s, o) => Moves(t, {"link"}, {"dropNode"})
         /\ Skipped(t, "link", s, o) => Moves(t, {"link"}, {})
         /\ Skipped(t, "unlink", s, o) => Moves(t, {"unlink"}, {})
         /\ NodeKept(t, o) => Moves(t, {"dropNode"}, {})
         /\ NodeGone(t, o) => Moves(t, {"dropNode"}, {"unsource", "release", "dropNode"})
         /\ Unsourced(t, s, o) => Moves(t, {"unsource"}, {"release"})
         /\ NodesUnlinked(t, s, o) => Moves(t, {"unlink"}, {"release", "dropNode"})
<1> DEFINE none == <<>>
<1>0. none \in Seq(AllTasks) /\ \A b \in Range(none) : b.op \in {}
  BY ShortLists
<1>1. ASSUME CleanupStarts(t, o, k) PROVE Moves(t, {"release"}, {"kill", "clear", "relock"})
  <2> DEFINE a == Release(o, k)
             l == Each("kill", cleanups[o], o) \o <<Task("clear", o, o), Task("relock", o, o)>>
  <2>1. Does(t, <<a>>, l) /\ o \in Streams
    BY <1>1 DEF CleanupStarts
  <2>2. a \in AllTasks /\ a.op = "release"
    BY <2>1, TaskTypes DEF Release, Task
  <2>3. l \in Seq(AllTasks) /\ \A b \in Range(l) : b.op \in {"kill", "clear", "relock"}
    <3>1. /\ l \in Seq(AllTasks)
          /\ Range(l) = {Task("kill", x, o) : x \in Range(cleanups[o])}
                          \cup {Task("clear", o, o), Task("relock", o, o)}
      BY <2>1, CleanupType
    <3> HIDE DEF l
    <3> QED
      BY <3>1, OpOf
  <2> HIDE DEF a, l
  <2> QED
    BY <2>1, <2>2, <2>3, OneMoves
<1>2. ASSUME Released(t, o, k) PROVE Moves(t, {"release"}, {})
  <2> DEFINE a == Release(o, k)
  <2>1. Does(t, <<a>>, none) /\ o \in Streams
    BY <1>2 DEF Released
  <2>2. a \in AllTasks /\ a.op = "release"
    BY <2>1, TaskTypes DEF Release, Task
  <2> HIDE DEF a, none
  <2> QED
    BY <1>0, <2>1, <2>2, OneMoves
<1>3. ASSUME Cleared(t, o) PROVE Moves(t, {"clear"}, {})
  <2> DEFINE a == Task("clear", o, o)
  <2>1. Does(t, <<a>>, none) /\ o \in Streams
    BY <1>3 DEF Cleared
  <2>2. a \in AllTasks /\ a.op = "clear"
    BY <2>1, TaskTypes DEF Task
  <2> HIDE DEF a, none
  <2> QED
    BY <1>0, <2>1, <2>2, OneMoves
<1>4. ASSUME Relocked(t, o) PROVE Moves(t, {"relock"}, {})
  <2> DEFINE a == Task("relock", o, o)
  <2>1. Does(t, <<a>>, none) /\ o \in Streams
    BY <1>4 DEF Relocked
  <2>2. a \in AllTasks /\ a.op = "relock"
    BY <2>1, TaskTypes DEF Task
  <2> HIDE DEF a, none
  <2> QED
    BY <1>0, <2>1, <2>2, OneMoves
<1>5. ASSUME ListenerAdded(t, s, o) PROVE Moves(t, {"listen"}, {"link", "release"})
  <2> DEFINE a == Task("listen", s, o)  l == ListenerCalls(s, o)
  <2>1. Does(t, <<a>>, l)
    BY <1>5 DEF ListenerAdded
  <2>2. a \in AllTasks /\ a.op = "listen"
    BY TaskTypes DEF Task
  <2>3. l \in Seq(AllTasks) /\ \A b \in Range(l) : b.op \in {"link", "release"}
    BY ListenerCallsType, OpOf
  <2> HIDE DEF a, l
  <2> QED
    BY <2>1, <2>2, <2>3, OneMoves
<1>6. ASSUME NodesLinked(t, s, o) PROVE Moves(t, {"link"}, {"dropNode"})
  <2> DEFINE a == Task("link", s, o)  l == <<DropNode(s)>>
  <2>1. Does(t, <<a>>, l)
    BY <1>6 DEF NodesLinked
  <2>2. a \in AllTasks /\ a.op = "link"
    BY TaskTypes DEF Task
  <2>3. l \in Seq(AllTasks) /\ \A b \in Range(l) : b.op \in {"dropNode"}
    BY TaskTypes, ShortLists, SomeKinds, OpOf
  <2> HIDE DEF a, l
  <2> QED
    BY <2>1, <2>2, <2>3, OneMoves
<1>7. ASSUME NEW op \in {"link", "unlink"}, Skipped(t, op, s, o) PROVE Moves(t, {op}, {})
  <2> DEFINE a == Task(op, s, o)
  <2>1. Does(t, <<a>>, none)
    BY <1>7 DEF Skipped
  <2>2. a \in AllTasks /\ a.op = op
    BY TaskTypes DEF Task
  <2> HIDE DEF a, none
  <2> QED
    BY <1>0, <2>1, <2>2, OneMoves
<1>8. ASSUME NodeKept(t, o) PROVE Moves(t, {"dropNode"}, {})
  <2> DEFINE a == DropNode(o)
  <2>1. Does(t, <<a>>, none)
    BY <1>8 DEF NodeKept
  <2>2. a \in AllTasks /\ a.op = "dropNode"
    BY TaskTypes DEF DropNode, Task
  <2> HIDE DEF a, none
  <2> QED
    BY <1>0, <2>1, <2>2, OneMoves
<1>9. ASSUME NodeGone(t, o) PROVE Moves(t, {"dropNode"}, {"unsource", "release", "dropNode"})
  <2> DEFINE a == DropNode(o)  l == Destroying(o)
  <2>1. Does(t, <<a>>, l)
    BY <1>9 DEF NodeGone
  <2>2. a \in AllTasks /\ a.op = "dropNode"
    BY TaskTypes DEF DropNode, Task
  <2>3. l \in Seq(AllTasks) /\ \A b \in Range(l) : b.op \in {"unsource", "release", "dropNode"}
    <3>1. /\ l \in Seq(AllTasks)
          /\ Range(l) = {Task("unsource", o, x) : x \in Range(Outgoing(o))}
                          \cup {Release(y, "node") : y \in {o} \cap Streams}
                          \cup {Release(x, "stream") : x \in Range(sources[o])}
                          \cup {DropNode(x) : x \in Range(Outgoing(o))}
      BY DestroyingType
    <3> HIDE DEF l
    <3> QED
      BY <3>1, OpOf
  <2> HIDE DEF a, l
  <2> QED
    BY <2>1, <2>2, <2>3, OneMoves
<1>10. ASSUME Unsourced(t, s, o) PROVE Moves(t, {"unsource"}, {"release"})
  <2> DEFINE a == Task("unsource", s, o)  l == SourcesRemoved(s, o)
  <2>1. Does(t, <<a>>, l)
    BY <1>10 DEF Unsourced
  <2>2. a \in AllTasks /\ a.op = "unsource"
    BY TaskTypes DEF Task
  <2>3. l \in Seq(AllTasks) /\ \A b \in Range(l) : b.op \in {"release"}
    <3>1. l \in Seq(AllTasks) /\ Range(l) = {Release(s, "stream")}
      BY SourcesRemovedType
    <3> HIDE DEF l
    <3> QED
      BY <3>1, OpOf
  <2> HIDE DEF a, l
  <2> QED
    BY <2>1, <2>2, <2>3, OneMoves
<1>11. ASSUME NodesUnlinked(t, s, o) PROVE Moves(t, {"unlink"}, {"release", "dropNode"})
  <2> DEFINE a == Task("unlink", s, o)  l == SourcesRemoved(s, o) \o <<DropNode(o), DropNode(s)>>
  <2>1. Does(t, <<a>>, l)
    BY <1>11 DEF NodesUnlinked
  <2>2. a \in AllTasks /\ a.op = "unlink"
    BY TaskTypes DEF Task
  <2>3. l \in Seq(AllTasks) /\ \A b \in Range(l) : b.op \in {"release", "dropNode"}
    BY UnlinkedType, OpOf
  <2> HIDE DEF a, l
  <2> QED
    BY <2>1, <2>2, <2>3, OneMoves
<1> QED
  BY <1>1, <1>2, <1>3, <1>4, <1>5, <1>6, <1>7, <1>8, <1>9, <1>10, <1>11

LEMMA PostMoves ==
  ASSUME TypeOK, NEW t \in Threads, NEW o \in Objects, NEW s \in Streams, NEW u \in Threads
  PROVE  /\ Killed(t, s, o) => Moves(t, {"kill"}, {"raise", "last"})
         /\ Deferred(t, s, o) => Moves(t, {"last"}, {"close"})
         /\ PostRun(t, u, s, o) => Moves(t, {"posts"}, {"unlink", "posts"})
<1>1. ASSUME Killed(t, s, o) PROVE Moves(t, {"kill"}, {"raise", "last"})
  <2> DEFINE a == Task("kill", s, o)  b == Now("raise", t)  c == Task("last", s, o)
             l == <<b, c>>
  <2>1. Does(t, <<a>>, l)
    BY <1>1 DEF Killed
  <2>2. a \in AllTasks /\ a.op = "kill" /\ b \in AllTasks /\ c \in AllTasks
    BY TaskTypes DEF Task
  <2>3. l \in Seq(AllTasks) /\ \A e \in Range(l) : e.op \in {"raise", "last"}
    <3>1. l \in Seq(AllTasks) /\ Range(l) = {b, c}
      BY <2>2, ShortLists
    <3> HIDE DEF l
    <3> QED
      BY <3>1, OpOf
  <2> HIDE DEF a, l
  <2> QED
    BY <2>1, <2>2, <2>3, OneMoves
<1>2. ASSUME Deferred(t, s, o) PROVE Moves(t, {"last"}, {"close"})
  <2> DEFINE a == Task("last", s, o)  l == <<Close(t)>>
  <2>1. Does(t, <<a>>, l)
    BY <1>2 DEF Deferred
  <2>2. a \in AllTasks /\ a.op = "last"
    BY TaskTypes DEF Task
  <2>3. l \in Seq(AllTasks) /\ \A e \in Range(l) : e.op \in {"close"}
    BY TaskTypes, ShortLists, OpOf
  <2> HIDE DEF a, l
  <2> QED
    BY <2>1, <2>2, <2>3, OneMoves
<1>3. ASSUME PostRun(t, u, s, o) PROVE Moves(t, {"posts"}, {"unlink", "posts"})
  <2> DEFINE a == Now("posts", u)  l == <<Task("unlink", s, o), a>>
  <2>1. Does(t, <<a>>, l)
    BY <1>3 DEF PostRun
  <2>2. a \in AllTasks /\ a.op = "posts" /\ Task("unlink", s, o) \in AllTasks
    BY TaskTypes, OpOf
  <2>3. l \in Seq(AllTasks) /\ \A e \in Range(l) : e.op \in {"unlink", "posts"}
    <3>1. l \in Seq(AllTasks) /\ Range(l) = {Task("unlink", s, o), a}
      BY <2>2, ShortLists
    <3> HIDE DEF l
    <3> QED
      BY <3>1, OpOf
  <2> HIDE DEF a, l
  <2> QED
    BY <2>1, <2>2, <2>3, OneMoves
<1> QED
  BY <1>1, <1>2, <1>3

LEMMA TurnMoves ==
  ASSUME TypeOK, NEW t \in Threads
  PROVE  /\ Opened(t) => Moves(t, {}, {"raise"})
         /\ Closing(t) => Moves(t, {}, {"close"})
         /\ \A op, u, tasks : Paced(t, op, u, tasks) => Moves(t, TransactionOps, TransactionOps)
<1> DEFINE none == <<>>
<1>1. none \in Seq(AllTasks) /\ Range(none) = {}
  BY ShortLists
<1> HIDE DEF none
<1>2. ASSUME NEW e \in {"raise", "close"}, Does(t, none, <<Now(e, t)>>) PROVE Moves(t, {}, {e})
  <2> DEFINE l == <<Now(e, t)>>
  <2>1. l \in Seq(AllTasks) /\ \A a \in Range(l) : a.op \in {e}
    BY TaskTypes, ShortLists, OpOf
  <2> HIDE DEF l
  <2>2. Does(t, none, l)
    BY <1>2 DEF l
  <2> QED
    BY <1>1, <2>1, <2>2, MovesLists
<1>3. Opened(t) => Moves(t, {}, {"raise"})
  BY <1>2 DEF Opened, none
<1>4. Closing(t) => Moves(t, {}, {"close"})
  BY <1>2 DEF Closing, Close, none
<1>5. ASSUME NEW op, NEW u, NEW tasks, Paced(t, op, u, tasks)
      PROVE  Moves(t, TransactionOps, TransactionOps)
  <2> DEFINE a == Now(op, u)  done == <<a>>
  <2>1. op \in TransactionOps /\ u \in Threads /\ tasks \in Seq(Turns) /\ Does(t, done, tasks)
    BY <1>5 DEF Paced
  <2>2. a \in AllTasks
    BY <2>1, TaskTypes
  <2>3. done \in Seq(AllTasks) /\ Range(done) = {a} /\ a.op \in TransactionOps
    BY <2>1, <2>2, ShortLists, OpOf
  <2>4. tasks \in Seq(AllTasks)
    BY <2>1, TaskTypes
  <2>5. \A b \in Range(tasks) : b.op \in TransactionOps
    <3>1. Range(tasks) \subseteq Turns
      BY <2>1 DEF Range
    <3>2. \A b \in Turns : b.op \in TransactionOps
      BY OpOf DEF Turns
    <3> QED
      BY <3>1, <3>2
  <2> HIDE DEF a, done
  <2> QED
    BY <2>1, <2>3, <2>4, <2>5, MovesLists
<1> QED
  BY <1>3, <1>4, <1>5

-----------------------------------------------------------------------------
(* What the invariant says of things that are in use.                      *)

LEMMA CleaningIs ==
  TypeOK =>
    \A o : /\ Cleaning(o) <=> Task("clear", o, o) \in Tasks
           /\ Cardinality(Cleaners(o)) = Due({Task("clear", o, o)})
           /\ \A a : Due({a}) \in Nat /\ (Due({a}) = 0 <=> a \notin Tasks)
<1> SUFFICES ASSUME TypeOK, NEW o
             PROVE  /\ Cleaning(o) <=> Task("clear", o, o) \in Tasks
                    /\ Cardinality(Cleaners(o)) = Due({Task("clear", o, o)})
                    /\ \A a : Due({a}) \in Nat /\ (Due({a}) = 0 <=> a \notin Tasks)
  OBVIOUS
<1>1. ASSUME NEW a PROVE Due({a}) \in Nat /\ (Due({a}) = 0 <=> a \notin Tasks)
  <2>1. Due({a}) \in Nat /\ (Due({a}) = 0 <=> Tasks \cap {a} = {})
    BY DueType
  <2> QED
    BY <2>1
<1>2. Cardinality(Cleaners(o)) = Due({Task("clear", o, o)})
  BY DEF Cleaners, Due, Occurs
<1>3. IsFiniteSet(Cleaners(o))
  <2>1. agenda \in [Threads -> Seq(AllTasks)]
    BY DEF TypeOK
  <2>2. IsFiniteSet(Places({Task("clear", o, o)}, agenda))
    BY <2>1, FiniteAssumption, OccursType
  <2> QED
    BY <2>2 DEF Cleaners
<1>4. Cardinality(Cleaners(o)) = 0 <=> Cleaners(o) = {}
  BY <1>3, FS_EmptySet
<1> QED
  BY <1>1, <1>2, <1>4 DEF Cleaning

LEMMA CleaningIsNext ==
  TypeOK' =>
    (\A o : /\ Cleaning(o) <=> Task("clear", o, o) \in Tasks
            /\ Cardinality(Cleaners(o)) = Due({Task("clear", o, o)})
            /\ \A a : Due({a}) \in Nat /\ (Due({a}) = 0 <=> a \notin Tasks))'
BY CleaningIs, PTL

\* What is ahead of something has it behind it.
LEMMA BehindIs ==
  ASSUME TypeOK, NEW a \in Tasks, NEW b, \A u \in Threads : Ahead(agenda[u], a, b)
  PROVE  b \in Tasks
<1>1. PICK u \in Threads : a \in Range(agenda[u])
  BY DEF Tasks
<1>2. PICK k \in DOMAIN agenda[u] : agenda[u][k] = a
  BY <1>1 DEF Range
<1>3. PICK j \in DOMAIN agenda[u] : agenda[u][j] = b
  BY <1>2 DEF Ahead
<1>4. b \in Range(agenda[u])
  BY <1>3 DEF Range
<1> QED
  BY <1>4 DEF Tasks

\* What is referred to is there.
Used ==
  /\ \A o \in Objects : nodeRefs[o] # 0 => Made(o)
  /\ \A o \in Streams :
       /\ \A k \in Kinds : Number(o, k) # 0 => Made(o) /\ o \notin freed
       /\ Held(o) \/ Feeds(o) => Number(o, "stream") # 0
       /\ nodeRefs[o] # 0 => Number(o, "node") # 0
       /\ Task("relock", o, o) \in Tasks => Number(o, "strong") # 0
       /\ Task("clear", o, o) \in Tasks => Task("relock", o, o) \in Tasks
       /\ \A k \in Kinds : Release(o, k) \in Tasks => Number(o, k) # 0
  /\ \A o : Held(o) => o \in Streams
  /\ \A s \in Streams, o \in Objects :
       /\ \A a \in Listening(s, o) : a \in Tasks =>
            /\ nodeRefs[o] # 0 /\ Held(s) /\ s \in Range(Sources[o]) /\ s # o
            /\ o \in Streams => Held(o)
       /\ Task("unsource", s, o) \in Tasks => Number(s, "node") # 0
       /\ o \in Range(targets[s]) => nodeRefs[o] # 0 /\ nodeRefs[s] # 0
  /\ \A o \in Objects : DropNode(o) \in Tasks => nodeRefs[o] # 0

LEMMA InUse ==
  TypeOK /\ Counted /\ Fresh /\ Ordered /\ Building /\ Living /\ Emptied /\ Founded => Used
<1> SUFFICES ASSUME TypeOK, Counted, Fresh, Ordered, Building, Living, Emptied, Founded
             PROVE  Used
  OBVIOUS
<1>0. Referred
  BY NoReferences
<1>1. \A o \in Objects : nodeRefs[o] # 0 => Made(o)
  BY DEF Fresh
<1>2. \A o \in Objects : DropNode(o) \in Tasks => nodeRefs[o] # 0
  BY <1>0 DEF Referred
<1>3. ASSUME NEW o \in Streams
      PROVE  /\ \A k \in Kinds : Number(o, k) # 0 => Made(o) /\ o \notin freed
             /\ Held(o) \/ Feeds(o) => Number(o, "stream") # 0
             /\ nodeRefs[o] # 0 => Number(o, "node") # 0
             /\ Task("relock", o, o) \in Tasks => Number(o, "strong") # 0
             /\ Task("clear", o, o) \in Tasks => Task("relock", o, o) \in Tasks
             /\ \A k \in Kinds : Release(o, k) \in Tasks => Number(o, k) # 0
  <2>1. \A k \in Kinds : Number(o, k) # 0 => Made(o) /\ o \notin freed
    BY SomeKinds DEF Fresh, Living, Lives, Zero
  <2>2. (Held(o) \/ Feeds(o) => Number(o, "stream") # 0) /\ (nodeRefs[o] # 0 => Number(o, "node") # 0)
    BY <1>0 DEF Referred, Feeds
  <2>3. Task("relock", o, o) \in Tasks => Number(o, "strong") # 0
    BY ReleaseCounted
  <2>4. Task("clear", o, o) \in Tasks => Task("relock", o, o) \in Tasks
    BY BehindIs DEF Ordered
  <2>5. \A k \in Kinds : Release(o, k) \in Tasks => Number(o, k) # 0
    BY ReleaseCounted
  <2> QED
    BY <2>1, <2>2, <2>3, <2>4, <2>5
<1>4. \A o : Held(o) => o \in Streams
  BY DEF Held, TypeOK
<1>5. ASSUME NEW s \in Streams, NEW o \in Objects, NEW a \in Listening(s, o), a \in Tasks
      PROVE  /\ nodeRefs[o] # 0 /\ Held(s) /\ s \in Range(Sources[o]) /\ s # o
             /\ o \in Streams => Held(o)
  <2>1. DropNode(o) \in Tasks
    BY <1>5, BehindIs DEF Ordered
  <2>2. nodeRefs[o] # 0 /\ Made(o)
    BY <1>1, <1>2, <2>1
  <2>3. PICK u \in Threads : a \in Range(agenda[u])
    BY <1>5 DEF Tasks
  <2>4. s \in held[u] /\ s \in Range(Sources[o]) /\ (o \in Streams => o \in held[u])
    BY <2>3 DEF Building
  <2>5. o \notin Range(Sources[o])
    <3> DEFINE X == {o}
    <3>1. X \in SUBSET {x \in Objects : Made(x)} /\ X # {}
      BY <2>2
    <3>2. PICK x \in X : \A y \in X : y \notin Range(Sources[x])
      BY <3>1 DEF Founded
    <3> QED
      BY <3>2
  <2> QED
    BY <2>2, <2>4, <2>5 DEF Held
<1>6. ASSUME NEW s \in Streams, NEW o \in Objects
      PROVE  /\ Task("unsource", s, o) \in Tasks => Number(s, "node") # 0
             /\ o \in Range(targets[s]) => nodeRefs[o] # 0 /\ nodeRefs[s] # 0
  <2>1. ASSUME Task("unsource", s, o) \in Tasks PROVE Number(s, "node") # 0
    <3>1. Release(s, "node") \in Tasks
      BY <2>1, BehindIs DEF Ordered
    <3> QED
      BY <3>1, SomeKinds, ReleaseCounted
  <2>2. ASSUME o \in Range(targets[s]) PROVE nodeRefs[o] # 0 /\ nodeRefs[s] # 0
    <3>1. nodeRefs[o] # 0
      BY <1>0, <2>2 DEF Referred
    <3>2. targets[s] # <<>> /\ s \in Objects
      BY <2>2, SomeKinds DEF Range
    <3> QED
      BY <3>1, <3>2 DEF Emptied
  <2> QED
    BY <2>1, <2>2
<1> QED
  BY <1>1, <1>2, <1>3, <1>4, <1>5, <1>6 DEF Used

LEMMA InUseNext ==
  (TypeOK /\ Counted /\ Fresh /\ Ordered /\ Building /\ Living /\ Emptied /\ Founded)' => Used'
BY InUse, PTL

LEMMA DoneIn ==
  ASSUME TypeOK, NEW t \in Threads, NEW a, NEW tasks, a \in AllTasks, tasks \in Seq(AllTasks),
         Does(t, <<a>>, tasks)
  PROVE  a \in Tasks
BY DoneIsDue

\* The tasks that steps do are there before.
LEMMA Underway ==
  ASSUME TypeOK, NEW t \in Threads, NEW s \in Streams, NEW o \in Objects
  PROVE  /\ ListenerAdded(t, s, o) => Task("listen", s, o) \in Tasks
         /\ NodesLinked(t, s, o) => Task("link", s, o) \in Tasks
         /\ Unsourced(t, s, o) => Task("unsource", s, o) \in Tasks
         /\ NodesUnlinked(t, s, o) => Task("unlink", s, o) \in Tasks
         /\ Killed(t, s, o) => Task("kill", s, o) \in Tasks
         /\ Deferred(t, s, o) => Task("last", s, o) \in Tasks
<1>1. \A op \in {"listen", "link", "unsource", "unlink", "kill", "last"} : Task(op, s, o) \in AllTasks
  BY TaskTypes
<1>2. ASSUME ListenerAdded(t, s, o) PROVE Task("listen", s, o) \in Tasks
  <2>1. Does(t, <<Task("listen", s, o)>>, ListenerCalls(s, o))
    BY <1>2 DEF ListenerAdded
  <2> QED
    BY <1>1, <2>1, ListenerCallsType, DoneIn
<1>3. ASSUME NodesLinked(t, s, o) PROVE Task("link", s, o) \in Tasks
  <2>1. Does(t, <<Task("link", s, o)>>, <<DropNode(s)>>)
    BY <1>3 DEF NodesLinked
  <2>2. <<DropNode(s)>> \in Seq(AllTasks)
    BY TaskTypes, ShortLists, SomeKinds
  <2> QED
    BY <1>1, <2>1, <2>2, DoneIn
<1>4. ASSUME Unsourced(t, s, o) PROVE Task("unsource", s, o) \in Tasks
  <2>1. Does(t, <<Task("unsource", s, o)>>, SourcesRemoved(s, o))
    BY <1>4 DEF Unsourced
  <2> QED
    BY <1>1, <2>1, SourcesRemovedType, DoneIn
<1>5. ASSUME NodesUnlinked(t, s, o) PROVE Task("unlink", s, o) \in Tasks
  <2> DEFINE l == SourcesRemoved(s, o) \o <<DropNode(o), DropNode(s)>>
  <2>1. Does(t, <<Task("unlink", s, o)>>, l)
    BY <1>5 DEF NodesUnlinked
  <2>2. l \in Seq(AllTasks)
    BY UnlinkedType
  <2> HIDE DEF l
  <2> QED
    BY <1>1, <2>1, <2>2, DoneIn
<1>6. ASSUME Killed(t, s, o) PROVE Task("kill", s, o) \in Tasks
  <2> DEFINE l == <<Now("raise", t), Task("last", s, o)>>
  <2>1. Does(t, <<Task("kill", s, o)>>, l)
    BY <1>6 DEF Killed
  <2>2. l \in Seq(AllTasks)
    BY TaskTypes, ShortLists
  <2> HIDE DEF l
  <2> QED
    BY <1>1, <2>1, <2>2, DoneIn
<1>7. ASSUME Deferred(t, s, o) PROVE Task("last", s, o) \in Tasks
  <2>1. Does(t, <<Task("last", s, o)>>, <<Close(t)>>)
    BY <1>7 DEF Deferred
  <2>2. <<Close(t)>> \in Seq(AllTasks)
    BY TaskTypes, ShortLists
  <2> QED
    BY <1>1, <2>1, <2>2, DoneIn
<1> QED
  BY <1>2, <1>3, <1>4, <1>5, <1>6, <1>7

LEMMA UnderwayAlone ==
  ASSUME TypeOK, NEW t \in Threads, NEW o \in Objects, NEW k \in Kinds
  PROVE  /\ CleanupStarts(t, o, k) \/ Released(t, o, k) => Release(o, k) \in Tasks
         /\ Cleared(t, o) => Task("clear", o, o) \in Tasks
         /\ Relocked(t, o) => Task("relock", o, o) \in Tasks
<1>0. <<>> \in Seq(AllTasks)
  BY ShortLists
<1>1. ASSUME CleanupStarts(t, o, k) PROVE Release(o, k) \in Tasks
  <2> DEFINE l == Each("kill", cleanups[o], o) \o <<Task("clear", o, o), Task("relock", o, o)>>
  <2>1. Does(t, <<Release(o, k)>>, l) /\ o \in Streams
    BY <1>1 DEF CleanupStarts
  <2>2. l \in Seq(AllTasks) /\ Release(o, k) \in AllTasks
    BY <2>1, CleanupType, TaskTypes
  <2> HIDE DEF l
  <2> QED
    BY <2>1, <2>2, DoneIn
<1>2. ASSUME Released(t, o, k) PROVE Release(o, k) \in Tasks
  <2>1. Does(t, <<Release(o, k)>>, <<>>) /\ o \in Streams
    BY <1>2 DEF Released
  <2> QED
    BY <1>0, <2>1, TaskTypes, DoneIn
<1>3. ASSUME Cleared(t, o) PROVE Task("clear", o, o) \in Tasks
  <2>1. Does(t, <<Task("clear", o, o)>>, <<>>) /\ o \in Streams
    BY <1>3 DEF Cleared
  <2> QED
    BY <1>0, <2>1, TaskTypes, DoneIn
<1>4. ASSUME Relocked(t, o) PROVE Task("relock", o, o) \in Tasks
  <2>1. Does(t, <<Task("relock", o, o)>>, <<>>) /\ o \in Streams
    BY <1>4 DEF Relocked
  <2> QED
    BY <1>0, <2>1, TaskTypes, DoneIn
<1> QED
  BY <1>1, <1>2, <1>3, <1>4

\* Counts are right after every step.
LEMMA StepCounts ==
  ASSUME TypeOK, Counted, Fresh, Used, Room, NEW t \in Threads, Step(t)
  PROVE  TypeOK' /\ Counted'
<1>1. ASSUME Apart(t) PROVE TypeOK' /\ Counted'
  <2>1. CASE Opened(t) \/ Closing(t)
    BY <2>1, OpenedCounts
  <2>2. ASSUME NEW o \in Objects, HandleDropped(t, o) PROVE TypeOK' /\ Counted'
    BY <2>2, HandleDroppedCounts
  <2>3. ASSUME NEW o \in Objects, SinkDropped(t, o) PROVE TypeOK' /\ Counted'
    BY <2>3, SinkDroppedCounts
  <2>4. ASSUME NEW s \in Streams, NEW o \in Objects, NEW op \in {"link", "unlink"}, Skipped(t, op, s, o)
        PROVE  TypeOK' /\ Counted'
    BY <2>4, SkippedCounts
  <2>5. ASSUME NEW s \in Streams, NEW o \in Objects, Killed(t, s, o) PROVE TypeOK' /\ Counted'
    BY <2>5, KilledCounts
  <2>6. ASSUME NEW s \in Streams, NEW o \in Objects, Deferred(t, s, o) PROVE TypeOK' /\ Counted'
    BY <2>6, DeferredCounts
  <2>7. ASSUME NEW op \in TransactionOps, NEW u \in Threads, NEW tasks \in Seq(Turns),
               Paced(t, op, u, tasks)
        PROVE  TypeOK' /\ Counted'
    BY <2>7, PacedCounts
  <2>8. ASSUME NEW u \in Threads, NEW s \in Streams, NEW o \in Objects, PostRun(t, u, s, o)
        PROVE  TypeOK' /\ Counted'
    BY <2>8, PostRunCounts
  <2> QED
    BY <1>1, <2>1, <2>2, <2>3, <2>4, <2>5, <2>6, <2>7, <2>8 DEF Apart
<1>2. ASSUME NEW o \in Objects, SinkMade(t, o) PROVE TypeOK' /\ Counted'
  BY <1>2, SinkMadeCounts
<1>3. ASSUME NEW o \in Objects, StreamMade(t, o) PROVE TypeOK' /\ Counted'
  BY <1>3, StreamMadeCounts
<1>4. ASSUME NEW o \in Objects, ListenerMade(t, o) PROVE TypeOK' /\ Counted'
  BY <1>4, ListenerMadeCounts
<1>5. ASSUME NEW o \in Objects, Cleared(t, o) PROVE TypeOK' /\ Counted'
  BY <1>5, ClearedCounts
<1>6. ASSUME NEW o \in Objects, Relocked(t, o) PROVE TypeOK' /\ Counted'
  BY <1>6, RelockedCounts
<1>7. ASSUME NEW o \in Objects, NodeKept(t, o) PROVE TypeOK' /\ Counted'
  BY <1>7, NodeKeptCounts
<1>8. ASSUME NEW o \in Objects, NodeGone(t, o) PROVE TypeOK' /\ Counted'
  BY <1>8, NodeGoneCounts
<1>9. ASSUME NEW o \in Objects, NEW k \in Kinds, CleanupStarts(t, o, k) PROVE TypeOK' /\ Counted'
  BY <1>9, CleanupStartsCounts
<1>10. ASSUME NEW o \in Objects, NEW k \in Kinds, Released(t, o, k) PROVE TypeOK' /\ Counted'
  BY <1>10, ReleasedCounts
<1>11. ASSUME NEW o \in Objects, NEW u \in Threads, HandleCopied(t, u, o) PROVE TypeOK' /\ Counted'
  BY <1>11, HandleCopiedCounts
<1>12. ASSUME NEW s \in Streams, NEW o \in Objects, Unlistened(t, s, o) PROVE TypeOK' /\ Counted'
  BY <1>12, UnlistenedCounts
<1>13. ASSUME NEW s \in Streams, NEW o \in Objects, ListenerAdded(t, s, o) PROVE TypeOK' /\ Counted'
  BY <1>13, ListenerAddedCounts
<1>14. ASSUME NEW s \in Streams, NEW o \in Objects, NodesLinked(t, s, o) PROVE TypeOK' /\ Counted'
  <2>1. Task("link", s, o) \in Tasks
    BY <1>14, Underway
  <2>2. nodeRefs[o] # 0 /\ s # o
    BY <2>1 DEF Used, Listening
  <2>3. nodeRefs[o] > 0
    BY <2>2 DEF TypeOK
  <2> QED
    BY <1>14, <2>2, <2>3, NodesLinkedCounts
<1>15. ASSUME NEW s \in Streams, NEW o \in Objects, Unsourced(t, s, o) PROVE TypeOK' /\ Counted'
  BY <1>15, UnsourcedCounts
<1>16. ASSUME NEW s \in Streams, NEW o \in Objects, NodesUnlinked(t, s, o) PROVE TypeOK' /\ Counted'
  BY <1>16, NodesUnlinkedCounts
<1> QED
  BY <1>1, <1>2, <1>3, <1>4, <1>5, <1>6, <1>7, <1>8, <1>9, <1>10, <1>11, <1>12, <1>13, <1>14,
     <1>15, <1>16 DEF Step

-----------------------------------------------------------------------------
(* The other parts of the invariant.                                       *)

LEMMA MovesMore ==
  ASSUME NEW t, NEW C, NEW D, NEW S, NEW T, Moves(t, C, S), C \subseteq D, S \subseteq T
  PROVE  Moves(t, D, T)
BY DEF Moves

ApartDoes == {"link", "unlink", "kill", "last"} \cup TransactionOps
ApartBrings == {"release", "dropNode", "unlink", "last"} \cup TransactionOps

LEMMA ApartFacts ==
  ASSUME TypeOK, NEW t \in Threads, Apart(t)
  PROVE  /\ counts' = counts /\ func' = func /\ cleanups' = cleanups /\ nodeRefs' = nodeRefs
         /\ targets' = targets /\ sources' = sources /\ freed' = freed /\ maker' = maker
         /\ \A o : Held(o)' => Held(o)
         /\ \A u \in Threads : agenda[u] = <<>> \/ held[u] \subseteq held'[u]
         /\ Moves(t, ApartDoes, ApartBrings)
<1> DEFINE Facts ==
             /\ counts' = counts /\ func' = func /\ cleanups' = cleanups /\ nodeRefs' = nodeRefs
             /\ targets' = targets /\ sources' = sources /\ freed' = freed /\ maker' = maker
             /\ \A o : Held(o)' => Held(o)
             /\ \A u \in Threads : agenda[u] = <<>> \/ held[u] \subseteq held'[u]
             /\ Moves(t, ApartDoes, ApartBrings)
<1>0. /\ {} \subseteq ApartDoes /\ {"link"} \subseteq ApartDoes /\ {"unlink"} \subseteq ApartDoes
      /\ {"kill"} \subseteq ApartDoes /\ {"last"} \subseteq ApartDoes /\ {"posts"} \subseteq ApartDoes
      /\ TransactionOps \subseteq ApartDoes
      /\ {} \subseteq ApartBrings /\ {"release"} \subseteq ApartBrings /\ {"dropNode"} \subseteq ApartBrings
      /\ {"raise"} \subseteq ApartBrings /\ {"close"} \subseteq ApartBrings
      /\ {"raise", "last"} \subseteq ApartBrings /\ {"unlink", "posts"} \subseteq ApartBrings
      /\ TransactionOps \subseteq ApartBrings
  BY DEF ApartDoes, ApartBrings, TransactionOps
<1>1. ASSUME Opened(t) \/ Closing(t) PROVE Facts
  <2>1. Moves(t, {}, {"raise"}) \/ Moves(t, {}, {"close"})
    BY <1>1, TurnMoves
  <2>2. Moves(t, ApartDoes, ApartBrings)
    BY <1>0, <2>1, MovesMore
  <2> QED
    BY <1>1, <2>2 DEF Opened, Closing, links, Held
<1>2. ASSUME NEW o \in Objects, HandleDropped(t, o) PROVE Facts
  <2>1. Moves(t, ApartDoes, ApartBrings)
    <3>1. o \in Streams
      BY <1>2 DEF HandleDropped, TypeOK
    <3>2. Moves(t, {}, {"release"})
      BY <1>2, <3>1, ProgramMoves
    <3> QED
      BY <1>0, <3>2, MovesMore
  <2>2. /\ \A p : Held(p)' => Held(p)
        /\ \A u \in Threads : agenda[u] = <<>> \/ held[u] \subseteq held'[u]
    BY <1>2 DEF HandleDropped, Held, TypeOK
  <2> QED
    BY <1>2, <2>1, <2>2 DEF HandleDropped, links
<1>3. ASSUME NEW o \in Objects, SinkDropped(t, o) PROVE Facts
  <2>1. Moves(t, ApartDoes, ApartBrings)
    <3>1. o \in Streams
      BY <1>3 DEF SinkDropped, TypeOK
    <3>2. Moves(t, {}, {"dropNode"})
      BY <1>3, <3>1, ProgramMoves
    <3> QED
      BY <1>0, <3>2, MovesMore
  <2> QED
    BY <1>3, <2>1 DEF SinkDropped, links, Held
<1>4. ASSUME NEW s \in Streams, NEW o \in Objects, NEW op \in {"link", "unlink"}, Skipped(t, op, s, o)
      PROVE  Facts
  <2>1. Moves(t, ApartDoes, ApartBrings)
    <3>1. Moves(t, {op}, {})
      BY <1>4, CallMoves, SomeKinds
    <3> QED
      BY <1>0, <3>1, MovesMore
  <2> QED
    BY <1>4, <2>1 DEF Skipped, links, owners, Held
<1>5. ASSUME NEW s \in Streams, NEW o \in Objects, Killed(t, s, o) \/ Deferred(t, s, o) PROVE Facts
  <2>1. Moves(t, ApartDoes, ApartBrings)
    <3>1. Moves(t, {"kill"}, {"raise", "last"}) \/ Moves(t, {"last"}, {"close"})
      BY <1>5, PostMoves
    <3> QED
      BY <1>0, <3>1, MovesMore
  <2> QED
    BY <1>5, <2>1 DEF Killed, Deferred, links, owners, Held
<1>6. ASSUME NEW op, NEW u, NEW tasks, Paced(t, op, u, tasks) PROVE Facts
  <2>1. Moves(t, ApartDoes, ApartBrings)
    <3>1. Moves(t, TransactionOps, TransactionOps)
      BY <1>6, TurnMoves
    <3> QED
      BY <1>0, <3>1, MovesMore
  <2> QED
    BY <1>6, <2>1 DEF Paced, links, owners, Held
<1>7. ASSUME NEW u \in Threads, NEW s \in Streams, NEW o \in Objects, PostRun(t, u, s, o) PROVE Facts
  <2>1. Moves(t, ApartDoes, ApartBrings)
    <3>1. Moves(t, {"posts"}, {"unlink", "posts"})
      BY <1>7, PostMoves
    <3> QED
      BY <1>0, <3>1, MovesMore
  <2> QED
    BY <1>7, <2>1 DEF PostRun, links, owners, Held
<1> HIDE DEF Facts
<1>8. Facts
  BY <1>1, <1>2, <1>3, <1>4, <1>5, <1>6, <1>7 DEF Apart
<1> QED
  BY <1>8 DEF Facts

LEMMA WithoutEmpty == ASSUME NEW S, NEW x PROVE Without(<<>>, x) = <<>>
<1> DEFINE q == Without(<<>>, x)
<1>1. <<>> \in Seq(S)
  OBVIOUS
<1>2. q \in Seq(S) /\ Count(S, q) = 0
  BY <1>1, WithoutType, CountEmpty
<1> HIDE DEF q
<1>3. Range(q) \cap S = {}
  BY <1>2, CountType
<1>4. q = <<>>
  BY <1>2, <1>3 DEF Range
<1> QED
  BY <1>4 DEF q

LEMMA FreshNext ==
  ASSUME TypeOK, Counted, Fresh, Used, NEW t \in Threads, Step(t)
  PROVE  Fresh'
<1> DEFINE Same(p) ==
             ~Made(p)' =>
               /\ ~Made(p) /\ nodeRefs'[p] = nodeRefs[p] /\ cleanups'[p] \in {<<>>, cleanups[p]}
               /\ p \in Streams => /\ counts'[p] = counts[p] /\ (func'[p] => func[p])
                                   /\ p \in freed' => p \in freed
<1> SUFFICES ASSUME NEW p \in Objects PROVE Same(p)
  BY DEF Fresh, Zero, Number, Made
<1>1. /\ nodeRefs[p] # 0 => Made(p)
      /\ p \in Streams => \A k \in Kinds : Number(p, k) # 0 => Made(p)
      /\ nodeRefs \in [Objects -> Nat]
  BY DEF Used, TypeOK
<1>2. CASE Apart(t)
  BY <1>2, ApartFacts DEF Made
<1>3. ASSUME NEW o \in Objects, SinkMade(t, o) \/ StreamMade(t, o) \/ ListenerMade(t, o)
      PROVE  Same(p)
  BY <1>3, SomeKinds, ObjectsAssumption
  DEF SinkMade, StreamMade, ListenerMade, NewStream, Made, TypeOK
<1>4. ASSUME NEW o \in Objects, Cleared(t, o) PROVE Same(p)
  BY <1>4 DEF Cleared, Made, owners, TypeOK
<1>5. ASSUME NEW o \in Objects, Relocked(t, o) PROVE Same(p)
  <2>1. o \in Streams /\ Number(o, "strong") # 0
    BY <1>5, RelockedCounts DEF Relocked
  <2>2. Made(o)
    BY <2>1, SomeKinds DEF Used
  <2> QED
    BY <1>5, <2>2 DEF Relocked, Dec, Made, owners, TypeOK
<1>6. ASSUME NEW o \in Objects, NEW k \in Kinds, CleanupStarts(t, o, k) \/ Released(t, o, k)
      PROVE  Same(p)
  <2>1. o \in Streams
    BY <1>6 DEF CleanupStarts, Released
  <2>2. Release(o, k) \in Tasks
    BY <1>6, UnderwayAlone
  <2>3. Made(o)
    BY <2>1, <2>2 DEF Used
  <2> QED
    BY <1>6, <2>3 DEF CleanupStarts, Released, Dec, Made, owners, TypeOK
<1>7. ASSUME NEW o \in Objects, NodeKept(t, o) \/ NodeGone(t, o) PROVE Same(p)
  <2>1. Made(o)
    BY <1>7 DEF Used, NodeKept, NodeGone
  <2> QED
    BY <1>7, <2>1 DEF NodeKept, NodeGone, Made, owners, TypeOK
<1>8. ASSUME NEW o \in Objects, NEW u \in Threads, HandleCopied(t, u, o) PROVE Same(p)
  <2>1. o \in Streams /\ Made(o)
    <3>1. Held(o)
      BY <1>8 DEF HandleCopied, Held
    <3> QED
      BY <3>1, SomeKinds DEF Used
  <2> QED
    BY <1>8, <2>1 DEF HandleCopied, Inc, Made, TypeOK
<1>9. ASSUME NEW s \in Streams, NEW o \in Objects, Unlistened(t, s, o) PROVE Same(p)
  BY <1>9 DEF Unlistened, Made, owners, TypeOK
<1>10. ASSUME NEW s \in Streams, NEW o \in Objects, ListenerAdded(t, s, o) \/ NodesLinked(t, s, o)
       PROVE  Same(p)
  <2>1. Task("listen", s, o) \in Tasks \/ Task("link", s, o) \in Tasks
    BY <1>10, Underway
  <2>2. nodeRefs[o] # 0 /\ Held(s)
    BY <2>1 DEF Used, Listening
  <2>3. Made(o) /\ Made(s)
    BY <2>2, SomeKinds DEF Used
  <2> QED
    BY <1>10, <2>3, SomeKinds DEF ListenerAdded, NodesLinked, Inc, Made, owners, TypeOK
<1>11. ASSUME NEW s \in Streams, NEW o \in Objects, Unsourced(t, s, o) \/ NodesUnlinked(t, s, o)
       PROVE  Same(p)
  <2>1. Made(s)
    <3>1. CASE Unsourced(t, s, o)
      <4>1. Task("unsource", s, o) \in Tasks
        BY <3>1, Underway
      <4>2. Number(s, "node") # 0
        BY <4>1 DEF Used
      <4> QED
        BY <4>2, SomeKinds DEF Used
    <3>2. CASE NodesUnlinked(t, s, o)
      BY <3>2, SomeKinds DEF Used, NodesUnlinked
    <3> QED
      BY <1>11, <3>1, <3>2
  <2> QED
    BY <1>11, <2>1, SomeKinds DEF Unsourced, NodesUnlinked, Inc, Made, owners, TypeOK
<1> HIDE DEF Same
<1> QED
  BY <1>2, <1>3, <1>4, <1>5, <1>6, <1>7, <1>8, <1>9, <1>10, <1>11 DEF Step

LEMMA EmptiedNext ==
  ASSUME TypeOK, Counted, Fresh, Emptied, Used, NEW t \in Threads, Step(t)
  PROVE  Emptied'
<1> DEFINE Bare(p) == nodeRefs'[p] = 0 => sources'[p] = <<>> /\ (p \in Streams => targets'[p] = <<>>)
<1> SUFFICES ASSUME NEW p \in Objects PROVE Bare(p)
  BY DEF Emptied
<1>1. nodeRefs[p] = 0 => sources[p] = <<>> /\ (p \in Streams => targets[p] = <<>>)
  BY DEF Emptied
<1>2. CASE UNCHANGED <<nodeRefs, sources, targets>>
  BY <1>1, <1>2
<1>3. ASSUME NEW o \in Objects, SinkMade(t, o) \/ StreamMade(t, o) \/ ListenerMade(t, o)
      PROVE  Bare(p)
  BY <1>1, <1>3 DEF SinkMade, StreamMade, ListenerMade, NewStream, links, TypeOK
<1>4. ASSUME NEW o \in Objects, NodeKept(t, o) \/ NodeGone(t, o) PROVE Bare(p)
  <2>1. CASE NodeKept(t, o)
    <3>1. /\ nodeRefs' = [nodeRefs EXCEPT ![o] = @ - 1] /\ nodeRefs[o] > 1
          /\ sources' = sources /\ targets' = targets
      BY <2>1 DEF NodeKept, links
    <3>2. nodeRefs \in [Objects -> Nat]
      BY DEF TypeOK
    <3>3. nodeRefs'[p] = 0 => nodeRefs[p] = 0
      BY <3>1, <3>2
    <3> QED
      BY <1>1, <3>1, <3>3
  <2>2. CASE NodeGone(t, o)
    <3>1. /\ nodeRefs' = [nodeRefs EXCEPT ![o] = @ - 1]
          /\ sources' = [sources EXCEPT ![o] = <<>>]
          /\ targets' = [s \in Streams |-> IF s = o THEN <<>> ELSE targets[s]]
      BY <2>2 DEF NodeGone
    <3>2. nodeRefs \in [Objects -> Nat] /\ sources \in [Objects -> Seq(Streams)]
      BY DEF TypeOK
    <3>3. CASE p = o
      BY <3>1, <3>2, <3>3
    <3>4. CASE p # o
      BY <1>1, <3>1, <3>2, <3>4
    <3> QED
      BY <3>3, <3>4
  <2> QED
    BY <1>4, <2>1, <2>2
<1>5. ASSUME NEW s \in Streams, NEW o \in Objects, NodesLinked(t, s, o) PROVE Bare(p)
  <2>1. Task("link", s, o) \in Tasks
    BY <1>5, Underway
  <2>2. s # o /\ s \in Objects
    BY <2>1, SomeKinds DEF Used, Listening
  <2>3. /\ nodeRefs' = [nodeRefs EXCEPT ![s] = @ + 1, ![o] = @ + 1]
        /\ sources' = [sources EXCEPT ![o] = <<s>> \o @] /\ targets' = [targets EXCEPT ![s] = <<o>> \o @]
    BY <1>5 DEF NodesLinked
  <2>4. /\ nodeRefs \in [Objects -> Nat] /\ sources \in [Objects -> Seq(Streams)]
        /\ targets \in [Streams -> Seq(Objects)]
    BY DEF TypeOK
  <2>5. CASE p = s \/ p = o
    <3>1. nodeRefs'[p] = nodeRefs[p] + 1 /\ nodeRefs[p] \in Nat
      BY <2>2, <2>3, <2>4, <2>5
    <3> QED
      BY <3>1
  <2>6. CASE p # s /\ p # o
    <3>1. nodeRefs'[p] = nodeRefs[p] /\ sources'[p] = sources[p] /\ (p \in Streams => targets'[p] = targets[p])
      BY <2>3, <2>4, <2>6
    <3> QED
      BY <1>1, <3>1
  <2> QED
    BY <2>5, <2>6
<1>6. ASSUME NEW s \in Streams, NEW o \in Objects, Unsourced(t, s, o) PROVE Bare(p)
  <2>1. Without(<<>>, s) = <<>>
    BY WithoutEmpty
  <2> QED
    BY <1>1, <1>6, <2>1 DEF Unsourced, TypeOK
<1>7. ASSUME NEW s \in Streams, NEW o \in Objects, NodesUnlinked(t, s, o) PROVE Bare(p)
  <2>1. Without(<<>>, s) = <<>> /\ s \in Objects
    BY WithoutEmpty, SomeKinds
  <2> QED
    BY <1>1, <1>7, <2>1 DEF NodesUnlinked, TypeOK
<1>8. CASE Apart(t)
  BY <1>2, <1>8, ApartFacts
<1>9. ASSUME NEW o \in Objects, Cleared(t, o) \/ Relocked(t, o) PROVE Bare(p)
  BY <1>2, <1>9 DEF Cleared, Relocked, links
<1>10. ASSUME NEW o \in Objects, NEW k \in Kinds, CleanupStarts(t, o, k) \/ Released(t, o, k)
       PROVE  Bare(p)
  BY <1>2, <1>10 DEF CleanupStarts, Released, links
<1>11. ASSUME NEW o \in Objects, NEW u \in Threads, HandleCopied(t, u, o) PROVE Bare(p)
  BY <1>2, <1>11 DEF HandleCopied, links
<1>12. ASSUME NEW s \in Streams, NEW o \in Objects, Unlistened(t, s, o) \/ ListenerAdded(t, s, o)
       PROVE  Bare(p)
  BY <1>2, <1>12 DEF Unlistened, ListenerAdded, links
<1> HIDE DEF Bare
<1> QED
  BY <1>3, <1>4, <1>5, <1>6, <1>7, <1>8, <1>9, <1>10, <1>11, <1>12 DEF Step

LEMMA FoundedNext ==
  ASSUME TypeOK, Fresh, Founded, Used, NEW t \in Threads, Step(t)
  PROVE  Founded'
<1>1. ASSUME UNCHANGED maker PROVE Founded'
  BY <1>1 DEF Founded, Made
<1>2. ASSUME NEW o \in Objects, ~Made(o), Range(Sources[o]) \subseteq held[t],
             maker' = [maker EXCEPT ![o] = t]
      PROVE  Founded'
  <2>1. \A p \in Objects : Made(p)' <=> Made(p) \/ p = o
    BY <1>2, ObjectsAssumption DEF Made, TypeOK
  <2>2. \A s \in Range(Sources[o]) : Made(s)
    <3> TAKE s \in Range(Sources[o])
    <3>1. Held(s)
      BY <1>2 DEF Held
    <3> QED
      BY <3>1, SomeKinds DEF Used
  <2>3. \A p \in Objects : \A s \in Range(Sources[p]) : s \in Objects
    BY SourcesAssumption, SomeKinds DEF Range
  <2>4. \A p \in Objects : Made(p)' => \A s \in Range(Sources[p]) : Made(s)'
    BY <2>1, <2>2, <2>3 DEF Founded
  <2>5. ASSUME NEW X \in SUBSET {p \in Objects : Made(p)'}, X # {}
        PROVE  \E p \in X : \A s \in X : s \notin Range(Sources[p])
    <3> DEFINE Y == X \ {o}
    <3>1. Y \in SUBSET {p \in Objects : Made(p)}
      BY <2>1
    <3>2. CASE Y = {}
      <4>1. X = {o}
        BY <2>5, <3>2
      <4>2. o \notin Range(Sources[o])
        BY <1>2, <2>2
      <4> QED
        BY <4>1, <4>2
    <3>3. CASE Y # {}
      <4>1. PICK p \in Y : \A s \in Y : s \notin Range(Sources[p])
        BY <3>1, <3>3 DEF Founded
      <4>2. o \notin Range(Sources[p])
        BY <1>2, <3>1 DEF Founded
      <4> QED
        BY <4>1, <4>2
    <3> QED
      BY <3>2, <3>3
  <2> QED
    BY <2>4, <2>5 DEF Founded
<1>3. CASE Apart(t)
  BY <1>1, <1>3, ApartFacts
<1>4. ASSUME NEW o \in Objects, SinkMade(t, o) PROVE Founded'
  <2>1. Range(Sources[o]) = {}
    BY <1>4 DEF SinkMade, Range
  <2> QED
    BY <1>2, <1>4, <2>1 DEF SinkMade, NewStream, Made
<1>5. ASSUME NEW o \in Objects, StreamMade(t, o) \/ ListenerMade(t, o) PROVE Founded'
  BY <1>2, <1>5 DEF StreamMade, ListenerMade, NewStream, Made
<1>6. ASSUME NEW o \in Objects, Cleared(t, o) \/ Relocked(t, o) \/ NodeKept(t, o) \/ NodeGone(t, o)
      PROVE  Founded'
  BY <1>1, <1>6 DEF Cleared, Relocked, NodeKept, NodeGone, owners
<1>7. ASSUME NEW o \in Objects, NEW k \in Kinds, CleanupStarts(t, o, k) \/ Released(t, o, k)
      PROVE  Founded'
  BY <1>1, <1>7 DEF CleanupStarts, Released, owners
<1>8. ASSUME NEW o \in Objects, NEW u \in Threads, HandleCopied(t, u, o) PROVE Founded'
  BY <1>1, <1>8 DEF HandleCopied
<1>9. ASSUME NEW s \in Streams, NEW o \in Objects,
             \/ Unlistened(t, s, o) \/ ListenerAdded(t, s, o) \/ NodesLinked(t, s, o)
             \/ Unsourced(t, s, o) \/ NodesUnlinked(t, s, o)
      PROVE  Founded'
  BY <1>1, <1>9 DEF Unlistened, ListenerAdded, NodesLinked, Unsourced, NodesUnlinked, owners
<1> QED
  BY <1>3, <1>4, <1>5, <1>6, <1>7, <1>8, <1>9 DEF Step

LEMMA BuildingKept ==
  ASSUME TypeOK, Building, NEW t \in Threads, NEW D, NEW T, Moves(t, D, T),
         "listen" \notin T, "link" \notin T,
         \A u \in Threads : agenda[u] = <<>> \/ held[u] \subseteq held'[u]
  PROVE  Building'
<1> SUFFICES ASSUME NEW u \in Threads, NEW s \in Streams, NEW o \in Objects, NEW a \in Listening(s, o),
                    a \in Range(agenda'[u])
             PROVE  s \in held'[u] /\ s \in Range(Sources[o]) /\ (o \in Streams => o \in held'[u])
  BY DEF Building, Listening
<1>1. a.op \notin T
  BY OpOf DEF Listening
<1>2. a \in Range(agenda[u])
  BY <1>1, MovesAfter
<1>3. agenda[u] # <<>>
  BY <1>2 DEF Range
<1> QED
  BY <1>2, <1>3 DEF Building

LEMMA BuildingMaking ==
  ASSUME TypeOK, Building, NEW t \in Threads, NEW o \in Objects, Does(t, <<>>, Making(t, o)),
         \A u \in Threads : held[u] \subseteq held'[u],
         Range(Sources[o]) \subseteq held[t], o \in Streams => o \in held'[t]
  PROVE  Building'
<1> DEFINE l == Making(t, o)
<1>1. l \in Seq(AllTasks) /\ Range(l) = {Now("raise", t)} \cup {Task("listen", s, o) : s \in Range(Sources[o])}
                                          \cup {DropNode(o), Close(t)}
  BY MakingType
<1> SUFFICES ASSUME NEW u \in Threads, NEW s \in Streams, NEW p \in Objects, NEW a \in Listening(s, p),
                    a \in Range(agenda'[u])
             PROVE  s \in held'[u] /\ s \in Range(Sources[p]) /\ (p \in Streams => p \in held'[u])
  BY DEF Building, Listening
<1> HIDE DEF l
<1>2. a \in Range(agenda[u]) \/ (u = t /\ a \in Range(l))
  <2>1. <<>> \in Seq(AllTasks) /\ Does(t, <<>>, l)
    BY DEF l
  <2>2. /\ Range(agenda'[t]) \subseteq Range(agenda[t]) \cup Range(l)
        /\ \A v \in Threads \ {t} : agenda'[v] = agenda[v]
    BY <1>1, <2>1, AgendaAfter
  <2> QED
    BY <2>2
<1>3. CASE a \in Range(agenda[u])
  BY <1>3 DEF Building
<1>4. CASE u = t /\ a \in Range(l)
  <2>1. p = o /\ s \in Range(Sources[o])
    BY <1>1, <1>4, OpOf DEF Listening, Task, DropNode, Close, Now
  <2> QED
    BY <1>4, <2>1
<1> QED
  BY <1>2, <1>3, <1>4

LEMMA BuildingListener ==
  ASSUME TypeOK, Building, NEW t \in Threads, NEW s \in Streams, NEW o \in Objects,
         ListenerAdded(t, s, o)
  PROVE  Building'
<1> DEFINE l == ListenerCalls(s, o)
           d == <<Task("listen", s, o)>>
<1>1. l \in Seq(AllTasks) /\ Range(l) \subseteq {Release(s, "strong"), Task("link", s, o)}
  BY ListenerCallsType
<1>2. d \in Seq(AllTasks) /\ Range(d) = {Task("listen", s, o)}
  BY TaskTypes, ShortLists
<1> SUFFICES ASSUME NEW u \in Threads, NEW r \in Streams, NEW p \in Objects, NEW a \in Listening(r, p),
                    a \in Range(agenda'[u])
             PROVE  r \in held[u] /\ r \in Range(Sources[p]) /\ (p \in Streams => p \in held[u])
  BY DEF Building, Listening, ListenerAdded, owners
<1> HIDE DEF l, d
<1>3. /\ a \in Range(agenda[u]) \/ (u = t /\ a \in Range(l))
      /\ Task("listen", s, o) \in Range(agenda[t])
  <2>1. Does(t, d, l)
    BY DEF ListenerAdded, d, l
  <2>2. /\ Range(agenda'[t]) \subseteq Range(agenda[t]) \cup Range(l)
        /\ Range(d) \subseteq Range(agenda[t])
        /\ \A v \in Threads \ {t} : agenda'[v] = agenda[v]
    BY <1>1, <1>2, <2>1, AgendaAfter
  <2> QED
    BY <1>2, <2>2
<1>4. CASE a \in Range(agenda[u])
  BY <1>4 DEF Building
<1>5. CASE u = t /\ a \in Range(l)
  <2>1. r = s /\ p = o
    BY <1>1, <1>5 DEF Listening, Task, Release
  <2> QED
    BY <1>3, <1>5, <2>1 DEF Building, Listening
<1> QED
  BY <1>3, <1>4, <1>5

LEMMA AheadVacuous == \A l, a, b : a \notin Range(l) => Ahead(l, a, b)
BY DEF Ahead, Range

\* The order on the agenda of a thread, where it changes.
LEMMA AheadAfter ==
  ASSUME TypeOK, NEW t \in Threads, NEW done \in Seq(AllTasks), NEW tasks \in Seq(AllTasks),
         Does(t, done, tasks), NEW a, NEW b, \A u \in Threads : Ahead(agenda[u], a, b),
         \/ Ahead(tasks, a, b)
         \/ \E c : done = <<c>> /\ Ahead(agenda[t], c, b)
  PROVE  \A u \in Threads : Ahead(agenda'[u], a, b)
<1>1. PICK rest \in Seq(AllTasks) : /\ agenda[t] = done \o rest
                                    /\ agenda' = [agenda EXCEPT ![t] = tasks \o rest]
  BY DEF Does
<1>2. Ahead(rest, a, b)
  <2>1. Ahead(done \o rest, a, b)
    BY <1>1
  <2> QED
    BY <2>1, AheadConcat
<1>3. b \in Range(rest) \/ Ahead(tasks, a, b)
  BY <1>1, AheadConcat
<1>4. Ahead(tasks \o rest, a, b)
  BY <1>2, <1>3, AheadConcat
<1> QED
  BY <1>1, <1>4 DEF TypeOK


LEMMA OrderedKept ==
  ASSUME TypeOK, Ordered, NEW t \in Threads, NEW D, NEW T, Moves(t, D, T),
         T \cap {"listen", "link", "unsource", "clear"} = {}
  PROVE  Ordered'
<1>1. \A a, b : a.op \notin T /\ (\A u \in Threads : Ahead(agenda[u], a, b))
                  => \A u \in Threads : Ahead(agenda'[u], a, b)
  BY MovesAfter
<1>2. ASSUME NEW s \in Streams, NEW o \in Objects, NEW a \in Listening(s, o)
      PROVE  \A u \in Threads : Ahead(agenda'[u], a, DropNode(o))
  <2>1. a.op \notin T
    BY OpOf DEF Listening
  <2>2. \A u \in Threads : Ahead(agenda[u], a, DropNode(o))
    BY DEF Ordered
  <2> QED
    BY <1>1, <2>1, <2>2
<1>3. ASSUME NEW s \in Streams, NEW o \in Objects
      PROVE  \A u \in Threads : Ahead(agenda'[u], Task("unsource", s, o), Release(s, "node"))
  <2> DEFINE a == Task("unsource", s, o)
  <2>1. a.op \notin T
    BY OpOf
  <2>2. \A u \in Threads : Ahead(agenda[u], a, Release(s, "node"))
    BY DEF Ordered
  <2> HIDE DEF a
  <2>3. \A u \in Threads : Ahead(agenda'[u], a, Release(s, "node"))
    BY <1>1, <2>1, <2>2
  <2> QED
    BY <2>3 DEF a
<1>4. ASSUME NEW o \in Streams
      PROVE  \A u \in Threads : Ahead(agenda'[u], Task("clear", o, o), Task("relock", o, o))
  <2> DEFINE a == Task("clear", o, o)
  <2>1. a.op \notin T
    BY OpOf
  <2>2. \A u \in Threads : Ahead(agenda[u], a, Task("relock", o, o))
    BY DEF Ordered
  <2> HIDE DEF a
  <2>3. \A u \in Threads : Ahead(agenda'[u], a, Task("relock", o, o))
    BY <1>1, <2>1, <2>2
  <2> QED
    BY <2>3 DEF a
<1> QED
  BY <1>2, <1>3, <1>4 DEF Ordered, Listening

\* The new tasks are in order, or what follows the task that is over follows them.
Follows(t, done, tasks, a, b) ==
  a \in Range(tasks) => Ahead(tasks, a, b) \/ \E c : done = <<c>> /\ Ahead(agenda[t], c, b)

LEMMA OrderedAfter ==
  ASSUME TypeOK, Ordered, NEW t \in Threads, NEW done \in Seq(AllTasks), NEW tasks \in Seq(AllTasks),
         Does(t, done, tasks),
         \A s \in Streams, o \in Objects :
           /\ \A a \in Listening(s, o) : Follows(t, done, tasks, a, DropNode(o))
           /\ Follows(t, done, tasks, Task("unsource", s, o), Release(s, "node")),
         \A o \in Streams : Follows(t, done, tasks, Task("clear", o, o), Task("relock", o, o))
  PROVE  Ordered'
<1>1. ASSUME NEW a, NEW b, \A u \in Threads : Ahead(agenda[u], a, b), Follows(t, done, tasks, a, b)
      PROVE  \A u \in Threads : Ahead(agenda'[u], a, b)
  <2>1. Ahead(tasks, a, b) \/ \E c : done = <<c>> /\ Ahead(agenda[t], c, b)
    BY <1>1, AheadVacuous DEF Follows
  <2> QED
    BY <1>1, <2>1, AheadAfter
<1>2. ASSUME NEW s \in Streams, NEW o \in Objects
      PROVE  /\ \A a \in Listening(s, o) : \A u \in Threads : Ahead(agenda'[u], a, DropNode(o))
             /\ \A u \in Threads : Ahead(agenda'[u], Task("unsource", s, o), Release(s, "node"))
  <2>1. /\ \A a \in Listening(s, o) : \A u \in Threads : Ahead(agenda[u], a, DropNode(o))
        /\ \A u \in Threads : Ahead(agenda[u], Task("unsource", s, o), Release(s, "node"))
    BY DEF Ordered
  <2> QED
    BY <1>1, <2>1
<1>3. ASSUME NEW o \in Streams
      PROVE  \A u \in Threads : Ahead(agenda'[u], Task("clear", o, o), Task("relock", o, o))
  <2>1. \A u \in Threads : Ahead(agenda[u], Task("clear", o, o), Task("relock", o, o))
    BY DEF Ordered
  <2> QED
    BY <1>1, <2>1
<1> QED
  BY <1>2, <1>3 DEF Ordered, Listening

\* A list without such tasks.
LEMMA FollowsNothing ==
  \A t, done, tasks, a, b : (\A c \in Range(tasks) : c.op # a.op) => Follows(t, done, tasks, a, b)
BY DEF Follows

LEMMA OrderedMaking ==
  ASSUME TypeOK, Ordered, NEW t \in Threads, NEW o \in Objects, Does(t, <<>>, Making(t, o))
  PROVE  Ordered'
<1> DEFINE l == Making(t, o)
           e == <<Now("raise", t)>> \o Each("listen", Sources[o], o)
           r == <<DropNode(o), Close(t)>>
<1>1. /\ l \in Seq(AllTasks) /\ e \in Seq(AllTasks) /\ r \in Seq(AllTasks) /\ l = e \o r
      /\ Range(l) = {Now("raise", t)} \cup {Task("listen", s, o) : s \in Range(Sources[o])}
                      \cup {DropNode(o), Close(t)}
      /\ <<>> \in Seq(AllTasks)
  BY MakingType, ShortLists DEF Making
<1>2. DropNode(o) \in Range(r) /\ \A a \in Range(r) : a.op # "listen"
  BY OpOf DEF Range
<1>3. Does(t, <<>>, l)
  OBVIOUS
<1> HIDE DEF l, e, r
<1>4. \A a \in Range(l) : a.op \in {"raise", "listen", "dropNode", "close"}
  BY <1>1, OpOf
<1>5. ASSUME NEW s \in Streams, NEW p \in Objects, NEW a \in Listening(s, p)
      PROVE  Follows(t, <<>>, l, a, DropNode(p))
  <2>1. CASE a = Task("link", s, p)
    <3>1. \A c \in Range(l) : c.op # a.op
      BY <1>4, <2>1, OpOf
    <3> QED
      BY <3>1, FollowsNothing
  <2>2. CASE a = Task("listen", s, p) /\ a \in Range(l)
    <3>1. p = o
      BY <1>1, <2>2 DEF Task, DropNode, Close, Now
    <3>2. a.op = "listen"
      BY <2>2, OpOf
    <3>3. Ahead(r, a, DropNode(o))
      BY <1>2, <3>2, AheadVacuous
    <3>4. Ahead(e \o r, a, DropNode(o))
      BY <1>1, <1>2, <3>3, AheadConcat
    <3> QED
      BY <1>1, <3>1, <3>4 DEF Follows
  <2> QED
    BY <2>1, <2>2 DEF Listening, Follows
<1>6. ASSUME NEW s, NEW p PROVE Follows(t, <<>>, l, Task("unsource", s, p), Release(s, "node"))
  <2>1. \A c \in Range(l) : c.op # Task("unsource", s, p).op
    BY <1>4, OpOf
  <2> QED
    BY <2>1, FollowsNothing
<1>7. ASSUME NEW p PROVE Follows(t, <<>>, l, Task("clear", p, p), Task("relock", p, p))
  <2>1. \A c \in Range(l) : c.op # Task("clear", p, p).op
    BY <1>4, OpOf
  <2> QED
    BY <2>1, FollowsNothing
<1> QED
  BY <1>1, <1>3, <1>5, <1>6, <1>7, OrderedAfter

LEMMA OrderedCleanup ==
  ASSUME TypeOK, Ordered, NEW t \in Threads, NEW o \in Streams, NEW k \in Kinds, CleanupStarts(t, o, k)
  PROVE  Ordered'
<1> DEFINE e == Each("kill", cleanups[o], o)
           r == <<Task("clear", o, o), Task("relock", o, o)>>
           l == e \o r
           d == <<Release(o, k)>>
<1>1. /\ e \in Seq(AllTasks) /\ r \in Seq(AllTasks) /\ l \in Seq(AllTasks)
      /\ Range(e) = {Task("kill", s, o) : s \in Range(cleanups[o])}
      /\ Range(r) = {Task("clear", o, o), Task("relock", o, o)}
      /\ Range(l) = Range(e) \cup Range(r)
  BY CleanupType
<1>2. d \in Seq(AllTasks)
  BY TaskTypes, ShortLists
<1>3. Does(t, d, l)
  BY DEF CleanupStarts
<1>4. Ahead(r, Task("clear", o, o), Task("relock", o, o))
  BY DEF Ahead, Task
<1>5. \A a \in Range(e) : a.op = "kill"
  BY <1>1, OpOf
<1>6. \A a \in Range(l) : a.op \in {"kill", "clear", "relock"}
  BY <1>1, <1>5, OpOf
<1>7. Ahead(e \o r, Task("clear", o, o), Task("relock", o, o))
  <2> HIDE DEF e, r
  <2>1. Task("clear", o, o) \notin Range(e)
    BY <1>5, OpOf
  <2> QED
    BY <1>1, <1>4, <2>1, AheadConcat
<1>8. ASSUME NEW p \in Streams PROVE Follows(t, d, l, Task("clear", p, p), Task("relock", p, p))
  <2>1. Task("clear", p, p) \in Range(l) => p = o
    BY <1>1 DEF Task
  <2> QED
    BY <1>7, <2>1 DEF Follows
<1> HIDE DEF e, r, d, l
<1>9. ASSUME NEW s, NEW p PROVE Follows(t, d, l, Task("unsource", s, p), Release(s, "node"))
  <2>1. \A c \in Range(l) : c.op # Task("unsource", s, p).op
    BY <1>6, OpOf
  <2> QED
    BY <2>1, FollowsNothing
<1>10. ASSUME NEW s, NEW p, NEW a \in Listening(s, p) PROVE Follows(t, d, l, a, DropNode(p))
  <2>1. \A c \in Range(l) : c.op # a.op
    BY <1>6, OpOf DEF Listening
  <2> QED
    BY <2>1, FollowsNothing
<1> QED
  BY <1>1, <1>2, <1>3, <1>8, <1>9, <1>10, OrderedAfter

LEMMA OrderedListener ==
  ASSUME TypeOK, Ordered, NEW t \in Threads, NEW s \in Streams, NEW o \in Objects,
         ListenerAdded(t, s, o)
  PROVE  Ordered'
<1> DEFINE l == ListenerCalls(s, o)
           d == <<Task("listen", s, o)>>
<1>1. l \in Seq(AllTasks) /\ Range(l) \subseteq {Release(s, "strong"), Task("link", s, o)}
  BY ListenerCallsType
<1>2. d \in Seq(AllTasks)
  BY TaskTypes, ShortLists
<1>3. Does(t, d, l)
  BY DEF ListenerAdded
<1>4. \A a \in Range(l) : a.op \in {"release", "link"}
  BY <1>1, OpOf
<1>5. Ahead(agenda[t], Task("listen", s, o), DropNode(o))
  BY DEF Ordered, Listening
<1>6. ASSUME NEW r \in Streams, NEW p \in Objects, NEW a \in Listening(r, p)
      PROVE  Follows(t, d, l, a, DropNode(p))
  <2>1. a \in Range(l) => p = o
    BY <1>1 DEF Listening, Task, Release
  <2> QED
    BY <1>5, <2>1 DEF Follows
<1> HIDE DEF l, d
<1>7. ASSUME NEW r, NEW p PROVE Follows(t, d, l, Task("unsource", r, p), Release(r, "node"))
  <2>1. \A c \in Range(l) : c.op # Task("unsource", r, p).op
    BY <1>4, OpOf
  <2> QED
    BY <2>1, FollowsNothing
<1>8. ASSUME NEW p PROVE Follows(t, d, l, Task("clear", p, p), Task("relock", p, p))
  <2>1. \A c \in Range(l) : c.op # Task("clear", p, p).op
    BY <1>4, OpOf
  <2> QED
    BY <2>1, FollowsNothing
<1> QED
  BY <1>1, <1>2, <1>3, <1>6, <1>7, <1>8, OrderedAfter

LEMMA OrderedGone ==
  ASSUME TypeOK, Ordered, NEW t \in Threads, NEW o \in Objects, NodeGone(t, o)
  PROVE  Ordered'
<1> DEFINE l == Destroying(o)
           d == <<DropNode(o)>>
           w == WithEach("unsource", o, Outgoing(o))
           n == IF o \in Streams THEN <<Release(o, "node")>> ELSE <<>>
           e == Each("release", sources[o], "stream")
           m == DropNodes(Outgoing(o))
<1>1. /\ w \in Seq(AllTasks) /\ n \in Seq(AllTasks) /\ e \in Seq(AllTasks) /\ m \in Seq(AllTasks)
      /\ l = w \o n \o e \o m
      /\ Range(w) = {Task("unsource", o, x) : x \in Range(Outgoing(o))}
      /\ Range(n) = {Release(y, "node") : y \in {o} \cap Streams}
      /\ Range(e) = {Release(s, "stream") : s \in Range(sources[o])}
      /\ Range(m) = {DropNode(x) : x \in Range(Outgoing(o))}
      /\ w \o n \in Seq(AllTasks) /\ w \o n \o e \in Seq(AllTasks)
      /\ l \in Seq(AllTasks)
      /\ Range(l) = Range(w) \cup Range(n) \cup Range(e) \cup Range(m)
  BY DestroyingType
<1>2. d \in Seq(AllTasks)
  BY TaskTypes, ShortLists
<1>3. Does(t, d, l)
  BY DEF NodeGone
<1> HIDE DEF l, d, w, n, e, m
<1>4. /\ \A a \in Range(w) : a.op = "unsource"
      /\ \A a \in Range(n) \cup Range(e) : a.op = "release"
      /\ \A a \in Range(m) : a.op = "dropNode"
  BY <1>1, OpOf
<1>5. ASSUME NEW s \in Streams, NEW p \in Objects
      PROVE  Follows(t, d, l, Task("unsource", s, p), Release(s, "node"))
  <2> DEFINE a == Task("unsource", s, p)
             b == Release(s, "node")
  <2> SUFFICES ASSUME a \in Range(l) PROVE Ahead(l, a, b)
    BY DEF Follows
  <2>1. a.op = "unsource"
    BY OpOf
  <2>2. a \in Range(w)
    BY <1>1, <1>4, <2>1
  <2>3. s = o
    <3>1. PICK x : a = Task("unsource", o, x)
      BY <1>1, <2>2
    <3> QED
      BY <3>1 DEF Task
  <2>4. b \in Range(n)
    BY <1>1, <2>3
  <2> HIDE DEF a, b
  <2>5. Ahead(n, a, b) /\ Ahead(e, a, b) /\ Ahead(m, a, b)
    BY <1>4, <2>1, AheadVacuous
  <2>6. Ahead(w \o n, a, b)
    BY <1>1, <2>4, <2>5, AheadConcat
  <2>7. Ahead(w \o n \o e, a, b)
    BY <1>1, <2>5, <2>6, AheadConcat
  <2>8. Ahead(w \o n \o e \o m, a, b)
    BY <1>1, <2>5, <2>7, AheadConcat
  <2> QED
    BY <1>1, <2>8
<1>6. \A a \in Range(l) : a.op \in {"unsource", "release", "dropNode"}
  BY <1>1, <1>4
<1>7. ASSUME NEW r, NEW p, NEW a \in Listening(r, p) PROVE Follows(t, d, l, a, DropNode(p))
  <2>1. \A c \in Range(l) : c.op # a.op
    BY <1>6, OpOf DEF Listening
  <2> QED
    BY <2>1, FollowsNothing
<1>8. ASSUME NEW p PROVE Follows(t, d, l, Task("clear", p, p), Task("relock", p, p))
  <2>1. \A c \in Range(l) : c.op # Task("clear", p, p).op
    BY <1>6, OpOf
  <2> QED
    BY <2>1, FollowsNothing
<1> QED
  BY <1>1, <1>2, <1>3, <1>5, <1>7, <1>8, OrderedAfter

\* Who listens, listens to a stream.
LEMMA SomeStream == ASSUME NEW o \in Objects PROVE \E s : s \in Streams
<1>1. CASE o \in Listeners
  <2>1. Sources[o] \in Seq(Streams) /\ Len(Sources[o]) = 1
    BY <1>1, SourcesAssumption, SomeKinds
  <2>2. Sources[o][1] \in Streams
    BY <2>1
  <2> QED
    BY <2>2
<1> QED
  BY <1>1 DEF Objects

LEMMA AloneMoves ==
  ASSUME TypeOK, NEW t \in Threads, NEW o \in Objects
  PROVE  /\ SinkMade(t, o) => Moves(t, {}, {})
         /\ StreamMade(t, o) \/ ListenerMade(t, o) => Moves(t, {}, {"raise", "listen", "dropNode", "close"})
         /\ \A u \in Threads : HandleCopied(t, u, o) => Moves(t, {}, {})
         /\ \A k \in Kinds : /\ CleanupStarts(t, o, k) => Moves(t, {"release"}, {"kill", "clear", "relock"})
                             /\ Released(t, o, k) => Moves(t, {"release"}, {})
         /\ Cleared(t, o) => Moves(t, {"clear"}, {})
         /\ Relocked(t, o) => Moves(t, {"relock"}, {})
         /\ NodeKept(t, o) => Moves(t, {"dropNode"}, {})
         /\ NodeGone(t, o) => Moves(t, {"dropNode"}, {"unsource", "release", "dropNode"})
         /\ \A s \in Streams :
              /\ Unlistened(t, s, o) => Moves(t, {}, {"kill"})
              /\ ListenerAdded(t, s, o) => Moves(t, {"listen"}, {"link", "release"})
              /\ NodesLinked(t, s, o) => Moves(t, {"link"}, {"dropNode"})
              /\ Unsourced(t, s, o) => Moves(t, {"unsource"}, {"release"})
              /\ NodesUnlinked(t, s, o) => Moves(t, {"unlink"}, {"release", "dropNode"})
<1>1. PICK s : s \in Streams
  BY SomeStream
<1>2. "node" \in Kinds
  BY SomeKinds
<1> QED
  BY <1>1, <1>2, ProgramMoves, CallMoves

LEMMA OrderNext ==
  ASSUME TypeOK, Ordered, Building, NEW t \in Threads, Step(t)
  PROVE  Ordered' /\ Building'
<1> DEFINE Kept == Ordered' /\ Building'
<1>1. ASSUME NEW D, NEW T, Moves(t, D, T), T \cap {"listen", "link", "unsource", "clear"} = {},
             \A u \in Threads : agenda[u] = <<>> \/ held[u] \subseteq held'[u]
      PROVE  Kept
  BY <1>1, OrderedKept, BuildingKept
<1>2. ASSUME Apart(t) PROVE Kept
  <2>1. ApartBrings \cap {"listen", "link", "unsource", "clear"} = {}
    BY DEF ApartBrings, TransactionOps
  <2>2. /\ Moves(t, ApartDoes, ApartBrings)
        /\ \A u \in Threads : agenda[u] = <<>> \/ held[u] \subseteq held'[u]
    BY <1>2, ApartFacts
  <2> QED
    BY <1>1, <2>1, <2>2
<1>3. ASSUME NEW o \in Objects, SinkMade(t, o) PROVE Kept
  <2>1. Moves(t, {}, {})
    BY <1>3, AloneMoves
  <2>2. \A u \in Threads : held[u] \subseteq held'[u]
    BY <1>3 DEF SinkMade, NewStream, TypeOK
  <2> QED
    BY <1>1, <2>1, <2>2
<1>4. ASSUME NEW o \in Objects, StreamMade(t, o) \/ ListenerMade(t, o) PROVE Kept
  <2>1. /\ \A u \in Threads : held[u] \subseteq held'[u]
        /\ Does(t, <<>>, Making(t, o))
        /\ Range(Sources[o]) \subseteq held[t]
        /\ o \in Streams => o \in held'[t]
    <3>1. CASE StreamMade(t, o)
      BY <3>1 DEF StreamMade, NewStream, TypeOK
    <3>2. CASE ListenerMade(t, o)
      BY <3>2, ObjectsAssumption DEF ListenerMade
    <3> QED
      BY <1>4, <3>1, <3>2
  <2> QED
    BY <2>1, OrderedMaking, BuildingMaking
<1>5. ASSUME NEW o \in Objects, Cleared(t, o) \/ Relocked(t, o) \/ NodeKept(t, o) PROVE Kept
  <2>1. Moves(t, {"clear"}, {}) \/ Moves(t, {"relock"}, {}) \/ Moves(t, {"dropNode"}, {})
    BY <1>5, AloneMoves
  <2>2. held' = held
    BY <1>5 DEF Cleared, Relocked, NodeKept, owners
  <2> QED
    BY <1>1, <2>1, <2>2
<1>6. ASSUME NEW o \in Objects, NodeGone(t, o) PROVE Kept
  <2>1. Moves(t, {"dropNode"}, {"unsource", "release", "dropNode"})
    BY <1>6, AloneMoves
  <2>2. held' = held
    BY <1>6 DEF NodeGone, owners
  <2>3. Building'
    BY <2>1, <2>2, BuildingKept
  <2> QED
    BY <1>6, <2>3, OrderedGone
<1>7. ASSUME NEW o \in Objects, NEW k \in Kinds, CleanupStarts(t, o, k) PROVE Kept
  <2>1. Moves(t, {"release"}, {"kill", "clear", "relock"})
    BY <1>7, AloneMoves
  <2>2. held' = held /\ o \in Streams
    BY <1>7 DEF CleanupStarts, owners
  <2>3. Building'
    BY <2>1, <2>2, BuildingKept
  <2> QED
    BY <1>7, <2>2, <2>3, OrderedCleanup
<1>8. ASSUME NEW o \in Objects, NEW k \in Kinds, Released(t, o, k) PROVE Kept
  <2>1. Moves(t, {"release"}, {})
    BY <1>8, AloneMoves
  <2>2. held' = held
    BY <1>8 DEF Released, owners
  <2> QED
    BY <1>1, <2>1, <2>2
<1>9. ASSUME NEW o \in Objects, NEW u \in Threads, HandleCopied(t, u, o) PROVE Kept
  <2>1. Moves(t, {}, {})
    BY <1>9, AloneMoves
  <2>2. \A v \in Threads : held[v] \subseteq held'[v]
    BY <1>9 DEF HandleCopied, TypeOK
  <2> QED
    BY <1>1, <2>1, <2>2
<1>10. ASSUME NEW s \in Streams, NEW o \in Objects, ListenerAdded(t, s, o) PROVE Kept
  BY <1>10, OrderedListener, BuildingListener
<1>11. ASSUME NEW s \in Streams, NEW o \in Objects,
              \/ Unlistened(t, s, o) \/ NodesLinked(t, s, o)
              \/ Unsourced(t, s, o) \/ NodesUnlinked(t, s, o)
       PROVE  Kept
  <2>1. \/ Moves(t, {}, {"kill"}) \/ Moves(t, {"link"}, {"dropNode"})
        \/ Moves(t, {"unsource"}, {"release"}) \/ Moves(t, {"unlink"}, {"release", "dropNode"})
    BY <1>11, AloneMoves
  <2>2. held' = held
    BY <1>11 DEF Unlistened, NodesLinked, Unsourced, NodesUnlinked, owners
  <2> QED
    BY <1>1, <2>1, <2>2
<1> HIDE DEF Kept
<1>12. Kept
  BY <1>2, <1>3, <1>4, <1>5, <1>6, <1>7, <1>8, <1>9, <1>10, <1>11 DEF Step
<1> QED
  BY <1>12 DEF Kept

\* How the tasks that end a cleanup come and go.
Clears(p) == Due({Task("clear", p, p)})
Relocks(p) == Due({Task("relock", p, p)})

LEMMA EndsOf ==
  TypeOK => \A p : /\ Clears(p) \in Nat /\ (Clears(p) = 0 <=> ~Cleaning(p))
                   /\ Relocks(p) \in Nat /\ (Relocks(p) = 0 <=> Task("relock", p, p) \notin Tasks)
BY CleaningIs DEF Clears, Relocks

LEMMA EndsOfNext ==
  TypeOK' => (\A p : /\ Clears(p) \in Nat /\ (Clears(p) = 0 <=> ~Cleaning(p))
                     /\ Relocks(p) \in Nat /\ (Relocks(p) = 0 <=> Task("relock", p, p) \notin Tasks))'
BY EndsOf, PTL

LEMMA EndsMove ==
  ASSUME TypeOK, NEW t \in Threads, NEW D, NEW T, Moves(t, D, T),
         "clear" \notin D, "relock" \notin D, "clear" \notin T, "relock" \notin T
  PROVE  \A p : Clears(p)' = Clears(p) /\ Relocks(p)' = Relocks(p)
<1> SUFFICES ASSUME NEW p PROVE Clears(p)' = Clears(p) /\ Relocks(p)' = Relocks(p)
  OBVIOUS
<1>1. ASSUME NEW op, op \notin D, op \notin T
      PROVE  Due({Task(op, p, p)})' = Due({Task(op, p, p)})
  <2> DEFINE X == {Task(op, p, p)}
  <2>1. \A a \in X : a.op \notin D /\ a.op \notin T
    BY <1>1, OpOf
  <2> HIDE DEF X
  <2>2. /\ Due(X) \in Nat /\ Due(X)' \in Nat /\ Due(X) <= Due(X)' /\ Due(X)' <= Due(X)
    BY <2>1, MovesAfter
  <2>3. Due(X)' = Due(X)
    BY <2>2
  <2> QED
    BY <2>3 DEF X
<1> QED
  BY <1>1 DEF Clears, Relocks

LEMMA EndsCleanup ==
  ASSUME TypeOK, NEW t \in Threads, NEW o \in Streams, NEW k \in Kinds, CleanupStarts(t, o, k)
  PROVE  \A p : Clears(p)' = Clears(p) + Bit(p = o) /\ Relocks(p)' = Relocks(p) + Bit(p = o)
<1> SUFFICES ASSUME NEW p
             PROVE  Clears(p)' = Clears(p) + Bit(p = o) /\ Relocks(p)' = Relocks(p) + Bit(p = o)
  OBVIOUS
<1> DEFINE e == Each("kill", cleanups[o], o)
           r == <<Task("clear", o, o), Task("relock", o, o)>>
           c == <<Task("clear", o, o)>>
           m == <<Task("relock", o, o)>>
           l == e \o r
           d == <<Release(o, k)>>
<1>1. /\ e \in Seq(AllTasks) /\ r \in Seq(AllTasks) /\ l \in Seq(AllTasks)
      /\ Range(e) = {Task("kill", s, o) : s \in Range(cleanups[o])}
  BY CleanupType
<1>2. d \in Seq(AllTasks) /\ Range(d) = {Release(o, k)}
  BY TaskTypes, ShortLists
<1>3. c \in Seq(AllTasks) /\ m \in Seq(AllTasks) /\ r = c \o m
  BY TaskTypes, ShortLists
<1>4. Does(t, d, l)
  BY DEF CleanupStarts
<1>5. ASSUME NEW op \in {"clear", "relock"}
      PROVE  Due({Task(op, p, p)})' = Due({Task(op, p, p)}) + Bit(p = o)
  <2> DEFINE X == {Task(op, p, p)}
  <2>1. Range(e) \cap X = {} /\ Range(d) \cap X = {}
    BY <1>1, <1>2, OpOf
  <2>2. Task("clear", o, o) \in X <=> op = "clear" /\ p = o
    BY DEF Task
  <2>3. Task("relock", o, o) \in X <=> op = "relock" /\ p = o
    BY DEF Task
  <2> HIDE DEF X
  <2>4. Count(X, c) = Bit(op = "clear" /\ p = o) /\ Count(X, m) = Bit(op = "relock" /\ p = o)
    BY <2>2, <2>3, CountOne DEF Bit
  <2> HIDE DEF e, c, m, d, r
  <2>5. Count(X, e) = 0 /\ Count(X, d) = 0
    BY <1>1, <1>2, <2>1, CountType
  <2>6. Count(X, r) = Count(X, c) + Count(X, m)
    BY <1>3, CountConcat
  <2>7. Count(X, e \o r) = Count(X, e) + Count(X, r)
    BY <1>1, CountConcat
  <2>8. Count(X, l) = Bit(p = o)
    BY <2>4, <2>5, <2>6, <2>7 DEF Bit
  <2> HIDE DEF l
  <2>9. Due(X) \in Nat /\ Due(X)' \in Nat /\ Due(X)' + Count(X, d) = Due(X) + Count(X, l)
    BY <1>1, <1>2, <1>4, AgendaAfter
  <2>10. Due(X)' = Due(X) + Bit(p = o)
    BY <2>5, <2>8, <2>9 DEF Bit
  <2> QED
    BY <2>10 DEF X
<1> QED
  BY <1>5 DEF Clears, Relocks

LEMMA EndsOver ==
  ASSUME TypeOK, NEW t \in Threads, NEW op \in {"clear", "relock"}, NEW o \in Streams,
         Does(t, <<Task(op, o, o)>>, <<>>)
  PROVE  /\ \A p : Clears(p) = Clears(p)' + Bit(op = "clear" /\ p = o)
         /\ \A p : Relocks(p) = Relocks(p)' + Bit(op = "relock" /\ p = o)
<1> DEFINE d == <<Task(op, o, o)>>
<1>1. d \in Seq(AllTasks) /\ Does(t, d, <<>>) /\ <<>> \in Seq(AllTasks)
  BY TaskTypes, ShortLists
<1>2. ASSUME NEW x \in {"clear", "relock"}, NEW p
      PROVE  Due({Task(x, p, p)}) = Due({Task(x, p, p)})' + Bit(op = x /\ p = o)
  <2> DEFINE X == {Task(x, p, p)}
  <2>1. Task(op, o, o) \in X <=> op = x /\ p = o
    BY DEF Task
  <2> HIDE DEF X
  <2>2. Count(X, d) = Bit(op = x /\ p = o) /\ Count(X, <<>>) = 0
    BY <2>1, CountOne, CountEmpty DEF Bit
  <2> HIDE DEF d
  <2>3. Due(X) \in Nat /\ Due(X)' \in Nat /\ Due(X)' + Count(X, d) = Due(X) + Count(X, <<>>)
    BY <1>1, AgendaAfter
  <2>4. Due(X) = Due(X)' + Bit(op = x /\ p = o)
    BY <2>2, <2>3 DEF Bit
  <2> QED
    BY <2>4 DEF X
<1> QED
  BY <1>2 DEF Clears, Relocks

\* Only a link makes a stream feed a node that it did not feed.
LEMMA WithoutRange ==
  ASSUME NEW S, NEW s \in Seq(S), NEW x
  PROVE  Range(Without(s, x)) \subseteq Range(s)
<1> SUFFICES ASSUME NEW e \in Range(Without(s, x)), e \notin Range(s) PROVE FALSE
  OBVIOUS
<1>1. Without(s, x) \in Seq(S) /\ Count({e}, Without(s, x)) = Count({e} \ {x}, s)
  BY WithoutType
<1>2. Count({e} \ {x}, s) = 0
  <2>1. Range(s) \cap ({e} \ {x}) = {}
    OBVIOUS
  <2> QED
    BY <2>1, CountType
<1>3. Count({e}, Without(s, x)) # 0
  <2>1. Range(Without(s, x)) \cap {e} # {}
    OBVIOUS
  <2> QED
    BY <1>1, <2>1, CountType
<1> QED
  BY <1>1, <1>2, <1>3

LEMMA FeedsKept ==
  ASSUME TypeOK, NEW t \in Threads, NEW p, Feeds(p)',
         \/ sources' = sources
         \/ \E o \in Objects : NodeGone(t, o)
         \/ \E s \in Streams, o \in Objects : Unsourced(t, s, o) \/ NodesUnlinked(t, s, o)
  PROVE  Feeds(p)
<1>1. PICK x \in Objects : p \in Range(sources'[x])
  BY DEF Feeds
<1>2. CASE sources' = sources
  BY <1>1, <1>2 DEF Feeds
<1>3. ASSUME NEW o \in Objects, NodeGone(t, o) PROVE Feeds(p)
  <2>1. sources'[x] = IF x = o THEN <<>> ELSE sources[x]
    BY <1>3 DEF NodeGone, TypeOK
  <2>2. Range(<<>>) = {}
    BY ShortLists
  <2> QED
    BY <1>1, <2>1, <2>2 DEF Feeds
<1>4. ASSUME NEW s \in Streams, NEW o \in Objects, Unsourced(t, s, o) \/ NodesUnlinked(t, s, o)
      PROVE  Feeds(p)
  <2>1. sources'[x] = IF x = o THEN Without(sources[o], s) ELSE sources[x]
    BY <1>4 DEF Unsourced, NodesUnlinked, TypeOK
  <2>2. sources[o] \in Seq(Streams)
    BY DEF TypeOK
  <2>3. Range(Without(sources[o], s)) \subseteq Range(sources[o])
    BY <2>2, WithoutRange
  <2> QED
    BY <1>1, <2>1, <2>3 DEF Feeds
<1> QED
  BY <1>2, <1>3, <1>4

LEMMA CleanKept ==
  ASSUME TypeOK, TypeOK', NEW p \in Streams, Clean(p),
         Clears(p)' = Clears(p), Relocks(p)' <= Relocks(p),
         func'[p] = func[p], cleanups'[p] = cleanups[p] \/ (func[p] /\ ~Cleaning(p)),
         nodeRefs'[p] > 0 /\ (Held(p)' \/ Feeds(p)') => nodeRefs[p] > 0 /\ (Held(p) \/ Feeds(p))
  PROVE  Clean(p)'
<1>1. Cleaning(p)' <=> Cleaning(p)
  BY EndsOf, EndsOfNext
<1>2. Task("relock", p, p) \in Tasks' => Task("relock", p, p) \in Tasks
  BY EndsOf, EndsOfNext
<1>3. Clears(p)' <= 1 /\ Relocks(p)' <= 1
  <2>1. Clears(p) <= 1 /\ Relocks(p) <= 1
    BY DEF Clean, Clears, Relocks
  <2>2. Clears(p)' \in Nat /\ Relocks(p)' \in Nat /\ Clears(p) \in Nat /\ Relocks(p) \in Nat
    BY EndsOf, EndsOfNext
  <2> QED
    BY <2>1, <2>2
<1> QED
  BY <1>1, <1>2, <1>3 DEF Clean, Clears, Relocks

\* In what there is no stream yet nothing is cleaned up.
LEMMA FreshEnds ==
  ASSUME TypeOK, Used, NEW o \in Streams, ~Made(o)
  PROVE  Clears(o) = 0 /\ Relocks(o) = 0
<1>1. Task("relock", o, o) \notin Tasks /\ Task("clear", o, o) \notin Tasks
  BY SomeKinds DEF Used
<1> QED
  BY <1>1, CleaningIs DEF Clears, Relocks

LEMMA CleanMade ==
  ASSUME TypeOK, TypeOK', Used, NEW t \in Threads, NEW o \in Streams, NewStream(t, o),
         Moves(t, {}, {"raise", "listen", "dropNode", "close"}) \/ Moves(t, {}, {})
  PROVE  Clean(o)'
<1>1. Clears(o)' = 0 /\ Relocks(o)' = 0
  <2>1. Clears(o) = 0 /\ Relocks(o) = 0
    BY FreshEnds DEF NewStream, Made
  <2> QED
    BY <2>1, EndsMove
<1>2. func'[o] = TRUE
  BY DEF NewStream, TypeOK
<1>3. ~Cleaning(o)' /\ Task("relock", o, o) \notin Tasks'
  BY <1>1, EndsOfNext
<1>4. func'[o] /\ Due({Task("clear", o, o)})' <= 1 /\ Due({Task("relock", o, o)})' <= 1
  BY <1>1, <1>2 DEF Clears, Relocks
<1> QED
  BY <1>3, <1>4 DEF Clean

\* The thread whose release makes the stream inactive is the first to clean up.
LEMMA CleanupIsFirst ==
  ASSUME TypeOK, Counted, Used, Room, NEW t \in Threads, NEW o \in Streams, NEW k \in Kinds,
         CleanupStarts(t, o, k)
  PROVE  Clears(o) = 0 /\ Relocks(o) = 0
<1>1. Task("relock", o, o) \notin Tasks
  <2> SUFFICES ASSUME Task("relock", o, o) \in Tasks PROVE FALSE
    OBVIOUS
  <2>1. Number(o, "strong")' = Number(o, "strong") - Bit(k = "strong") + 1
    BY CleanupStartsCounts, SomeKinds DEF Bit
  <2>2. Number(o, "strong")' = 1 /\ Number(o, "strong") \in Nat
    BY CleanupStartsCounts, RefParts, SomeKinds
  <2>3. Number(o, "strong") # 0 /\ Number(o, "strong") = Due(Strong(o))
    BY CleaningIs, SomeKinds DEF Used, Counted, StrongRefs, Strong
  <2>4. k = "strong" /\ Due(Strong(o)) = 1
    BY <2>1, <2>2, <2>3 DEF Bit
  <2>5. Release(o, "strong") \in Tasks
    BY <2>4, UnderwayAlone, SomeKinds
  <2> DEFINE X == Strong(o)
  <2>6. PICK c \in Threads : \E i \in DOMAIN agenda[c] : agenda[c][i] = Release(o, "strong")
    BY <2>5 DEF Tasks, Range
  <2>7. PICK d \in Threads : \E j \in DOMAIN agenda[d] : agenda[d][j] = Task("relock", o, o)
    BY DEF Tasks, Range
  <2>8. Release(o, "strong") \in X /\ Task("relock", o, o) \in X
    BY DEF Strong
  <2>9. Release(o, "strong") # Task("relock", o, o)
    BY OpOf
  <2>10. agenda \in [Threads -> Seq(AllTasks)] /\ IsFiniteSet(Threads) /\ Occurs(X, agenda) <= 1
    BY <2>4, FiniteAssumption DEF TypeOK, Due
  <2> HIDE DEF X
  <2>11. PICK i \in DOMAIN agenda[c] : agenda[c][i] = Release(o, "strong")
    BY <2>6
  <2>12. PICK j \in DOMAIN agenda[d] : agenda[d][j] = Task("relock", o, o)
    BY <2>7
  <2>13. c = d /\ i = j
    BY <2>8, <2>10, <2>11, <2>12, TwoPlaces
  <2> QED
    BY <2>9, <2>11, <2>12, <2>13
<1>2. Task("clear", o, o) \notin Tasks
  BY <1>1 DEF Used
<1> QED
  BY <1>1, <1>2, CleaningIs DEF Clears, Relocks

LEMMA CleanupClean ==
  ASSUME TypeOK, Counted, Used, Room, TypeOK', Counted', NEW t \in Threads, NEW o \in Streams,
         NEW k \in Kinds, CleanupStarts(t, o, k)
  PROVE  Clean(o)' /\ Cleaning(o)'
<1>1. Clears(o)' = 1 /\ Relocks(o)' = 1
  BY CleanupIsFirst, EndsCleanup DEF Bit
<1>2. Cleaning(o)'
  BY <1>1, EndsOfNext
<1>3. func'[o] /\ cleanups'[o] = <<>>
  BY SomeKinds DEF CleanupStarts, TypeOK
<1>4. ~(nodeRefs'[o] > 0 /\ (Held(o)' \/ Feeds(o)'))
  <2>1. Number(o, "stream")' = 0 \/ Number(o, "node")' = 0
    BY CleanupStartsCounts
  <2>2. Number(o, "stream")' = 0 => ~Held(o)' /\ ~Feeds(o)'
    BY NoReferencesNext DEF Referred, Feeds
  <2>3. Number(o, "node")' = 0 => nodeRefs'[o] = 0
    BY NoReferencesNext DEF Referred
  <2> QED
    BY <2>1, <2>2, <2>3
<1> QED
  BY <1>1, <1>2, <1>3, <1>4 DEF Clean, Clears, Relocks

LEMMA CleanedNext ==
  ASSUME TypeOK, Counted, Used, Cleaned, Room, TypeOK', Counted', NEW t \in Threads, Step(t)
  PROVE  Cleaned'
<1> SUFFICES ASSUME NEW p \in Streams PROVE Clean(p)'
  BY DEF Cleaned
<1>0. /\ Clean(p) /\ p \in Objects /\ nodeRefs[p] \in Nat
      /\ Clears(p) \in Nat /\ Relocks(p) \in Nat /\ Clears(p)' \in Nat /\ Relocks(p)' \in Nat
  BY SomeKinds, EndsOf, EndsOfNext DEF Cleaned, TypeOK
<1>1. ASSUME NEW D, NEW T, Moves(t, D, T),
             "clear" \notin D, "relock" \notin D, "clear" \notin T, "relock" \notin T
      PROVE  Clears(p)' = Clears(p) /\ Relocks(p)' <= Relocks(p)
  BY <1>0, <1>1, EndsMove
<1>2. ASSUME Apart(t) PROVE Clean(p)'
  <2>1. Clears(p)' = Clears(p) /\ Relocks(p)' <= Relocks(p)
    BY <1>1, <1>2, ApartFacts DEF ApartDoes, ApartBrings, TransactionOps
  <2>2. /\ func' = func /\ cleanups' = cleanups /\ nodeRefs' = nodeRefs
        /\ Held(p)' => Held(p)
        /\ sources' = sources
    BY <1>2, ApartFacts
  <2> QED
    BY <1>0, <2>1, <2>2, CleanKept DEF Feeds
<1>3. ASSUME NEW o \in Objects, SinkMade(t, o) \/ StreamMade(t, o) PROVE Clean(p)'
  <2>1. Moves(t, {}, {"raise", "listen", "dropNode", "close"}) \/ Moves(t, {}, {})
    BY <1>3, AloneMoves
  <2>2. NewStream(t, o) /\ o \in Streams /\ cleanups' = cleanups /\ sources' = sources
    BY <1>3 DEF SinkMade, StreamMade, links
  <2>3. CASE p = o
    BY <2>1, <2>2, <2>3, CleanMade
  <2>4. CASE p # o
    <3>1. Clears(p)' = Clears(p) /\ Relocks(p)' <= Relocks(p)
      BY <1>1, <2>1
    <3>2. /\ func'[p] = func[p] /\ nodeRefs'[p] = nodeRefs[p]
          /\ Held(p)' => Held(p)
      BY <1>0, <2>2, <2>4 DEF NewStream, Held, TypeOK
    <3> QED
      BY <1>0, <2>2, <3>1, <3>2, CleanKept DEF Feeds
  <2> QED
    BY <2>3, <2>4
<1>4. ASSUME NEW o \in Objects, ListenerMade(t, o) PROVE Clean(p)'
  <2>1. Clears(p)' = Clears(p) /\ Relocks(p)' <= Relocks(p)
    BY <1>1, <1>4, AloneMoves
  <2>2. /\ func' = func /\ cleanups' = cleanups /\ nodeRefs'[p] = nodeRefs[p] /\ held' = held
        /\ sources' = sources
    BY <1>0, <1>4, ObjectsAssumption DEF ListenerMade, TypeOK, links
  <2> QED
    BY <1>0, <2>1, <2>2, CleanKept DEF Held, Feeds
<1>5. ASSUME NEW o \in Objects, Cleared(t, o) PROVE Clean(p)'
  <2>1. /\ Clears(p) = Clears(p)' + Bit(p = o) /\ Relocks(p) = Relocks(p)'
        /\ o \in Streams
    <3>1. Does(t, <<Task("clear", o, o)>>, <<>>) /\ o \in Streams
      BY <1>5 DEF Cleared
    <3>2. /\ Clears(p) = Clears(p)' + Bit("clear" = "clear" /\ p = o)
          /\ Relocks(p) = Relocks(p)' + Bit("clear" = "relock" /\ p = o)
      BY <3>1, EndsOver
    <3> QED
      BY <1>0, <3>1, <3>2 DEF Bit
  <2>2. cleanups' = cleanups /\ nodeRefs' = nodeRefs /\ held' = held /\ sources' = sources
    BY <1>5 DEF Cleared, owners, links
  <2>3. CASE p # o
    <3>1. func'[p] = func[p]
      BY <1>5, <2>3 DEF Cleared, TypeOK
    <3>2. Clears(p)' = Clears(p) /\ Relocks(p)' <= Relocks(p)
      BY <1>0, <2>1, <2>3 DEF Bit
    <3> QED
      BY <1>0, <2>2, <3>1, <3>2, CleanKept DEF Held, Feeds
  <2>4. CASE p = o
    <3>1. func'[p] = FALSE
      BY <1>5, <2>4 DEF Cleared, TypeOK
    <3>2. Cleaning(p)
      BY <1>5, <2>1, <2>4, UnderwayAlone, CleaningIs, SomeKinds
    <3>3. Clears(p)' = 0 /\ Relocks(p)' <= 1
      BY <1>0, <2>1, <2>4 DEF Bit, Clean, Clears, Relocks
    <3>4. ~Cleaning(p)'
      BY <3>3, EndsOfNext
    <3>5. ~(nodeRefs'[p] > 0 /\ (Held(p)' \/ Feeds(p)')) /\ cleanups'[p] = <<>>
      BY <1>0, <2>2, <3>2 DEF Clean, Held, Feeds
    <3> QED
      BY <3>1, <3>3, <3>4, <3>5 DEF Clean, Clears, Relocks
  <2> QED
    BY <2>3, <2>4
<1>6. ASSUME NEW o \in Objects, Relocked(t, o) PROVE Clean(p)'
  <2>1. Clears(p)' = Clears(p) /\ Relocks(p)' <= Relocks(p)
    <3>1. Does(t, <<Task("relock", o, o)>>, <<>>) /\ o \in Streams
      BY <1>6 DEF Relocked
    <3>2. /\ Clears(p) = Clears(p)' + Bit("relock" = "clear" /\ p = o)
          /\ Relocks(p) = Relocks(p)' + Bit("relock" = "relock" /\ p = o)
      BY <3>1, EndsOver
    <3> QED
      BY <1>0, <3>2 DEF Bit
  <2>2. /\ func' = func /\ cleanups' = cleanups /\ nodeRefs' = nodeRefs /\ held' = held
        /\ sources' = sources
    BY <1>6 DEF Relocked, owners, links
  <2> QED
    BY <1>0, <2>1, <2>2, CleanKept DEF Held, Feeds
<1>7. ASSUME NEW o \in Objects, NodeKept(t, o) \/ NodeGone(t, o) PROVE Clean(p)'
  <2>1. Moves(t, {"dropNode"}, {}) \/ Moves(t, {"dropNode"}, {"unsource", "release", "dropNode"})
    BY <1>7, AloneMoves
  <2>2. Clears(p)' = Clears(p) /\ Relocks(p)' <= Relocks(p)
    BY <1>1, <2>1
  <2>3. func' = func /\ cleanups' = cleanups /\ held' = held
    BY <1>7 DEF NodeKept, NodeGone, owners
  <2>4. nodeRefs'[p] > 0 => nodeRefs[p] > 0
    <3>1. nodeRefs[o] > 0 /\ nodeRefs' = [nodeRefs EXCEPT ![o] = @ - 1]
      <4>1. (nodeRefs[o] > 1 \/ nodeRefs[o] = 1) /\ nodeRefs' = [nodeRefs EXCEPT ![o] = @ - 1]
        BY <1>7 DEF NodeKept, NodeGone
      <4>2. nodeRefs[o] \in Nat
        BY DEF TypeOK
      <4> QED
        BY <4>1, <4>2
    <3>2. nodeRefs'[p] = nodeRefs[p] \/ p = o
      BY <1>0, <3>1 DEF TypeOK
    <3> QED
      BY <3>1, <3>2
  <2>5. Feeds(p)' => Feeds(p)
    BY <1>7, FeedsKept DEF NodeKept, links
  <2> QED
    BY <1>0, <2>2, <2>3, <2>4, <2>5, CleanKept DEF Held
<1>8. ASSUME NEW o \in Objects, NEW k \in Kinds, CleanupStarts(t, o, k) PROVE Clean(p)'
  <2>1. o \in Streams
    BY <1>8 DEF CleanupStarts
  <2>2. CASE p = o
    BY <1>8, <2>1, <2>2, CleanupClean
  <2>3. CASE p # o
    <3>1. Clears(p)' = Clears(p) /\ Relocks(p)' <= Relocks(p)
      BY <1>0, <1>8, <2>1, <2>3, EndsCleanup DEF Bit
    <3>2. /\ func' = func /\ cleanups'[p] = cleanups[p] /\ nodeRefs' = nodeRefs /\ held' = held
          /\ sources' = sources
      BY <1>0, <1>8, <2>3 DEF CleanupStarts, owners, links, TypeOK
    <3> QED
      BY <1>0, <3>1, <3>2, CleanKept DEF Held, Feeds
  <2> QED
    BY <2>2, <2>3
<1>9. ASSUME NEW o \in Objects, NEW k \in Kinds, Released(t, o, k) PROVE Clean(p)'
  <2>1. Clears(p)' = Clears(p) /\ Relocks(p)' <= Relocks(p)
    BY <1>1, <1>9, AloneMoves
  <2>2. /\ func' = func /\ cleanups' = cleanups /\ nodeRefs' = nodeRefs /\ held' = held
        /\ sources' = sources
    BY <1>9 DEF Released, owners, links
  <2> QED
    BY <1>0, <2>1, <2>2, CleanKept DEF Held, Feeds
<1>10. ASSUME NEW o \in Objects, NEW u \in Threads, HandleCopied(t, u, o) PROVE Clean(p)'
  <2>1. Clears(p)' = Clears(p) /\ Relocks(p)' <= Relocks(p)
    BY <1>1, <1>10, AloneMoves
  <2>2. /\ func' = func /\ cleanups' = cleanups /\ nodeRefs' = nodeRefs
        /\ Held(p)' => Held(p)
        /\ sources' = sources
    BY <1>10 DEF HandleCopied, Held, links, TypeOK
  <2> QED
    BY <1>0, <2>1, <2>2, CleanKept DEF Feeds
<1>11. ASSUME NEW s \in Streams, NEW o \in Objects, NodesLinked(t, s, o) PROVE Clean(p)'
  <2>1. Clears(p)' = Clears(p) /\ Relocks(p)' <= Relocks(p)
    BY <1>1, <1>11, AloneMoves
  <2>2. nodeRefs[o] # 0 /\ nodeRefs[o] \in Nat /\ Held(s) /\ (o \in Streams => Held(o))
    BY <1>11, Underway DEF Used, Listening, TypeOK
  <2>3. /\ func' = func /\ held' = held
        /\ nodeRefs'[p] > 0 => nodeRefs[p] > 0
        /\ p # o => cleanups'[p] = cleanups[p]
    <3>1. /\ func' = func /\ held' = held
          /\ p # o => cleanups'[p] = cleanups[p]
      BY <1>0, <1>11 DEF NodesLinked, owners, TypeOK
    <3>2. p # o /\ p # s => nodeRefs'[p] = nodeRefs[p]
      BY <1>0, <1>11 DEF NodesLinked, TypeOK
    <3>3. nodeRefs[s] > 0
      BY <1>11 DEF NodesLinked
    <3> QED
      BY <2>2, <3>1, <3>2, <3>3
  <2>4. p = o => func[p] /\ ~Cleaning(p)
    BY <1>0, <2>2 DEF Clean
  <2>5. Feeds(p)' => Feeds(p) \/ Held(p)
    <3> SUFFICES ASSUME NEW x \in Objects, p \in Range(sources'[x]), p # s PROVE p \in Range(sources[x])
      BY <2>2 DEF Feeds
    <3>1. sources'[x] = IF x = o THEN <<s>> \o sources[o] ELSE sources[x]
      BY <1>11 DEF NodesLinked, TypeOK
    <3> DEFINE a == <<s>>
    <3>2. sources[o] \in Seq(Streams) /\ a \in Seq(Streams) /\ Range(a) = {s}
      BY DEF TypeOK, Range
    <3>3. sources'[x] = IF x = o THEN a \o sources[o] ELSE sources[x]
      BY <3>1
    <3> HIDE DEF a
    <3>4. Range(a \o sources[o]) = Range(a) \cup Range(sources[o])
      BY <3>2, RangeOfConcat
    <3> QED
      BY <3>2, <3>3, <3>4
  <2> QED
    BY <1>0, <2>1, <2>3, <2>4, <2>5, CleanKept DEF Held
<1>12. ASSUME NEW s \in Streams, NEW o \in Objects, Unlistened(t, s, o) PROVE Clean(p)'
  <2>1. Clears(p)' = Clears(p) /\ Relocks(p)' <= Relocks(p)
    BY <1>1, <1>12, AloneMoves
  <2>2. /\ func' = func /\ cleanups'[p] = cleanups[p] /\ nodeRefs' = nodeRefs /\ held' = held
        /\ sources' = sources
    BY <1>0, <1>12, ObjectsAssumption DEF Unlistened, owners, links, TypeOK
  <2> QED
    BY <1>0, <2>1, <2>2, CleanKept DEF Held, Feeds
<1>13. ASSUME NEW s \in Streams, NEW o \in Objects,
              ListenerAdded(t, s, o) \/ Unsourced(t, s, o) \/ NodesUnlinked(t, s, o)
       PROVE  Clean(p)'
  <2>1. \/ Moves(t, {"listen"}, {"link", "release"}) \/ Moves(t, {"unsource"}, {"release"})
        \/ Moves(t, {"unlink"}, {"release", "dropNode"})
    BY <1>13, AloneMoves
  <2>2. Clears(p)' = Clears(p) /\ Relocks(p)' <= Relocks(p)
    BY <1>1, <2>1
  <2>3. /\ func' = func /\ held' = held /\ cleanups' = cleanups
        /\ nodeRefs'[p] > 0 => nodeRefs[p] > 0
    BY <1>0, <1>13 DEF ListenerAdded, Unsourced, NodesUnlinked, owners, TypeOK
  <2>4. Feeds(p)' => Feeds(p)
    BY <1>13, FeedsKept DEF ListenerAdded, links
  <2> QED
    BY <1>0, <2>2, <2>3, <2>4, CleanKept DEF Held
<1> QED
  BY <1>2, <1>3, <1>4, <1>5, <1>6, <1>7, <1>8, <1>9, <1>10, <1>11, <1>12, <1>13 DEF Step

LEMMA LivesKept ==
  ASSUME TypeOK, TypeOK', NEW p \in Streams, Lives(p),
         \/ counts'[p] = counts[p]
         \/ /\ \E k \in Kinds : Number(p, k) # 0
            /\ \A j \in Kinds : Number(p, j)' >= Number(p, j),
         func'[p] = func[p], p \in freed' <=> p \in freed, Made(p)' => Made(p),
         Clears(p)' = Clears(p)
  PROVE  Lives(p)'
<1>1. Cleaning(p)' <=> Cleaning(p)
  BY EndsOf, EndsOfNext
<1>2. CASE counts'[p] = counts[p]
  BY <1>1, <1>2 DEF Lives, Zero, Number
<1>3. CASE /\ \E k \in Kinds : Number(p, k) # 0
           /\ \A j \in Kinds : Number(p, j)' >= Number(p, j)
  <2>1. ~Zero(p) /\ p \notin freed
    BY <1>3 DEF Lives, Zero
  <2>2. \A j \in Kinds : Number(p, j) \in Nat /\ Number(p, j)' \in Nat
    BY RefParts, RefPartsNext
  <2>3. ~Zero(p)'
    BY <1>3, <2>2 DEF Zero
  <2>4. active(counts[p]) => active(counts[p])'
    BY <1>3, <2>2, SomeKinds DEF active, Number
  <2> QED
    BY <1>1, <2>1, <2>3, <2>4 DEF Lives
<1> QED
  BY <1>2, <1>3

LEMMA LivesInc ==
  ASSUME TypeOK, Room, NEW o \in Streams, NEW k \in Kinds, counts' = Inc(o, k),
         \E j \in Kinds : Number(o, j) # 0, NEW p \in Streams
  PROVE  \/ counts'[p] = counts[p]
         \/ /\ \E j \in Kinds : Number(p, j) # 0
            /\ \A j \in Kinds : Number(p, j)' >= Number(p, j)
<1>1. CASE p # o
  BY <1>1 DEF Inc, TypeOK
<1>2. CASE p = o
  <2>1. \A j \in Kinds : Number(p, j)' = Number(p, j) + Bit(p = o /\ j = k)
    BY OneMore DEF Room
  <2>2. \A j \in Kinds : Number(p, j) \in Nat
    BY RefParts
  <2> QED
    BY <1>2, <2>1, <2>2 DEF Bit
<1> QED
  BY <1>1, <1>2

LEMMA RelockAhead == TypeOK /\ Ordered => \A o \in Streams :
                       Task("clear", o, o) \in Tasks => Task("relock", o, o) \in Tasks
BY BehindIs DEF Ordered

LEMMA RelockAheadNext == TypeOK' /\ Ordered' => (\A o \in Streams :
                           Task("clear", o, o) \in Tasks => Task("relock", o, o) \in Tasks)'
BY RelockAhead, PTL

LEMMA ReleasedLives ==
  ASSUME TypeOK, Counted, Used, TypeOK', NEW t \in Threads, NEW o \in Streams, NEW k \in Kinds,
         Released(t, o, k), Lives(o)
  PROVE  Lives(o)'
<1>1. Number(o, k) # 0 /\ o \notin freed
  BY ReleasedCounts DEF Used
<1>2. counts'[o] = dec(counts[o], k) /\ func' = func
  BY DEF Released, Dec, TypeOK
<1>3. alive(dec(counts[o], k)) <=> ~Zero(o)'
  <2>1. \A j \in Kinds : Number(o, j)' \in Nat
    BY RefPartsNext
  <2> QED
    BY <1>2, <2>1 DEF alive, Zero, Number
<1>4. o \in freed' <=> Zero(o)'
  BY <1>1, <1>3 DEF Released
<1>5. func[o] => active(dec(counts[o], k))
  BY DEF Released
<1>6. active(dec(counts[o], k)) => alive(dec(counts[o], k))
  BY SomeKinds DEF active, alive
<1> QED
  BY <1>2, <1>3, <1>4, <1>5, <1>6 DEF Lives

LEMMA RelockedLives ==
  ASSUME TypeOK, Counted, Used, Cleaned, TypeOK', Counted', Ordered', NEW t \in Threads,
         NEW o \in Streams, Relocked(t, o), Lives(o)
  PROVE  Lives(o)'
<1>1. Number(o, "strong") # 0 /\ o \notin freed
  BY RelockedCounts, SomeKinds DEF Used
<1>2. counts'[o] = dec(counts[o], "strong") /\ func' = func
  BY DEF Relocked, Dec, TypeOK
<1>3. alive(dec(counts[o], "strong")) <=> ~Zero(o)'
  <2>1. \A j \in Kinds : Number(o, j)' \in Nat
    BY RefPartsNext
  <2> QED
    BY <1>2, <2>1 DEF alive, Zero, Number
<1>4. o \in freed' <=> Zero(o)'
  BY <1>1, <1>3 DEF Relocked
<1>5. Cleaning(o)' <=> Cleaning(o)
  <2>1. Does(t, <<Task("relock", o, o)>>, <<>>)
    BY DEF Relocked
  <2>2. Clears(o) = Clears(o)' + Bit("relock" = "clear" /\ o = o)
    BY <2>1, EndsOver
  <2>3. Clears(o) \in Nat /\ Clears(o)' \in Nat
    BY EndsOf, EndsOfNext
  <2>4. Clears(o) = Clears(o)'
    BY <2>2, <2>3 DEF Bit
  <2> QED
    BY <2>4, EndsOf, EndsOfNext
<1>6. ~func[o] \/ Cleaning(o)
  BY UnderwayAlone, SomeKinds DEF Cleaned, Clean
<1>7. Zero(o)' => ~Cleaning(o)'
  <2>1. Zero(o)' => Number(o, "strong")' = 0
    BY SomeKinds DEF Zero
  <2>2. Number(o, "strong")' = 0 => Task("relock", o, o) \notin Tasks'
    BY NoReferencesNext DEF Referred, Strong
  <2>3. Cleaning(o)' => Task("clear", o, o) \in Tasks'
    BY CleaningIsNext
  <2> QED
    BY <2>1, <2>2, <2>3, RelockAheadNext
<1> QED
  BY <1>2, <1>4, <1>5, <1>6, <1>7 DEF Lives

LEMMA LivingNext ==
  ASSUME TypeOK, Counted, Fresh, Used, Cleaned, Living, Room, TypeOK', Counted', Ordered',
         NEW t \in Threads, Step(t)
  PROVE  Living'
<1> SUFFICES ASSUME NEW p \in Streams PROVE Lives(p)'
  BY DEF Living
<1>0. /\ Lives(p) /\ p \in Objects
      /\ Clears(p) \in Nat /\ Clears(p)' \in Nat
  BY SomeKinds, EndsOf, EndsOfNext DEF Living, TypeOK
<1>1. ASSUME NEW D, NEW T, Moves(t, D, T),
             "clear" \notin D, "relock" \notin D, "clear" \notin T, "relock" \notin T
      PROVE  Clears(p)' = Clears(p)
  BY <1>0, <1>1, EndsMove
<1>2. ASSUME Apart(t) PROVE Lives(p)'
  <2>1. Clears(p)' = Clears(p)
    BY <1>1, <1>2, ApartFacts DEF ApartDoes, ApartBrings, TransactionOps
  <2>2. func' = func /\ counts' = counts /\ freed' = freed /\ maker' = maker
    BY <1>2, ApartFacts
  <2> QED
    BY <1>0, <2>1, <2>2, LivesKept DEF Made
<1>3. ASSUME NEW o \in Objects, SinkMade(t, o) \/ StreamMade(t, o) PROVE Lives(p)'
  <2>1. Moves(t, {}, {"raise", "listen", "dropNode", "close"}) \/ Moves(t, {}, {})
    BY <1>3, AloneMoves
  <2>2. NewStream(t, o) /\ o \in Streams /\ freed' = freed
    BY <1>3 DEF SinkMade, StreamMade
  <2>3. CASE p = o
    <3>1. /\ Number(o, "stream")' = Number(o, "stream") + 1
          /\ Number(o, "node")' = Number(o, "node") + 1
          /\ Number(o, "stream") \in Nat /\ Number(o, "node") \in Nat
      BY <2>2, NewStreamRefs, RefParts, SomeKinds DEF Bit
    <3>2. Number(o, "stream")' > 0 /\ Number(o, "node")' > 0
      BY <3>1
    <3>3. ~Zero(o)' /\ active(counts[o])'
      BY <3>2, SomeKinds DEF Zero, active, Number
    <3>4. o \notin freed'
      BY <1>0, <2>2, <2>3 DEF Fresh, NewStream, Made
    <3> QED
      BY <2>3, <3>3, <3>4 DEF Lives
  <2>4. CASE p # o
    <3>1. Clears(p)' = Clears(p)
      BY <1>1, <2>1
    <3>2. func'[p] = func[p] /\ counts'[p] = counts[p] /\ maker'[p] = maker[p]
      BY <1>0, <2>2, <2>4 DEF NewStream, TypeOK
    <3> QED
      BY <1>0, <2>2, <3>1, <3>2, LivesKept DEF Made
  <2> QED
    BY <2>3, <2>4
<1>4. ASSUME NEW o \in Objects, ListenerMade(t, o) PROVE Lives(p)'
  <2>1. Clears(p)' = Clears(p)
    BY <1>1, <1>4, AloneMoves
  <2>2. func' = func /\ counts' = counts /\ freed' = freed /\ maker'[p] = maker[p]
    BY <1>0, <1>4, ObjectsAssumption DEF ListenerMade, TypeOK
  <2> QED
    BY <1>0, <2>1, <2>2, LivesKept DEF Made
<1>5. ASSUME NEW o \in Objects, Cleared(t, o) PROVE Lives(p)'
  <2>1. Clears(p) = Clears(p)' + Bit(p = o)
    <3>1. Does(t, <<Task("clear", o, o)>>, <<>>) /\ o \in Streams
      BY <1>5 DEF Cleared
    <3>2. Clears(p) = Clears(p)' + Bit("clear" = "clear" /\ p = o)
      BY <3>1, EndsOver
    <3> QED
      BY <3>2 DEF Bit
  <2>2. counts' = counts /\ freed' = freed /\ maker' = maker
    BY <1>5 DEF Cleared, owners
  <2>3. CASE p # o
    <3>1. func'[p] = func[p]
      BY <1>5, <2>3 DEF Cleared, TypeOK
    <3>2. Clears(p)' = Clears(p)
      BY <1>0, <2>1, <2>3 DEF Bit
    <3> QED
      BY <1>0, <2>2, <3>1, <3>2, LivesKept DEF Made
  <2>4. CASE p = o
    <3>1. func'[p] = FALSE
      BY <1>5, <2>4 DEF Cleared, TypeOK
    <3> QED
      BY <1>0, <2>2, <3>1 DEF Lives, Zero, Number, Made
  <2> QED
    BY <2>3, <2>4
<1>6. ASSUME NEW o \in Objects, Relocked(t, o) PROVE Lives(p)'
  <2>1. o \in Streams /\ func' = func /\ maker' = maker
    BY <1>6 DEF Relocked, owners
  <2>2. CASE p = o
    BY <1>0, <1>6, <2>1, <2>2, RelockedLives
  <2>3. CASE p # o
    <3>1. Clears(p)' = Clears(p)
      <4>1. Does(t, <<Task("relock", o, o)>>, <<>>)
        BY <1>6 DEF Relocked
      <4>2. Clears(p) = Clears(p)' + Bit("relock" = "clear" /\ p = o)
        BY <2>1, <4>1, EndsOver
      <4> QED
        BY <1>0, <4>2 DEF Bit
    <3>2. counts'[p] = counts[p] /\ (p \in freed' <=> p \in freed)
      BY <1>6, <2>3 DEF Relocked, Dec, TypeOK
    <3> QED
      BY <1>0, <2>1, <3>1, <3>2, LivesKept DEF Made
  <2> QED
    BY <2>2, <2>3
<1>7. ASSUME NEW o \in Objects, NodeKept(t, o) \/ NodeGone(t, o) PROVE Lives(p)'
  <2>1. Moves(t, {"dropNode"}, {}) \/ Moves(t, {"dropNode"}, {"unsource", "release", "dropNode"})
    BY <1>7, AloneMoves
  <2>2. Clears(p)' = Clears(p)
    BY <1>1, <2>1
  <2>3. func' = func /\ counts' = counts /\ freed' = freed /\ maker' = maker
    BY <1>7 DEF NodeKept, NodeGone, owners
  <2> QED
    BY <1>0, <2>2, <2>3, LivesKept DEF Made
<1>8. ASSUME NEW o \in Objects, NEW k \in Kinds, CleanupStarts(t, o, k) PROVE Lives(p)'
  <2>1. o \in Streams /\ freed' = freed /\ func' = func /\ maker' = maker
    BY <1>8 DEF CleanupStarts, owners
  <2>2. CASE p = o
    <3>1. Number(o, "strong")' = 1 /\ Number(o, k) # 0
      BY <1>8, CleanupStartsCounts
    <3>2. ~Zero(o)' /\ o \notin freed'
      BY <2>1, <3>1, SomeKinds DEF Zero, Used
    <3>3. Cleaning(o)'
      BY <1>8, <2>1, CleanupClean
    <3> QED
      BY <2>2, <3>2, <3>3 DEF Lives
  <2>3. CASE p # o
    <3>1. Clears(p)' = Clears(p)
      BY <1>0, <1>8, <2>1, <2>3, EndsCleanup DEF Bit
    <3>2. counts'[p] = counts[p]
      BY <1>8, <2>3 DEF CleanupStarts, TypeOK
    <3> QED
      BY <1>0, <2>1, <3>1, <3>2, LivesKept DEF Made
  <2> QED
    BY <2>2, <2>3
<1>9. ASSUME NEW o \in Objects, NEW k \in Kinds, Released(t, o, k) PROVE Lives(p)'
  <2>1. o \in Streams /\ func' = func /\ maker' = maker
    BY <1>9 DEF Released, owners
  <2>2. CASE p = o
    BY <1>0, <1>9, <2>1, <2>2, ReleasedLives
  <2>3. CASE p # o
    <3>1. Clears(p)' = Clears(p)
      BY <1>1, <1>9, AloneMoves
    <3>2. counts'[p] = counts[p] /\ (p \in freed' <=> p \in freed)
      BY <1>9, <2>3 DEF Released, Dec, TypeOK
    <3> QED
      BY <1>0, <2>1, <3>1, <3>2, LivesKept DEF Made
  <2> QED
    BY <2>2, <2>3
<1> DEFINE Grown(q) == \/ counts'[q] = counts[q]
                       \/ /\ \E k \in Kinds : Number(q, k) # 0
                          /\ \A j \in Kinds : Number(q, j)' >= Number(q, j)
<1>10. ASSUME NEW o \in Objects, NEW u \in Threads, HandleCopied(t, u, o) PROVE Lives(p)'
  <2>1. Clears(p)' = Clears(p)
    BY <1>1, <1>10, AloneMoves
  <2>2. func' = func /\ freed' = freed /\ maker' = maker /\ counts' = Inc(o, "stream") /\ Held(o)
    BY <1>10 DEF HandleCopied, Held
  <2>3. o \in Streams /\ Number(o, "stream") # 0 /\ "stream" \in Kinds
    BY <2>2, SomeKinds DEF Used
  <2>4. Grown(p)
    BY <2>2, <2>3, LivesInc
  <2> QED
    BY <1>0, <2>1, <2>2, <2>4, LivesKept DEF Made
<1>11. ASSUME NEW s \in Streams, NEW o \in Objects, Unlistened(t, s, o) PROVE Lives(p)'
  <2>1. Clears(p)' = Clears(p)
    BY <1>1, <1>11, AloneMoves
  <2>2. func' = func /\ counts' = counts /\ freed' = freed /\ maker' = maker
    BY <1>11 DEF Unlistened, owners
  <2> QED
    BY <1>0, <2>1, <2>2, LivesKept DEF Made
<1>12. ASSUME NEW s \in Streams, NEW o \in Objects,
              \/ ListenerAdded(t, s, o) \/ NodesLinked(t, s, o)
              \/ Unsourced(t, s, o) \/ NodesUnlinked(t, s, o)
       PROVE  Lives(p)'
  <2>1. \/ Moves(t, {"listen"}, {"link", "release"}) \/ Moves(t, {"link"}, {"dropNode"})
        \/ Moves(t, {"unsource"}, {"release"}) \/ Moves(t, {"unlink"}, {"release", "dropNode"})
    BY <1>12, AloneMoves
  <2>2. Clears(p)' = Clears(p)
    BY <1>1, <2>1
  <2>3. func' = func /\ freed' = freed /\ maker' = maker
    BY <1>12 DEF ListenerAdded, NodesLinked, Unsourced, NodesUnlinked, owners
  <2>4. counts' = Inc(s, "strong") \/ counts' = Inc(s, "stream")
    BY <1>12 DEF ListenerAdded, NodesLinked, Unsourced, NodesUnlinked
  <2>5. \E j \in Kinds : Number(s, j) # 0
    <3>1. CASE ListenerAdded(t, s, o)
      <4>1. Held(s)
        BY <3>1, Underway DEF Used, Listening
      <4> QED
        BY <4>1, SomeKinds DEF Used
    <3>2. CASE NodesLinked(t, s, o) \/ NodesUnlinked(t, s, o)
      <4>1. nodeRefs[s] # 0
        BY <3>2 DEF NodesLinked, NodesUnlinked
      <4> QED
        BY <4>1, SomeKinds DEF Used
    <3>3. CASE Unsourced(t, s, o)
      BY <3>3, Underway, SomeKinds DEF Used
    <3> QED
      BY <1>12, <3>1, <3>2, <3>3
  <2>6. Grown(p)
    BY <2>4, <2>5, LivesInc, SomeKinds
  <2> QED
    BY <1>0, <2>2, <2>3, <2>6, LivesKept DEF Made
<1> QED
  BY <1>2, <1>3, <1>4, <1>5, <1>6, <1>7, <1>8, <1>9, <1>10, <1>11, <1>12 DEF Step

\* A stream that is being cleaned up, or was.
Finished(p) == Made(p) /\ (~func[p] \/ Cleaning(p))

LEMMA FinishedStays ==
  ASSUME TypeOK, Used, Cleaned, Room, Counted, TypeOK', Counted', NEW t \in Threads, Step(t),
         NEW p \in Streams, Finished(p)
  PROVE  Finished(p)'
<1>0. /\ p \in Objects /\ Made(p)
      /\ Clears(p) \in Nat /\ Clears(p)' \in Nat
  BY SomeKinds, EndsOf, EndsOfNext DEF Finished
<1>1. ASSUME func'[p] = func[p], maker'[p] = maker[p], Clears(p)' = Clears(p) PROVE Finished(p)'
  <2>1. Cleaning(p)' <=> Cleaning(p)
    BY <1>1, EndsOf, EndsOfNext
  <2> QED
    BY <1>1, <2>1 DEF Finished, Made
<1>2. ASSUME NEW D, NEW T, Moves(t, D, T),
             "clear" \notin D, "relock" \notin D, "clear" \notin T, "relock" \notin T,
             func'[p] = func[p], maker'[p] = maker[p]
      PROVE  Finished(p)'
  BY <1>1, <1>2, EndsMove
<1>3. ASSUME Apart(t) PROVE Finished(p)'
  BY <1>2, <1>3, ApartFacts DEF ApartDoes, ApartBrings, TransactionOps
<1>4. ASSUME NEW o \in Objects, SinkMade(t, o) \/ StreamMade(t, o) \/ ListenerMade(t, o)
      PROVE  Finished(p)'
  <2>1. Moves(t, {}, {"raise", "listen", "dropNode", "close"}) \/ Moves(t, {}, {})
    BY <1>4, AloneMoves
  <2>2. p # o /\ (NewStream(t, o) \/ (func' = func /\ maker' = [maker EXCEPT ![o] = t]))
    BY <1>0, <1>4 DEF SinkMade, StreamMade, ListenerMade, NewStream, Made
  <2>3. func'[p] = func[p] /\ maker'[p] = maker[p]
    BY <1>0, <2>2 DEF NewStream, TypeOK
  <2> QED
    BY <1>2, <2>1, <2>3
<1>5. ASSUME NEW o \in Objects, Cleared(t, o) PROVE Finished(p)'
  <2>1. Does(t, <<Task("clear", o, o)>>, <<>>) /\ o \in Streams /\ maker' = maker
    BY <1>5 DEF Cleared, owners
  <2>2. Clears(p) = Clears(p)' + Bit("clear" = "clear" /\ p = o)
    BY <2>1, EndsOver
  <2>3. CASE p = o
    BY <1>0, <1>5, <2>1, <2>3 DEF Cleared, TypeOK, Finished, Made
  <2>4. CASE p # o
    <3>1. Clears(p)' = Clears(p)
      BY <1>0, <2>2, <2>4 DEF Bit
    <3>2. func'[p] = func[p]
      BY <1>5, <2>4 DEF Cleared, TypeOK
    <3> QED
      BY <1>1, <2>1, <3>1, <3>2
  <2> QED
    BY <2>3, <2>4
<1>6. ASSUME NEW o \in Objects, Relocked(t, o) PROVE Finished(p)'
  <2>1. Does(t, <<Task("relock", o, o)>>, <<>>) /\ o \in Streams /\ maker' = maker /\ func' = func
    BY <1>6 DEF Relocked, owners
  <2>2. Clears(p) = Clears(p)' + Bit("relock" = "clear" /\ p = o)
    BY <2>1, EndsOver
  <2>3. Clears(p)' = Clears(p)
    BY <1>0, <2>2 DEF Bit
  <2> QED
    BY <1>1, <2>1, <2>3
<1>7. ASSUME NEW o \in Objects, NodeKept(t, o) \/ NodeGone(t, o) PROVE Finished(p)'
  <2>1. Moves(t, {"dropNode"}, {}) \/ Moves(t, {"dropNode"}, {"unsource", "release", "dropNode"})
    BY <1>7, AloneMoves
  <2>2. func' = func /\ maker' = maker
    BY <1>7 DEF NodeKept, NodeGone, owners
  <2> QED
    BY <1>2, <2>1, <2>2
<1>8. ASSUME NEW o \in Objects, NEW k \in Kinds, CleanupStarts(t, o, k) PROVE Finished(p)'
  <2>1. o \in Streams /\ func' = func /\ maker' = maker
    BY <1>8 DEF CleanupStarts, owners
  <2>2. CASE p = o
    <3>1. Cleaning(o)'
      BY <1>8, <2>1, CleanupClean
    <3> QED
      BY <1>0, <2>1, <2>2, <3>1 DEF Finished, Made
  <2>3. CASE p # o
    <3>1. Clears(p)' = Clears(p)
      BY <1>0, <1>8, <2>1, <2>3, EndsCleanup DEF Bit
    <3> QED
      BY <1>1, <2>1, <3>1
  <2> QED
    BY <2>2, <2>3
<1>9. ASSUME NEW o \in Objects, NEW k \in Kinds, Released(t, o, k) PROVE Finished(p)'
  <2>1. func' = func /\ maker' = maker
    BY <1>9 DEF Released, owners
  <2>2. Moves(t, {"release"}, {})
    BY <1>9, AloneMoves
  <2> QED
    BY <1>2, <2>1, <2>2
<1>10. ASSUME NEW o \in Objects, NEW u \in Threads, HandleCopied(t, u, o) PROVE Finished(p)'
  <2>1. func' = func /\ maker' = maker
    BY <1>10 DEF HandleCopied
  <2>2. Moves(t, {}, {})
    BY <1>10, AloneMoves
  <2> QED
    BY <1>2, <2>1, <2>2
<1>11. ASSUME NEW s \in Streams, NEW o \in Objects,
              \/ Unlistened(t, s, o) \/ ListenerAdded(t, s, o) \/ NodesLinked(t, s, o)
              \/ Unsourced(t, s, o) \/ NodesUnlinked(t, s, o)
       PROVE  Finished(p)'
  <2>1. \/ Moves(t, {}, {"kill"}) \/ Moves(t, {"listen"}, {"link", "release"})
        \/ Moves(t, {"link"}, {"dropNode"}) \/ Moves(t, {"unsource"}, {"release"})
        \/ Moves(t, {"unlink"}, {"release", "dropNode"})
    BY <1>11, AloneMoves
  <2>2. func' = func /\ maker' = maker
    BY <1>11 DEF Unlistened, ListenerAdded, NodesLinked, Unsourced, NodesUnlinked, owners
  <2> QED
    BY <1>2, <2>1, <2>2
<1> QED
  BY <1>3, <1>4, <1>5, <1>6, <1>7, <1>8, <1>9, <1>10, <1>11 DEF Step

RestDoes == {"link"} \cup TransactionOps
RestBrings == {"release", "dropNode"} \cup TransactionOps

LEMMA ApartRest ==
  ASSUME TypeOK, NEW t \in Threads, Apart(t)
  PROVE  \/ \E s \in Streams, o \in Objects :
              Killed(t, s, o) \/ Deferred(t, s, o) \/ Skipped(t, "unlink", s, o)
         \/ \E u \in Threads, s \in Streams, o \in Objects : PostRun(t, u, s, o)
         \/ Moves(t, RestDoes, RestBrings) /\ posts' = posts
<1> DEFINE Rest == Moves(t, RestDoes, RestBrings) /\ posts' = posts
<1>0. /\ {} \subseteq RestDoes /\ {"link"} \subseteq RestDoes /\ TransactionOps \subseteq RestDoes
      /\ {} \subseteq RestBrings /\ {"release"} \subseteq RestBrings /\ {"dropNode"} \subseteq RestBrings
      /\ {"raise"} \subseteq RestBrings /\ {"close"} \subseteq RestBrings
      /\ TransactionOps \subseteq RestBrings
  BY DEF RestDoes, RestBrings, TransactionOps
<1>1. ASSUME Opened(t) \/ Closing(t) PROVE Rest
  <2>1. Moves(t, {}, {"raise"}) \/ Moves(t, {}, {"close"})
    BY <1>1, TurnMoves
  <2>2. posts' = posts
    BY <1>1 DEF Opened, Closing, deferral
  <2> QED
    BY <1>0, <2>1, <2>2, MovesMore
<1>2. ASSUME NEW o \in Objects, HandleDropped(t, o) \/ SinkDropped(t, o) PROVE Rest
  <2>1. o \in Streams
    BY <1>2 DEF HandleDropped, SinkDropped, TypeOK
  <2>2. Moves(t, {}, {"release"}) \/ Moves(t, {}, {"dropNode"})
    BY <1>2, <2>1, ProgramMoves
  <2>3. posts' = posts
    BY <1>2 DEF HandleDropped, SinkDropped, deferral
  <2> QED
    BY <1>0, <2>2, <2>3, MovesMore
<1>3. ASSUME NEW s \in Streams, NEW o \in Objects, Skipped(t, "link", s, o) PROVE Rest
  <2>1. Moves(t, {"link"}, {})
    BY <1>3, CallMoves, SomeKinds
  <2>2. posts' = posts
    BY <1>3 DEF Skipped, deferral
  <2> QED
    BY <1>0, <2>1, <2>2, MovesMore
<1>4. ASSUME NEW op, NEW u, NEW tasks, Paced(t, op, u, tasks) PROVE Rest
  <2>1. Moves(t, TransactionOps, TransactionOps)
    BY <1>4, TurnMoves
  <2>2. posts' = posts
    BY <1>4 DEF Paced
  <2> QED
    BY <1>0, <2>1, <2>2, MovesMore
<1> HIDE DEF Rest
<1>5. \/ \E s \in Streams, o \in Objects :
           Killed(t, s, o) \/ Deferred(t, s, o) \/ Skipped(t, "unlink", s, o)
      \/ \E u \in Threads, s \in Streams, o \in Objects : PostRun(t, u, s, o)
      \/ Rest
  BY <1>1, <1>2, <1>3, <1>4 DEF Apart
<1> QED
  BY <1>5 DEF Rest

Wanted(s, o) == Undoing(s, o) \cap Tasks # {} \/ <<s, o>> \in Range(posts)

LEMMA WantedKept ==
  ASSUME TypeOK, NEW t \in Threads, NEW D, NEW T, Moves(t, D, T), "kill" \notin T, "last" \notin T,
         "unlink" \notin T, posts' = posts
  PROVE  \A s, o : Wanted(s, o)' => Wanted(s, o)
<1>1. \A s, o : \A a \in Undoing(s, o) : a.op \notin T
  BY OpOf DEF Undoing
<1>2. \A a \in Tasks' : a.op \notin T => a \in Tasks
  BY MovesAfter
<1> QED
  BY <1>1, <1>2 DEF Wanted, Undoing

\* What a step puts on an agenda is all that is new.
OnlyUndoes(l, s, o) == \A a \in Range(l) : a.op \in {"kill", "last", "unlink"} => a \in Undoing(s, o)

LEMMA WantedNew ==
  ASSUME TypeOK, NEW t \in Threads, NEW done \in Seq(AllTasks), NEW tasks \in Seq(AllTasks),
         Does(t, done, tasks), NEW s, NEW o, Range(posts') \subseteq Range(posts) \cup {<<s, o>>},
         OnlyUndoes(tasks, s, o)
  PROVE  \A r, p : Wanted(r, p)' => Wanted(r, p) \/ (r = s /\ p = o)
<1> SUFFICES ASSUME NEW r, NEW p, Wanted(r, p)', ~(r = s /\ p = o)
             PROVE  Wanted(r, p)
  OBVIOUS
<1>1. Tasks' \subseteq Tasks \cup Range(tasks)
  BY AgendaAfter
<1>2. CASE <<r, p>> \in Range(posts')
  BY <1>2 DEF Wanted
<1>3. ASSUME NEW a \in Undoing(r, p), a \in Tasks' PROVE Wanted(r, p)
  <2>1. a.op \in {"kill", "last", "unlink"}
    BY OpOf DEF Undoing
  <2>2. a \notin Undoing(s, o)
    BY DEF Undoing, Task
  <2>3. a \in Tasks
    BY <1>1, <1>3, <2>1, <2>2 DEF OnlyUndoes
  <2> QED
    BY <2>3 DEF Wanted
<1> QED
  BY <1>2, <1>3 DEF Wanted, Undoing

LEMMA UndoneNext ==
  ASSUME TypeOK, Used, Cleaned, Undone, Room, Counted, TypeOK', Counted', NEW t \in Threads, Step(t)
  PROVE  Undone'
<1> SUFFICES ASSUME NEW r \in Streams, NEW p \in Streams, Wanted(r, p)' PROVE Finished(p)'
  BY DEF Undone, Wanted, Finished
<1>1. ASSUME Wanted(r, p) PROVE Finished(p)'
  BY <1>1, FinishedStays DEF Undone, Wanted, Finished
<1>2. ASSUME NEW D, NEW T, Moves(t, D, T), "kill" \notin T, "last" \notin T, "unlink" \notin T,
             posts' = posts
      PROVE  Finished(p)'
  BY <1>1, <1>2, WantedKept
<1>3. ASSUME NEW s \in Streams, NEW o \in Objects, Killed(t, s, o) PROVE Finished(p)'
  <2> DEFINE d == <<Task("kill", s, o)>>
             l == <<Now("raise", t), Task("last", s, o)>>
  <2>1. /\ d \in Seq(AllTasks) /\ l \in Seq(AllTasks)
        /\ \A a \in Range(l) : a.op \in {"kill", "last", "unlink"} => a \in Undoing(s, o)
    <3>1. Range(l) = {Now("raise", t), Task("last", s, o)} /\ l \in Seq(AllTasks) /\ d \in Seq(AllTasks)
      BY TaskTypes, ShortLists
    <3>2. Now("raise", t).op = "raise" /\ Task("last", s, o) \in Undoing(s, o)
      BY OpOf DEF Undoing
    <3> QED
      BY <3>1, <3>2
  <2>2. Does(t, d, l) /\ posts' = posts
    BY <1>3 DEF Killed
  <2> HIDE DEF d, l
  <2>3. OnlyUndoes(l, s, o) /\ Range(posts') \subseteq Range(posts) \cup {<<s, o>>}
    BY <2>1, <2>2 DEF OnlyUndoes
  <2>4. \A x, y : Wanted(x, y)' => Wanted(x, y) \/ (x = s /\ y = o)
    BY <2>1, <2>2, <2>3, WantedNew
  <2>5. Wanted(s, o)
    BY <1>3, Underway DEF Wanted, Undoing
  <2> QED
    BY <1>1, <2>4, <2>5
<1>13. ASSUME NEW s \in Streams, NEW o \in Objects, Deferred(t, s, o) PROVE Finished(p)'
  <2> DEFINE d == <<Task("last", s, o)>>
             l == <<Close(t)>>
  <2>1. d \in Seq(AllTasks) /\ l \in Seq(AllTasks) /\ Range(l) = {Close(t)} /\ Close(t).op = "close"
    BY TaskTypes, ShortLists, OpOf
  <2>2. Does(t, d, l)
    BY <1>13 DEF Deferred
  <2>3. Range(posts') = Range(posts) \cup {<<s, o>>}
    <3>1. posts \in Seq(Streams \X Objects) /\ <<s, o>> \in Streams \X Objects
      BY DEF TypeOK
    <3> QED
      BY <1>13, <3>1, RangeOfAppend DEF Deferred
  <2> HIDE DEF d, l
  <2>4. OnlyUndoes(l, s, o)
    BY <2>1 DEF OnlyUndoes
  <2>5. \A x, y : Wanted(x, y)' => Wanted(x, y) \/ (x = s /\ y = o)
    BY <2>1, <2>2, <2>3, <2>4, WantedNew
  <2>6. Wanted(s, o)
    BY <1>13, Underway DEF Wanted, Undoing
  <2> QED
    BY <1>1, <2>5, <2>6
<1>4. ASSUME NEW u \in Threads, NEW s \in Streams, NEW o \in Objects, PostRun(t, u, s, o)
      PROVE  Finished(p)'
  <2> DEFINE d == <<Now("posts", u)>>
             l == <<Task("unlink", s, o), Now("posts", u)>>
  <2>1. /\ d \in Seq(AllTasks) /\ l \in Seq(AllTasks)
        /\ \A a \in Range(l) : a.op \in {"kill", "last", "unlink"} => a \in Undoing(s, o)
    <3>1. Range(l) = {Task("unlink", s, o), Now("posts", u)}
      BY TaskTypes, ShortLists
    <3>2. Now("posts", u).op = "posts" /\ Task("unlink", s, o) \in Undoing(s, o)
      BY OpOf DEF Undoing
    <3> QED
      BY <3>1, <3>2, TaskTypes, ShortLists
  <2>2. Does(t, d, l)
    BY <1>4 DEF PostRun
  <2>3. Range(posts) = {<<s, o>>} \cup Range(posts')
    <3>1. posts \in Seq(Streams \X Objects) /\ posts # <<>>
      BY <1>4 DEF PostRun, TypeOK
    <3> QED
      BY <1>4, <3>1, RangeOfQueue DEF PostRun
  <2> HIDE DEF d, l
  <2>3a. OnlyUndoes(l, s, o)
    BY <2>1 DEF OnlyUndoes
  <2>4. Wanted(r, p) \/ (r = s /\ p = o)
    <3>1. \A x, y : Wanted(x, y)' => Wanted(x, y) \/ (x = s /\ y = o)
      BY <2>1, <2>2, <2>3, <2>3a, WantedNew
    <3> QED
      BY <3>1
  <2>5. Wanted(s, o)
    BY <2>3 DEF Wanted
  <2> QED
    BY <1>1, <2>4, <2>5
<1>5. ASSUME Apart(t) PROVE Finished(p)'
  <2>1. ASSUME NEW s \in Streams, NEW o \in Objects, Skipped(t, "unlink", s, o) PROVE Finished(p)'
    <3>1. Moves(t, {"unlink"}, {}) /\ posts' = posts
      BY <2>1, CallMoves, SomeKinds DEF Skipped, deferral
    <3> QED
      BY <1>2, <3>1
  <2>2. ASSUME Moves(t, RestDoes, RestBrings), posts' = posts PROVE Finished(p)'
    BY <1>2, <2>2 DEF RestBrings, TransactionOps
  <2> QED
    BY <1>3, <1>4, <1>5, <1>13, <2>1, <2>2, ApartRest
<1>6. ASSUME NEW o \in Objects, SinkMade(t, o) \/ StreamMade(t, o) \/ ListenerMade(t, o)
      PROVE  Finished(p)'
  <2>1. Moves(t, {}, {"raise", "listen", "dropNode", "close"}) \/ Moves(t, {}, {})
    BY <1>6, AloneMoves
  <2>2. posts' = posts
    BY <1>6 DEF SinkMade, StreamMade, ListenerMade, deferral
  <2> QED
    BY <1>2, <2>1, <2>2
<1>7. ASSUME NEW o \in Objects, Cleared(t, o) \/ Relocked(t, o) \/ NodeKept(t, o) \/ NodeGone(t, o)
      PROVE  Finished(p)'
  <2>1. \/ Moves(t, {"clear"}, {}) \/ Moves(t, {"relock"}, {}) \/ Moves(t, {"dropNode"}, {})
        \/ Moves(t, {"dropNode"}, {"unsource", "release", "dropNode"})
    BY <1>7, AloneMoves
  <2>2. posts' = posts
    BY <1>7 DEF Cleared, Relocked, NodeKept, NodeGone, deferral
  <2> QED
    BY <1>2, <2>1, <2>2
<1>8. ASSUME NEW o \in Objects, NEW k \in Kinds, CleanupStarts(t, o, k) PROVE Finished(p)'
  <2>1. o \in Streams /\ maker' = maker /\ posts' = posts /\ Made(o)
    <3>1. Number(o, k) # 0
      BY <1>8, CleanupStartsCounts
    <3> QED
      BY <1>8, <3>1 DEF CleanupStarts, owners, deferral, Used
  <2>2. CASE p = o
    <3>1. Cleaning(o)'
      BY <1>8, <2>1, CleanupClean
    <3> QED
      BY <2>1, <2>2, <3>1 DEF Finished, Made
  <2>3. CASE p # o
    <3> DEFINE d == <<Release(o, k)>>
               e == Each("kill", cleanups[o], o)
               m == <<Task("clear", o, o), Task("relock", o, o)>>
               l == e \o m
    <3>1. /\ d \in Seq(AllTasks) /\ l \in Seq(AllTasks)
          /\ Range(l) = {Task("kill", s, o) : s \in Range(cleanups[o])}
                          \cup {Task("clear", o, o), Task("relock", o, o)}
      BY <2>1, CleanupType, TaskTypes, ShortLists
    <3>2. Does(t, d, l)
      BY <1>8 DEF CleanupStarts
    <3> HIDE DEF d, e, m, l
    <3>3. Tasks' \subseteq Tasks \cup Range(l)
      BY <3>1, <3>2, AgendaAfter
    <3>4. Undoing(r, p) \cap Range(l) = {}
      BY <2>3, <3>1 DEF Undoing, Task
    <3>5. Wanted(r, p)
      BY <2>1, <3>3, <3>4 DEF Wanted, Undoing
    <3> QED
      BY <1>1, <3>5
  <2> QED
    BY <2>2, <2>3
<1>9. ASSUME NEW o \in Objects, NEW k \in Kinds, Released(t, o, k) PROVE Finished(p)'
  <2>1. Moves(t, {"release"}, {}) /\ posts' = posts
    BY <1>9, AloneMoves DEF Released, deferral
  <2> QED
    BY <1>2, <2>1
<1>10. ASSUME NEW o \in Objects, NEW u \in Threads, HandleCopied(t, u, o) PROVE Finished(p)'
  <2>1. Moves(t, {}, {}) /\ posts' = posts
    BY <1>10, AloneMoves DEF HandleCopied, deferral
  <2> QED
    BY <1>2, <2>1
<1>11. ASSUME NEW s \in Streams, NEW o \in Objects, Unlistened(t, s, o) PROVE Finished(p)'
  <2> DEFINE l == <<Task("kill", s, o)>>
  <2>1. PICK d \in Seq(AllTasks) : d = <<>>
    BY ShortLists
  <2>2. l \in Seq(AllTasks) /\ Range(l) = {Task("kill", s, o)}
    BY TaskTypes, ShortLists
  <2>3. Does(t, d, l) /\ posts' = posts /\ p # o
    BY <1>11, <2>1, ObjectsAssumption DEF Unlistened, deferral
  <2> HIDE DEF l
  <2>4. \A a \in Range(l) : a.op \in {"kill", "last", "unlink"} => a \in Undoing(s, o)
    BY <2>2 DEF Undoing
  <2>5. Range(posts') \subseteq Range(posts) \cup {<<s, o>>}
    BY <2>3
  <2>5a. OnlyUndoes(l, s, o)
    BY <2>4 DEF OnlyUndoes
  <2>6. Does(t, d, l) /\ l \in Seq(AllTasks)
    BY <2>2, <2>3
  <2>7. \A x, y : Wanted(x, y)' => Wanted(x, y) \/ (x = s /\ y = o)
    BY <2>5, <2>5a, <2>6, WantedNew
  <2> QED
    BY <1>1, <2>3, <2>7
<1>12. ASSUME NEW s \in Streams, NEW o \in Objects,
              \/ ListenerAdded(t, s, o) \/ NodesLinked(t, s, o)
              \/ Unsourced(t, s, o) \/ NodesUnlinked(t, s, o)
       PROVE  Finished(p)'
  <2>1. \/ Moves(t, {"listen"}, {"link", "release"})
        \/ Moves(t, {"link"}, {"dropNode"}) \/ Moves(t, {"unsource"}, {"release"})
        \/ Moves(t, {"unlink"}, {"release", "dropNode"})
    BY <1>12, AloneMoves
  <2>2. posts' = posts
    BY <1>12 DEF ListenerAdded, NodesLinked, Unsourced, NodesUnlinked, deferral
  <2> QED
    BY <1>2, <2>1, <2>2
<1> QED
  BY <1>5, <1>6, <1>7, <1>8, <1>9, <1>10, <1>11, <1>12 DEF Step

LEMMA RangeWithout ==
  ASSUME NEW S, NEW s \in Seq(S), NEW x
  PROVE  Range(Without(s, x)) = Range(s) \ {x}
<1> DEFINE q == Without(s, x)
<1>1. q \in Seq(S) /\ \A X : Count(X, q) = Count(X \ {x}, s)
  BY WithoutType
<1> HIDE DEF q
<1>2. ASSUME NEW e PROVE e \in Range(q) <=> e \in Range(s) /\ e # x
  <2>0. Count({e}, q) = 0 <=> Range(q) \cap {e} = {}
    BY <1>1, CountType
  <2>1. Count({e}, q) = 0 <=> e \notin Range(q)
    BY <2>0
  <2>2. Count({e} \ {x}, s) = 0 <=> Range(s) \cap ({e} \ {x}) = {}
    BY CountType
  <2> QED
    BY <1>1, <2>1, <2>2
<1> QED
  BY <1>2 DEF q

LEMMA RangeFirstRemoved ==
  ASSUME NEW S, NEW s \in Seq(S), NEW e \in Range(s)
  PROVE  /\ Range(RemoveFirst(s, e)) \subseteq Range(s)
         /\ Range(s) \ {e} \subseteq Range(RemoveFirst(s, e))
<1> DEFINE q == RemoveFirst(s, e)
<1>1. q \in Seq(S) /\ \A X : Count(X, s) = Count(X, q) + Bit(e \in X)
  BY FirstRemoved
<1> HIDE DEF q
<1>2. ASSUME NEW x PROVE (x \in Range(q) => x \in Range(s)) /\ (x \in Range(s) /\ x # e => x \in Range(q))
  <2>a. Count({x}, q) \in Nat /\ (Count({x}, q) = 0 <=> Range(q) \cap {x} = {})
    BY <1>1, CountType
  <2>b. Count({x}, s) \in Nat /\ (Count({x}, s) = 0 <=> Range(s) \cap {x} = {})
    BY CountType
  <2>1. /\ Count({x}, q) \in Nat /\ (Count({x}, q) = 0 <=> x \notin Range(q))
        /\ Count({x}, s) \in Nat /\ (Count({x}, s) = 0 <=> x \notin Range(s))
    BY <2>a, <2>b
  <2>2. Count({x}, s) = Count({x}, q) + Bit(e \in {x})
    BY <1>1
  <2> QED
    BY <2>1, <2>2 DEF Bit
<1> QED
  BY <1>2 DEF q

LEMMA RangeOfOneMore ==
  ASSUME NEW S, NEW s \in Seq(S), NEW e \in S
  PROVE  /\ Range(<<e>> \o s) = {e} \cup Range(s)
         /\ <<e>> \o s \in Seq(S)
         /\ \A X : Count(X, <<e>> \o s) = Bit(e \in X) + Count(X, s)
<1> DEFINE h == <<e>>
<1>1. h \in Seq(S) /\ Range(h) = {e}
  BY DEF Range
<1>2. \A X : Count(X, h) = Bit(e \in X)
  BY CountOne
<1> HIDE DEF h
<1>3. h \o s \in Seq(S) /\ Range(h \o s) = {e} \cup Range(s)
  BY <1>1, RangeOfConcat
<1>4. ASSUME NEW X PROVE Count(X, h \o s) = Bit(e \in X) + Count(X, s)
  <2>1. Count(X, h \o s) = Count(X, h) + Count(X, s)
    BY <1>1, CountConcat
  <2> QED
    BY <1>2, <2>1
<1> QED
  BY <1>3, <1>4 DEF h

\* How a step leaves, or changes, the links.
LEMMA LinksSame ==
  ASSUME TypeOK, NEW t \in Threads, Step(t)
  PROVE  \/ /\ UNCHANGED <<targets, sources>>
            /\ \A o \in Objects : Range(cleanups'[o]) \subseteq Range(cleanups[o])
            /\ \A a \in Tasks : a.op = "unsource" => a \in Tasks'
         \/ \E o \in Objects : NodeGone(t, o)
         \/ \E s \in Streams, o \in Objects :
              NodesLinked(t, s, o) \/ Unsourced(t, s, o) \/ NodesUnlinked(t, s, o)
<1> DEFINE Same == /\ UNCHANGED <<targets, sources>>
                   /\ \A o \in Objects : Range(cleanups'[o]) \subseteq Range(cleanups[o])
                   /\ \A a \in Tasks : a.op = "unsource" => a \in Tasks'
<1>1. ASSUME UNCHANGED <<targets, sources>>,
             \A o \in Objects : cleanups'[o] = <<>> \/ cleanups'[o] = cleanups[o],
             NEW D, NEW T, Moves(t, D, T), "unsource" \notin D
      PROVE  Same
  <2>1. \A a \in Tasks : a.op \notin D => a \in Tasks'
    BY <1>1, MovesAfter
  <2>2. Range(<<>>) = {}
    BY DEF Range
  <2> QED
    BY <1>1, <2>1, <2>2
<1>2. ASSUME Apart(t) PROVE Same
  BY <1>1, <1>2, ApartFacts DEF ApartDoes, TransactionOps
<1>3. ASSUME NEW o \in Objects, SinkMade(t, o) \/ StreamMade(t, o) \/ ListenerMade(t, o) PROVE Same
  BY <1>1, <1>3, AloneMoves DEF SinkMade, StreamMade, ListenerMade, links
<1>4. ASSUME NEW o \in Objects, Cleared(t, o) \/ Relocked(t, o) \/ NodeKept(t, o) PROVE Same
  BY <1>1, <1>4, AloneMoves DEF Cleared, Relocked, NodeKept, links
<1>5. ASSUME NEW o \in Objects, NEW k \in Kinds, CleanupStarts(t, o, k) PROVE Same
  <2>1. /\ UNCHANGED <<targets, sources>>
        /\ \A p \in Objects : cleanups'[p] = <<>> \/ cleanups'[p] = cleanups[p]
    BY <1>5 DEF CleanupStarts, links, TypeOK
  <2> QED
    BY <1>1, <1>5, <2>1, AloneMoves
<1>6. ASSUME NEW o \in Objects, NEW k \in Kinds, Released(t, o, k) PROVE Same
  BY <1>1, <1>6, AloneMoves DEF Released, links
<1>7. ASSUME NEW o \in Objects, NEW u \in Threads, HandleCopied(t, u, o) PROVE Same
  BY <1>1, <1>7, AloneMoves DEF HandleCopied, links
<1>8. ASSUME NEW s \in Streams, NEW o \in Objects, ListenerAdded(t, s, o) PROVE Same
  BY <1>1, <1>8, AloneMoves DEF ListenerAdded, links
<1>9. ASSUME NEW s \in Streams, NEW o \in Objects, Unlistened(t, s, o) PROVE Same
  <2>1. /\ UNCHANGED <<targets, sources>>
        /\ \A p \in Objects : cleanups'[p] = <<>> \/ cleanups'[p] = cleanups[p]
    BY <1>9 DEF Unlistened, links, TypeOK
  <2> QED
    BY <1>1, <1>9, <2>1, AloneMoves
<1> HIDE DEF Same
<1>10. \/ Same
       \/ \E o \in Objects : NodeGone(t, o)
       \/ \E s \in Streams, o \in Objects :
            NodesLinked(t, s, o) \/ Unsourced(t, s, o) \/ NodesUnlinked(t, s, o)
  BY <1>2, <1>3, <1>4, <1>5, <1>6, <1>7, <1>8, <1>9 DEF Step
<1> QED
  BY <1>10 DEF Same

\* What the steps that change links do to them, as sets.
LEMMA LinkedRanges ==
  ASSUME TypeOK, Used, NEW t \in Threads, NEW x \in Streams, NEW y \in Objects, NodesLinked(t, x, y)
  PROVE  /\ x # y /\ x \in Range(Sources[y])
         /\ \A s \in Streams : Range(targets'[s]) = Range(targets[s]) \cup (IF s = x THEN {y} ELSE {})
         /\ \A o \in Objects :
              /\ Range(sources'[o]) = Range(sources[o]) \cup (IF o = y THEN {x} ELSE {})
              /\ Range(cleanups'[o]) = Range(cleanups[o]) \cup (IF o = y THEN {x} ELSE {})
         /\ \A a \in Tasks : a.op = "unsource" => a \in Tasks'
<1>1. x # y /\ x \in Range(Sources[y])
  BY Underway DEF Used, Listening
<1> DEFINE a == <<y>> \o targets[x]
           b == <<x>> \o sources[y]
           c == <<x>> \o cleanups[y]
<1>2. targets[x] \in Seq(Objects) /\ sources[y] \in Seq(Streams) /\ cleanups[y] \in Seq(Streams)
  BY DEF TypeOK
<1>3. Range(a) = {y} \cup Range(targets[x])
  BY <1>2, RangeOfOneMore
<1>4. Range(b) = {x} \cup Range(sources[y])
  BY <1>2, RangeOfOneMore
<1>5. Range(c) = {x} \cup Range(cleanups[y])
  BY <1>2, RangeOfOneMore
<1>6. /\ targets' = [targets EXCEPT ![x] = a]
      /\ sources' = [sources EXCEPT ![y] = b]
      /\ cleanups' = [cleanups EXCEPT ![y] = c]
  BY DEF NodesLinked, TypeOK
<1> HIDE DEF a, b, c
<1>7. \A s \in Streams : targets'[s] = IF s = x THEN a ELSE targets[s]
  BY <1>6 DEF TypeOK
<1>8. \A o \in Objects : /\ sources'[o] = IF o = y THEN b ELSE sources[o]
                         /\ cleanups'[o] = IF o = y THEN c ELSE cleanups[o]
  BY <1>6 DEF TypeOK
<1>9. \A d \in Tasks : d.op = "unsource" => d \in Tasks'
  <2>1. Moves(t, {"link"}, {"dropNode"})
    BY AloneMoves
  <2>2. \A d \in Tasks : d.op \notin {"link"} => d \in Tasks'
    BY <2>1, MovesAfter
  <2> QED
    BY <2>2
<1> QED
  BY <1>1, <1>3, <1>4, <1>5, <1>7, <1>8, <1>9

LEMMA GoneRanges ==
  ASSUME TypeOK, NEW t \in Threads, NEW o \in Objects, NodeGone(t, o)
  PROVE  /\ cleanups' = cleanups
         /\ \A s \in Streams : Range(targets'[s]) = IF s = o THEN {} ELSE Range(targets[s])
         /\ \A p \in Objects : Range(sources'[p]) = IF p = o THEN {} ELSE Range(sources[p])
         /\ o \in Streams => \A p \in Range(targets[o]) : Task("unsource", o, p) \in Tasks'
         /\ \A a \in Tasks : a.op = "unsource" => a \in Tasks'
<1>1. Range(<<>>) = {}
  BY DEF Range
<1>2. /\ \A s \in Streams : targets'[s] = IF s = o THEN <<>> ELSE targets[s]
      /\ \A p \in Objects : sources'[p] = IF p = o THEN <<>> ELSE sources[p]
      /\ cleanups' = cleanups
  BY DEF NodeGone, TypeOK
<1>3. \A a \in Tasks : a.op = "unsource" => a \in Tasks'
  <2>1. Moves(t, {"dropNode"}, {"unsource", "release", "dropNode"})
    BY AloneMoves
  <2>2. \A d \in Tasks : d.op \notin {"dropNode"} => d \in Tasks'
    BY <2>1, MovesAfter
  <2> QED
    BY <2>2
<1>4. ASSUME o \in Streams, NEW p \in Range(targets[o]) PROVE Task("unsource", o, p) \in Tasks'
  <2> DEFINE l == Destroying(o)
             d == <<DropNode(o)>>
  <2>1. d \in Seq(AllTasks) /\ Does(t, d, l)
    BY TaskTypes, ShortLists DEF NodeGone
  <2>2. Outgoing(o) = targets[o]
    BY <1>4 DEF Outgoing
  <2>3. l \in Seq(AllTasks) /\ Task("unsource", o, p) \in Range(l)
    BY <1>4, <2>2, DestroyingType
  <2> HIDE DEF l, d
  <2>4. Range(l) \subseteq Range(agenda'[t])
    BY <2>1, <2>3, AgendaAfter
  <2> QED
    BY <2>3, <2>4 DEF Tasks
<1> QED
  BY <1>1, <1>2, <1>3, <1>4

LEMMA UnsourcedRanges ==
  ASSUME TypeOK, NEW t \in Threads, NEW x \in Streams, NEW y \in Objects, Unsourced(t, x, y)
  PROVE  /\ cleanups' = cleanups /\ targets' = targets
         /\ \A o \in Objects : o = y \/ sources'[o] = sources[o]
         /\ Range(sources'[y]) = Range(sources[y]) \ {x}
         /\ \A a \in Tasks : a # Task("unsource", x, y) => a \in Tasks'
<1> DEFINE q == Without(sources[y], x)
           d == <<Task("unsource", x, y)>>
           l == SourcesRemoved(x, y)
<1>1. Range(q) = Range(sources[y]) \ {x}
  BY RangeWithout DEF TypeOK
<1>2. \A o \in Objects : sources'[o] = IF o = y THEN q ELSE sources[o]
  BY DEF Unsourced, TypeOK
<1>3. d \in Seq(AllTasks) /\ l \in Seq(AllTasks) /\ Range(d) = {Task("unsource", x, y)} /\ Does(t, d, l)
  BY TaskTypes, ShortLists, SourcesRemovedType DEF Unsourced
<1> HIDE DEF q, d, l
<1>4. Tasks \ Range(d) \subseteq Tasks'
  BY <1>3, AgendaAfter
<1>5. cleanups' = cleanups /\ targets' = targets
  BY DEF Unsourced
<1> QED
  BY <1>1, <1>2, <1>3, <1>4, <1>5

LEMMA UnlinkedRanges ==
  ASSUME TypeOK, NEW t \in Threads, NEW x \in Streams, NEW y \in Objects, NodesUnlinked(t, x, y)
  PROVE  /\ cleanups' = cleanups
         /\ \A s \in Streams : Range(targets'[s]) \subseteq Range(targets[s])
         /\ \A s \in Streams : s = x \/ targets'[s] = targets[s]
         /\ Range(targets[x]) \ {y} \subseteq Range(targets'[x])
         /\ \A o \in Objects : o = y \/ sources'[o] = sources[o]
         /\ Range(sources'[y]) = Range(sources[y]) \ {x}
         /\ \A a \in Tasks : a.op = "unsource" => a \in Tasks'
<1> DEFINE q == Without(sources[y], x)
           r == RemoveFirst(targets[x], y)
<1>1. Range(q) = Range(sources[y]) \ {x}
  BY RangeWithout DEF TypeOK
<1>2. Range(r) \subseteq Range(targets[x]) /\ Range(targets[x]) \ {y} \subseteq Range(r)
  <2>1. targets[x] \in Seq(Objects) /\ y \in Range(targets[x])
    BY DEF NodesUnlinked, TypeOK
  <2> QED
    BY <2>1, RangeFirstRemoved
<1>3. \A o \in Objects : sources'[o] = IF o = y THEN q ELSE sources[o]
  BY DEF NodesUnlinked, TypeOK
<1>4. \A s \in Streams : targets'[s] = IF s = x THEN r ELSE targets[s]
  BY DEF NodesUnlinked, TypeOK
<1> HIDE DEF q, r
<1>5. \A a \in Tasks : a.op = "unsource" => a \in Tasks'
  <2>1. Moves(t, {"unlink"}, {"release", "dropNode"})
    BY AloneMoves
  <2>2. \A d \in Tasks : d.op \notin {"unlink"} => d \in Tasks'
    BY <2>1, MovesAfter
  <2> QED
    BY <2>2
<1>6. cleanups' = cleanups
  BY DEF NodesUnlinked
<1> QED
  BY <1>1, <1>2, <1>3, <1>4, <1>5, <1>6

LEMMA SourcedNext ==
  ASSUME TypeOK, Used, Linked, NEW t \in Threads, Step(t)
  PROVE  \A s \in Streams, o \in Objects : Sourced(s, o)' /\ Related(s, o)'
<1> SUFFICES ASSUME NEW s \in Streams, NEW o \in Objects PROVE Sourced(s, o)' /\ Related(s, o)'
  OBVIOUS
<1>1. /\ s \in Range(sources[o]) => o \in Range(targets[s]) \/ Task("unsource", s, o) \in Tasks
      /\ o \in Range(targets[s]) => s \in Range(Sources[o])
      /\ s \in Range(cleanups[o]) => s \in Range(Sources[o])
  BY DEF Linked, Sourced, Related
<1>2. Task("unsource", s, o).op = "unsource"
  BY OpOf
<1>3. CASE /\ UNCHANGED <<targets, sources>>
           /\ \A p \in Objects : Range(cleanups'[p]) \subseteq Range(cleanups[p])
           /\ \A a \in Tasks : a.op = "unsource" => a \in Tasks'
  BY <1>1, <1>2, <1>3 DEF Sourced, Related
<1>4. ASSUME NEW p \in Objects, NodeGone(t, p) PROVE Sourced(s, o)' /\ Related(s, o)'
  BY <1>1, <1>2, <1>4, GoneRanges DEF Sourced, Related
<1>5. ASSUME NEW x \in Streams, NEW y \in Objects, NodesLinked(t, x, y)
      PROVE  Sourced(s, o)' /\ Related(s, o)'
  BY <1>1, <1>2, <1>5, LinkedRanges DEF Sourced, Related
<1>6. ASSUME NEW x \in Streams, NEW y \in Objects, Unsourced(t, x, y)
      PROVE  Sourced(s, o)' /\ Related(s, o)'
  <2>1. Task("unsource", s, o) = Task("unsource", x, y) => s = x /\ o = y
    BY DEF Task
  <2>2. /\ cleanups' = cleanups /\ targets' = targets
        /\ o = y \/ sources'[o] = sources[o]
        /\ Range(sources'[y]) = Range(sources[y]) \ {x}
        /\ \A a \in Tasks : a # Task("unsource", x, y) => a \in Tasks'
    BY <1>6, UnsourcedRanges
  <2>3. Related(s, o)'
    BY <1>1, <2>2 DEF Related
  <2>4. s \in Range(sources'[o]) => s \in Range(sources[o]) /\ ~(s = x /\ o = y)
    BY <2>2
  <2> QED
    BY <1>1, <2>1, <2>2, <2>3, <2>4 DEF Sourced
<1>7. ASSUME NEW x \in Streams, NEW y \in Objects, NodesUnlinked(t, x, y)
      PROVE  Sourced(s, o)' /\ Related(s, o)'
  <2>a. /\ cleanups' = cleanups
        /\ Range(targets'[s]) \subseteq Range(targets[s])
        /\ s = x \/ targets'[s] = targets[s]
        /\ Range(targets[x]) \ {y} \subseteq Range(targets'[x])
    BY <1>7, UnlinkedRanges
  <2>b. /\ o = y \/ sources'[o] = sources[o]
        /\ Range(sources'[y]) = Range(sources[y]) \ {x}
        /\ \A a \in Tasks : a.op = "unsource" => a \in Tasks'
    BY <1>7, UnlinkedRanges
  <2>1. /\ cleanups' = cleanups
        /\ Range(targets'[s]) \subseteq Range(targets[s])
        /\ s = x \/ targets'[s] = targets[s]
        /\ Range(targets[x]) \ {y} \subseteq Range(targets'[x])
        /\ o = y \/ sources'[o] = sources[o]
        /\ Range(sources'[y]) = Range(sources[y]) \ {x}
        /\ \A a \in Tasks : a.op = "unsource" => a \in Tasks'
    BY <2>a, <2>b
  <2>2. Related(s, o)'
    BY <1>1, <2>1 DEF Related
  <2>3. s \in Range(sources'[o]) => s \in Range(sources[o]) /\ ~(s = x /\ o = y)
    BY <2>1
  <2>4. o \in Range(targets[s]) /\ ~(s = x /\ o = y) => o \in Range(targets'[s])
    BY <2>1
  <2> QED
    BY <1>1, <1>2, <2>1, <2>2, <2>3, <2>4 DEF Sourced
<1> QED
  BY <1>3, <1>4, <1>5, <1>6, <1>7, LinksSame

\* Only a stream that is made gets a node.
LEMMA NodesKept ==
  ASSUME TypeOK, Used, NEW t \in Threads, Step(t)
  PROVE  \/ \A s \in Streams : nodeRefs'[s] > 0 => nodeRefs[s] > 0
         \/ \E p \in Objects : SinkMade(t, p) \/ StreamMade(t, p) \/ ListenerMade(t, p)
<1> DEFINE Kept == \A s \in Streams : nodeRefs'[s] > 0 => nodeRefs[s] > 0
<1>0. nodeRefs \in [Objects -> Nat] /\ Streams \subseteq Objects
  BY SomeKinds DEF TypeOK
<1>1. ASSUME nodeRefs' = nodeRefs PROVE Kept
  BY <1>1
<1>2. ASSUME Apart(t) PROVE Kept
  BY <1>1, <1>2, ApartFacts
<1>3. ASSUME NEW o \in Objects, Cleared(t, o) \/ Relocked(t, o) PROVE Kept
  BY <1>1, <1>3 DEF Cleared, Relocked
<1>4. ASSUME NEW o \in Objects, NodeKept(t, o) \/ NodeGone(t, o) PROVE Kept
  <2>1. nodeRefs' = [nodeRefs EXCEPT ![o] = @ - 1]
    BY <1>4 DEF NodeKept, NodeGone
  <2> QED
    BY <1>0, <2>1
<1>5. ASSUME NEW o \in Objects, NEW k \in Kinds, CleanupStarts(t, o, k) \/ Released(t, o, k) PROVE Kept
  BY <1>1, <1>5 DEF CleanupStarts, Released
<1>6. ASSUME NEW o \in Objects, NEW u \in Threads, HandleCopied(t, u, o) PROVE Kept
  BY <1>1, <1>6 DEF HandleCopied
<1>7. ASSUME NEW s \in Streams, NEW o \in Objects,
             Unlistened(t, s, o) \/ ListenerAdded(t, s, o) \/ Unsourced(t, s, o)
      PROVE  Kept
  BY <1>1, <1>7 DEF Unlistened, ListenerAdded, Unsourced
<1>8. ASSUME NEW x \in Streams, NEW y \in Objects, NodesLinked(t, x, y) PROVE Kept
  <2>1. nodeRefs[y] # 0 /\ x # y
    BY <1>8, Underway DEF Used, Listening
  <2>2. nodeRefs' = [nodeRefs EXCEPT ![x] = @ + 1, ![y] = @ + 1] /\ nodeRefs[x] > 0
    BY <1>8 DEF NodesLinked
  <2>3. \A s \in Streams : s # x /\ s # y => nodeRefs'[s] = nodeRefs[s]
    BY <1>0, <2>2
  <2> QED
    BY <1>0, <2>1, <2>2, <2>3
<1>9. ASSUME NEW x \in Streams, NEW y \in Objects, NodesUnlinked(t, x, y) PROVE Kept
  <2>1. nodeRefs' = [nodeRefs EXCEPT ![x] = @ + 1] /\ nodeRefs[x] > 0
    BY <1>9 DEF NodesUnlinked
  <2> QED
    BY <1>0, <2>1
<1> HIDE DEF Kept
<1>10. Kept \/ \E p \in Objects : SinkMade(t, p) \/ StreamMade(t, p) \/ ListenerMade(t, p)
  BY <1>2, <1>3, <1>4, <1>5, <1>6, <1>7, <1>8, <1>9 DEF Step
<1> QED
  BY <1>10 DEF Kept

LEMMA WiredNext ==
  ASSUME TypeOK, Used, Cleaned, Undone, Fresh, Founded, Linked, NEW t \in Threads, Step(t)
  PROVE  \A s \in Streams, o \in Streams : Wired(s, o)'
<1> SUFFICES ASSUME NEW s \in Streams, NEW o \in Streams,
                    s \in Range(cleanups'[o]), nodeRefs'[s] > 0
             PROVE  o \in Range(targets'[s])
  BY DEF Wired
<1>0. s \in Objects /\ o \in Objects /\ Range(<<>>) = {} /\ nodeRefs \in [Objects -> Nat]
  BY SomeKinds DEF Range, TypeOK
<1>1. /\ s \in Range(cleanups[o]) => s \in Range(Sources[o])
      /\ s \in Range(cleanups[o]) /\ nodeRefs[s] > 0 => o \in Range(targets[s])
  BY <1>0 DEF Linked, Related, Wired
<1>2. ASSUME NEW p \in Objects, SinkMade(t, p) \/ StreamMade(t, p) \/ ListenerMade(t, p)
      PROVE  o \in Range(targets'[s])
  <2>1. /\ cleanups' = cleanups /\ targets' = targets /\ nodeRefs' = [nodeRefs EXCEPT ![p] = 1]
        /\ ~Made(p)
    BY <1>2 DEF SinkMade, StreamMade, ListenerMade, NewStream, links, Made
  <2>2. s \in Range(cleanups[o]) /\ s \in Range(Sources[o])
    BY <1>1, <2>1
  <2>3. Made(o)
    <3>1. cleanups[o] # <<>>
      BY <1>0, <2>2
    <3> QED
      BY <1>0, <3>1 DEF Fresh
  <2>4. Made(s)
    BY <1>0, <2>2, <2>3 DEF Founded
  <2>5. s # p
    BY <2>1, <2>4
  <2>6. nodeRefs'[s] = nodeRefs[s]
    BY <1>0, <2>1, <2>5
  <2> QED
    BY <1>1, <2>1, <2>2, <2>6
<1>3. ASSUME \A x \in Streams : nodeRefs'[x] > 0 => nodeRefs[x] > 0
      PROVE  o \in Range(targets'[s])
  <2>0. s \in Range(cleanups[o]) => o \in Range(targets[s])
    BY <1>1, <1>3
  <2>1. CASE /\ UNCHANGED <<targets, sources>>
             /\ \A p \in Objects : Range(cleanups'[p]) \subseteq Range(cleanups[p])
    BY <1>0, <2>0, <2>1
  <2>2. ASSUME NEW p \in Objects, NodeGone(t, p) PROVE o \in Range(targets'[s])
    <3>1. s # p
      <4>1. nodeRefs' = [nodeRefs EXCEPT ![p] = @ - 1] /\ nodeRefs[p] = 1
        BY <2>2 DEF NodeGone
      <4> QED
        BY <1>0, <4>1
    <3>2. cleanups' = cleanups /\ Range(targets'[s]) = Range(targets[s])
      BY <2>2, <3>1, GoneRanges
    <3> QED
      BY <2>0, <3>2
  <2>3. ASSUME NEW x \in Streams, NEW y \in Objects, NodesLinked(t, x, y)
        PROVE  o \in Range(targets'[s])
    <3>0. /\ \A r \in Streams : Range(targets'[r]) = Range(targets[r]) \cup (IF r = x THEN {y} ELSE {})
          /\ \A p \in Objects : Range(cleanups'[p]) = Range(cleanups[p]) \cup (IF p = y THEN {x} ELSE {})
      BY <2>3, LinkedRanges
    <3>1. /\ Range(targets'[s]) = Range(targets[s]) \cup (IF s = x THEN {y} ELSE {})
          /\ Range(cleanups'[o]) = Range(cleanups[o]) \cup (IF o = y THEN {x} ELSE {})
      BY <1>0, <3>0
    <3> QED
      BY <2>0, <3>1
  <2>4. ASSUME NEW x \in Streams, NEW y \in Objects, Unsourced(t, x, y)
        PROVE  o \in Range(targets'[s])
    BY <2>0, <2>4, UnsourcedRanges
  <2>5. ASSUME NEW x \in Streams, NEW y \in Objects, NodesUnlinked(t, x, y)
        PROVE  o \in Range(targets'[s])
    <3>1. /\ cleanups' = cleanups
          /\ s = x \/ targets'[s] = targets[s]
          /\ Range(targets[x]) \ {y} \subseteq Range(targets'[x])
      BY <2>5, UnlinkedRanges
    <3>2. CASE o = y /\ s = x
      <4>1. Task("unlink", s, o) \in Tasks
        BY <2>5, <3>2, Underway
      <4>2. ~func[o] \/ Cleaning(o)
        BY <4>1 DEF Undone, Undoing
      <4>3. cleanups[o] = <<>>
        BY <4>2 DEF Cleaned, Clean
      <4> QED
        BY <1>0, <3>1, <4>3
    <3>3. CASE ~(o = y /\ s = x)
      BY <2>0, <3>1, <3>3
    <3> QED
      BY <3>2, <3>3
  <2> QED
    BY <2>1, <2>2, <2>3, <2>4, <2>5, LinksSame
<1> QED
  BY <1>2, <1>3, NodesKept

\* Every link to a stream has a kill function that will undo it.
Links(s, o) == Count({o}, targets[s])
Kills(s, o) == Count({s}, cleanups[o])
Undos(s, o) == Due(Undoing(s, o))
Posted(s, o) == Count({<<s, o>>}, posts)

LEMMA UndoParts ==
  TypeOK =>
    \A s \in Streams, o \in Streams :
      /\ Links(s, o) \in Nat /\ Kills(s, o) \in Nat /\ Undos(s, o) \in Nat /\ Posted(s, o) \in Nat
      /\ o \notin Range(targets[s]) => Links(s, o) = 0
<1> SUFFICES ASSUME TypeOK, NEW s \in Streams, NEW o \in Streams
             PROVE  /\ Links(s, o) \in Nat /\ Kills(s, o) \in Nat /\ Undos(s, o) \in Nat
                    /\ Posted(s, o) \in Nat
                    /\ o \notin Range(targets[s]) => Links(s, o) = 0
  OBVIOUS
<1>1. targets[s] \in Seq(Objects)
  BY DEF TypeOK
<1>2. Count({o}, targets[s]) \in Nat /\ (Count({o}, targets[s]) = 0 <=> Range(targets[s]) \cap {o} = {})
  BY <1>1, CountType
<1>3. cleanups[o] \in Seq(Streams)
  BY SomeKinds DEF TypeOK
<1>4. Count({s}, cleanups[o]) \in Nat
  BY <1>3, CountType
<1>5. Due(Undoing(s, o)) \in Nat
  BY DueType
<1>6. posts \in Seq(Streams \X Objects)
  BY DEF TypeOK
<1>7. Count({<<s, o>>}, posts) \in Nat
  BY <1>6, CountType
<1> QED
  BY <1>2, <1>4, <1>5, <1>7 DEF Links, Kills, Undos, Posted

LEMMA UndoPartsNext ==
  TypeOK' =>
    (\A s \in Streams, o \in Streams :
      /\ Links(s, o) \in Nat /\ Kills(s, o) \in Nat /\ Undos(s, o) \in Nat /\ Posted(s, o) \in Nat
      /\ o \notin Range(targets[s]) => Links(s, o) = 0)'
BY UndoParts, PTL

LEMMA UndoableBy ==
  ASSUME TypeOK, TypeOK', NEW s \in Streams, NEW o \in Streams, Undoable(s, o),
         NEW a \in Nat, NEW b \in Nat, NEW c \in Nat, NEW d \in Nat,
         Links(s, o)' + a <= Links(s, o) + b,
         Kills(s, o) + Undos(s, o) + Posted(s, o) + c <= Kills(s, o)' + Undos(s, o)' + Posted(s, o)' + d,
         b + d <= a + c
  PROVE  Undoable(s, o)'
<1> DEFINE x == Links(s, o)  y == Kills(s, o)  z == Undos(s, o)  w == Posted(s, o)
           p == Links(s, o)'  q == Kills(s, o)'  r == Undos(s, o)'  v == Posted(s, o)'
<1>1. /\ x \in Nat /\ y \in Nat /\ z \in Nat /\ w \in Nat
      /\ p \in Nat /\ q \in Nat /\ r \in Nat /\ v \in Nat
  BY UndoParts, UndoPartsNext
<1>2. x <= y + z + w
  BY DEF Undoable, Links, Kills, Undos, Posted
<1>3. p + a <= x + b /\ y + z + w + c <= q + r + v + d
  OBVIOUS
<1> HIDE DEF x, y, z, w, p, q, r, v
<1>4. p <= q + r + v
  BY <1>1, <1>2, <1>3
<1> QED
  BY <1>4 DEF p, q, r, v, Undoable, Links, Kills, Undos, Posted

\* Nothing is undone.
LEMMA UndoableKept ==
  ASSUME TypeOK, TypeOK', NEW s \in Streams, NEW o \in Streams, Undoable(s, o),
         NEW t \in Threads, NEW D, NEW T, Moves(t, D, T),
         "kill" \notin D, "last" \notin D, "unlink" \notin D,
         targets'[s] = targets[s] \/ targets'[s] = <<>>, cleanups'[o] = cleanups[o], posts' = posts
  PROVE  Undoable(s, o)'
<1> DEFINE x == Links(s, o)  y == Kills(s, o)  z == Undos(s, o)  w == Posted(s, o)
           p == Links(s, o)'  q == Kills(s, o)'  r == Undos(s, o)'  v == Posted(s, o)'
<1>1. /\ x \in Nat /\ y \in Nat /\ z \in Nat /\ w \in Nat
      /\ p \in Nat /\ q \in Nat /\ r \in Nat /\ v \in Nat
  BY UndoParts, UndoPartsNext
<1>2. z <= r
  <2>1. \A a \in Undoing(s, o) : a.op \notin D
    BY OpOf DEF Undoing
  <2> DEFINE X == Undoing(s, o)
  <2> HIDE DEF X
  <2>2. \A Y : (\A a \in Y : a.op \notin D) => Due(Y) <= Due(Y)'
    BY MovesAfter
  <2>3. Due(X) <= Due(X)'
    BY <2>1, <2>2 DEF X
  <2> QED
    BY <2>3 DEF X, Undos
<1>3. q = y /\ v = w
  BY DEF Kills, Posted
<1>4. p <= x
  <2>1. p = x \/ p = 0
    BY CountEmpty DEF Links
  <2> HIDE DEF p, x
  <2> QED
    BY <1>1, <2>1
<1>5. p + 0 <= x + 0 /\ y + z + w + 0 <= q + r + v + 0
  <2> HIDE DEF x, y, z, w, p, q, r, v
  <2> QED
    BY <1>1, <1>2, <1>3, <1>4
<1> QED
  BY <1>5, UndoableBy

LEMMA UndosAfter ==
  ASSUME TypeOK, NEW t \in Threads, NEW done \in Seq(AllTasks), NEW tasks \in Seq(AllTasks),
         Does(t, done, tasks), NEW s \in Streams, NEW o \in Streams, NEW m \in Nat, NEW n \in Nat,
         Count(Undoing(s, o), done) = m, Count(Undoing(s, o), tasks) = n
  PROVE  Undos(s, o)' + m = Undos(s, o) + n
<1> DEFINE X == Undoing(s, o)
<1>1. Due(X)' = Due(Undoing(s, o))'
  OBVIOUS
<1> HIDE DEF X
<1>2. Due(X)' + Count(X, done) = Due(X) + Count(X, tasks)
  BY AgendaAfter
<1> QED
  BY <1>1, <1>2 DEF X, Undos

LEMMA IsUndoing ==
  \A op, x, y, s, o :
    Task(op, x, y) \in Undoing(s, o) <=> op \in {"kill", "last", "unlink"} /\ s = x /\ o = y
BY DEF Undoing, Task

\* Nothing on a list undoes anything.
LEMMA UndoesNone ==
  ASSUME NEW l \in Seq(AllTasks), \A a \in Range(l) : a.op \notin {"kill", "last", "unlink"}, NEW s, NEW o
  PROVE  Count(Undoing(s, o), l) = 0
<1> DEFINE X == Undoing(s, o)
<1>1. \A a \in X : a.op \in {"kill", "last", "unlink"}
  BY OpOf DEF Undoing
<1> HIDE DEF X
<1>2. Count(X, l) = 0 <=> Range(l) \cap X = {}
  BY CountType
<1> QED
  BY <1>1, <1>2 DEF X

LEMMA UndoesOne ==
  ASSUME NEW op, NEW x, NEW y, NEW s, NEW o, op \in {"kill", "last", "unlink"}
  PROVE  Count(Undoing(s, o), <<Task(op, x, y)>>) = Bit(s = x /\ o = y)
<1> DEFINE a == Task(op, x, y)  X == Undoing(s, o)
<1>1. a \in X <=> s = x /\ o = y
  BY IsUndoing
<1> HIDE DEF a, X
<1>2. Count(X, <<a>>) = Bit(a \in X)
  BY CountOne
<1>3. Bit(a \in X) = Bit(s = x /\ o = y)
  BY <1>1 DEF Bit
<1> QED
  BY <1>2, <1>3 DEF a, X

LEMMA UndoableLinked ==
  ASSUME TypeOK, TypeOK', Used, NEW s \in Streams, NEW o \in Streams, Undoable(s, o),
         NEW t \in Threads, NEW x \in Streams, NEW y \in Objects, NodesLinked(t, x, y)
  PROVE  Undoable(s, o)'
<1> DEFINE d == <<Task("link", x, y)>>  l == <<DropNode(x)>>  b == Bit(s = x /\ o = y)
<1>1. d \in Seq(AllTasks) /\ l \in Seq(AllTasks) /\ Does(t, d, l)
      /\ Range(d) = {Task("link", x, y)} /\ Range(l) = {DropNode(x)}
  BY TaskTypes, ShortLists, SomeKinds DEF NodesLinked
<1>2. /\ \A a \in Range(d) : a.op \notin {"kill", "last", "unlink"}
      /\ \A a \in Range(l) : a.op \notin {"kill", "last", "unlink"}
  BY <1>1, OpOf
<1> HIDE DEF d, l
<1>3. Undos(s, o)' + 0 = Undos(s, o) + 0
  <2>1. Count(Undoing(s, o), d) = 0 /\ Count(Undoing(s, o), l) = 0
    BY <1>1, <1>2, UndoesNone
  <2> QED
    BY <1>1, <2>1, UndosAfter
<1>4. Links(s, o)' = b + Links(s, o)
  <2>1. targets[x] \in Seq(Objects)
    BY DEF TypeOK
  <2>2. Count({o}, <<y>> \o targets[x]) = Bit(y \in {o}) + Count({o}, targets[x])
    BY <2>1, RangeOfOneMore
  <2>3. CASE s = x
    <3>1. targets'[s] = <<y>> \o targets[x]
      BY <2>3 DEF NodesLinked, TypeOK
    <3> QED
      BY <2>2, <2>3, <3>1 DEF Links, Bit
  <2>4. CASE s # x
    <3>1. targets'[s] = targets[s]
      BY <2>4 DEF NodesLinked, TypeOK
    <3>2. Links(s, o)' = Links(s, o) /\ Links(s, o) \in Nat
      BY <3>1, UndoParts DEF Links
    <3> QED
      BY <2>4, <3>2 DEF Bit
  <2> QED
    BY <2>3, <2>4
<1>5. Kills(s, o)' = b + Kills(s, o)
  <2>0. o \in Objects
    BY SomeKinds
  <2>1. cleanups[y] \in Seq(Streams)
    BY DEF TypeOK
  <2>2. Count({s}, <<x>> \o cleanups[y]) = Bit(x \in {s}) + Count({s}, cleanups[y])
    BY <2>1, RangeOfOneMore
  <2>3. CASE o = y
    <3>1. cleanups'[o] = <<x>> \o cleanups[y]
      BY <2>3 DEF NodesLinked, TypeOK
    <3> QED
      BY <2>2, <2>3, <3>1 DEF Kills, Bit
  <2>4. CASE o # y
    <3>1. cleanups'[o] = cleanups[o]
      BY <2>0, <2>4 DEF NodesLinked, TypeOK
    <3>2. Kills(s, o)' = Kills(s, o) /\ Kills(s, o) \in Nat
      BY <3>1, UndoParts DEF Kills
    <3> QED
      BY <2>4, <3>2 DEF Bit
  <2> QED
    BY <2>3, <2>4
<1>6. Posted(s, o)' = Posted(s, o)
  BY DEF NodesLinked, deferral, Posted
<1> DEFINE p == Links(s, o)  q == Kills(s, o)  z == Undos(s, o)  w == Posted(s, o)
           p1 == Links(s, o)'  q1 == Kills(s, o)'  z1 == Undos(s, o)'  w1 == Posted(s, o)'
<1>7. /\ p \in Nat /\ q \in Nat /\ z \in Nat /\ w \in Nat /\ b \in Nat
      /\ p1 \in Nat /\ q1 \in Nat /\ z1 \in Nat /\ w1 \in Nat
  BY UndoParts, UndoPartsNext DEF Bit
<1>8. z1 + 0 = z + 0 /\ p1 = b + p /\ q1 = b + q /\ w1 = w
  BY <1>3, <1>4, <1>5, <1>6
<1>9. p1 + 0 <= p + b /\ q + z + w + b <= q1 + z1 + w1 + 0 /\ b + 0 <= 0 + b
  <2> HIDE DEF p, q, z, w, p1, q1, z1, w1, b
  <2> QED
    BY <1>7, <1>8
<1> HIDE DEF b
<1>10. Links(s, o)' + 0 <= Links(s, o) + b
       /\ Kills(s, o) + Undos(s, o) + Posted(s, o) + b <= Kills(s, o)' + Undos(s, o)' + Posted(s, o)' + 0
  BY <1>9
<1> QED
  BY <1>7, <1>9, <1>10, UndoableBy

LEMMA UndoableUnlinked ==
  ASSUME TypeOK, TypeOK', NEW s \in Streams, NEW o \in Streams, Undoable(s, o),
         NEW t \in Threads, NEW x \in Streams, NEW y \in Objects, NodesUnlinked(t, x, y)
  PROVE  Undoable(s, o)'
<1> DEFINE d == <<Task("unlink", x, y)>>  b == Bit(s = x /\ o = y)
           l == SourcesRemoved(x, y) \o <<DropNode(y), DropNode(x)>>
<1>1. /\ d \in Seq(AllTasks) /\ l \in Seq(AllTasks) /\ Does(t, d, l)
      /\ Range(l) = {Release(x, "stream"), DropNode(y), DropNode(x)}
  BY TaskTypes, ShortLists, UnlinkedType DEF NodesUnlinked
<1>2. \A a \in Range(l) : a.op \notin {"kill", "last", "unlink"}
  BY <1>1, OpOf
<1>3. Count(Undoing(s, o), d) = b
  BY UndoesOne
<1> HIDE DEF d, l
<1>4. Undos(s, o)' + b = Undos(s, o) + 0
  <2>1. Count(Undoing(s, o), l) = 0
    BY <1>1, <1>2, UndoesNone
  <2>2. b \in Nat
    BY DEF Bit
  <2> HIDE DEF b
  <2> QED
    BY <1>1, <1>3, <2>1, <2>2, UndosAfter
<1>5. Links(s, o) = Links(s, o)' + b
  <2>1. targets[x] \in Seq(Objects) /\ y \in Range(targets[x])
    BY DEF TypeOK, NodesUnlinked
  <2>2. Count({o}, targets[x]) = Count({o}, RemoveFirst(targets[x], y)) + Bit(y \in {o})
    BY <2>1, FirstRemoved
  <2>3. CASE s = x
    <3>1. targets'[s] = RemoveFirst(targets[x], y)
      BY <2>3 DEF NodesUnlinked, TypeOK
    <3> QED
      BY <2>2, <2>3, <3>1 DEF Links, Bit
  <2>4. CASE s # x
    <3>1. targets'[s] = targets[s]
      BY <2>4 DEF NodesUnlinked, TypeOK
    <3>2. Links(s, o)' = Links(s, o) /\ Links(s, o) \in Nat
      BY <3>1, UndoParts DEF Links
    <3> QED
      BY <2>4, <3>2 DEF Bit
  <2> QED
    BY <2>3, <2>4
<1>6. Posted(s, o)' = Posted(s, o) /\ Kills(s, o)' = Kills(s, o)
  BY DEF NodesUnlinked, deferral, Posted, Kills
<1> DEFINE p == Links(s, o)  q == Kills(s, o)  z == Undos(s, o)  w == Posted(s, o)
           p1 == Links(s, o)'  q1 == Kills(s, o)'  z1 == Undos(s, o)'  w1 == Posted(s, o)'
<1>7. /\ p \in Nat /\ q \in Nat /\ z \in Nat /\ w \in Nat /\ b \in Nat
      /\ p1 \in Nat /\ q1 \in Nat /\ z1 \in Nat /\ w1 \in Nat
  BY UndoParts, UndoPartsNext DEF Bit
<1>8. z1 + b = z + 0 /\ p = p1 + b /\ q1 = q /\ w1 = w
  BY <1>4, <1>5, <1>6
<1>9. p1 + b <= p + 0 /\ q + z + w + 0 <= q1 + z1 + w1 + b /\ 0 + b <= b + 0
  <2> HIDE DEF p, q, z, w, p1, q1, z1, w1, b
  <2> QED
    BY <1>7, <1>8
<1> HIDE DEF b
<1>10. Links(s, o)' + b <= Links(s, o) + 0
       /\ Kills(s, o) + Undos(s, o) + Posted(s, o) + 0 <= Kills(s, o)' + Undos(s, o)' + Posted(s, o)' + b
  BY <1>9
<1> QED
  BY <1>7, <1>9, <1>10, UndoableBy

\* What there is to undo goes from one list to another.
LEMMA UndoableMoved ==
  ASSUME TypeOK, TypeOK', NEW s \in Streams, NEW o \in Streams, Undoable(s, o),
         targets' = targets, cleanups' = cleanups,
         Undos(s, o)' + Posted(s, o)' = Undos(s, o) + Posted(s, o)
  PROVE  Undoable(s, o)'
<1> DEFINE p == Links(s, o)  q == Kills(s, o)  z == Undos(s, o)  w == Posted(s, o)
           p1 == Links(s, o)'  q1 == Kills(s, o)'  z1 == Undos(s, o)'  w1 == Posted(s, o)'
<1>1. /\ p \in Nat /\ q \in Nat /\ z \in Nat /\ w \in Nat
      /\ p1 \in Nat /\ q1 \in Nat /\ z1 \in Nat /\ w1 \in Nat
  BY UndoParts, UndoPartsNext
<1>2. p1 = p /\ q1 = q /\ z1 + w1 = z + w
  BY DEF Links, Kills
<1>3. p1 + 0 <= p + 0 /\ q + z + w + 0 <= q1 + z1 + w1 + 0
  <2> HIDE DEF p, q, z, w, p1, q1, z1, w1
  <2> QED
    BY <1>1, <1>2
<1> QED
  BY <1>3, UndoableBy

LEMMA UndoableKilled ==
  ASSUME TypeOK, TypeOK', NEW s \in Streams, NEW o \in Streams, Undoable(s, o),
         NEW t \in Threads, NEW x \in Streams, NEW y \in Objects, Killed(t, x, y)
  PROVE  Undoable(s, o)'
<1> DEFINE d == <<Task("kill", x, y)>>  g == <<Now("raise", t)>>  f == <<Task("last", x, y)>>
           l == <<Now("raise", t), Task("last", x, y)>>  b == Bit(s = x /\ o = y)
<1>1. /\ d \in Seq(AllTasks) /\ l \in Seq(AllTasks) /\ g \in Seq(AllTasks) /\ f \in Seq(AllTasks)
      /\ Does(t, d, l) /\ l = g \o f /\ Range(g) = {Now("raise", t)}
  BY TaskTypes, ShortLists DEF Killed
<1>2. \A a \in Range(g) : a.op \notin {"kill", "last", "unlink"}
  BY <1>1, OpOf
<1>3. Count(Undoing(s, o), d) = b /\ Count(Undoing(s, o), f) = b
  BY UndoesOne
<1>b. b \in Nat
  BY DEF Bit
<1> HIDE DEF d, g, f, l
<1>4. Undos(s, o)' + b = Undos(s, o) + b
  <2>1. Count(Undoing(s, o), g) = 0
    BY <1>1, <1>2, UndoesNone
  <2>2. Count(Undoing(s, o), l) = b
    <3> DEFINE X == Undoing(s, o)
    <3> HIDE DEF X
    <3>1. Count(X, g \o f) = Count(X, g) + Count(X, f)
      BY <1>1, CountConcat
    <3>2. Count(X, f) = b /\ Count(X, g) = 0
      BY <1>3, <2>1 DEF X
    <3> HIDE DEF b
    <3> QED
      BY <1>1, <1>b, <3>1, <3>2 DEF X
  <2> HIDE DEF b
  <2>3. d \in Seq(AllTasks) /\ l \in Seq(AllTasks) /\ Does(t, d, l)
    BY <1>1
  <2> QED
    BY <1>3, <1>b, <2>2, <2>3, UndosAfter
<1>5. targets' = targets /\ cleanups' = cleanups /\ Posted(s, o)' = Posted(s, o)
  BY DEF Killed, links, Posted
<1>6. Undos(s, o)' + Posted(s, o)' = Undos(s, o) + Posted(s, o)
  <2> DEFINE z == Undos(s, o)  w == Posted(s, o)  z1 == Undos(s, o)'  w1 == Posted(s, o)'
  <2>1. z \in Nat /\ w \in Nat /\ z1 \in Nat /\ w1 \in Nat
    BY UndoParts, UndoPartsNext
  <2>2. z1 + b = z + b /\ w1 = w
    BY <1>4, <1>5
  <2> HIDE DEF z, w, z1, w1, b
  <2>3. z1 + w1 = z + w
    BY <1>b, <2>1, <2>2
  <2> QED
    BY <2>3 DEF z, w, z1, w1
<1> QED
  BY <1>5, <1>6, UndoableMoved

LEMMA UndoableDeferred ==
  ASSUME TypeOK, TypeOK', NEW s \in Streams, NEW o \in Streams, Undoable(s, o),
         NEW t \in Threads, NEW x \in Streams, NEW y \in Objects, Deferred(t, x, y)
  PROVE  Undoable(s, o)'
<1> DEFINE d == <<Task("last", x, y)>>  l == <<Close(t)>>  b == Bit(s = x /\ o = y)
<1>1. /\ d \in Seq(AllTasks) /\ l \in Seq(AllTasks) /\ Does(t, d, l)
      /\ Range(l) = {Close(t)}
  BY TaskTypes, ShortLists DEF Deferred
<1>2. \A a \in Range(l) : a.op \notin {"kill", "last", "unlink"}
  BY <1>1, OpOf
<1>3. Count(Undoing(s, o), d) = b
  BY UndoesOne
<1> HIDE DEF d, l
<1>4. Undos(s, o)' + b = Undos(s, o) + 0
  <2>1. Count(Undoing(s, o), l) = 0
    BY <1>1, <1>2, UndoesNone
  <2>2. b \in Nat
    BY DEF Bit
  <2> HIDE DEF b
  <2> QED
    BY <1>1, <1>3, <2>1, <2>2, UndosAfter
<1>5. Posted(s, o)' = Posted(s, o) + b
  <2> DEFINE e == <<x, y>>  h == <<e>>  X == {<<s, o>>}
  <2>1. posts \in Seq(Streams \X Objects) /\ e \in Streams \X Objects /\ posts' = Append(posts, e)
    BY DEF TypeOK, Deferred
  <2>2. e \in X <=> s = x /\ o = y
    OBVIOUS
  <2> HIDE DEF e, X
  <2>3. Append(posts, e) = posts \o h /\ h \in Seq(Streams \X Objects)
    BY <2>1, AppendIsConcat
  <2>4. Count(X, h) = Bit(e \in X)
    BY CountOne
  <2> HIDE DEF h
  <2>5. Count(X, posts \o h) = Count(X, posts) + Count(X, h)
    BY <2>1, <2>3, CountConcat
  <2>6. Bit(e \in X) = b
    BY <2>2 DEF Bit
  <2>7. Count(X, posts') = Count(X, posts) + b
    BY <2>1, <2>3, <2>4, <2>5, <2>6
  <2> QED
    BY <2>7 DEF X, Posted
<1>6. targets' = targets /\ cleanups' = cleanups
  BY DEF Deferred, links
<1>7. Undos(s, o)' + Posted(s, o)' = Undos(s, o) + Posted(s, o)
  <2> DEFINE z == Undos(s, o)  w == Posted(s, o)  z1 == Undos(s, o)'  w1 == Posted(s, o)'
  <2>1. z \in Nat /\ w \in Nat /\ z1 \in Nat /\ w1 \in Nat /\ b \in Nat
    BY UndoParts, UndoPartsNext DEF Bit
  <2>2. z1 + b = z + 0 /\ w1 = w + b
    BY <1>4, <1>5
  <2> HIDE DEF z, w, z1, w1, b
  <2>3. z1 + w1 = z + w
    BY <2>1, <2>2
  <2> QED
    BY <2>3 DEF z, w, z1, w1
<1> QED
  BY <1>6, <1>7, UndoableMoved

LEMMA UndoablePosted ==
  ASSUME TypeOK, TypeOK', NEW s \in Streams, NEW o \in Streams, Undoable(s, o),
         NEW t \in Threads, NEW u \in Threads, NEW x \in Streams, NEW y \in Objects, PostRun(t, u, x, y)
  PROVE  Undoable(s, o)'
<1> DEFINE d == <<Now("posts", u)>>  f == <<Task("unlink", x, y)>>  b == Bit(s = x /\ o = y)
           l == <<Task("unlink", x, y), Now("posts", u)>>
<1>1. /\ d \in Seq(AllTasks) /\ l \in Seq(AllTasks) /\ f \in Seq(AllTasks) /\ Does(t, d, l)
      /\ Range(d) = {Now("posts", u)} /\ l = f \o d
  BY TaskTypes, ShortLists DEF PostRun
<1>2. \A a \in Range(d) : a.op \notin {"kill", "last", "unlink"}
  BY <1>1, OpOf
<1>3. Count(Undoing(s, o), f) = b
  BY UndoesOne
<1>b. b \in Nat
  BY DEF Bit
<1> HIDE DEF d, l, f
<1>4. Undos(s, o)' + 0 = Undos(s, o) + b
  <2>1. Count(Undoing(s, o), d) = 0
    BY <1>1, <1>2, UndoesNone
  <2>2. Count(Undoing(s, o), l) = b
    <3> DEFINE X == Undoing(s, o)
    <3> HIDE DEF X
    <3>1. Count(X, f \o d) = Count(X, f) + Count(X, d)
      BY <1>1, CountConcat
    <3>2. Count(X, f) = b /\ Count(X, d) = 0
      BY <1>3, <2>1 DEF X
    <3> HIDE DEF b
    <3> QED
      BY <1>1, <1>b, <3>1, <3>2 DEF X
  <2> HIDE DEF b
  <2>3. d \in Seq(AllTasks) /\ l \in Seq(AllTasks) /\ Does(t, d, l)
    BY <1>1
  <2> QED
    BY <1>b, <2>1, <2>2, <2>3, UndosAfter
<1>5. Posted(s, o) = b + Posted(s, o)'
  <2> DEFINE X == {<<s, o>>}
  <2>1. posts \in Seq(Streams \X Objects) /\ posts # <<>> /\ Head(posts) = <<x, y>> /\ posts' = Tail(posts)
    BY DEF TypeOK, PostRun
  <2>2. <<x, y>> \in X <=> s = x /\ o = y
    OBVIOUS
  <2> HIDE DEF X
  <2>3. Count(X, posts) = Bit(Head(posts) \in X) + Count(X, Tail(posts))
    BY <2>1, CountHead
  <2>4. Bit(Head(posts) \in X) = b
    BY <2>1, <2>2 DEF Bit
  <2>5. Count(X, posts) = b + Count(X, posts')
    BY <2>1, <2>3, <2>4
  <2> QED
    BY <2>5 DEF X, Posted
<1>6. targets' = targets /\ cleanups' = cleanups
  BY DEF PostRun, links
<1>7. Undos(s, o)' + Posted(s, o)' = Undos(s, o) + Posted(s, o)
  <2> DEFINE z == Undos(s, o)  w == Posted(s, o)  z1 == Undos(s, o)'  w1 == Posted(s, o)'
  <2>1. z \in Nat /\ w \in Nat /\ z1 \in Nat /\ w1 \in Nat
    BY UndoParts, UndoPartsNext
  <2>2. z1 + 0 = z + b /\ w = b + w1
    BY <1>4, <1>5
  <2> HIDE DEF z, w, z1, w1, b
  <2>3. z1 + w1 = z + w
    BY <1>b, <2>1, <2>2
  <2> QED
    BY <2>3 DEF z, w, z1, w1
<1> QED
  BY <1>6, <1>7, UndoableMoved

LEMMA UndoableSkipped ==
  ASSUME TypeOK, TypeOK', Emptied, NEW s \in Streams, NEW o \in Streams, Undoable(s, o),
         NEW t \in Threads, NEW x \in Streams, NEW y \in Objects, Skipped(t, "unlink", x, y)
  PROVE  Undoable(s, o)'
<1>1. targets' = targets /\ cleanups' = cleanups /\ posts' = posts
  BY DEF Skipped, links, deferral
<1>2. CASE s = x /\ o = y
  <2>1. nodeRefs[s] = 0 \/ o \notin Range(targets[s])
    BY <1>2 DEF Skipped
  <2>2. o \notin Range(targets[s])
    BY <2>1, SomeKinds DEF Emptied, Range
  <2>3. Links(s, o)' = 0
    BY <1>1, <2>2, UndoParts DEF Links
  <2> DEFINE p == Links(s, o)'  q == Kills(s, o)'  r == Undos(s, o)'  v == Posted(s, o)'
  <2>4. p = 0 /\ q \in Nat /\ r \in Nat /\ v \in Nat
    BY <2>3, UndoPartsNext
  <2> HIDE DEF p, q, r, v
  <2>5. p <= q + r + v
    BY <2>4
  <2> QED
    BY <2>5 DEF p, q, r, v, Undoable, Links, Kills, Undos, Posted
<1>3. CASE ~(s = x /\ o = y)
  <2> DEFINE d == <<Task("unlink", x, y)>>
  <2>1. d \in Seq(AllTasks)
    BY TaskTypes, ShortLists
  <2>2. PICK l \in Seq(AllTasks) : l = <<>>
    BY ShortLists
  <2>3. Does(t, d, l)
    BY <2>2 DEF Skipped
  <2>4. Count(Undoing(s, o), d) = Bit(s = x /\ o = y)
    BY UndoesOne
  <2>5. Count(Undoing(s, o), d) = 0 /\ Count(Undoing(s, o), l) = 0
    BY <1>3, <2>2, <2>4, CountEmpty DEF Bit
  <2> HIDE DEF d
  <2>6. Undos(s, o)' + 0 = Undos(s, o) + 0
    BY <2>1, <2>3, <2>5, UndosAfter
  <2> DEFINE z == Undos(s, o)  w == Posted(s, o)  z1 == Undos(s, o)'  w1 == Posted(s, o)'
  <2>7. z \in Nat /\ z1 \in Nat /\ z1 + 0 = z + 0 /\ w1 = w
    BY <1>1, <2>6, UndoParts, UndoPartsNext DEF Posted
  <2> HIDE DEF z, w, z1, w1
  <2>8. z1 + w1 = z + w
    BY <2>7
  <2>9. Undos(s, o)' + Posted(s, o)' = Undos(s, o) + Posted(s, o)
    BY <2>8 DEF z, w, z1, w1
  <2> QED
    BY <1>1, <2>9, UndoableMoved
<1> QED
  BY <1>2, <1>3

LEMMA UndoableCleanup ==
  ASSUME TypeOK, TypeOK', NEW s \in Streams, NEW o \in Streams, Undoable(s, o),
         NEW t \in Threads, NEW p \in Objects, NEW k \in Kinds, CleanupStarts(t, p, k)
  PROVE  Undoable(s, o)'
<1>1. p \in Streams /\ targets' = targets /\ posts' = posts
      /\ cleanups' = [cleanups EXCEPT ![p] = <<>>]
  BY DEF CleanupStarts, links, deferral
<1>2. CASE o # p
  <2>1. cleanups'[o] = cleanups[o]
    BY <1>1, <1>2, SomeKinds DEF TypeOK
  <2>2. Moves(t, {"release"}, {"kill", "clear", "relock"})
    BY AloneMoves
  <2> QED
    BY <1>1, <2>1, <2>2, UndoableKept
<1>3. CASE o = p
  <2> DEFINE d == <<Release(o, k)>>
             a == Each("kill", cleanups[o], o)
             b == <<Task("clear", o, o), Task("relock", o, o)>>
             l == a \o b
             c == cleanups[o]
  <2>1. /\ d \in Seq(AllTasks) /\ a \in Seq(AllTasks) /\ b \in Seq(AllTasks) /\ l \in Seq(AllTasks)
        /\ Range(d) = {Release(o, k)} /\ Range(b) = {Task("clear", o, o), Task("relock", o, o)}
    BY CleanupType, TaskTypes, ShortLists
  <2>2. Does(t, d, l)
    BY <1>3 DEF CleanupStarts
  <2>3. /\ \A e \in Range(d) : e.op \notin {"kill", "last", "unlink"}
        /\ \A e \in Range(b) : e.op \notin {"kill", "last", "unlink"}
    BY <2>1, OpOf
  <2>4. Count(Undoing(s, o), a) = Kills(s, o)
    <3>1. DOMAIN a = DOMAIN c /\ \A i \in DOMAIN c : a[i] = Task("kill", c[i], o)
      BY DEF Each
    <3>2. \A i \in DOMAIN c : a[i] \in Undoing(s, o) <=> c[i] \in {s}
      BY <3>1, IsUndoing
    <3> DEFINE X == {s}  Y == Undoing(s, o)
    <3> HIDE DEF a, c, X, Y
    <3>3. DOMAIN a = DOMAIN c /\ \A i \in DOMAIN c : a[i] \in Y <=> c[i] \in X
      BY <3>1, <3>2 DEF X, Y
    <3>4. Count(Y, a) = Count(X, c)
      BY <3>3, CountMapped
    <3> QED
      BY <3>4 DEF X, Y, Kills, c
  <2> HIDE DEF d, a, b, c
  <2>5. Count(Undoing(s, o), d) = 0 /\ Count(Undoing(s, o), b) = 0
    BY <2>1, <2>3, UndoesNone
  <2>6. Kills(s, o) \in Nat
    BY UndoParts
  <2>7. Count(Undoing(s, o), l) = Kills(s, o)
    <3> DEFINE X == Undoing(s, o)  n == Kills(s, o)
    <3>1. Count(X, a) = n /\ Count(X, b) = 0 /\ n \in Nat
      BY <2>4, <2>5, <2>6
    <3> HIDE DEF X, n
    <3>2. Count(X, a \o b) = Count(X, a) + Count(X, b)
      BY <2>1, CountConcat
    <3>3. Count(X, l) = n
      BY <3>1, <3>2
    <3> QED
      BY <3>3 DEF X, n
  <2> HIDE DEF l
  <2>8. Undos(s, o)' + 0 = Undos(s, o) + Kills(s, o)
    BY <2>1, <2>2, <2>5, <2>6, <2>7, UndosAfter
  <2>9. Links(s, o)' = Links(s, o) /\ Posted(s, o)' = Posted(s, o)
    BY <1>1 DEF Links, Posted
  <2> DEFINE x == Links(s, o)  q == Kills(s, o)  z == Undos(s, o)  w == Posted(s, o)
             x1 == Links(s, o)'  q1 == Kills(s, o)'  z1 == Undos(s, o)'  w1 == Posted(s, o)'
  <2>10. /\ x \in Nat /\ q \in Nat /\ z \in Nat /\ w \in Nat
         /\ x1 \in Nat /\ q1 \in Nat /\ z1 \in Nat /\ w1 \in Nat
    BY UndoParts, UndoPartsNext
  <2>11. z1 + 0 = z + q /\ x1 = x /\ w1 = w
    BY <2>8, <2>9
  <2>12. x1 + 0 <= x + 0 /\ q + z + w + 0 <= q1 + z1 + w1 + 0
    <3> HIDE DEF x, q, z, w, x1, q1, z1, w1
    <3> QED
      BY <2>10, <2>11
  <2> QED
    BY <2>12, UndoableBy
<1> QED
  BY <1>2, <1>3

LEMMA UndoableNext ==
  ASSUME TypeOK, TypeOK', Used, Emptied, Linked, NEW t \in Threads, Step(t)
  PROVE  \A s \in Streams, o \in Streams : Undoable(s, o)'
<1> SUFFICES ASSUME NEW s \in Streams, NEW o \in Streams PROVE Undoable(s, o)'
  OBVIOUS
<1>1. Undoable(s, o) /\ o \in Objects
  BY SomeKinds DEF Linked
<1>2. ASSUME NEW D, NEW T, Moves(t, D, T), "kill" \notin D, "last" \notin D, "unlink" \notin D,
             targets' = targets, cleanups' = cleanups, posts' = posts
      PROVE  Undoable(s, o)'
  BY <1>1, <1>2, UndoableKept
<1>3. ASSUME Apart(t) PROVE Undoable(s, o)'
  <2>1. ASSUME Moves(t, RestDoes, RestBrings), posts' = posts PROVE Undoable(s, o)'
    BY <1>2, <1>3, <2>1, ApartFacts DEF RestDoes, TransactionOps
  <2>2. ASSUME NEW x \in Streams, NEW y \in Objects, \/ Killed(t, x, y) \/ Deferred(t, x, y)
               \/ Skipped(t, "unlink", x, y)
        PROVE  Undoable(s, o)'
    BY <1>1, <2>2, UndoableKilled, UndoableDeferred, UndoableSkipped
  <2>3. ASSUME NEW u \in Threads, NEW x \in Streams, NEW y \in Objects, PostRun(t, u, x, y)
        PROVE  Undoable(s, o)'
    BY <1>1, <2>3, UndoablePosted
  <2> QED
    BY <1>3, <2>1, <2>2, <2>3, ApartRest
<1>4. ASSUME NEW p \in Objects, SinkMade(t, p) \/ StreamMade(t, p) \/ ListenerMade(t, p)
      PROVE  Undoable(s, o)'
  <2>1. Moves(t, {}, {"raise", "listen", "dropNode", "close"}) \/ Moves(t, {}, {})
    BY <1>4, AloneMoves
  <2>2. targets' = targets /\ cleanups' = cleanups /\ posts' = posts
    BY <1>4 DEF SinkMade, StreamMade, ListenerMade, links, deferral
  <2> QED
    BY <1>2, <2>1, <2>2
<1>5. ASSUME NEW p \in Objects, Cleared(t, p) \/ Relocked(t, p) \/ NodeKept(t, p)
      PROVE  Undoable(s, o)'
  <2>1. Moves(t, {"clear"}, {}) \/ Moves(t, {"relock"}, {}) \/ Moves(t, {"dropNode"}, {})
    BY <1>5, AloneMoves
  <2>2. targets' = targets /\ cleanups' = cleanups /\ posts' = posts
    BY <1>5 DEF Cleared, Relocked, NodeKept, links, deferral
  <2> QED
    BY <1>2, <2>1, <2>2
<1>6. ASSUME NEW p \in Objects, NodeGone(t, p) PROVE Undoable(s, o)'
  <2>1. Moves(t, {"dropNode"}, {"unsource", "release", "dropNode"})
    BY <1>6, AloneMoves
  <2>2. cleanups' = cleanups /\ posts' = posts /\ targets' = [r \in Streams |-> IF r = p THEN <<>> ELSE targets[r]]
    BY <1>6 DEF NodeGone, deferral
  <2>3. targets'[s] = targets[s] \/ targets'[s] = <<>>
    BY <2>2
  <2> QED
    BY <1>1, <2>1, <2>2, <2>3, UndoableKept
<1>7. ASSUME NEW p \in Objects, NEW k \in Kinds, CleanupStarts(t, p, k) PROVE Undoable(s, o)'
  BY <1>1, <1>7, UndoableCleanup
<1>8. ASSUME NEW p \in Objects, NEW k \in Kinds, Released(t, p, k) PROVE Undoable(s, o)'
  <2>1. Moves(t, {"release"}, {}) /\ targets' = targets /\ cleanups' = cleanups /\ posts' = posts
    BY <1>8, AloneMoves DEF Released, links, deferral
  <2> QED
    BY <1>2, <2>1
<1>9. ASSUME NEW p \in Objects, NEW u \in Threads, HandleCopied(t, u, p) PROVE Undoable(s, o)'
  <2>1. Moves(t, {}, {}) /\ targets' = targets /\ cleanups' = cleanups /\ posts' = posts
    BY <1>9, AloneMoves DEF HandleCopied, links, deferral
  <2> QED
    BY <1>2, <2>1
<1>10. ASSUME NEW x \in Streams, NEW y \in Objects, Unlistened(t, x, y) PROVE Undoable(s, o)'
  <2>1. Moves(t, {}, {"kill"}) /\ targets' = targets /\ posts' = posts
    BY <1>10, AloneMoves DEF Unlistened, links, deferral
  <2>2. cleanups'[o] = cleanups[o]
    <3>1. o # y /\ cleanups' = [cleanups EXCEPT ![y] = <<>>]
      BY <1>10, ObjectsAssumption DEF Unlistened
    <3> QED
      BY <1>1, <3>1 DEF TypeOK
  <2> QED
    BY <1>1, <2>1, <2>2, UndoableKept
<1>11. ASSUME NEW x \in Streams, NEW y \in Objects, ListenerAdded(t, x, y) \/ Unsourced(t, x, y)
       PROVE  Undoable(s, o)'
  <2>1. Moves(t, {"listen"}, {"link", "release"}) \/ Moves(t, {"unsource"}, {"release"})
    BY <1>11, AloneMoves
  <2>2. targets' = targets /\ cleanups' = cleanups /\ posts' = posts
    BY <1>11 DEF ListenerAdded, Unsourced, links, deferral
  <2> QED
    BY <1>2, <2>1, <2>2
<1>12. ASSUME NEW x \in Streams, NEW y \in Objects, NodesLinked(t, x, y) \/ NodesUnlinked(t, x, y)
       PROVE  Undoable(s, o)'
  BY <1>1, <1>12, UndoableLinked, UndoableUnlinked
<1> QED
  BY <1>3, <1>4, <1>5, <1>6, <1>7, <1>8, <1>9, <1>10, <1>11, <1>12 DEF Step

LEMMA LinkedNext ==
  ASSUME TypeOK, TypeOK', Used, Cleaned, Undone, Fresh, Founded, Emptied, Linked,
         NEW t \in Threads, Step(t)
  PROVE  Linked'
<1>1. \A s \in Streams, o \in Objects : Sourced(s, o)' /\ Related(s, o)'
  BY SourcedNext
<1>2. \A s \in Streams, o \in Streams : Wired(s, o)'
  BY WiredNext
<1>3. \A s \in Streams, o \in Streams : Undoable(s, o)'
  BY UndoableNext
<1> QED
  BY <1>1, <1>2, <1>3 DEF Linked

-----------------------------------------------------------------------------
(* The invariant holds, and what follows from it.                          *)

LEMMA InitInv == Init => Inv
<1> SUFFICES ASSUME Init PROVE Inv
  OBVIOUS
<1>0. Streams \subseteq Objects /\ Range(<<>>) = {}
  BY SomeKinds DEF Range
<1>1. TypeOK
  <2>1. empty \in CountSets
    BY LimitsAssumption DEF empty, CountSets, Limit, Kinds
  <2>2. /\ counts \in [Streams -> CountSets] /\ func \in [Streams -> BOOLEAN]
        /\ cleanups \in [Objects -> Seq(Streams)] /\ nodeRefs \in [Objects -> Nat]
        /\ targets \in [Streams -> Seq(Objects)] /\ sources \in [Objects -> Seq(Streams)]
    BY <2>1 DEF Init
  <2>3. /\ freed \subseteq Streams /\ maker \in [Objects -> Threads \cup {NoThread}]
        /\ held \in [Threads -> SUBSET Streams] /\ sinks \subseteq Streams /\ open \subseteq Threads
    BY DEF Init
  <2>4. depth \in Int /\ posts \in Seq(Streams \X Objects)
    BY DEF Init
  <2>6. processing_post \in BOOLEAN
    BY Zenon DEF Init
  <2>5. read \in [Threads -> Int] /\ agenda \in [Threads -> Seq(AllTasks)]
    BY DEF Init
  <2> QED
    BY <2>2, <2>3, <2>4, <2>5, <2>6 DEF TypeOK
<1>2. /\ Tasks = {} /\ \A t \in Threads : Range(agenda[t]) = {} /\ agenda[t] = <<>> /\ held[t] = {}
      /\ \A o \in Objects : /\ nodeRefs[o] = 0 /\ cleanups[o] = <<>> /\ sources[o] = <<>> /\ ~Made(o)
                            /\ Range(sources[o]) = {} /\ Range(cleanups[o]) = {}
      /\ \A o \in Streams : /\ ~func[o] /\ targets[o] = <<>> /\ Range(targets[o]) = {}
                            /\ \A k \in Kinds : Number(o, k) = 0
      /\ freed = {} /\ sinks = {} /\ open = {} /\ depth = 0 /\ posts = <<>>
  <2>1. \A t \in Threads : Range(agenda[t]) = {} /\ agenda[t] = <<>> /\ held[t] = {}
    BY <1>0 DEF Init
  <2>2. \A o \in Streams : counts[o] = empty
    BY DEF Init
  <2> QED
    BY <1>0, <2>1, <2>2 DEF Init, Tasks, Made, Number, empty
<1>3. /\ \A o : ~Held(o) /\ ~Cleaning(o) /\ ~Feeds(o)
      /\ \A X : Due(X) = 0
  <2>1. \A X : Due(X) = 0
    <3> TAKE X
    <3>1. Tasks \cap X = {}
      BY <1>2
    <3> QED
      BY <1>1, <3>1, DueType
  <2>2. \A o : ~Cleaning(o)
    BY <1>1, <1>2, CleaningIs
  <2> QED
    BY <1>2, <2>1, <2>2 DEF Held, Feeds
<1>4. Counted
  <2>1. ASSUME NEW o \in Streams
        PROVE  /\ Number(o, "strong") = StrongRefs(o)
               /\ Number(o, "stream") = StreamRefs(o)
               /\ Number(o, "node") = NodeRefs(o)
    <3>1. Handles(o) = 0 /\ Occurs({o}, sources) = 0
      BY <1>1, <1>2, <1>3, RefParts
    <3>2. /\ Due({Release(o, "strong"), Task("relock", o, o)}) = 0
          /\ Due({Release(o, "stream")}) = 0 /\ Due({Release(o, "node")}) = 0
      BY <1>3
    <3>3. Number(o, "strong") = 0 /\ Number(o, "stream") = 0 /\ Number(o, "node") = 0 /\ nodeRefs[o] = 0
      BY <1>0, <1>2, SomeKinds
    <3> QED
      BY <3>1, <3>2, <3>3 DEF StrongRefs, StreamRefs, NodeRefs, Handles
  <2>2. ASSUME NEW o \in Objects PROVE nodeRefs[o] = Users(o)
    <3>1. Occurs({o}, targets) = 0
      BY <1>1, <1>2, RefParts
    <3>2. Due({DropNode(o)}) = 0
      BY <1>3
    <3> QED
      BY <1>2, <3>1, <3>2 DEF Users
  <2> QED
    BY <2>1, <2>2 DEF Counted
<1>5. Fresh /\ Emptied
  BY <1>0, <1>2 DEF Fresh, Emptied, Zero
<1>6. Ordered /\ Building
  <2>1. \A t \in Threads : \A a, b : Ahead(agenda[t], a, b)
    BY <1>2, AheadVacuous
  <2>2. Ordered
    BY <2>1 DEF Ordered
  <2> QED
    BY <1>2, <2>2 DEF Building
<1>7. Undone
  BY <1>0, <1>2 DEF Undone
<1>8. Cleaned
  <2> SUFFICES ASSUME NEW o \in Streams PROVE Clean(o)
    BY DEF Cleaned
  <2>1. Due({Task("clear", o, o)}) = 0 /\ Due({Task("relock", o, o)}) = 0
    BY <1>3
  <2> QED
    BY <1>0, <1>2, <1>3, <2>1 DEF Clean
<1>9. Living
  BY <1>0, <1>2 DEF Living, Lives
<1>10. Linked
  <2>1. ASSUME NEW s \in Streams, NEW o \in Objects PROVE Sourced(s, o) /\ Related(s, o)
    BY <1>2 DEF Sourced, Related
  <2>2. ASSUME NEW s \in Streams, NEW o \in Streams PROVE Wired(s, o) /\ Undoable(s, o)
    <3>1. Wired(s, o)
      BY <1>0, <1>2 DEF Wired
    <3>2. Links(s, o) = 0
      BY <1>1, <1>2, UndoParts
    <3>3. Kills(s, o) \in Nat /\ Undos(s, o) \in Nat /\ Posted(s, o) \in Nat
      BY <1>1, UndoParts
    <3> DEFINE p == Links(s, o)  q == Kills(s, o)  r == Undos(s, o)  v == Posted(s, o)
    <3>4. p = 0 /\ q \in Nat /\ r \in Nat /\ v \in Nat
      BY <3>2, <3>3
    <3> HIDE DEF p, q, r, v
    <3>5. p <= q + r + v
      BY <3>4
    <3> QED
      BY <3>1, <3>5 DEF p, q, r, v, Undoable, Links, Kills, Undos, Posted
  <2> QED
    BY <2>1, <2>2 DEF Linked
<1>11. Founded
  BY <1>2 DEF Founded
<1> QED
  BY <1>1, <1>4, <1>5, <1>6, <1>7, <1>8, <1>9, <1>10, <1>11 DEF Inv

LEMMA UnchangedInv == Inv /\ UNCHANGED vars => Inv'
<1> SUFFICES ASSUME Inv, UNCHANGED vars PROVE Inv'
  OBVIOUS
<1> USE DEF vars, links, owners, deferral
<1>0. /\ counts' = counts /\ func' = func /\ cleanups' = cleanups /\ nodeRefs' = nodeRefs
      /\ targets' = targets /\ sources' = sources /\ freed' = freed /\ maker' = maker /\ held' = held
      /\ sinks' = sinks /\ open' = open /\ depth' = depth /\ posts' = posts /\ read' = read
      /\ processing_post' = processing_post /\ agenda' = agenda
  OBVIOUS
<1> USE DEF Inv
<1>1. TypeOK'
  BY <1>0 DEF TypeOK
<1>2. Counted'
  <2>1. /\ \A o : /\ StrongRefs(o)' = StrongRefs(o) /\ StreamRefs(o)' = StreamRefs(o)
                  /\ NodeRefs(o)' = NodeRefs(o) /\ Users(o)' = Users(o)
        /\ \A o, k : Number(o, k)' = Number(o, k)
    <3>1. ASSUME NEW o PROVE StrongRefs(o)' = StrongRefs(o)
      BY <1>0 DEF StrongRefs, Due, Occurs, Places
    <3>2. ASSUME NEW o PROVE StreamRefs(o)' = StreamRefs(o)
      BY <1>0 DEF StreamRefs, Due, Occurs, Places
    <3>3. ASSUME NEW o PROVE NodeRefs(o)' = NodeRefs(o)
      BY <1>0 DEF NodeRefs, Due, Occurs, Places
    <3>4. ASSUME NEW o PROVE Users(o)' = Users(o)
      BY <1>0 DEF Users, Due, Occurs, Places
    <3>5. \A o, k : Number(o, k)' = Number(o, k)
      BY <1>0 DEF Number
    <3> QED
      BY <3>1, <3>2, <3>3, <3>4, <3>5
  <2> QED
    BY <1>0, <2>1 DEF Counted
<1>3. Fresh' /\ Emptied' /\ Founded'
  BY <1>0 DEF Fresh, Emptied, Founded, Made, Zero, Number
<1>4. Ordered' /\ Building'
  BY <1>0 DEF Ordered, Building, Ahead
<1>5. /\ \A o : Cleaning(o)' <=> Cleaning(o)
      /\ Tasks' = Tasks
      /\ \A X : Due(X)' = Due(X)
      /\ \A o : (Held(o)' <=> Held(o)) /\ (Feeds(o)' <=> Feeds(o))
  BY <1>0 DEF Cleaning, Cleaners, Places, Tasks, Due, Occurs, Held, Feeds
<1>6. Undone' /\ Cleaned'
  BY <1>0, <1>5 DEF Undone, Made, Cleaned, Clean
<1>7. Living'
  BY <1>0, <1>5 DEF Living, Lives, Zero, Number, Made
<1>8. Linked'
  BY <1>0, <1>5 DEF Linked, Sourced, Related, Wired, Undoable, Count
<1> QED
  BY <1>1, <1>2, <1>3, <1>4, <1>6, <1>7, <1>8

LEMMA StepInv ==
  ASSUME Inv, Room, NEW t \in Threads, Step(t)
  PROVE  Inv'
<1> USE DEF Inv
<1>1. Used
  BY InUse
<1>2. TypeOK' /\ Counted'
  BY <1>1, StepCounts
<1>3. Fresh'
  BY <1>1, FreshNext
<1>4. Emptied'
  BY <1>1, EmptiedNext
<1>5. Founded'
  BY <1>1, FoundedNext
<1>6. Ordered' /\ Building'
  BY OrderNext
<1>8. Cleaned'
  BY <1>1, <1>2, CleanedNext
<1>9. Living'
  BY <1>1, <1>2, <1>6, LivingNext
<1>10. Undone'
  BY <1>1, <1>2, UndoneNext
<1>11. Linked'
  BY <1>1, <1>2, LinkedNext
<1> QED
  BY <1>2, <1>3, <1>4, <1>5, <1>6, <1>8, <1>9, <1>10, <1>11

LEMMA NextInv == Inv /\ Room /\ [Next]_vars => Inv'
<1> SUFFICES ASSUME Inv, Room, [Next]_vars PROVE Inv'
  OBVIOUS
<1>0. TypeOK
  BY DEF Inv
<1>1. CASE UNCHANGED vars
  BY <1>1, UnchangedInv
<1>2. ASSUME NEW t \in Threads, Program(t) \/ Call(t) \/ InTransaction(t) PROVE Inv'
  <2>1. Step(t)
    BY <1>0, <1>2, ProgramSteps, CallSteps, TransactionSteps
  <2> QED
    BY <2>1, StepInv
<1> QED
  BY <1>1, <1>2 DEF Next, Ending

LEMMA InvUsed == Inv => Used /\ Referred
BY InUse, NoReferences DEF Inv

LEMMA InvCounts == Inv => CountsAreReferences
BY DEF Inv, Counted, CountsAreReferences, Number

LEMMA InvNotFreed == Inv => NoUseAfterFree
<1> SUFFICES ASSUME Inv PROVE NoUseAfterFree
  OBVIOUS
<1>0. Used /\ Referred /\ TypeOK /\ Streams \subseteq Objects
      /\ "strong" \in Kinds /\ "stream" \in Kinds /\ "node" \in Kinds
  BY InvUsed, SomeKinds DEF Inv
<1>1. ASSUME NEW o \in Streams, NEW k \in Kinds, Number(o, k) # 0 PROVE o \notin freed
  BY <1>0, <1>1 DEF Used
<1>2. \A o : Held(o) => o \notin freed
  BY <1>0, <1>1 DEF Used
<1>3. \A t \in Threads : held[t] \cap freed = {}
  BY <1>2 DEF Held
<1>4. ASSUME NEW o \in Objects, NEW s \in Range(sources[o]) PROVE s \notin freed
  <2>1. s \in Streams
    BY <1>0 DEF TypeOK, Range
  <2> QED
    BY <1>0, <1>1, <1>4, <2>1 DEF Referred
<1>5. ASSUME NEW t \in Threads, NEW i \in DOMAIN agenda[t],
             agenda[t][i].op \in {"release", "relock", "clear", "listen", "link", "unsource"}
      PROVE  agenda[t][i].o \notin freed
  <2> DEFINE a == agenda[t][i]
  <2>1. a \in AllTasks
    BY <1>0 DEF TypeOK
  <2>2. a \in Tasks
    BY DEF Tasks, Range
  <2> HIDE DEF a
  <2>3. \/ \E o \in Streams, k \in Kinds : a = Release(o, k) /\ a.o = o
        \/ \E o \in Streams : a = Task("relock", o, o) /\ a.o = o
        \/ \E o \in Streams : a = Task("clear", o, o) /\ a.o = o
        \/ \E s \in Streams, o \in Objects : a = Task("listen", s, o) /\ a.o = s
        \/ \E s \in Streams, o \in Objects : a = Task("link", s, o) /\ a.o = s
        \/ \E s \in Streams, o \in Objects : a = Task("unsource", s, o) /\ a.o = s
    <3>1. a.op \in {"release", "relock", "clear", "listen", "link", "unsource"}
      BY <1>5 DEF a
    <3> QED
      BY <2>1, <3>1 DEF AllTasks, Task, Release, DropNode, Now, TransactionOps
  <2>4. ASSUME NEW o \in Streams, NEW k \in Kinds, a = Release(o, k) PROVE o \notin freed
    BY <1>0, <1>1, <2>2, <2>4 DEF Used
  <2>5. ASSUME NEW o \in Streams, a = Task("relock", o, o) \/ a = Task("clear", o, o) PROVE o \notin freed
    <3>1. Number(o, "strong") # 0
      BY <1>0, <2>2, <2>5 DEF Used
    <3> QED
      BY <1>0, <1>1, <3>1
  <2>6. ASSUME NEW s \in Streams, NEW o \in Objects, a = Task("listen", s, o) \/ a = Task("link", s, o)
        PROVE  s \notin freed
    <3>1. Held(s)
      BY <1>0, <2>2, <2>6 DEF Used, Listening
    <3> QED
      BY <1>2, <3>1
  <2>7. ASSUME NEW s \in Streams, NEW o \in Objects, a = Task("unsource", s, o) PROVE s \notin freed
    <3>1. Number(s, "node") # 0
      BY <1>0, <2>2, <2>7 DEF Used
    <3> QED
      BY <1>0, <1>1, <3>1
  <2>8. a.o \notin freed
    BY <2>3, <2>4, <2>5, <2>6, <2>7
  <2> QED
    BY <2>8 DEF a
<1>6. \A a \in Tasks :
        a.op \in {"release", "relock", "clear", "listen", "link", "unsource"} => a.o \notin freed
  BY <1>5 DEF Tasks, Range
<1> QED
  BY <1>3, <1>4, <1>6 DEF NoUseAfterFree

LEMMA InvCleanedOnce == Inv => CleanedOnce
<1> SUFFICES ASSUME Inv PROVE CleanedOnce
  OBVIOUS
<1>0. TypeOK /\ freed \subseteq Streams
  BY DEF Inv, TypeOK
<1>1. ASSUME NEW o \in Streams, Cleaning(o) PROVE func[o] /\ Cardinality(Cleaners(o)) = 1
  <2>1. func[o] /\ Due({Task("clear", o, o)}) <= 1
    BY <1>1 DEF Inv, Cleaned, Clean
  <2>2. /\ Cardinality(Cleaners(o)) = Due({Task("clear", o, o)})
        /\ Due({Task("clear", o, o)}) \in Nat
        /\ Due({Task("clear", o, o)}) # 0
    BY <1>0, <1>1, CleaningIs
  <2> DEFINE n == Due({Task("clear", o, o)})
  <2>3. n \in Nat /\ n <= 1 /\ n # 0
    BY <2>1, <2>2
  <2> HIDE DEF n
  <2>4. n = 1
    BY <2>3
  <2> QED
    BY <2>1, <2>2, <2>4 DEF n
<1>2. ASSUME NEW o \in freed PROVE ~func[o] /\ cleanups[o] = <<>>
  <2>1. o \in Streams
    BY <1>0
  <2>2. ~func[o]
    BY <2>1 DEF Inv, Living, Lives
  <2> QED
    BY <2>1, <2>2 DEF Inv, Cleaned, Clean
<1> QED
  BY <1>1, <1>2 DEF CleanedOnce

LEMMA InvWired == Inv => WiredWhileNeeded
<1> SUFFICES ASSUME Inv, NEW o \in Streams
             PROVE  /\ nodeRefs[o] > 0 /\ ((\E t \in Threads : o \in held[t]) \/ \E x \in Objects : o \in Range(sources[x]))
                          => func[o] /\ ~Cleaning(o)
                    /\ \A s \in Range(cleanups[o]) : nodeRefs[s] > 0 => o \in Range(targets[s])
  BY DEF WiredWhileNeeded
<1>1. nodeRefs[o] > 0 /\ ((\E t \in Threads : o \in held[t]) \/ \E x \in Objects : o \in Range(sources[x]))
       => func[o] /\ ~Cleaning(o)
  BY DEF Inv, Cleaned, Clean, Held, Feeds
<1>2. ASSUME NEW s \in Range(cleanups[o]), nodeRefs[s] > 0 PROVE o \in Range(targets[s])
  <2>1. s \in Streams
    BY SomeKinds DEF Inv, TypeOK, Range
  <2> QED
    BY <1>2, <2>1 DEF Inv, Linked, Wired
<1> QED
  BY <1>1, <1>2

\* When no call is under way nothing is on an agenda.
LEMMA QuietIs ==
  ASSUME Inv, Quiet
  PROVE  /\ Tasks = {}
         /\ \A X : Due(X) = 0
         /\ \A o : ~Cleaning(o)
<1>0. TypeOK /\ Range(<<>>) = {}
  BY DEF Inv, Range
<1>1. Tasks = {} /\ \A t \in Threads : Range(agenda[t]) = {}
  BY <1>0 DEF Quiet, Tasks
<1>2. \A X : Due(X) = 0
  BY <1>0, <1>1, DueType
<1>3. \A o : ~Cleaning(o)
  BY <1>0, <1>1, CleaningIs
<1> QED
  BY <1>1, <1>2, <1>3

LEMMA InvNothingLeft == Inv => NothingLeftBehind
<1> SUFFICES ASSUME Inv, Quiet
             PROVE  /\ \A o \in Streams :
                         (maker[o] # NoThread /\ (\A t \in Threads : o \notin held[t]) /\ targets[o] = <<>>)
                            => /\ ~func[o] /\ cleanups[o] = <<>>
                               /\ \A s \in Streams : o \in Range(targets[s]) => <<s, o>> \in Range(posts)
                    /\ (posts = <<>> /\ sinks = {} /\ \A t \in Threads : held[t] = {}) =>
                         /\ \A o \in Streams : maker[o] # NoThread => o \in freed
                         /\ \A o \in Objects : nodeRefs[o] = 0
  BY DEF NothingLeftBehind
<1>0. /\ Used /\ Referred /\ TypeOK /\ Streams \subseteq Objects /\ Range(<<>>) = {}
      /\ Tasks = {} /\ (\A X : Due(X) = 0) /\ (\A o : ~Cleaning(o))
      /\ \A o \in Streams : Number(o, "strong") = 0
  <2>1. Used /\ Referred /\ TypeOK /\ Streams \subseteq Objects /\ Range(<<>>) = {}
    BY InvUsed, SomeKinds DEF Inv, Range
  <2>2. Tasks = {} /\ (\A X : Due(X) = 0) /\ (\A o : ~Cleaning(o))
    BY QuietIs
  <2> QED
    BY <2>1, <2>2 DEF Referred
<1>1. ASSUME NEW o \in Streams, \A t \in Threads : o \notin held[t], targets[o] = <<>>
      PROVE  /\ ~func[o] /\ cleanups[o] = <<>>
             /\ \A s \in Streams : o \in Range(targets[s]) => <<s, o>> \in Range(posts)
  <2>1. ASSUME func[o] PROVE FALSE
    <3>1. active(counts[o])
      BY <1>0, <2>1 DEF Inv, Living, Lives
    <3>2. Number(o, "stream") # 0
      BY <1>0, <3>1, RefParts, SomeKinds DEF active, Number
    <3>3. PICK x \in Objects : o \in Range(sources[x])
      BY <1>0, <1>1, <3>2 DEF Referred, Held
    <3>4. x \in Range(targets[o])
      BY <1>0, <3>3 DEF Inv, Linked, Sourced
    <3> QED
      BY <1>0, <1>1, <3>4
  <2>2. cleanups[o] = <<>>
    BY <2>1 DEF Inv, Cleaned, Clean
  <2>3. ASSUME NEW s \in Streams, o \in Range(targets[s]) PROVE <<s, o>> \in Range(posts)
    <3> DEFINE n == Links(s, o)  k == Kills(s, o)  u == Undos(s, o)  w == Posted(s, o)
    <3>1. k = 0 /\ u = 0
      BY <1>0, <2>2, CountEmpty DEF Kills, Undos
    <3>2. n <= k + u + w
      BY DEF Inv, Linked, Undoable, Links, Kills, Undos, Posted
    <3>3. n \in Nat /\ w \in Nat
      BY <1>0, UndoParts
    <3>4. targets[s] \in Seq(Objects) /\ posts \in Seq(Streams \X Objects)
      BY <1>0 DEF TypeOK
    <3>5. Count({o}, targets[s]) = 0 <=> Range(targets[s]) \cap {o} = {}
      BY <3>4, CountType
    <3>6. Count({<<s, o>>}, posts) = 0 <=> Range(posts) \cap {<<s, o>>} = {}
      BY <3>4, CountType
    <3>7. n # 0 /\ (w # 0 => <<s, o>> \in Range(posts))
      BY <2>3, <3>5, <3>6 DEF Links, Posted
    <3> HIDE DEF n, k, u, w
    <3> QED
      BY <3>1, <3>2, <3>3, <3>7
  <2> QED
    BY <2>1, <2>2, <2>3
<1>2. ASSUME sinks = {}, \A t \in Threads : held[t] = {}
      PROVE  /\ \A o \in Streams : maker[o] # NoThread => o \in freed
             /\ \A o \in Objects : nodeRefs[o] = 0
  <2>1. \A o \in Objects : nodeRefs[o] = 0
    <3> DEFINE X == {o \in Objects : nodeRefs[o] # 0}
    <3>1. SUFFICES ASSUME X # {} PROVE FALSE
      OBVIOUS
    <3>2. X \in SUBSET {o \in Objects : Made(o)}
      BY <1>0 DEF Used
    <3>3. PICK o \in X : \A s \in X : s \notin Range(Sources[o])
      BY <3>1, <3>2 DEF Inv, Founded
    <3>4. PICK s \in Streams : o \in Range(targets[s])
      BY <1>0, <1>2, <3>3 DEF Referred
    <3>5. s \in Range(Sources[o]) /\ nodeRefs[s] # 0
      BY <1>0, <3>3, <3>4 DEF Inv, Linked, Related, Used
    <3> QED
      BY <1>0, <3>3, <3>5
  <2>2. ASSUME NEW o \in Streams, Made(o) PROVE o \in freed
    <3>1. Number(o, "node") = 0
      BY <1>0, <2>1 DEF Referred
    <3>2. Number(o, "stream") = 0
      <4>1. \A x \in Objects : o \notin Range(sources[x])
        BY <1>0, <2>1 DEF Inv, Emptied
      <4>2. ~Held(o)
        BY <1>2 DEF Held
      <4> QED
        BY <1>0, <4>1, <4>2 DEF Referred
    <3>3. Zero(o)
      BY <1>0, <3>1, <3>2 DEF Zero, Kinds
    <3> QED
      BY <2>2, <3>3 DEF Inv, Living, Lives
  <2> QED
    BY <2>1, <2>2 DEF Made
<1> QED
  BY <1>1, <1>2

-----------------------------------------------------------------------------
(* The theorems: for any threads, streams and listeners, as long as no     *)
(* count has reached UINT_MAX.                                             *)

\* The invariant that all the properties follow from.
THEOREM InvAlways == Spec /\ []Room => []Inv
BY InitInv, NextInv, PTL DEF Spec

\* The three counts of a listen_impl_func and the use count of a node are the
\* numbers of the references there are (count_set.h, sodium_base.h:91-127).
THEOREM CountsCorrect == Spec /\ []Room => []CountsAreReferences
<1>1. Inv => CountsAreReferences
  BY InvCounts
<1> QED
  BY <1>1, InvAlways, PTL

\* What was deleted is not referred to any more: no handle, no source of a
\* node, no call that is still inside it (sodium_base.h:107-127).
THEOREM NotUsedAfterFree == Spec /\ []Room => []NoUseAfterFree
<1>1. Inv => NoUseAfterFree
  BY InvNotFreed
<1> QED
  BY <1>1, InvAlways, PTL

\* However many references go at the same time, one thread cleans a stream up,
\* once, and before it is deleted (sodium_base.h:102-120).
THEOREM CleanedUpOnce == Spec /\ []Room => []CleanedOnce
<1>1. Inv => CleanedOnce
  BY InvCleanedOnce
<1> QED
  BY <1>1, InvAlways, PTL

\* A stream that can fire is not cleaned up while somebody holds it or something
\* listens to it; and until a stream is cleaned up it stays linked to its sources
\* that exist (count_set.h:88-95).
THEOREM StaysWired == Spec /\ []Room => []WiredWhileNeeded
<1>1. Inv => WiredWhileNeeded
  BY InvWired
<1> QED
  BY <1>1, InvAlways, PTL

\* When all calls are over, what nobody holds and nothing listens to is cleaned
\* up, and unlinked but for posts that stayed behind; and if none did, with the
\* last handle and sink all is deleted (tests/memory/switch-memory.cpp:10).
THEOREM AllTakenApart == Spec /\ []Room => []NothingLeftBehind
<1>1. Inv => NothingLeftBehind
  BY InvNothingLeft
<1> QED
  BY <1>1, InvAlways, PTL
=============================================================================
