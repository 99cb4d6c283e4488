----------------------------- MODULE ListLemmas -----------------------------
(***************************************************************************)
(* Facts about the list operations of the queues (ffdb_cq.h) as the models *)
(* write them (taking an element off a list, adding one at its tail), about*)
(* lists joined to one, the greatest of a bounded set of numbers, division,*)
(* and the bucket of a hash value while a linear hash table grows.         *)
(***************************************************************************)
EXTENDS Integers, Sequences, FiniteSets, SequencesExt, SequenceTheorems,
        WellFoundedInduction, TLAPS

\* A nonempty set of natural numbers has a least element.
LEMMA LeastExists ==
  ASSUME NEW S \in SUBSET Nat, S # {}
  PROVE  \E x \in S : \A y \in S : x <= y
<1> DEFINE R == OpToRel(<, Nat)
<1>1. IsWellFoundedOn(R, Nat)
  BY NatLessThanWellFounded
<1> HIDE DEF R
<1>2. PICK x \in S : \A y \in S : <<y, x>> \notin R
  BY <1>1, WFMin, Zenon
<1>3. ASSUME NEW y \in S PROVE x <= y
  <2>1. ~(y < x)
    BY <1>2 DEF R, OpToRel
  <2>. QED BY <2>1
<1>. QED BY <1>3

\* A bounded nonempty set of natural numbers has a greatest element, and Max
\* denotes it.
LEMMA MaxExists ==
  ASSUME NEW S \in SUBSET Nat, S # {}, NEW m \in Nat, \A x \in S : x <= m
  PROVE  Max(S) \in S /\ \A y \in S : y <= Max(S)
<1> DEFINE T == {m - x : x \in S}
<1>1. T \in SUBSET Nat /\ T # {}
  OBVIOUS
<1> HIDE DEF T
<1>2. PICK z \in T : \A y \in T : z <= y
  BY <1>1, LeastExists
<1>3. PICK x \in S : z = m - x
  BY DEF T
<1>4. \A y \in S : m - y \in T
  BY DEF T
<1>5. \A y \in S : x >= y
  BY <1>2, <1>3, <1>4
<1>6. \E v \in S : \A y \in S : v >= y
  BY <1>5
<1>7. Max(S) \in S /\ \A y \in S : Max(S) >= y
  BY <1>6 DEF Max
<1>. QED BY <1>7

\* Division with remainder.
LEMMA Division ==
  ASSUME NEW n \in Nat, NEW m \in Nat \ {0}
  PROVE  \E q \in Nat : \E r \in 0 .. m - 1 : n = m * q + r
<1> DEFINE S == {x \in Nat : m * x > n}
<1>1. n + 1 \in S
  <2>1. m * (n + 1) >= n + 1
    OBVIOUS
  <2>. QED BY <2>1
<1>2. S \in SUBSET Nat /\ S # {}
  BY <1>1
<1>3. PICK x \in S : \A y \in S : x <= y
  BY <1>2, LeastExists
<1>4. x \in Nat /\ m * x > n
  OBVIOUS
<1>5. x # 0
  BY <1>4
<1>6. x - 1 \in Nat /\ ~(m * (x - 1) > n)
  <2>1. x - 1 \in Nat /\ x - 1 \notin S
    BY <1>3, <1>4, <1>5
  <2>. QED BY <2>1
<1>7. m * x = m * (x - 1) + m
  BY <1>4
<1>8. n - m * (x - 1) \in 0 .. m - 1
  BY <1>4, <1>6, <1>7
<1>9. n = m * (x - 1) + (n - m * (x - 1))
  BY <1>4
<1>. QED BY <1>6, <1>8, <1>9

\* The quotient and the remainder.
LEMMA Quotient ==
  ASSUME NEW n \in Nat, NEW m \in Nat \ {0}
  PROVE  n \div m \in Nat /\ n % m \in 0 .. m - 1 /\ n = m * (n \div m) + (n % m)
<1>1. PICK q \in Nat, r \in 0 .. m - 1 : n = m * q + r
  BY Division
<1>2. n \div m = q /\ n % m = r
  BY <1>1
<1>. QED BY <1>1, <1>2

\* The quotient of a multiple.
LEMMA ExactQuotient ==
  ASSUME NEW q \in Nat, NEW m \in Nat \ {0}
  PROVE  (q * m) \div m = q /\ (q * m) % m = 0
  OBVIOUS

\* A list and the list without its element at place k.
LEMMA RemoveAtProperties ==
  ASSUME NEW S, NEW s \in Seq(S), NEW k \in 1 .. Len(s)
  PROVE  /\ RemoveAt(s, k) \in Seq(S)
         /\ Len(RemoveAt(s, k)) = Len(s) - 1
         /\ \A i \in 1 .. Len(s) - 1 :
              RemoveAt(s, k)[i] = IF i < k THEN s[i] ELSE s[i + 1]
<1> DEFINE s1 == SubSeq(s, 1, k - 1)
           s2 == SubSeq(s, k + 1, Len(s))
<1>0. Len(s) \in Nat /\ \A i \in 1 .. Len(s) : s[i] \in S
  BY ElementOfSeq, LenProperties
<1>1. /\ s1 \in Seq(S)
      /\ Len(s1) = k - 1
      /\ \A i \in 1 .. k - 1 : s1[i] = s[i]
  BY <1>0, SubSeqProperties
<1>2. /\ s2 \in Seq(S)
      /\ Len(s2) = Len(s) - k
      /\ \A i \in 1 .. Len(s) - k : s2[i] = s[k + i]
  BY <1>0, SubSeqProperties
<1>3. RemoveAt(s, k) = s1 \o s2
  BY DEF RemoveAt
<1> HIDE DEF s1, s2
<1>4. /\ s1 \o s2 \in Seq(S)
      /\ Len(s1 \o s2) = Len(s1) + Len(s2)
      /\ \A i \in 1 .. Len(s1) + Len(s2) :
           (s1 \o s2)[i] = IF i <= Len(s1) THEN s1[i] ELSE s2[i - Len(s1)]
  BY <1>1, <1>2, ConcatProperties
<1>. QED BY <1>0, <1>1, <1>2, <1>3, <1>4

\* Taking e off a list in which every element is once.
LEMMA RemoveFirstProperties ==
  ASSUME NEW S, NEW s \in Seq(S), IsInjective(s),
         NEW k \in 1 .. Len(s)
  PROVE  RemoveFirst(s, s[k]) = RemoveAt(s, k)
<1> DEFINE e == s[k]
           I == {i \in 1 .. Len(s) : s[i] = e}
<1>0. DOMAIN s = 1 .. Len(s)
  BY LenProperties
<1>1. I = {k}
  BY <1>0 DEF IsInjective
<1>2. Min({k}) = k
  BY DEF Min
<1>3. SelectInSeq(s, LAMBDA v : v = e) = k
  BY <1>1, <1>2 DEF SelectInSeq
<1>. QED BY <1>3 DEF RemoveFirst

\* Nothing is taken off a list that does not hold e.
LEMMA RemoveFirstAbsent ==
  ASSUME NEW S, NEW s \in Seq(S), NEW e, e \notin Range(s)
  PROVE  RemoveFirst(s, e) = s
<1>0. DOMAIN s = 1 .. Len(s)
  BY LenProperties
<1>. QED BY <1>0 DEF RemoveFirst, Range


(***************************************************************************)
(* Lists joined to one.  off[i] is where list i begins: the strings of a   *)
(* vector and the pages of a text are cut at such offsets.                 *)
(***************************************************************************)
Begins(n, off) ==
  /\ n \in Nat
  /\ off \in [1 .. n + 1 -> Nat]
  /\ off[1] = 0
  /\ \A i \in 1 .. n : off[i] <= off[i + 1]

\* Offsets only grow.
LEMMA OffsetsGrow ==
  ASSUME NEW n, NEW off, Begins(n, off)
  PROVE  \A i, j \in 1 .. n + 1 : i <= j => off[i] <= off[j]
<1> DEFINE T == {j \in 1 .. n + 1 : \E i \in 1 .. j : off[i] > off[j]}
<1>1. n \in Nat /\ \A i \in 1 .. n + 1 : off[i] \in Nat
  BY DEF Begins
<1>2. ASSUME T # {} PROVE FALSE
  <2>1. T \in SUBSET Nat
    BY <1>1
  <2> HIDE DEF T
  <2>2. PICK j \in T : \A y \in T : j <= y
    BY <1>2, <2>1, LeastExists
  <2>3. j \in 1 .. n + 1 /\ \E i \in 1 .. j : off[i] > off[j]
    BY DEF T
  <2>4. PICK i \in 1 .. j : off[i] > off[j]
    BY <2>3
  <2>5. i \in 1 .. n + 1 /\ off[i] \in Nat /\ off[j] \in Nat
    BY <1>1, <2>3
  <2>6. i # j
    BY <2>4, <2>5
  <2>7. j - 1 \in 1 .. n /\ i \in 1 .. j - 1 /\ j - 1 \in 1 .. n + 1 /\ (j - 1) + 1 = j
    BY <1>1, <2>3, <2>5, <2>6
  <2>8. off[j - 1] \in Nat /\ off[j - 1] <= off[(j - 1) + 1]
    BY <1>1, <2>7 DEF Begins
  <2>9. j - 1 \notin T
    BY <2>2, <2>3
  <2>10. ~(off[i] > off[j - 1])
    BY <2>7, <2>9 DEF T
  <2>. QED BY <2>4, <2>5, <2>7, <2>8, <2>10
<1>3. ASSUME NEW i \in 1 .. n + 1, NEW j \in 1 .. n + 1, i <= j
      PROVE  off[i] <= off[j]
  <2>1. off[i] \in Nat /\ off[j] \in Nat /\ i \in 1 .. j
    BY <1>1, <1>3
  <2>2. j \notin T
    BY <1>2
  <2>3. ~(off[i] > off[j])
    BY <2>1, <2>2
  <2>. QED BY <2>1, <2>3
<1>. QED BY <1>3

\* Every place of the joined list is on exactly one list.
LEMMA OffsetsCover ==
  ASSUME NEW n, NEW off, Begins(n, off), NEW p \in 1 .. off[n + 1]
  PROVE  /\ \E i \in 1 .. n : off[i] < p /\ p <= off[i + 1]
         /\ \A i, k \in 1 .. n :
              off[i] < p /\ p <= off[i + 1] /\ off[k] < p /\ p <= off[k + 1] => i = k
<1> DEFINE T == {j \in 1 .. n + 1 : p <= off[j]}
<1>1. n \in Nat /\ \A i \in 1 .. n + 1 : off[i] \in Nat
  BY DEF Begins
<1>2. n + 1 \in 1 .. n + 1 /\ off[n + 1] \in Nat
  BY <1>1
<1>3. p \in Nat /\ p >= 1 /\ p <= off[n + 1]
  BY <1>2
<1>4. n + 1 \in T /\ T \in SUBSET Nat
  BY <1>1, <1>2, <1>3
<1> HIDE DEF T
<1>5. PICK j \in T : \A y \in T : j <= y
  BY <1>4, LeastExists
<1>6. j \in 1 .. n + 1 /\ p <= off[j]
  BY DEF T
<1>7. j # 1
  BY <1>3, <1>6 DEF Begins
<1>8. j - 1 \in 1 .. n /\ j - 1 \in 1 .. n + 1 /\ (j - 1) + 1 = j /\ j - 1 < j
  BY <1>1, <1>6, <1>7
<1>9. j - 1 \notin T
  BY <1>5, <1>8
<1>10. off[j - 1] < p
  <2>1. ~(p <= off[j - 1]) /\ off[j - 1] \in Nat
    BY <1>1, <1>8, <1>9 DEF T
  <2>. QED BY <1>3, <2>1
<1>11. ASSUME NEW i \in 1 .. n, NEW k \in 1 .. n, i < k,
              p <= off[i + 1], off[k] < p
       PROVE  FALSE
  <2>1. i + 1 \in 1 .. n + 1 /\ k \in 1 .. n + 1 /\ i + 1 <= k
    BY <1>1, <1>11
  <2>2. off[i + 1] <= off[k]
    BY <2>1, OffsetsGrow
  <2>3. off[i + 1] \in Nat /\ off[k] \in Nat
    BY <1>1, <2>1
  <2>. QED BY <1>3, <1>11, <2>2, <2>3
<1>12. ASSUME NEW i \in 1 .. n, NEW k \in 1 .. n,
              off[i] < p, p <= off[i + 1], off[k] < p, p <= off[k + 1]
       PROVE  i = k
  <2>1. ~(i < k)
    BY <1>11, <1>12
  <2>2. ~(k < i)
    BY <1>11, <1>12
  <2>. QED BY <1>1, <2>1, <2>2
<1>13. \E i \in 1 .. n : off[i] < p /\ p <= off[i + 1]
  BY <1>6, <1>8, <1>10
<1>. QED BY <1>12, <1>13

\* The lists of s begin at the offsets off.
Cuts(S, s, off) ==
  /\ s \in Seq(Seq(S))
  /\ off \in [1 .. Len(s) + 1 -> Nat]
  /\ off[1] = 0
  /\ \A i \in 1 .. Len(s) : off[i + 1] = off[i] + Len(s[i])

\* w has the elements of the lists of s, each list at its offset.
Spells(w, s, off) ==
  /\ Len(w) = off[Len(s) + 1]
  /\ \A i \in 1 .. Len(s) : \A j \in 1 .. Len(s[i]) : w[off[i] + j] = s[i][j]

LEMMA CutsAreOffsets ==
  ASSUME NEW S, NEW s, NEW off, Cuts(S, s, off)
  PROVE  /\ Begins(Len(s), off)
         /\ Len(s) \in Nat
         /\ \A i \in 1 .. Len(s) : /\ s[i] \in Seq(S) /\ Len(s[i]) \in Nat
                                   /\ off[i] \in Nat /\ off[i + 1] \in Nat
                                   /\ off[i + 1] = off[i] + Len(s[i])
<1>1. Len(s) \in Nat /\ \A i \in 1 .. Len(s) : s[i] \in Seq(S)
  BY LenProperties, ElementOfSeq DEF Cuts
<1>2. \A i \in 1 .. Len(s) : Len(s[i]) \in Nat
  BY <1>1, LenProperties
<1>3. /\ off \in [1 .. Len(s) + 1 -> Nat] /\ off[1] = 0
      /\ \A i \in 1 .. Len(s) : off[i + 1] = off[i] + Len(s[i])
  BY DEF Cuts
<1>4. \A i \in 1 .. Len(s) : off[i] \in Nat /\ off[i + 1] \in Nat
  BY <1>1, <1>3
<1>5. ASSUME NEW i \in 1 .. Len(s) PROVE off[i] <= off[i + 1]
  <2>1. off[i + 1] = off[i] + Len(s[i])
    BY <1>3
  <2>2. Len(s[i]) \in Nat /\ off[i] \in Nat
    BY <1>2, <1>4
  <2>. QED BY <2>1, <2>2
<1>. QED BY <1>1, <1>2, <1>3, <1>4, <1>5 DEF Begins


\* FlattenSeq is the list that has the lists at their offsets: the function
\* it defines recursively gives the beginnings of that list.
LEMMA FlattenIs ==
  ASSUME NEW S, NEW s, NEW off, Cuts(S, s, off),
         NEW w \in Seq(S), Spells(w, s, off)
  PROVE  FlattenSeq(s) = w
<1> DEFINE n == Len(s)
           F == [i \in 1 .. n |-> SubSeq(w, 1, off[i + 1])]
           Is(f) == f = [i \in 1 .. n |-> IF i = 1 THEN s[i] ELSE f[i - 1] \o s[i]]
<1>1. /\ n \in Nat
      /\ \A i \in 1 .. n : /\ s[i] \in Seq(S) /\ Len(s[i]) \in Nat
                           /\ off[i] \in Nat /\ off[i + 1] \in Nat
                           /\ off[i + 1] = off[i] + Len(s[i])
  BY CutsAreOffsets
<1>2. Len(w) \in Nat /\ Len(w) = off[n + 1]
  BY LenProperties DEF Spells
<1>3. ASSUME NEW i \in 1 .. n
      PROVE  /\ F[i] \in Seq(S) /\ Len(F[i]) = off[i + 1]
             /\ \A p \in 1 .. off[i + 1] : F[i][p] = w[p]
  <2>1. i + 1 \in 1 .. n + 1 /\ n + 1 \in 1 .. n + 1 /\ i + 1 <= n + 1
    BY <1>1
  <2>2. off[i + 1] <= off[n + 1]
    BY <2>1, CutsAreOffsets, OffsetsGrow
  <2>3. F[i] = SubSeq(w, 1, off[i + 1])
    OBVIOUS
  <2> DEFINE m == off[i + 1]
  <2>4. m \in Nat /\ m <= Len(w)
    BY <1>1, <1>2, <2>2
  <2> HIDE DEF m, F
  <2>5. /\ SubSeq(w, 1, m) \in Seq(S) /\ Len(SubSeq(w, 1, m)) = m
        /\ \A p \in 1 .. m : SubSeq(w, 1, m)[p] = w[p]
    BY <1>2, <2>4, SubSeqProperties, ElementOfSeq
  <2>. QED BY <2>3, <2>5 DEF m
<1> HIDE DEF F
<1>4. CASE n = 0
  <2>1. Len(w) = 0 /\ s = << >> /\ FlattenSeq(s) = s
    BY <1>2, <1>4, EmptySeq DEF Cuts, FlattenSeq
  <2>. QED BY <2>1, EmptySeq
<1>5. CASE n # 0
  <2>1. 1 \in 1 .. n /\ n \in 1 .. n
    BY <1>1, <1>5
  <2>2. F[1] = s[1]
    <3>1. off[1] = 0 /\ off[1 + 1] = off[1] + Len(s[1]) /\ Len(s[1]) \in Nat
      BY <1>1, <2>1 DEF Cuts
    <3>2. off[1 + 1] = Len(s[1])
      BY <3>1
    <3>3. /\ F[1] \in Seq(S) /\ Len(F[1]) = off[1 + 1]
          /\ \A p \in 1 .. off[1 + 1] : F[1][p] = w[p]
      BY <1>3, <2>1
    <3>4. ASSUME NEW p \in 1 .. Len(s[1]) PROVE F[1][p] = s[1][p]
      <4>1. w[off[1] + p] = s[1][p]
        BY <2>1 DEF Spells
      <4>2. off[1] + p = p
        BY <3>1
      <4>. QED BY <3>2, <3>3, <4>1, <4>2
    <3>5. s[1] \in Seq(S)
      BY <1>1, <2>1
    <3>. QED BY <3>2, <3>3, <3>4, <3>5, SeqEqual
  <2>3. ASSUME NEW i \in 2 .. n PROVE F[i] = F[i - 1] \o s[i]
    <3>1. i \in 1 .. n /\ i - 1 \in 1 .. n /\ (i - 1) + 1 = i
      BY <1>1
    <3> DEFINE a == F[i - 1]
               b == s[i]
               c == F[i]
               m == off[i]
               l == Len(s[i])
    <3>2. m \in Nat /\ l \in Nat /\ off[i + 1] = m + l
      BY <1>1, <3>1
    <3>3. a \in Seq(S) /\ Len(a) = m /\ \A p \in 1 .. m : a[p] = w[p]
      BY <1>3, <3>1
    <3>4. c \in Seq(S) /\ Len(c) = m + l /\ \A p \in 1 .. m + l : c[p] = w[p]
      BY <1>3, <3>1, <3>2
    <3>5. b \in Seq(S) /\ Len(b) = l /\ \A q \in 1 .. l : w[m + q] = b[q]
      BY <1>1, <3>1 DEF Spells
    <3> HIDE DEF a, b, c, m, l
    <3>6. /\ a \o b \in Seq(S)
          /\ Len(a \o b) = m + l
          /\ \A p \in 1 .. m + l : (a \o b)[p] = IF p <= m THEN a[p] ELSE b[p - m]
      BY <3>3, <3>5, ConcatProperties, ZenonT(40)
    <3>7. ASSUME NEW p \in 1 .. m + l PROVE (a \o b)[p] = c[p]
      <4>1. CASE p <= m
        BY <3>2, <3>3, <3>4, <3>6, <4>1, SMTT(30)
      <4>2. CASE ~(p <= m)
        <5>1. p - m \in 1 .. l /\ m + (p - m) = p
          BY <3>2, <4>2
        <5>2. w[m + (p - m)] = b[p - m]
          BY <3>5, <5>1
        <5>. QED BY <3>4, <3>6, <4>2, <5>1, <5>2
      <4>. QED BY <4>1, <4>2
    <3>8. a \o b = c
      BY <3>4, <3>6, <3>7, SeqEqual
    <3>. QED BY <3>8 DEF a, b, c
  <2>4. Is(F)
    <3>1. F = [i \in 1 .. n |-> F[i]]
      BY DEF F
    <3>2. ASSUME NEW i \in 1 .. n PROVE F[i] = IF i = 1 THEN s[i] ELSE F[i - 1] \o s[i]
      <4>1. i = 1 \/ (i # 1 /\ i \in 2 .. n)
        BY <1>1
      <4>. QED BY <2>2, <2>3, <4>1
    <3>. QED BY <3>1, <3>2, Zenon
  <2> DEFINE f == CHOOSE g : Is(g)
  <2>5. Is(f)
    BY <2>4
  <2>6. FlattenSeq(s) = f[n]
    BY <1>5 DEF FlattenSeq
  <2> HIDE DEF f
  <2> DEFINE T == {i \in 1 .. n : f[i] # F[i]}
  <2>7. ASSUME T # {} PROVE FALSE
    <3>1. T \in SUBSET Nat
      BY <1>1
    <3> HIDE DEF T
    <3>2. PICK i \in T : \A y \in T : i <= y
      BY <2>7, <3>1, LeastExists
    <3>3. i \in 1 .. n /\ f[i] # F[i]
      BY DEF T
    <3>4. f[i] = IF i = 1 THEN s[i] ELSE f[i - 1] \o s[i]
      BY <2>5, <3>3
    <3>5. CASE i = 1
      BY <2>2, <3>3, <3>4, <3>5
    <3>6. CASE i # 1
      <4>1. i \in 2 .. n /\ i - 1 \in 1 .. n /\ ~(i <= i - 1)
        BY <1>1, <3>3, <3>6
      <4>2. i - 1 \notin T
        BY <3>2, <4>1
      <4>3. f[i - 1] = F[i - 1]
        BY <4>1, <4>2 DEF T
      <4>. QED BY <2>3, <3>3, <3>4, <3>6, <4>1, <4>3
    <3>. QED BY <3>5, <3>6
  <2>8. f[n] = F[n]
    BY <2>1, <2>7
  <2>9. F[n] = w
    BY <1>2, <1>3, <2>1, SeqEqual
  <2>. QED BY <2>6, <2>8, <2>9
<1>. QED BY <1>4, <1>5


\* The joined list has every list at its offset.
LEMMA FlattenSpells ==
  ASSUME NEW S, NEW s, NEW off, Cuts(S, s, off)
  PROVE  FlattenSeq(s) \in Seq(S) /\ Spells(FlattenSeq(s), s, off)
<1> DEFINE n == Len(s)
           m == off[n + 1]
           On(p, i) == off[i] < p /\ p <= off[i + 1]
           At(p) == CHOOSE i \in 1 .. n : On(p, i)
           w == [p \in 1 .. m |-> s[At(p)][p - off[At(p)]]]
<1>1. /\ n \in Nat
      /\ \A i \in 1 .. n : /\ s[i] \in Seq(S) /\ Len(s[i]) \in Nat
                           /\ off[i] \in Nat /\ off[i + 1] \in Nat
                           /\ off[i + 1] = off[i] + Len(s[i])
  BY CutsAreOffsets
<1>2. m \in Nat
  BY <1>1 DEF Cuts
<1>3. Begins(n, off)
  BY CutsAreOffsets
<1>4. ASSUME NEW p \in 1 .. m
      PROVE  /\ At(p) \in 1 .. n /\ On(p, At(p))
             /\ \A i \in 1 .. n : On(p, i) => i = At(p)
  <2>1. /\ \E i \in 1 .. n : On(p, i)
        /\ \A i, k \in 1 .. n : On(p, i) /\ On(p, k) => i = k
    BY <1>3, OffsetsCover
  <2> HIDE DEF On
  <2>2. At(p) \in 1 .. n /\ On(p, At(p))
    BY <2>1
  <2>. QED BY <2>1, <2>2
<1> HIDE DEF At
<1>5. w \in Seq(S)
  <2>1. ASSUME NEW p \in 1 .. m PROVE w[p] \in S
    <3> DEFINE i == At(p)
    <3>1. i \in 1 .. n /\ off[i] < p /\ p <= off[i + 1]
      BY <1>4
    <3>2. s[i] \in Seq(S) /\ p - off[i] \in 1 .. Len(s[i])
      BY <1>1, <1>2, <3>1
    <3>3. w[p] = s[i][p - off[i]]
      OBVIOUS
    <3>. QED BY <3>2, <3>3, ElementOfSeq
  <2>2. w \in [1 .. m -> S]
    BY <2>1
  <2>. QED BY <1>2, <2>2, SeqDef
<1>6. Spells(w, s, off)
  <2>1. Len(w) = m
    BY <1>2, <1>5, LenProperties
  <2>2. ASSUME NEW i \in 1 .. n, NEW j \in 1 .. Len(s[i]) PROVE w[off[i] + j] = s[i][j]
    <3> DEFINE p == off[i] + j
    <3>1. /\ Len(s[i]) \in Nat /\ off[i] \in Nat /\ off[i + 1] \in Nat
          /\ off[i + 1] = off[i] + Len(s[i])
      BY <1>1
    <3>2. i + 1 \in 1 .. n + 1 /\ n + 1 \in 1 .. n + 1 /\ i + 1 <= n + 1
      BY <1>1
    <3>3. off[i + 1] <= m
      BY <1>3, <3>2, OffsetsGrow
    <3>4. p \in 1 .. m /\ off[i] < p /\ p <= off[i + 1] /\ p - off[i] = j
      BY <1>2, <3>1, <3>3, SMTT(30)
    <3>5. i = At(p)
      BY <1>4, <3>4
    <3>6. w[p] = s[At(p)][p - off[At(p)]]
      BY <3>4
    <3>. QED BY <3>4, <3>5, <3>6
  <2>. QED BY <2>1, <2>2 DEF Spells
<1> HIDE DEF w
<1>. QED BY <1>5, <1>6, FlattenIs

(***************************************************************************)
(* The buckets of a linear hash table and its masks.                       *)
(***************************************************************************)
\* One more bit of a hash value either is not set or adds the mask's size.
LEMMA ModDouble ==
  ASSUME NEW n \in Nat, NEW m \in Nat \ {0}
  PROVE  /\ n % m \in 0 .. m - 1
         /\ n % (2 * m) \in 0 .. 2 * m - 1
         /\ n % (2 * m) = n % m \/ n % (2 * m) = (n % m) + m
<1>1. PICK q \in Nat, r \in 0 .. m - 1 : n = m * q + r
  BY Division
<1>2. n % m = r
  BY <1>1
<1>3. PICK p \in Nat, s \in 0 .. 1 : q = 2 * p + s
  <2>1. \E p \in Nat : \E s \in 0 .. 2 - 1 : q = 2 * p + s
    BY Division, 2 \in Nat \ {0}, Zenon
  <2>. QED BY <2>1
<1>4. n = (2 * m) * p + (m * s + r)
  <2>1. m * q = m * (2 * p) + m * s
    BY <1>3
  <2>2. m * (2 * p) = (2 * m) * p
    OBVIOUS
  <2>. QED BY <1>1, <2>1, <2>2
<1>5. m * s = 0 \/ m * s = m
  <2>1. s = 0 \/ s = 1
    OBVIOUS
  <2>. QED BY <2>1
<1>6. m * s + r \in 0 .. 2 * m - 1
  BY <1>5
<1>7. n % (2 * m) = m * s + r
  <2> DEFINE M == 2 * m
             t == m * s + r
  <2>1. M \in Nat \ {0} /\ t \in 0 .. M - 1 /\ n = M * p + t
    BY <1>4, <1>6
  <2> HIDE DEF M, t
  <2>2. n % M = t
    BY <2>1
  <2>. QED BY <2>2 DEF M, t
<1>. QED BY <1>2, <1>5, <1>6, <1>7

\* The remainder of a number below twice the divisor.
LEMMA ModOnce ==
  ASSUME NEW m \in Nat \ {0}, NEW n \in m .. 2 * m
  PROVE  /\ n < 2 * m => n % m = n - m
         /\ n = 2 * m => n % m = 0
  OBVIOUS

\* _ffdb_call_hash on numbers.
BucketOf(n, max, low, high) ==
  LET b == n % (high + 1) IN IF b > max THEN n % (low + 1) ELSE b

\* The masks of a table with max + 1 buckets.
MasksOf(max, low, high) ==
  /\ low \in Nat
  /\ high = 2 * low + 1
  /\ max \in low .. high

LEMMA BucketRange ==
  ASSUME NEW n \in Nat, NEW max, NEW low, NEW high, MasksOf(max, low, high)
  PROVE  BucketOf(n, max, low, high) \in 0 .. max
<1> DEFINE m == low + 1
<1>1. m \in Nat \ {0} /\ high + 1 = 2 * m
  BY DEF MasksOf
<1>2. n % m \in 0 .. m - 1 /\ n % (2 * m) \in 0 .. 2 * m - 1
  BY <1>1, ModDouble
<1>. QED BY <1>1, <1>2 DEF BucketOf, MasksOf

\* A bucket more while the level has room: only the keys of the bucket that
\* is split move, and they move to the new one.
LEMMA GrowInLevel ==
  ASSUME NEW n \in Nat, NEW max, NEW low, NEW high, MasksOf(max, low, high),
         max < high
  PROVE  /\ MasksOf(max + 1, low, high)
         /\ (max + 1) % (low + 1) \in 0 .. max
         /\ \/ BucketOf(n, max + 1, low, high) = BucketOf(n, max, low, high)
            \/ /\ BucketOf(n, max, low, high) = (max + 1) % (low + 1)
               /\ BucketOf(n, max + 1, low, high) = max + 1
<1> DEFINE m == low + 1
           a == n % m
           b == n % (2 * m)
<1>1. m \in Nat \ {0} /\ high + 1 = 2 * m /\ max \in m - 1 .. 2 * m - 2
  BY DEF MasksOf
<1>2. a \in 0 .. m - 1 /\ b \in 0 .. 2 * m - 1 /\ (b = a \/ b = a + m)
  BY <1>1, ModDouble
<1>3. (max + 1) % m = max + 1 - m
  BY <1>1, ModOnce
<1>4. BucketOf(n, max, low, high) = IF b > max THEN a ELSE b
  BY <1>1 DEF BucketOf
<1>5. BucketOf(n, max + 1, low, high) = IF b > max + 1 THEN a ELSE b
  BY <1>1 DEF BucketOf
<1>6. MasksOf(max + 1, low, high)
  BY DEF MasksOf
<1> HIDE DEF a, b
<1>7. (max + 1) % (low + 1) \in 0 .. max
  BY <1>1, <1>3
<1>. QED BY <1>1, <1>2, <1>3, <1>4, <1>5, <1>6, <1>7

\* The mask of the next level, which the table computes as (max + 1) | high.
LEMMA LevelMask ==
  ASSUME NEW high \in Nat
  PROVE  ((high + 1) - ((high + 1) % (high + 1))) + high = 2 * high + 1
<1>1. (high + 1) % (high + 1) = 0
  BY ModOnce
<1>. QED BY <1>1

\* The same for the first bucket of another level, where the masks grow.
LEMMA GrowLevel ==
  ASSUME NEW n \in Nat, NEW max, NEW low, NEW high, MasksOf(max, low, high),
         max = high
  PROVE  /\ MasksOf(max + 1, high, 2 * high + 1)
         /\ (max + 1) % (low + 1) \in 0 .. max
         /\ \/ BucketOf(n, max + 1, high, 2 * high + 1) = BucketOf(n, max, low, high)
            \/ /\ BucketOf(n, max, low, high) = (max + 1) % (low + 1)
               /\ BucketOf(n, max + 1, high, 2 * high + 1) = max + 1
<1> DEFINE m == low + 1
           k == 2 * m
           a == n % k
           b == n % (2 * k)
           top == 2 * high + 1
<1>1. /\ m \in Nat \ {0} /\ k \in Nat \ {0}
      /\ high \in Nat /\ max \in Nat
      /\ high = k - 1 /\ max = k - 1
      /\ high + 1 = k /\ max + 1 = k
  BY DEF MasksOf
<1>2. top = 2 * k - 1 /\ top + 1 = 2 * k
  BY <1>1
<1>3. a \in 0 .. k - 1 /\ b \in 0 .. 2 * k - 1 /\ (b = a \/ b = a + k)
  BY <1>1, ModDouble
<1>4. (max + 1) % (low + 1) = 0
  BY <1>1, ModOnce
<1>5. BucketOf(n, max, low, high) = IF a > max THEN n % m ELSE a
  BY <1>1 DEF BucketOf
<1>6. BucketOf(n, max + 1, high, top) = IF b > max + 1 THEN a ELSE b
  <2> HIDE DEF top
  <2>. QED BY <1>1, <1>2 DEF BucketOf
<1>7. MasksOf(max + 1, high, top)
  BY <1>1, <1>2 DEF MasksOf
<1> HIDE DEF a, b, k, top
<1>8. (max + 1) % (low + 1) \in 0 .. max
  BY <1>1, <1>4
<1>9. a <= max
  BY <1>1, <1>3
<1>10. \/ BucketOf(n, max + 1, high, top) = BucketOf(n, max, low, high)
       \/ /\ BucketOf(n, max, low, high) = (max + 1) % (low + 1)
          /\ BucketOf(n, max + 1, high, top) = max + 1
  BY <1>1, <1>3, <1>4, <1>5, <1>6, <1>9
<1>. QED BY <1>7, <1>8, <1>10 DEF top
=============================================================================
