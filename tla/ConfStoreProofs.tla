-------------------------- MODULE ConfStoreProofs --------------------------
(***************************************************************************)
(* What a store of configurations keeps, for any number of configurations, *)
(* sizes of data and pages, and any sequence of calls: user information,   *)
(* configuration records, the ensembles, and the result of a merge.        *)
(***************************************************************************)
EXTENDS Merger, ListLemmas, FiniteSetTheorems

(***************************************************************************)
(* User information on its pages.                                          *)
(***************************************************************************)
Chars  == {Junk} \cup UNION {Range(text) : text \in Infos}
UPages == UinfoPages(MaxInfo + 1)

\* Pages of the right number with cells of the right length.
UinfoShape(pages) ==
  /\ DOMAIN pages = 1 .. UPages
  /\ \A i \in 1 .. UPages : /\ pages[i].len \in Nat
                             /\ pages[i].cell \in [1 .. Room(i) -> Chars]

\* What is known of the constants.
LEMMA Sizes ==
  /\ PageRoom \in Nat \ {0} /\ LenRoom \in Nat \ {0} /\ LenRoom < PageRoom
  /\ ConfigsPerPage \in Nat \ {0}
  /\ MaxInfo \in Nat \ {0}
  /\ N \in Nat /\ N > 0 /\ Indices = 1 .. N /\ 1 \in Indices
  BY MetaAssumption, StoreAssumption, LenProperties DEF N, Indices

\* The pages have room for the longest text, and there is at least one.
LEMMA UinfoRoom ==
  UPages \in Nat /\ UPages >= 1 /\ UPages * PageRoom >= MaxInfo + 1 + LenRoom
<1> DEFINE size == MaxInfo + 1 + LenRoom
           q == size \div PageRoom
           r == size % PageRoom
<1>1. size \in Nat /\ size > 0 /\ PageRoom \in Nat \ {0}
  BY Sizes
<1>2. UPages = IF r = 0 THEN q ELSE q + 1
  BY DEF UPages, UinfoPages
<1> HIDE DEF size
<1>3. q \in Nat /\ r \in 0 .. PageRoom - 1 /\ size = PageRoom * q + r
  BY <1>1, Quotient
<1> HIDE DEF q, r
<1>4. UPages \in Nat /\ UPages * PageRoom >= size
  <2>1. CASE r = 0
    BY <1>1, <1>2, <1>3, <2>1
  <2>2. CASE r # 0
    <3>1. UPages = q + 1
      BY <1>2, <2>2
    <3>2. (q + 1) * PageRoom = PageRoom * q + PageRoom
      BY <1>1, <1>3
    <3>. QED BY <1>1, <1>3, <3>1, <3>2
  <2>. QED BY <2>1, <2>2
<1>5. UPages # 0
  <2>1. 0 * PageRoom = 0
    BY <1>1
  <2>. QED BY <1>1, <1>4, <2>1
<1>. QED BY <1>4, <1>5 DEF size

\* Where the cells of a page begin in the text.
UOff == [i \in 1 .. UPages + 1 |-> Before(i)]

LEMMA UinfoOffsets ==
  /\ UOff \in [1 .. UPages + 1 -> Nat] /\ UOff[1] = 0
  /\ \A i \in 1 .. UPages : /\ Room(i) \in Nat /\ UOff[i + 1] = UOff[i] + Room(i)
                            /\ UOff[i] = Before(i) /\ Before(i) \in Nat
  /\ UOff[UPages + 1] >= MaxInfo + 1
<1>1. /\ PageRoom \in Nat \ {0} /\ LenRoom \in Nat \ {0} /\ LenRoom < PageRoom
      /\ UPages \in Nat /\ UPages >= 1 /\ MaxInfo \in Nat
  BY Sizes, UinfoRoom
<1>2. ASSUME NEW i \in 1 .. UPages + 1 PROVE Before(i) \in Nat
  <2>1. CASE i = 1
    BY <2>1 DEF Before
  <2>2. CASE i # 1
    <3>1. i - 2 \in Nat /\ (i - 1) * PageRoom = (i - 2) * PageRoom + PageRoom
          /\ (i - 2) * PageRoom \in Nat
      BY <1>1, <2>2
    <3>. QED BY <1>1, <2>2, <3>1 DEF Before
  <2>. QED BY <2>1, <2>2
<1>3. ASSUME NEW i \in 1 .. UPages
      PROVE  Room(i) \in Nat /\ Before(i + 1) = Before(i) + Room(i)
  <2>1. CASE i = 1
    <3>1. Before(2) = (2 - 1) * PageRoom - LenRoom /\ Before(1) = 0
          /\ Room(1) = PageRoom - LenRoom
      BY DEF Before, Room
    <3>2. Before(2) = PageRoom - LenRoom
      BY <1>1, <3>1
    <3>. QED BY <1>1, <2>1, <3>1, <3>2
  <2>2. CASE i # 1
    <3>1. i \in Nat /\ i + 1 # 1 /\ (i + 1) - 1 = i
      BY <1>1, <2>2
    <3>2. i * PageRoom = (i - 1) * PageRoom + PageRoom
      BY <1>1, <3>1
    <3>3. Before(i + 1) = i * PageRoom - LenRoom
      BY <3>1 DEF Before
    <3>4. Before(i) = (i - 1) * PageRoom - LenRoom /\ Room(i) = PageRoom
      BY <2>2 DEF Before, Room
    <3>5. (i - 1) * PageRoom \in Nat
      BY <1>1, <3>1
    <3>. QED BY <1>1, <3>2, <3>3, <3>4, <3>5
  <2>. QED BY <2>1, <2>2
<1>4. \A i \in 1 .. UPages : i \in 1 .. UPages + 1 /\ i + 1 \in 1 .. UPages + 1
  BY <1>1
<1>5. UOff[UPages + 1] = UPages * PageRoom - LenRoom
  <2>1. UPages + 1 # 1 /\ (UPages + 1) - 1 = UPages /\ UPages + 1 \in 1 .. UPages + 1
    BY <1>1
  <2>. QED BY <2>1 DEF UOff, Before
<1>6. UOff[UPages + 1] >= MaxInfo + 1
  <2>1. UPages * PageRoom \in Nat
    BY <1>1
  <2>. QED BY <1>1, <1>5, <2>1, UinfoRoom
<1>7. UOff \in [1 .. UPages + 1 -> Nat] /\ \A i \in 1 .. UPages + 1 : UOff[i] = Before(i)
  BY <1>2 DEF UOff
<1>8. UOff[1] = 0
  BY <1>1, <1>7 DEF Before
<1>. QED BY <1>2, <1>3, <1>4, <1>6, <1>7, <1>8


\* The cells of all pages, joined, have the cells of page i from Before(i) on.
LEMMA UinfoJoined ==
  ASSUME NEW pages, UinfoShape(pages)
  PROVE  LET s == [i \in DOMAIN pages |-> pages[i].cell]
             w == FlattenSeq(s)
         IN  /\ w \in Seq(Chars) /\ Len(w) = UOff[UPages + 1]
             /\ \A i \in 1 .. UPages : \A j \in 1 .. Room(i) :
                  w[Before(i) + j] = pages[i].cell[j]
<1> DEFINE s == [i \in DOMAIN pages |-> pages[i].cell]
           w == FlattenSeq(s)
<1>1. UPages \in Nat /\ \A i \in 1 .. UPages : Room(i) \in Nat
  BY UinfoRoom, UinfoOffsets
<1>2. ASSUME NEW i \in 1 .. UPages
      PROVE  s[i] = pages[i].cell /\ s[i] \in Seq(Chars) /\ Len(s[i]) = Room(i)
  <2>1. s[i] = pages[i].cell /\ pages[i].cell \in [1 .. Room(i) -> Chars]
    BY DEF UinfoShape
  <2> DEFINE c == pages[i].cell
             r == Room(i)
  <2> HIDE DEF s, c, r
  <2>2. c \in [1 .. r -> Chars] /\ r \in Nat
    BY <1>1, <2>1 DEF c, r
  <2>3. c \in Seq(Chars)
    BY <2>2, SeqDef
  <2>4. Len(c) = r
    BY <2>2, <2>3, LenProperties
  <2>. QED BY <2>1, <2>3, <2>4 DEF c, r
<1>3. s \in Seq(Seq(Chars)) /\ Len(s) = UPages
  <2>1. s \in [1 .. UPages -> Seq(Chars)]
    BY <1>2 DEF UinfoShape
  <2> HIDE DEF s
  <2>2. s \in Seq(Seq(Chars))
    BY <1>1, <2>1, SeqDef
  <2>. QED BY <1>1, <2>1, <2>2, LenProperties
<1> HIDE DEF s
<1>4. Cuts(Chars, s, UOff)
  BY <1>2, <1>3, UinfoOffsets DEF Cuts
<1>5. w \in Seq(Chars) /\ Spells(w, s, UOff)
  BY <1>4, FlattenSpells
<1> HIDE DEF w
<1>6. /\ Len(w) = UOff[UPages + 1]
      /\ \A i \in 1 .. UPages : \A j \in 1 .. Room(i) : w[UOff[i] + j] = pages[i].cell[j]
  BY <1>2, <1>3, <1>5 DEF Spells
<1>7. \A i \in 1 .. UPages : UOff[i] = Before(i)
  BY UinfoOffsets
<1>. QED BY <1>5, <1>6, <1>7 DEF w, s

\* A text that is stored is read back, over any page boundary.
LEMMA UinfoReadBack ==
  ASSUME NEW pages, UinfoShape(pages),
         NEW text \in Seq(Chars), Len(text) <= MaxInfo + 1
  PROVE  /\ UinfoShape(SetUinfo(pages, text))
         /\ GetUinfo(SetUinfo(pages, text)) = text
<1> DEFINE P == SetUinfo(pages, text)
           w == FlattenSeq([i \in DOMAIN P |-> P[i].cell])
           l == Len(text)
<1>1. l \in Nat /\ DOMAIN P = 1 .. UPages /\ 1 \in 1 .. UPages
      /\ \A i \in 1 .. UPages : Room(i) \in Nat /\ Before(i) \in Nat
  BY LenProperties, UinfoRoom, UinfoOffsets DEF SetUinfo, UinfoShape
<1>2. ASSUME NEW i \in 1 .. UPages
      PROVE  /\ P[i].len = IF i = 1 THEN l ELSE pages[i].len
             /\ P[i].cell = [j \in 1 .. Room(i) |->
                               IF Before(i) + j <= l
                               THEN text[Before(i) + j] ELSE pages[i].cell[j]]
  BY DEF SetUinfo, UinfoShape
<1> HIDE DEF P, l
<1>3. ASSUME NEW i \in 1 .. UPages, NEW j \in 1 .. Room(i)
      PROVE  /\ P[i].cell[j] \in Chars
             /\ Before(i) + j <= l => P[i].cell[j] = text[Before(i) + j]
  <2>1. P[i].cell[j] = IF Before(i) + j <= l
                       THEN text[Before(i) + j] ELSE pages[i].cell[j]
    <3> DEFINE c == [h \in 1 .. Room(i) |-> IF Before(i) + h <= l
                                            THEN text[Before(i) + h] ELSE pages[i].cell[h]]
    <3>1. P[i].cell = c
      BY <1>2
    <3>2. c[j] = IF Before(i) + j <= l THEN text[Before(i) + j] ELSE pages[i].cell[j]
      OBVIOUS
    <3>. QED BY <3>1, <3>2
  <2>2. pages[i].cell[j] \in Chars
    BY DEF UinfoShape
  <2>3. Before(i) + j <= l => Before(i) + j \in 1 .. Len(text)
    BY <1>1 DEF l
  <2>4. Before(i) + j <= l => text[Before(i) + j] \in Chars
    BY <2>3, ElementOfSeq
  <2>. QED BY <2>1, <2>2, <2>4
<1>4. P[1].len = l
  BY <1>1, <1>2
<1>5. UinfoShape(P)
  <2>1. ASSUME NEW i \in 1 .. UPages
        PROVE  P[i].len \in Nat /\ P[i].cell \in [1 .. Room(i) -> Chars]
    BY <1>1, <1>2, <1>3 DEF UinfoShape
  <2>. QED BY <1>1, <2>1 DEF UinfoShape
<1>6. GetUinfo(P) = SubSeq(w, 1, l)
  BY <1>4 DEF GetUinfo
<1>7. /\ w \in Seq(Chars) /\ Len(w) = UOff[UPages + 1]
      /\ \A i \in 1 .. UPages : \A j \in 1 .. Room(i) : w[Before(i) + j] = P[i].cell[j]
  BY <1>5, UinfoJoined
<1> HIDE DEF w
<1>8. l <= Len(w) /\ Len(w) \in Nat
  BY <1>1, <1>7, UinfoOffsets, Sizes, LenProperties DEF l
<1>9. ASSUME NEW p \in 1 .. l PROVE w[p] = text[p]
  <2>1. p \in 1 .. UOff[UPages + 1] /\ p \in Nat
    BY <1>1, <1>7, <1>8
  <2>2. Begins(UPages, UOff)
    <3>1. \A i \in 1 .. UPages : UOff[i] <= UOff[i + 1]
      BY UinfoOffsets
    <3>. QED BY <3>1, UinfoRoom, UinfoOffsets DEF Begins
  <2>3. PICK i \in 1 .. UPages : UOff[i] < p /\ p <= UOff[i + 1]
    BY <2>1, <2>2, OffsetsCover
  <2>4. UOff[i + 1] = UOff[i] + Room(i) /\ UOff[i] = Before(i)
        /\ Before(i) \in Nat /\ Room(i) \in Nat
    BY UinfoOffsets
  <2> DEFINE j == p - Before(i)
  <2>5. j \in 1 .. Room(i) /\ Before(i) + j = p
    BY <2>1, <2>3, <2>4
  <2> HIDE DEF j
  <2>6. w[Before(i) + j] = P[i].cell[j]
    BY <1>7, <2>5
  <2>7. P[i].cell[j] = text[Before(i) + j]
    BY <1>1, <1>3, <2>5
  <2>. QED BY <2>5, <2>6, <2>7
<1>10. /\ SubSeq(w, 1, l) \in Seq(Chars) /\ Len(SubSeq(w, 1, l)) = l
       /\ \A p \in 1 .. l : SubSeq(w, 1, l)[p] = w[p]
  BY <1>1, <1>7, <1>8, SubSeqProperties, ElementOfSeq
<1>11. SubSeq(w, 1, l) = text
  BY <1>9, <1>10, SeqEqual DEF l
<1>. QED BY <1>5, <1>6, <1>11 DEF P

\* A new file has an empty text.
LEMMA UinfoBlank ==
  LET pages == BlankUinfo(MaxInfo + 1)
  IN  UinfoShape(pages) /\ GetUinfo(pages) = << >>
<1> DEFINE pages == BlankUinfo(MaxInfo + 1)
           w == FlattenSeq([i \in DOMAIN pages |-> pages[i].cell])
<1>1. pages = [i \in 1 .. UPages |-> [len |-> 0, cell |-> [j \in 1 .. Room(i) |-> Junk]]]
  BY DEF BlankUinfo, UPages
<1>2. UinfoShape(pages)
  <2>1. Junk \in Chars
    BY DEF Chars
  <2>2. ASSUME NEW i \in 1 .. UPages
        PROVE  pages[i].len \in Nat /\ pages[i].cell \in [1 .. Room(i) -> Chars]
    <3>1. pages[i] = [len |-> 0, cell |-> [j \in 1 .. Room(i) |-> Junk]]
      BY <1>1
    <3>. QED BY <2>1, <3>1
  <2>. QED BY <1>1, <2>2 DEF UinfoShape
<1>3. pages[1].len = 0
  BY <1>1, UinfoRoom
<1>4. GetUinfo(pages) = SubSeq(w, 1, 0)
  BY <1>3 DEF GetUinfo
<1> HIDE DEF pages
<1>5. w \in Seq(Chars)
  BY <1>2, UinfoJoined
<1> HIDE DEF w
<1>6. Len(w) \in Nat
  BY <1>5, LenProperties
<1>7. SubSeq(w, 1, 0) \in Seq(Chars) /\ Len(SubSeq(w, 1, 0)) = 0
  BY <1>5, <1>6, SubSeqProperties
<1>8. SubSeq(w, 1, 0) = << >>
  BY <1>7, EmptySeq
<1>. QED BY <1>2, <1>4, <1>8 DEF pages


(***************************************************************************)
(* Configurations on their pages.  Record i is at position PosOf(i) of     *)
(* page PageOf(i).                                                         *)
(***************************************************************************)
ConfigRec == [config : Int, index : Int, inserted : 0 .. 1]

\* The records of a database whose configurations M are marked as inserted.
Confs(M) ==
  [i \in Indices |-> [NewConfig(i) EXCEPT !.inserted = IF i \in M THEN 1 ELSE 0]]

Layout(M) == SetConfigs(BlankConfigs(N), Confs(M))

PageOf(i) == (i - 1) \div ConfigsPerPage + 1
PosOf(i)  == ((i - 1) % ConfigsPerPage) + 1

CPages  == ConfigPages(N)
First(p) == (p - 1) * ConfigsPerPage
OnPage(p) == IF N - First(p) < ConfigsPerPage THEN N - First(p) ELSE ConfigsPerPage

LEMMA ConfsType ==
  ASSUME NEW M
  PROVE  /\ Confs(M) \in Seq(ConfigRec) /\ Len(Confs(M)) = N
         /\ \A i \in Indices :
              /\ Confs(M)[i] \in ConfigRec
              /\ Confs(M)[i] = [config |-> ConfigNums[i], index |-> i - 1,
                                inserted |-> IF i \in M THEN 1 ELSE 0]
<1>1. ASSUME NEW i \in Indices
      PROVE  /\ Confs(M)[i] = [config |-> ConfigNums[i], index |-> i - 1,
                               inserted |-> IF i \in M THEN 1 ELSE 0]
             /\ Confs(M)[i] \in ConfigRec
  <2>1. ConfigNums[i] \in Int /\ i \in Int
    BY StoreAssumption, ElementOfSeq DEF Indices, N
  <2>2. Confs(M)[i] = [config |-> ConfigNums[i], index |-> i - 1,
                       inserted |-> IF i \in M THEN 1 ELSE 0]
    BY DEF Confs, NewConfig
  <2>. QED BY <2>1, <2>2 DEF ConfigRec
<1>2. Confs(M) \in [1 .. N -> ConfigRec]
  BY <1>1, Sizes DEF Confs
<1> DEFINE c == Confs(M)
<1> HIDE DEF c
<1>3. c \in [1 .. N -> ConfigRec] /\ N \in Nat
  BY <1>2, Sizes DEF c
<1>4. c \in Seq(ConfigRec)
  BY <1>3, SeqDef
<1>5. Len(c) = N
  BY <1>3, <1>4, LenProperties
<1>. QED BY <1>1, <1>4, <1>5 DEF c

\* The fields of a record, and what marking a configuration changes.
LEMMA ConfsFields ==
  ASSUME NEW M, NEW i \in Indices
  PROVE  /\ Confs(M)[i].config = ConfigNums[i] /\ Confs(M)[i].index = i - 1
         /\ Confs(M)[i].inserted = IF i \in M THEN 1 ELSE 0
         /\ \A j \in Indices : j # i => Confs(M \cup {i})[j] = Confs(M)[j]
<1>1. Confs(M)[i] = [config |-> ConfigNums[i], index |-> i - 1,
                     inserted |-> IF i \in M THEN 1 ELSE 0]
  BY ConfsType
<1>2. ASSUME NEW j \in Indices, j # i PROVE Confs(M \cup {i})[j] = Confs(M)[j]
  BY <1>2 DEF Confs
<1>. QED BY <1>1, <1>2

\* Quotient and remainder are unique.
LEMMA QuotientUnique ==
  ASSUME NEW m \in Nat \ {0}, NEW q \in Nat, NEW r \in 0 .. m - 1
  PROVE  (q * m + r) \div m = q /\ (q * m + r) % m = r
<1>1. q * m + r \in Nat
  OBVIOUS
<1>. QED BY <1>1

\* The pages are just enough.
LEMMA ConfigRoom ==
  /\ CPages \in Nat /\ CPages >= 1
  /\ First(CPages) < N /\ N <= CPages * ConfigsPerPage
<1> DEFINE C == ConfigsPerPage
           K == CPages
           r == (N + C - 1) % C
<1>1. C \in Nat \ {0} /\ N \in Nat \ {0} /\ N + C - 1 \in Nat
  BY Sizes
<1>2. K \in Nat /\ r \in 0 .. C - 1 /\ N + C - 1 = C * K + r
  BY <1>1, Quotient DEF CPages, ConfigPages
<1> HIDE DEF C, K, r
<1>3. C * K = K * C /\ (K - 1) * C = K * C - C /\ K * C \in Nat
  BY <1>1, <1>2
<1>4. N <= K * C /\ (K - 1) * C < N
  BY <1>1, <1>2, <1>3
<1>5. K # 0
  <2>1. 0 * C = 0
    BY <1>1
  <2>. QED BY <1>1, <1>4, <2>1
<1>. QED BY <1>2, <1>4, <1>5 DEF K, C, First

\* Where a record is.
LEMMA PlaceOf ==
  ASSUME NEW i \in Indices
  PROVE  /\ PageOf(i) \in 1 .. CPages
         /\ PosOf(i) \in 1 .. ConfigsPerPage
         /\ PosOf(i) <= N - First(PageOf(i))
         /\ First(PageOf(i)) + PosOf(i) = i
<1> DEFINE C == ConfigsPerPage
           q == (i - 1) \div C
           r == (i - 1) % C
<1>1. C \in Nat \ {0} /\ i \in Nat /\ i >= 1 /\ i <= N /\ N \in Nat /\ i - 1 \in Nat
  BY Sizes
<1>2. q \in Nat /\ r \in 0 .. C - 1 /\ i - 1 = C * q + r
  BY <1>1, Quotient
<1>3. PageOf(i) = q + 1 /\ PosOf(i) = r + 1 /\ First(q + 1) = ((q + 1) - 1) * C
  BY DEF PageOf, PosOf, First
<1> DEFINE K == CPages
<1>4. K \in Nat /\ N <= K * C
  BY ConfigRoom
<1> HIDE DEF q, r, C, K
<1>5. First(q + 1) = C * q /\ C * q \in Nat
  BY <1>1, <1>2, <1>3
<1>6. ASSUME q >= K PROVE FALSE
  <2>1. K * C <= C * q
    BY <1>1, <1>2, <1>4, <1>6
  <2>2. K * C \in Nat
    BY <1>1, <1>4
  <2>. QED BY <1>1, <1>2, <1>4, <1>5, <2>1, <2>2
<1>7. q + 1 \in 1 .. K
  BY <1>2, <1>4, <1>6
<1>. QED BY <1>1, <1>2, <1>3, <1>5, <1>7 DEF C, K

\* What is on a page.
LEMMA LayoutPage ==
  ASSUME NEW M, NEW p \in 1 .. CPages
  PROVE  /\ OnPage(p) \in 1 .. ConfigsPerPage /\ First(p) \in Nat
         /\ First(p) + OnPage(p) <= N
         /\ Layout(M)[p] \in Seq(ConfigRec) /\ Len(Layout(M)[p]) = OnPage(p)
         /\ \A q \in 1 .. OnPage(p) :
              First(p) + q \in Indices /\ Layout(M)[p][q] = Confs(M)[First(p) + q]
<1> DEFINE C == ConfigsPerPage
           K == CPages
           f == First(p)
           l == OnPage(p)
           c == Confs(M)
<1>1. C \in Nat \ {0} /\ N \in Nat /\ K \in Nat /\ p \in Nat /\ p >= 1 /\ p <= K
      /\ (K - 1) * C < N
  BY Sizes, ConfigRoom DEF First
<1>2. f = (p - 1) * C /\ l = IF N - f < C THEN N - f ELSE C
  BY DEF First, OnPage
<1> HIDE DEF C, K, f, l
<1>3. f \in Nat /\ f < N
  <2>1. (p - 1) * C \in Nat /\ (p - 1) * C <= (K - 1) * C
    BY <1>1
  <2>2. (K - 1) * C \in Nat
    BY <1>1
  <2>. QED BY <1>1, <1>2, <2>1, <2>2
<1>4. l \in 1 .. C /\ f + l <= N
  BY <1>1, <1>2, <1>3
<1>5. c \in Seq(ConfigRec) /\ Len(c) = N
  BY ConfsType
<1>6. DOMAIN BlankConfigs(N) = 1 .. K
  BY DEF BlankConfigs, K, CPages
<1>7. Layout(M)[p] = SubSeq(c, f + 1, f + l)
  <2>1. Layout(M)[p] =
          SubSeq(c, (p - 1) * C + 1,
                 (p - 1) * C + (IF Len(c) - (p - 1) * C < C
                                THEN Len(c) - (p - 1) * C ELSE C))
    BY <1>6 DEF Layout, SetConfigs, C, K
  <2>. QED BY <1>2, <1>5, <2>1
<1> HIDE DEF c
<1>8. /\ SubSeq(c, f + 1, f + l) \in Seq(ConfigRec)
      /\ Len(SubSeq(c, f + 1, f + l)) = l
      /\ \A q \in 1 .. l : SubSeq(c, f + 1, f + l)[q] = c[f + q]
  <2>1. \A j \in f + 1 .. f + l : c[j] \in ConfigRec
    BY <1>3, <1>4, <1>5, ElementOfSeq, Sizes
  <2> DEFINE a == f + 1
             e == f + l
  <2>2. a \in Int /\ e \in Int /\ a <= e /\ (e - a) + 1 = l
    BY <1>3, <1>4
  <2>3. \A q \in 1 .. l : (a + q) - 1 = f + q
    BY <1>3, <1>4
  <2> HIDE DEF a, e
  <2>4. /\ SubSeq(c, a, e) \in Seq(ConfigRec)
        /\ Len(SubSeq(c, a, e)) = IF a <= e THEN (e - a) + 1 ELSE 0
        /\ \A q \in 1 .. (e - a) + 1 : SubSeq(c, a, e)[q] = c[(a + q) - 1]
    BY <2>1, <2>2, SubSeqProperties DEF a, e
  <2>. QED BY <2>2, <2>3, <2>4 DEF a, e
<1>9. \A q \in 1 .. l : f + q \in 1 .. N
  BY <1>1, <1>3, <1>4
<1>. QED BY <1>3, <1>4, <1>7, <1>8, <1>9, Sizes DEF f, l, c, C


LEMMA OnPageFits ==
  ASSUME NEW p \in 1 .. CPages
  PROVE  \A t \in 1 .. OnPage(p) : t \in 1 .. ConfigsPerPage
<1>1. OnPage(p) \in 1 .. ConfigsPerPage /\ ConfigsPerPage \in Nat
  BY LayoutPage, Sizes
<1>. QED BY <1>1

LEMMA LayoutPages ==
  ASSUME NEW M
  PROVE  /\ DOMAIN Layout(M) = 1 .. CPages
         /\ Layout(M) = [p \in 1 .. CPages |-> Layout(M)[p]]
         /\ Layout(M) \in Seq(Seq(ConfigRec)) /\ Len(Layout(M)) = CPages
         /\ Layout(M) # << >>
<1>1. /\ DOMAIN Layout(M) = 1 .. CPages
      /\ Layout(M) = [p \in 1 .. CPages |-> Layout(M)[p]]
  BY DEF Layout, SetConfigs, BlankConfigs, CPages
<1> DEFINE L == Layout(M)
           K == CPages
<1>2. \A p \in 1 .. K : L[p] \in Seq(ConfigRec)
  BY LayoutPage
<1>3. K \in Nat /\ K >= 1
  BY ConfigRoom
<1>4. L = [p \in 1 .. K |-> L[p]]
  BY <1>1
<1> HIDE DEF L, K
<1>5. L \in [1 .. K -> Seq(ConfigRec)]
  BY <1>2, <1>4
<1>6. L \in Seq(Seq(ConfigRec))
  BY <1>3, <1>5, SeqDef
<1>7. Len(L) = K
  BY <1>3, <1>5, <1>6, LenProperties
<1>8. L # << >>
  BY <1>3, <1>6, <1>7, EmptySeq
<1>. QED BY <1>1, <1>6, <1>7, <1>8 DEF L, K

\* ffdb_get_configs returns the records in their order.
LEMMA GetLayout ==
  ASSUME NEW M
  PROVE  GetConfigs(Layout(M)) = Confs(M)
<1> DEFINE L == Layout(M)
           K == CPages
           C == ConfigsPerPage
           off == [p \in 1 .. K + 1 |-> IF p = K + 1 THEN N ELSE First(p)]
<1>1. L \in Seq(Seq(ConfigRec)) /\ Len(L) = K
  BY LayoutPages
<1>2. K \in Nat /\ K >= 1 /\ N \in Nat /\ C \in Nat \ {0} /\ N <= K * C /\ First(K) < N
  BY ConfigRoom, Sizes
<1>3. ASSUME NEW p \in 1 .. K
      PROVE  /\ First(p) \in Nat /\ Len(L[p]) = OnPage(p) /\ OnPage(p) \in Nat
             /\ First(p) + OnPage(p) <= N
             /\ \A q \in 1 .. OnPage(p) : L[p][q] = Confs(M)[First(p) + q]
  BY LayoutPage, Sizes
<1>4. ASSUME NEW p \in 1 .. K
      PROVE  (IF p + 1 = K + 1 THEN N ELSE First(p + 1)) = First(p) + OnPage(p)
  <2>1. First(p) = (p - 1) * C /\ First(p + 1) = ((p + 1) - 1) * C
        /\ OnPage(p) = IF N - First(p) < C THEN N - First(p) ELSE C
    BY DEF First, OnPage
  <2>2. ((p + 1) - 1) * C = (p - 1) * C + C
    BY <1>2
  <2>3. CASE p = K
    <3>1. N - First(p) <= C
      BY <1>2, <1>3, <2>1, <2>2, <2>3
    <3>2. OnPage(p) = N - First(p)
      BY <1>2, <1>3, <2>1, <3>1
    <3>. QED BY <1>2, <1>3, <2>3, <3>2
  <2>4. CASE p # K
    <3>1. p <= K - 1 /\ First(K) = (K - 1) * C
      BY <1>2, <2>4 DEF First
    <3>2. p * C <= (K - 1) * C
      BY <1>2, <3>1
    <3>3. First(p + 1) <= First(K) /\ First(p + 1) = First(p) + C
      BY <1>2, <1>3, <2>1, <2>2, <3>1, <3>2, SMTT(30)
    <3>4. ~(N - First(p) < C)
      BY <1>2, <1>3, <3>1, <3>2, <3>3, SMTT(30)
    <3>. QED BY <1>2, <2>1, <2>4, <3>3, <3>4
  <2>. QED BY <2>3, <2>4
<1>5. off[1] = 0
  <2>1. 1 \in 1 .. K + 1 /\ 1 # K + 1 /\ First(1) = (1 - 1) * C
    BY <1>2 DEF First
  <2>2. (1 - 1) * C = 0
    BY <1>2
  <2>. QED BY <2>1, <2>2
<1>6. off \in [1 .. K + 1 -> Nat]
  <2>1. ASSUME NEW p \in 1 .. K + 1 PROVE (IF p = K + 1 THEN N ELSE First(p)) \in Nat
    <3>1. p = K + 1 \/ p \in 1 .. K
      BY <1>2
    <3>. QED BY <1>2, <1>3, <3>1
  <2>. QED BY <2>1
<1>7. ASSUME NEW p \in 1 .. K
      PROVE  off[p] = First(p) /\ off[p + 1] = First(p) + OnPage(p)
  <2>1. p \in 1 .. K + 1 /\ p + 1 \in 1 .. K + 1 /\ p # K + 1
    BY <1>2
  <2>2. off[p + 1] = IF p + 1 = K + 1 THEN N ELSE First(p + 1)
    BY <2>1
  <2>. QED BY <1>4, <2>1, <2>2
<1>8. off[K + 1] = N
  BY <1>2
<1> HIDE DEF L, K, off
<1>9. Cuts(ConfigRec, L, off)
  BY <1>1, <1>3, <1>5, <1>6, <1>7 DEF Cuts
<1>10. Confs(M) \in Seq(ConfigRec) /\ Len(Confs(M)) = N
  BY ConfsType
<1>11. Spells(Confs(M), L, off)
  <2>1. ASSUME NEW p \in 1 .. K, NEW q \in 1 .. Len(L[p])
        PROVE  Confs(M)[off[p] + q] = L[p][q]
    BY <1>3, <1>7
  <2>. QED BY <1>1, <1>8, <1>10, <2>1 DEF Spells
<1>12. FlattenSeq(L) = Confs(M)
  BY <1>9, <1>10, <1>11, FlattenIs
<1>. QED BY <1>12 DEF GetConfigs, L

\* The record at a position of a page.
LEMMA PlaceBack ==
  ASSUME NEW p \in Nat \ {0}, NEW q \in 1 .. ConfigsPerPage
  PROVE  PageOf(First(p) + q) = p /\ PosOf(First(p) + q) = q
<1> DEFINE C == ConfigsPerPage
           i == First(p) + q
           n == p - 1
           r == q - 1
<1>1. C \in Nat \ {0} /\ n \in Nat /\ r \in 0 .. C - 1
  BY Sizes
<1>2. First(p) = n * C /\ n * C \in Nat
  BY <1>1 DEF First
<1>3. i - 1 = n * C + r
  BY <1>1, <1>2
<1>4. PageOf(i) = (i - 1) \div C + 1 /\ PosOf(i) = ((i - 1) % C) + 1
  BY DEF PageOf, PosOf
<1>5. n + 1 = p /\ r + 1 = q
  BY Sizes
<1> HIDE DEF C, i, n, r
<1>6. (n * C + r) \div C = n /\ (n * C + r) % C = r
  BY <1>1, QuotientUnique
<1>7. PageOf(i) = n + 1 /\ PosOf(i) = r + 1
  BY <1>3, <1>4, <1>6
<1>. QED BY <1>5, <1>7 DEF i

\* The entries of the pages are the records, each at its place.
LEMMA LayoutEntries ==
  ASSUME NEW M
  PROVE  /\ \A x \in Entries(Layout(M)) :
              \E i \in Indices : /\ x = <<PageOf(i), PosOf(i)>>
                                 /\ Entry(Layout(M), x) = Confs(M)[i]
         /\ \A i \in Indices : <<PageOf(i), PosOf(i)>> \in Entries(Layout(M))
<1> DEFINE L == Layout(M)
           C == ConfigsPerPage
<1>1. ASSUME NEW p \in 1 .. CPages
      PROVE  DOMAIN L[p] = 1 .. OnPage(p) /\ L[p] \in Seq(ConfigRec)
  BY LayoutPage, LenProperties
<1>2. DOMAIN L = 1 .. CPages
  BY LayoutPages
<1>3. ASSUME NEW x \in Entries(L)
      PROVE  \E i \in Indices : x = <<PageOf(i), PosOf(i)>> /\ Entry(L, x) = Confs(M)[i]
  <2>1. PICK p \in 1 .. CPages, q \in 1 .. C : x = <<p, q>> /\ q \in DOMAIN L[p]
    BY <1>2 DEF Entries
  <2>2. q \in 1 .. OnPage(p)
    BY <1>1, <2>1
  <2> DEFINE i == First(p) + q
  <2>3. i \in Indices /\ L[p][q] = Confs(M)[i] /\ First(p) \in Nat
    BY <2>2, LayoutPage
  <2>4. PageOf(i) = p /\ PosOf(i) = q
    BY PlaceBack, ConfigRoom
  <2>5. Entry(L, x) = L[p][q]
    BY <2>1 DEF Entry
  <2>. QED BY <2>1, <2>3, <2>4, <2>5
<1>4. ASSUME NEW i \in Indices PROVE <<PageOf(i), PosOf(i)>> \in Entries(L)
  <2>1. /\ PageOf(i) \in 1 .. CPages /\ PosOf(i) \in 1 .. C
        /\ PosOf(i) <= N - First(PageOf(i))
    BY PlaceOf
  <2>2. PosOf(i) \in 1 .. OnPage(PageOf(i))
    BY <2>1 DEF OnPage
  <2>3. PosOf(i) \in DOMAIN L[PageOf(i)]
    BY <1>1, <2>1, <2>2
  <2>. QED BY <1>2, <2>1, <2>3 DEF Entries
<1>. QED BY <1>3, <1>4


\* The loops over the pages find the one record there is.
LEMMA OnlyMatch == ASSUME NEW a \in Nat, NEW b \in Nat PROVE FirstMatch({<<a, b>>}) = <<a, b>>
<1> DEFINE P(x) == \A y \in {<<a, b>>} : x[1] < y[1] \/ (x[1] = y[1] /\ x[2] <= y[2])
<1>1. P(<<a, b>>)
  OBVIOUS
<1> HIDE DEF P
<1>2. (CHOOSE x \in {<<a, b>>} : P(x)) = <<a, b>>
  BY <1>1
<1>. QED BY <1>2 DEF FirstMatch, P

\* ffdb_set_config_info marks the configuration whose number and index it is
\* given, and finds none when they do not belong together.
LEMMA SetLayout ==
  ASSUME NEW M, NEW i \in Nat \ {0}, NEW num,
         NEW c, c = [config |-> num, index |-> i - 1, inserted |-> 1]
  PROVE  /\ i \in Indices /\ num = ConfigNums[i]
              => SetConfigInfo(Layout(M), c) = Layout(M \cup {i})
         /\ ~(i \in Indices /\ num = ConfigNums[i])
              => SetConfigInfo(Layout(M), c) = << >>
<1> DEFINE L == Layout(M)
           S == {x \in Entries(L) : /\ Entry(L, x).index = c.index
                                    /\ Entry(L, x).config = c.config}
<1>1. \A j \in Indices : Confs(M)[j].index = j - 1 /\ Confs(M)[j].config = ConfigNums[j]
  <2>1. ASSUME NEW j \in Indices
        PROVE  Confs(M)[j].index = j - 1 /\ Confs(M)[j].config = ConfigNums[j]
    BY ConfsFields, ZenonT(40)
  <2>. QED BY <2>1
<1>2. c.index = i - 1 /\ c.config = num
  OBVIOUS
<1>3. ASSUME NEW x \in S
      PROVE  i \in Indices /\ num = ConfigNums[i] /\ x = <<PageOf(i), PosOf(i)>>
  <2>1. PICK j \in Indices : x = <<PageOf(j), PosOf(j)>> /\ Entry(L, x) = Confs(M)[j]
    BY LayoutEntries
  <2>2. j - 1 = i - 1 /\ ConfigNums[j] = num
    BY <1>1, <1>2, <2>1
  <2>3. j = i
    BY <2>2, Sizes
  <2>. QED BY <2>1, <2>2, <2>3
<1>4. SetConfigInfo(L, c) = IF S = {} THEN << >>
                            ELSE [L EXCEPT ![FirstMatch(S)[1]][FirstMatch(S)[2]] = c]
  BY DEF SetConfigInfo
<1>5. ~(i \in Indices /\ num = ConfigNums[i]) => SetConfigInfo(L, c) = << >>
  BY <1>3, <1>4
<1>6. ASSUME i \in Indices, num = ConfigNums[i]
      PROVE  SetConfigInfo(L, c) = Layout(M \cup {i})
  <2> DEFINE p == PageOf(i)
             q == PosOf(i)
             R == Layout(M \cup {i})
  <2>1. p \in 1 .. CPages /\ q \in 1 .. OnPage(p) /\ First(p) + q = i /\ p \in Nat /\ q \in Nat
    BY <1>6, PlaceOf, ConfigRoom, Sizes DEF OnPage
  <2>2. <<p, q>> \in S
    <3>1. <<p, q>> \in Entries(L)
      BY <1>6, LayoutEntries
    <3>2. Entry(L, <<p, q>>) = Confs(M)[i]
      BY <2>1, LayoutPage DEF Entry
    <3>. QED BY <1>1, <1>2, <1>6, <3>1, <3>2
  <2>3. S = {<<p, q>>}
    BY <1>3, <2>2
  <2> HIDE DEF S, p, q
  <2>4. SetConfigInfo(L, c) = [L EXCEPT ![p][q] = c]
    <3>1. FirstMatch(S)[1] = p /\ FirstMatch(S)[2] = q
      BY <2>1, <2>3, OnlyMatch
    <3>. QED BY <1>4, <2>2, <3>1
  <2>5. ASSUME NEW r \in 1 .. CPages PROVE [L EXCEPT ![p][q] = c][r] = R[r]
    <3>1. /\ L[r] \in Seq(ConfigRec) /\ Len(L[r]) = OnPage(r)
          /\ R[r] \in Seq(ConfigRec) /\ Len(R[r]) = OnPage(r)
          /\ \A t \in 1 .. OnPage(r) : /\ First(r) + t \in Indices
                                       /\ L[r][t] = Confs(M)[First(r) + t]
                                       /\ R[r][t] = Confs(M \cup {i})[First(r) + t]
      BY LayoutPage
    <3>2. \A j \in Indices : j # i => Confs(M \cup {i})[j] = Confs(M)[j]
      BY <1>6, ConfsFields
    <3>3. Confs(M \cup {i})[i] = c /\ c \in ConfigRec
      BY <1>6, ConfsType
    <3>4. CASE r # p
      <4>1. \A t \in 1 .. OnPage(r) : First(r) + t # i
        <5>1. r \in Nat \ {0} /\ p \in Nat \ {0}
          BY <2>1, ConfigRoom
        <5>2. \A t \in 1 .. OnPage(r) : t \in 1 .. ConfigsPerPage
          BY OnPageFits
        <5>3. \A t \in 1 .. OnPage(r) : PageOf(First(r) + t) = r
          BY <5>1, <5>2, PlaceBack
        <5>. QED BY <3>4, <5>3 DEF p
      <4>2. L[r] = R[r]
        <5>1. \A t \in 1 .. OnPage(r) : L[r][t] = R[r][t]
          BY <3>1, <3>2, <4>1
        <5> DEFINE a == L[r]
                   b == R[r]
        <5> HIDE DEF a, b
        <5>2. a \in Seq(ConfigRec) /\ b \in Seq(ConfigRec) /\ Len(a) = Len(b)
              /\ \A t \in 1 .. Len(a) : a[t] = b[t]
          BY <3>1, <5>1 DEF a, b
        <5>3. a = b
          BY <5>2, SeqEqual
        <5>. QED BY <5>3 DEF a, b
      <4>3. [L EXCEPT ![p][q] = c][r] = L[r]
        BY <3>4, LayoutPages
      <4>. QED BY <4>2, <4>3
    <3>5. CASE r = p
      <4>1. [L EXCEPT ![p][q] = c][r] = [L[p] EXCEPT ![q] = c]
        BY <3>5, LayoutPages
      <4> DEFINE d == [L[p] EXCEPT ![q] = c]
      <4>2. q \in 1 .. Len(L[p]) /\ L[p] \in Seq(ConfigRec)
        BY <2>1, <3>1, <3>5
      <4>3. /\ d \in Seq(ConfigRec) /\ Len(d) = OnPage(p)
            /\ \A t \in 1 .. OnPage(p) : d[t] = IF t = q THEN c ELSE L[p][t]
        BY <3>1, <3>3, <3>5, <4>2, ExceptSeq
      <4> HIDE DEF d
      <4>4. \A t \in 1 .. OnPage(p) : t # q => First(p) + t # i
        <5>1. p \in Nat \ {0} /\ \A t \in 1 .. OnPage(p) : t \in 1 .. ConfigsPerPage
          BY <2>1, OnPageFits
        <5>2. \A t \in 1 .. OnPage(p) : PosOf(First(p) + t) = t
          BY <5>1, PlaceBack
        <5>. QED BY <5>2 DEF q
      <4>5. \A t \in 1 .. OnPage(p) : d[t] = R[p][t]
        <5>1. ASSUME NEW t \in 1 .. OnPage(p) PROVE d[t] = R[p][t]
          <6>1. First(p) + t \in Indices /\ L[p][t] = Confs(M)[First(p) + t]
                /\ R[p][t] = Confs(M \cup {i})[First(p) + t]
            BY <3>1, <3>5
          <6>2. CASE t = q
            BY <2>1, <3>3, <4>3, <6>1, <6>2
          <6>3. CASE t # q
            BY <3>2, <4>3, <4>4, <6>1, <6>3
          <6>. QED BY <6>2, <6>3
        <5>. QED BY <5>1
      <4>6. d = R[p]
        BY <3>1, <3>5, <4>3, <4>5, SeqEqual
      <4>. QED BY <3>5, <4>1, <4>6 DEF d
    <3>. QED BY <3>4, <3>5
  <2>6. [L EXCEPT ![p][q] = c] = [r \in 1 .. CPages |-> [L EXCEPT ![p][q] = c][r]]
    BY LayoutPages
  <2>7. R = [r \in 1 .. CPages |-> R[r]]
    BY LayoutPages
  <2>8. [L EXCEPT ![p][q] = c] = R
    <3> DEFINE X == [L EXCEPT ![p][q] = c]
    <3> HIDE DEF X, R
    <3>1. X = [r \in 1 .. CPages |-> X[r]] /\ \A r \in 1 .. CPages : X[r] = R[r]
      BY <2>5, <2>6 DEF X
    <3>2. X = [r \in 1 .. CPages |-> R[r]]
      BY <3>1
    <3>. QED BY <2>7, <3>2 DEF X
  <2>. QED BY <2>4, <2>8
<1>. QED BY <1>5, <1>6

\* The numbers of the configurations differ.
DistinctConfigs == \A i, j \in Indices : ConfigNums[i] = ConfigNums[j] => i = j

\* ffdb_get_config_info finds the record with a number.
LEMMA GetInfoLayout ==
  ASSUME DistinctConfigs, NEW M, NEW i \in Indices
  PROVE  GetConfigInfo(Layout(M), ConfigNums[i]) = <<Confs(M)[i]>>
<1> DEFINE L == Layout(M)
           p == PageOf(i)
           q == PosOf(i)
           S == {x \in Entries(L) : Entry(L, x).config = ConfigNums[i]}
<1>1. \A j \in Indices : Confs(M)[j].config = ConfigNums[j]
  BY ConfsFields
<1>2. ASSUME NEW x \in S PROVE x = <<p, q>> /\ Entry(L, x) = Confs(M)[i]
  <2>1. PICK j \in Indices : x = <<PageOf(j), PosOf(j)>> /\ Entry(L, x) = Confs(M)[j]
    BY LayoutEntries
  <2>2. j = i
    BY <1>1, <2>1 DEF DistinctConfigs
  <2>. QED BY <2>1, <2>2
<1>3. p \in Nat /\ q \in Nat /\ p \in 1 .. CPages /\ q \in 1 .. OnPage(p)
      /\ First(p) + q = i
  BY PlaceOf, ConfigRoom, Sizes DEF OnPage
<1>4. <<p, q>> \in S
  <2>1. <<p, q>> \in Entries(L)
    BY LayoutEntries
  <2>2. Entry(L, <<p, q>>) = Confs(M)[i]
    BY <1>3, LayoutPage DEF Entry
  <2>. QED BY <1>1, <2>1, <2>2
<1>5. S = {<<p, q>>}
  BY <1>2, <1>4
<1>6. GetConfigInfo(L, ConfigNums[i]) =
        IF S = {} THEN << >> ELSE <<Entry(L, FirstMatch(S))>>
  BY DEF GetConfigInfo
<1> HIDE DEF S, p, q
<1>7. FirstMatch(S) = <<p, q>>
  BY <1>3, <1>5, OnlyMatch
<1>8. Entry(L, <<p, q>>) = Confs(M)[i]
  BY <1>2, <1>4
<1>. QED BY <1>4, <1>6, <1>7, <1>8


(***************************************************************************)
(* Ensembles as strings.                                                   *)
(***************************************************************************)
ByteSet == Values \X Nat

\* An ensemble: one datum for each configuration, all of one size.
Ensemble(vec) ==
  /\ vec \in Seq(Values) /\ Len(vec) = N
  /\ \A i \in Indices : Size[vec[i]] = Size[vec[1]]

\* w has the bytes of datum i of vec from (i - 1) * z + 1 on.
Written(w, vec, z) ==
  /\ w \in Seq(ByteSet) /\ Len(w) = N * z
  /\ \A i \in Indices : \A j \in 1 .. z : w[(i - 1) * z + j] = <<vec[i], j>>

ZOff(z) == [i \in 1 .. N + 1 |-> (i - 1) * z]

LEMMA EnsembleType ==
  ASSUME NEW vec, Ensemble(vec)
  PROVE  /\ Size[vec[1]] \in Nat \ {0} /\ DOMAIN vec = Indices
         /\ \A i \in Indices : vec[i] \in Values /\ Size[vec[i]] = Size[vec[1]]
<1>1. DOMAIN vec = Indices /\ \A i \in Indices : vec[i] \in Values
  BY LenProperties, ElementOfSeq, Sizes DEF Ensemble
<1>2. Size[vec[1]] \in Nat \ {0}
  BY <1>1, StoreAssumption, Sizes
<1>. QED BY <1>1, <1>2 DEF Ensemble

LEMMA ZOffsets ==
  ASSUME NEW z \in Nat
  PROVE  /\ ZOff(z) \in [1 .. N + 1 -> Nat] /\ ZOff(z)[1] = 0 /\ ZOff(z)[N + 1] = N * z
         /\ \A i \in 1 .. N : /\ ZOff(z)[i] = (i - 1) * z
                              /\ ZOff(z)[i + 1] = ZOff(z)[i] + z
<1>1. N \in Nat
  BY Sizes
<1>2. \A i \in 1 .. N + 1 : (i - 1) * z \in Nat
  BY <1>1
<1>3. 1 \in 1 .. N + 1 /\ N + 1 \in 1 .. N + 1 /\ (1 - 1) * z = 0 /\ ((N + 1) - 1) * z = N * z
  BY <1>1
<1>4. ASSUME NEW i \in 1 .. N
      PROVE  i \in 1 .. N + 1 /\ i + 1 \in 1 .. N + 1 /\ ((i + 1) - 1) * z = (i - 1) * z + z
  BY <1>1
<1>. QED BY <1>2, <1>3, <1>4 DEF ZOff

\* The vector of strings that Concat joins.
LEMMA ConcatCuts ==
  ASSUME NEW vec, Ensemble(vec)
  PROVE  LET s == [i \in DOMAIN vec |-> Bytes(vec[i])]
             z == Size[vec[1]]
         IN  /\ Cuts(ByteSet, s, ZOff(z)) /\ Len(s) = N
             /\ \A i \in Indices : /\ s[i] = Bytes(vec[i]) /\ Len(s[i]) = z
                                   /\ \A j \in 1 .. z : s[i][j] = <<vec[i], j>>
<1> DEFINE s == [i \in DOMAIN vec |-> Bytes(vec[i])]
           z == Size[vec[1]]
<1>1. z \in Nat /\ DOMAIN vec = Indices
      /\ \A i \in Indices : vec[i] \in Values /\ Size[vec[i]] = z
  BY EnsembleType
<1>2. N \in Nat /\ Indices = 1 .. N
  BY Sizes
<1> HIDE DEF z
<1>3. ASSUME NEW i \in Indices
      PROVE  /\ s[i] = Bytes(vec[i]) /\ s[i] \in Seq(ByteSet) /\ Len(s[i]) = z
             /\ \A j \in 1 .. z : s[i][j] = <<vec[i], j>>
  <2> DEFINE b == [j \in 1 .. z |-> <<vec[i], j>>]
  <2>1. s[i] = Bytes(vec[i]) /\ Bytes(vec[i]) = b
    BY <1>1 DEF Bytes
  <2>2. b \in [1 .. z -> ByteSet] /\ \A j \in 1 .. z : b[j] = <<vec[i], j>>
    BY <1>1 DEF ByteSet
  <2> HIDE DEF b
  <2>3. b \in Seq(ByteSet)
    BY <1>1, <2>2, SeqDef
  <2>4. Len(b) = z
    BY <1>1, <2>2, <2>3, LenProperties
  <2>. QED BY <2>1, <2>2, <2>3, <2>4
<1>4. s \in [1 .. N -> Seq(ByteSet)]
  BY <1>1, <1>2, <1>3
<1> HIDE DEF s
<1>5. s \in Seq(Seq(ByteSet))
  BY <1>2, <1>4, SeqDef
<1>6. Len(s) = N
  BY <1>2, <1>4, <1>5, LenProperties
<1>7. Cuts(ByteSet, s, ZOff(z))
  BY <1>1, <1>2, <1>3, <1>5, <1>6, ZOffsets, ZenonT(40) DEF Cuts
<1>. QED BY <1>3, <1>6, <1>7 DEF s, z

\* Concat writes every datum at its place.
LEMMA ConcatWritten ==
  ASSUME NEW vec, Ensemble(vec)
  PROVE  Written(Concat(vec), vec, Size[vec[1]])
<1> DEFINE s == [i \in DOMAIN vec |-> Bytes(vec[i])]
           z == Size[vec[1]]
           w == Concat(vec)
<1>1. /\ Cuts(ByteSet, s, ZOff(z)) /\ Len(s) = N
      /\ \A i \in Indices : /\ Len(s[i]) = z
                            /\ \A j \in 1 .. z : s[i][j] = <<vec[i], j>>
  BY ConcatCuts
<1>2. z \in Nat
  BY EnsembleType
<1>3. w = FlattenSeq(s)
  BY DEF Concat
<1> HIDE DEF s, z, w
<1>4. w \in Seq(ByteSet) /\ Spells(w, s, ZOff(z))
  BY <1>1, <1>3, FlattenSpells
<1>5. Len(w) = N * z
  BY <1>1, <1>2, <1>4, ZOffsets DEF Spells
<1>6. ASSUME NEW i \in Indices, NEW j \in 1 .. z PROVE w[(i - 1) * z + j] = <<vec[i], j>>
  <2>1. w[ZOff(z)[i] + j] = s[i][j]
    BY <1>1, <1>4, Sizes DEF Spells
  <2>2. ZOff(z)[i] = (i - 1) * z
    BY <1>2, ZOffsets, Sizes
  <2>. QED BY <1>1, <2>1, <2>2
<1>. QED BY <1>4, <1>5, <1>6 DEF Written, w, z

\* A string with every datum at its place is what Concat writes.
LEMMA WrittenIsConcat ==
  ASSUME NEW vec, Ensemble(vec), NEW w, Written(w, vec, Size[vec[1]])
  PROVE  w = Concat(vec)
<1> DEFINE s == [i \in DOMAIN vec |-> Bytes(vec[i])]
           z == Size[vec[1]]
<1>1. /\ Cuts(ByteSet, s, ZOff(z)) /\ Len(s) = N
      /\ \A i \in Indices : /\ Len(s[i]) = z
                            /\ \A j \in 1 .. z : s[i][j] = <<vec[i], j>>
  BY ConcatCuts
<1>2. z \in Nat
  BY EnsembleType
<1>3. /\ w \in Seq(ByteSet) /\ Len(w) = N * z
      /\ \A i \in Indices : \A j \in 1 .. z : w[(i - 1) * z + j] = <<vec[i], j>>
  BY DEF Written
<1>4. Concat(vec) = FlattenSeq(s)
  BY DEF Concat
<1> HIDE DEF s, z
<1>5. Spells(w, s, ZOff(z))
  <2>1. ASSUME NEW i \in 1 .. N, NEW j \in 1 .. Len(s[i]) PROVE w[ZOff(z)[i] + j] = s[i][j]
    <3>1. i \in Indices /\ j \in 1 .. z
      BY <1>1, Sizes
    <3>2. w[(i - 1) * z + j] = <<vec[i], j>> /\ s[i][j] = <<vec[i], j>>
      BY <1>1, <1>3, <3>1
    <3>3. ZOff(z)[i] = (i - 1) * z
      BY <1>2, ZOffsets
    <3>. QED BY <3>2, <3>3
  <2>2. Len(w) = ZOff(z)[N + 1]
    BY <1>2, <1>3, ZOffsets
  <2>. QED BY <1>1, <2>1, <2>2 DEF Spells
<1>. QED BY <1>1, <1>3, <1>4, <1>5, FlattenIs


\* Every place of a string is that of a byte of a datum.
LEMMA ByteAt ==
  ASSUME NEW z \in Nat \ {0}, NEW p \in 1 .. N * z
  PROVE  \E i \in Indices : \E j \in 1 .. z : p = (i - 1) * z + j
<1>1. Begins(N, ZOff(z))
  <2>1. \A i \in 1 .. N : ZOff(z)[i] <= ZOff(z)[i + 1]
    <3>1. ASSUME NEW i \in 1 .. N PROVE ZOff(z)[i] <= ZOff(z)[i + 1]
      <4>1. ZOff(z)[i + 1] = ZOff(z)[i] + z /\ ZOff(z)[i] \in Nat
        <5>1. N \in Nat
          BY Sizes
        <5>. QED BY <5>1, ZOffsets
      <4>. QED BY <4>1
    <3>. QED BY <3>1
  <2>. QED BY <2>1, ZOffsets, Sizes DEF Begins
<1>2. p \in 1 .. ZOff(z)[N + 1]
  BY ZOffsets
<1>3. PICK i \in 1 .. N : ZOff(z)[i] < p /\ p <= ZOff(z)[i + 1]
  BY <1>1, <1>2, OffsetsCover
<1>4. ZOff(z)[i] = (i - 1) * z /\ ZOff(z)[i + 1] = ZOff(z)[i] + z
  BY ZOffsets
<1>5. N \in Nat /\ i \in Indices /\ p \in Nat
  BY Sizes
<1> DEFINE o == (i - 1) * z
           j == p - o
<1>6. o \in Nat /\ o < p /\ p <= o + z
  BY <1>3, <1>4, <1>5
<1> HIDE DEF o
<1>7. j \in 1 .. z /\ p = o + j
  BY <1>5, <1>6
<1>. QED BY <1>5, <1>7 DEF o

\* Cutting the string of an ensemble every z bytes gives its data.
LEMMA PiecesOfConcat ==
  ASSUME NEW vec, Ensemble(vec)
  PROVE  LET z == Size[vec[1]]
             w == Concat(vec)
         IN  /\ w \in Seq(ByteSet)
             /\ Len(w) = N * z /\ Len(w) \div N = z /\ Len(w) % N = 0
             /\ Pieces(w, z) = [i \in Indices |-> Bytes(vec[i])]
<1> DEFINE z == Size[vec[1]]
           w == Concat(vec)
<1>1. z \in Nat \ {0} /\ \A i \in Indices : vec[i] \in Values /\ Size[vec[i]] = z
  BY EnsembleType
<1>2. N \in Nat \ {0} /\ Indices = 1 .. N
  BY Sizes
<1>3. /\ w \in Seq(ByteSet) /\ Len(w) = N * z
      /\ \A i \in Indices : \A j \in 1 .. z : w[(i - 1) * z + j] = <<vec[i], j>>
  BY ConcatWritten DEF Written
<1> HIDE DEF z, w
<1>4. Len(w) \div z = N /\ Len(w) \div N = z /\ Len(w) % N = 0
  <2>1. N * z = z * N
    BY <1>1, <1>2
  <2>. QED BY <1>1, <1>2, <1>3, <2>1, ExactQuotient
<1>5. ASSUME NEW i \in Indices
      PROVE  SubSeq(w, (i - 1) * z + 1, i * z) = Bytes(vec[i])
  <2> DEFINE o == (i - 1) * z
  <2>1. o \in Nat /\ i * z = o + z /\ o + z <= N * z
    <3>1. i \in Nat /\ i >= 1 /\ i <= N
      BY <1>2
    <3>2. i * z = (i - 1) * z + z /\ (i - 1) * z \in Nat
      BY <1>1, <3>1
    <3>3. i * z <= N * z
      BY <1>1, <1>2, <3>1
    <3>. QED BY <3>2, <3>3
  <2>2. \A j \in 1 .. z : w[o + j] = <<vec[i], j>>
    BY <1>3
  <2> DEFINE b == Bytes(vec[i])
  <2>3. b = [j \in 1 .. z |-> <<vec[i], j>>]
    BY <1>1 DEF Bytes
  <2>4. b \in [1 .. z -> ByteSet] /\ \A j \in 1 .. z : b[j] = <<vec[i], j>>
    BY <1>1, <2>3 DEF ByteSet
  <2> HIDE DEF b, o
  <2>5. b \in Seq(ByteSet)
    BY <1>1, <2>4, SeqDef
  <2>6. Len(b) = z
    BY <1>1, <2>4, <2>5, LenProperties
  <2> DEFINE f == o + 1
             l == o + z
  <2>7. f \in Int /\ l \in Int /\ f <= l /\ (l - f) + 1 = z /\ \A j \in 1 .. z : (f + j) - 1 = o + j
    BY <1>1, <2>1
  <2>8. \A p \in f .. l : w[p] \in ByteSet
    <3>1. \A p \in f .. l : p \in 1 .. Len(w)
      BY <1>1, <1>2, <1>3, <2>1
    <3>. QED BY <1>3, <3>1, ElementOfSeq
  <2> HIDE DEF f, l
  <2>9. /\ SubSeq(w, f, l) \in Seq(ByteSet)
        /\ Len(SubSeq(w, f, l)) = IF f <= l THEN (l - f) + 1 ELSE 0
        /\ \A j \in 1 .. (l - f) + 1 : SubSeq(w, f, l)[j] = w[(f + j) - 1]
    BY <2>7, <2>8, SubSeqProperties
  <2>10. Len(SubSeq(w, f, l)) = z /\ \A j \in 1 .. z : SubSeq(w, f, l)[j] = b[j]
    BY <2>2, <2>4, <2>7, <2>9
  <2>11. SubSeq(w, f, l) = b
    BY <2>5, <2>6, <2>9, <2>10, SeqEqual
  <2>12. i * z = l /\ (i - 1) * z + 1 = f
    BY <2>1 DEF o, f, l
  <2>. QED BY <2>11, <2>12 DEF b
<1>6. Pieces(w, z) = [i \in Indices |-> Bytes(vec[i])]
  <2>1. Pieces(w, z) = [i \in 1 .. N |-> SubSeq(w, (i - 1) * z + 1, i * z)]
    BY <1>4 DEF Pieces
  <2>. QED BY <1>2, <1>5, <2>1
<1>. QED BY <1>3, <1>4, <1>6 DEF z, w

\* Overwriting the bytes of one datum gives the string of the ensemble with
\* that datum replaced.
LEMMA PatchedConcat ==
  ASSUME NEW vec, Ensemble(vec), NEW v \in Values, NEW a \in Indices, Size[v] = Size[vec[1]]
  PROVE  /\ Ensemble([vec EXCEPT ![a] = v])
         /\ Patched(Concat(vec), v, a) = Concat([vec EXCEPT ![a] = v])
<1> DEFINE z == Size[vec[1]]
           w == Concat(vec)
           new == [vec EXCEPT ![a] = v]
           pat == Patched(w, v, a)
<1>1. z \in Nat \ {0} /\ DOMAIN vec = Indices
      /\ \A i \in Indices : vec[i] \in Values /\ Size[vec[i]] = z
  BY EnsembleType
<1>2. N \in Nat \ {0} /\ Indices = 1 .. N
  BY Sizes
<1>3. Size[v] = z
  OBVIOUS
<1>4. new \in Seq(Values) /\ Len(new) = N
      /\ \A i \in Indices : new[i] = IF i = a THEN v ELSE vec[i]
  BY <1>1, <1>2, ExceptSeq DEF Ensemble
<1> HIDE DEF z, new
<1>5. \A i \in Indices : Size[new[i]] = z
  BY <1>1, <1>3, <1>4
<1>6. Ensemble(new) /\ Size[new[1]] = z
  BY <1>2, <1>4, <1>5 DEF Ensemble
<1>7. /\ w \in Seq(ByteSet) /\ Len(w) = N * z
      /\ \A i \in Indices : \A j \in 1 .. z : w[(i - 1) * z + j] = <<vec[i], j>>
  BY ConcatWritten DEF Written, z
<1>8. pat = [p \in DOMAIN w |-> IF p \in (a - 1) * z + 1 .. a * z
                                THEN <<v, p - (a - 1) * z>> ELSE w[p]]
  BY <1>3 DEF Patched
<1>9. DOMAIN w = 1 .. N * z /\ N * z \in Nat
  BY <1>1, <1>2, <1>7, LenProperties
<1> HIDE DEF w
<1>10. ASSUME NEW i \in Indices, NEW j \in 1 .. z
       PROVE  pat[(i - 1) * z + j] = <<new[i], j>> /\ (i - 1) * z + j \in 1 .. N * z
  <2> DEFINE o == (i - 1) * z
             p == o + j
             A == (a - 1) * z
  <2>1. i \in Nat /\ i >= 1 /\ i <= N /\ a \in Nat /\ a >= 1 /\ a <= N /\ j \in Nat /\ j >= 1 /\ j <= z
    BY <1>1, <1>2
  <2>2. o \in Nat /\ A \in Nat /\ a * z = A + z /\ i * z = o + z
    BY <1>1, <2>1
  <2>3. i * z <= N * z
    BY <1>1, <1>2, <2>1
  <2>4. p \in 1 .. N * z
    <3> HIDE DEF o
    <3> DEFINE m == N * z
    <3>1. o \in Nat /\ m \in Nat /\ o + z <= m
      BY <1>9, <2>2, <2>3
    <3> HIDE DEF m
    <3>2. o + j \in 1 .. m
      BY <1>1, <2>1, <3>1
    <3>. QED BY <3>2 DEF m
  <2>5. i = a => o = A
    OBVIOUS
  <2>6. i < a => o + z <= A
    <3>1. i < a => i * z <= (a - 1) * z
      BY <1>1, <2>1
    <3>. QED BY <2>2, <3>1
  <2>7. i > a => A + z <= o
    <3>1. i > a => a * z <= (i - 1) * z
      BY <1>1, <2>1
    <3>. QED BY <2>2, <3>1
  <2>8. pat[p] = IF p \in A + 1 .. a * z THEN <<v, p - A>> ELSE w[p]
    BY <1>8, <1>9, <2>4
  <2>9. w[p] = <<vec[i], j>>
    BY <1>7
  <2> HIDE DEF o, A, pat
  <2>10. CASE i = a
    <3>1. p \in A + 1 .. a * z /\ p - A = j
      BY <1>1, <2>1, <2>2, <2>5, <2>10
    <3>. QED BY <1>4, <2>4, <2>8, <2>10, <3>1 DEF o
  <2>11. CASE i # a
    <3>1. p \notin A + 1 .. a * z
      <4>1. i < a \/ i > a
        BY <2>1, <2>11
      <4>. QED BY <1>1, <2>1, <2>2, <2>6, <2>7, <4>1
    <3>. QED BY <1>4, <2>4, <2>8, <2>9, <2>11, <3>1 DEF o
  <2>. QED BY <2>10, <2>11
<1>11. pat \in Seq(ByteSet) /\ Len(pat) = N * z
  <2>1. ASSUME NEW p \in 1 .. N * z PROVE pat[p] \in ByteSet
    <3>1. PICK i \in Indices : \E j \in 1 .. z : p = (i - 1) * z + j
      BY <1>1, ByteAt
    <3>2. PICK j \in 1 .. z : p = (i - 1) * z + j
      BY <3>1
    <3>3. pat[p] = <<new[i], j>>
      BY <1>10, <3>2
    <3>4. new[i] \in Values
      BY <1>1, <1>4
    <3>. QED BY <1>1, <3>3, <3>4 DEF ByteSet
  <2>2. pat = [p \in 1 .. N * z |-> pat[p]]
    BY <1>8, <1>9
  <2> HIDE DEF pat
  <2>3. pat \in [1 .. N * z -> ByteSet]
    BY <2>1, <2>2
  <2>4. pat \in Seq(ByteSet)
    BY <1>9, <2>3, SeqDef
  <2>. QED BY <1>9, <2>3, <2>4, LenProperties
<1> HIDE DEF pat
<1>12. Written(pat, new, Size[new[1]])
  BY <1>6, <1>10, <1>11 DEF Written
<1>13. pat = Concat(new)
  BY <1>6, <1>12, WrittenIsConcat
<1>. QED BY <1>6, <1>13 DEF pat, new, w


(***************************************************************************)
(* The invariant, part by part.                                            *)
(***************************************************************************)
\* The file, the object and the histories have their members.
Shape ==
  /\ db = [exists |-> db.exists, numcfgs |-> db.numcfgs, cfig |-> db.cfig,
           uinfo |-> db.uinfo, data |-> db.data]
  /\ obj = [dbh |-> obj.dbh, nbin |-> obj.nbin, bytesize |-> obj.bytesize,
            empty |-> obj.empty, max |-> obj.max, cfgs |-> obj.cfgs]
  /\ db.data = [k \in Keys |-> db.data[k]] /\ given = [k \in Keys |-> given[k]]
  /\ at \in Indices

\* The pages of user information have the text that was stored last.
InfoInv == UinfoShape(db.uinfo) /\ GetUinfo(db.uinfo) = info

\* Whether the records in the file are those of the marked configurations: in
\* a file with data, and while it is open with a number of configurations.
Settled == ~IsEmpty(db) \/ (obj.dbh /\ obj.nbin # 0)

\* The configurations in the file and in the object.
ConfigInv ==
  /\ obj.nbin \in {0, N}
  /\ db.exists => db.numcfgs = N /\ DOMAIN db.cfig = 1 .. ConfigPages(N)
  /\ db.exists \/ (IsEmpty(db) /\ ~obj.dbh)
  /\ IsEmpty(db) /\ obj.nbin # 0 => obj.cfgs = Confs({})
  /\ Settled => db.cfig = Layout(marked)

\* The data in the file are those of the ensembles.  An object that opened an
\* empty file and inserted nothing has updated one configuration only.
EnsembleInv ==
  /\ \A k \in Keys :
       \/ given[k] = NoString /\ db.data[k] = NoString
       \/ Ensemble(given[k]) /\ db.data[k] = Concat(given[k])
  /\ obj.dbh /\ obj.empty /\ how # "insert" =>
       \A k \in Keys : given[k] # NoString =>
         \A i \in Indices : i # at => given[k][i] = Blank

\* Every configuration has a database.
Finished == \A src \in SourceSets : \A i \in Indices : src[i] # NoSource

\* The merger knows all databases and the keys of the first one, and the store
\* is open.
MergeShape ==
  /\ mg = [pc |-> mg.pc, src |-> mg.src, url |-> mg.url, first |-> mg.first,
           keys |-> mg.keys, chunk |-> mg.chunk, loops |-> mg.loops,
           loop |-> mg.loop, conf |-> mg.conf, bag |-> mg.bag]
  /\ mg.pc \in {"bag", "fill", "mark", "done"}
  /\ mg.src \in SourceSets /\ mg.first = 1
  /\ \A i \in Indices : mg.url[i] = mg.src[i]
  /\ obj.dbh /\ obj.nbin = N
  /\ Len(mg.keys) \in Nat
  /\ mg.chunk \in Nat /\ mg.chunk > 0
  /\ mg.loops \in Nat /\ mg.loops * mg.chunk >= Len(mg.keys)
  /\ mg.loop \in Nat /\ mg.conf \in Nat /\ mg.conf > 0

KeysInv ==
  /\ \A p \in 1 .. Len(mg.keys) : mg.keys[p] \in DOMAIN mg.src[1]
  /\ \A p, q \in 1 .. Len(mg.keys) : mg.keys[p] = mg.keys[q] => p = q
  /\ \A k \in DOMAIN mg.src[1] : \E p \in 1 .. Len(mg.keys) : mg.keys[p] = k

\* The data of all configurations for a key.
Whole(k) == [i \in Indices |-> mg.src[i][k]]

\* The keys of the chunks before the current one.
Earlier == {mg.keys[p] : p \in {q \in 1 .. Len(mg.keys) : q <= mg.loop * mg.chunk}}
\* The keys that are in the store, and those whose data are in the bag.
MergedKeys == Earlier \cup IF mg.pc = "fill" THEN InChunk \ DOMAIN mg.bag ELSE {}

BagInv ==
  mg.pc = "fill" =>
    /\ DOMAIN mg.bag \subseteq InChunk
    /\ mg.conf <= N => DOMAIN mg.bag = InChunk
    /\ \A i \in Indices : i < mg.conf => InChunk \subseteq DOMAIN mg.src[i]
    /\ mg.bag = [k \in DOMAIN mg.bag |-> [i \in Indices |->
         IF i = 1 \/ i < mg.conf THEN Bytes(mg.src[i][k]) ELSE Missing]]

MarkInv ==
  /\ mg.pc \in {"mark", "done"} => mg.loop * mg.chunk >= Len(mg.keys)
  /\ mg.pc = "mark" => \A i \in Indices : i < mg.conf => i \in marked
  /\ mg.pc = "done" => Indices \subseteq marked

MergeInv ==
  mg # Idle =>
    /\ MergeShape /\ KeysInv /\ BagInv /\ MarkInv
    /\ \A k \in Keys : db.data[k] = IF k \in MergedKeys THEN Concat(Whole(k)) ELSE NoString

----------------------------------------------------------------------------
\* The steps of the store and of the merger, one by one.
LEMMA Steps ==
  ASSUME [MNext]_mvars
  PROVE  \/ UNCHANGED mvars
         \/ mg = Idle /\ UNCHANGED mg /\
              \/ \E n \in {0, N} : Construct(n)
              \/ \E trunc \in BOOLEAN : Open(trunc)
              \/ Close
              \/ \E k \in AppKeys, vec \in AppEnsembles : Insert(k, vec)
              \/ InsertOther
              \/ \E k \in AppKeys, v \in Values : UpdateStored(k, v)
              \/ \E k \in AppKeys, v \in Values : UpdateFresh(k, v)
              \/ UpdateDone
              \/ \E k \in AppKeys : Get(k)
              \/ KeysAndData
              \/ \E text \in Infos : InsertUserdata(text)
              \/ \E i \in 1 .. N + 1, j \in Indices : MarkInserted(i, ConfigNums[j])
         \/ \E src \in SourceSets, memory \in Memories : Start(src, memory)
         \/ InitBag
         \/ PopulateBag
         \/ \E k \in Keys : InsertBag(k)
         \/ NextLoop
         \/ UpdateConfigInfo
         \/ Return
         \/ Leave
  BY Zenon DEF MNext, Store

\* What a step can do to the file and to the object, apart from open and from
\* marking a configuration.
SameMeta ==
  /\ db'.exists = db.exists /\ db'.numcfgs = db.numcfgs /\ db'.cfig = db.cfig
  /\ marked' = marked

SameObj == obj'.dbh = obj.dbh /\ obj'.nbin = obj.nbin /\ obj'.cfgs = obj.cfgs

LooksOn == db' = db /\ info' = info /\ marked' = marked /\ SameObj

NewObject ==
  /\ db' = db /\ info' = info /\ marked' = marked /\ ~obj.dbh
  /\ \E n \in {0, N} : obj' = NewObj(n)

Closes ==
  /\ db' = db /\ info' = info /\ marked' = marked
  /\ ~obj'.dbh /\ obj'.nbin = obj.nbin /\ obj'.cfgs = obj.cfgs

Writes ==
  /\ SameMeta /\ SameObj /\ db'.uinfo = db.uinfo /\ info' = info
  /\ \/ obj.dbh /\ obj.nbin # 0
     \/ mg # Idle

StoresText ==
  /\ SameMeta /\ SameObj /\ db'.data = db.data
  /\ \E text \in Infos :
       /\ Len(text) <= MaxInfo + 1
       /\ db'.uinfo = SetUinfo(db.uinfo, text) /\ info' = text

Marks ==
  /\ obj' = obj /\ info' = info
  /\ \/ \E i \in 1 .. N + 1, j \in Indices : MarkInserted(i, ConfigNums[j])
     \/ UpdateConfigInfo

\* A put of one key, a size that the object learns.
PutStep(k, string, size, vec) ==
  /\ db' = db \/ db' = [db EXCEPT !.data[k] = string]
  /\ obj' = obj \/ obj' = [obj EXCEPT !.bytesize = size]
  /\ given' = given \/ given' = [given EXCEPT ![k] = vec]
  /\ at' = at /\ info' = info /\ marked' = marked

LEMMA PutShape ==
  ASSUME Shape, NEW k, NEW string, NEW size, NEW vec, PutStep(k, string, size, vec)
  PROVE  Shape' /\ SameMeta /\ SameObj /\ db'.uinfo = db.uinfo /\ info' = info
<1>1. /\ db' = [exists |-> db'.exists, numcfgs |-> db'.numcfgs, cfig |-> db'.cfig,
                uinfo |-> db'.uinfo, data |-> db'.data]
      /\ db'.data = [j \in Keys |-> db'.data[j]]
      /\ SameMeta /\ db'.uinfo = db.uinfo /\ info' = info
  BY DEF Shape, PutStep, SameMeta
<1>2. /\ obj' = [dbh |-> obj'.dbh, nbin |-> obj'.nbin, bytesize |-> obj'.bytesize,
                 empty |-> obj'.empty, max |-> obj'.max, cfgs |-> obj'.cfgs]
      /\ SameObj
  BY DEF Shape, PutStep, SameObj
<1>3. given' = [j \in Keys |-> given'[j]] /\ at' \in Indices
  BY DEF Shape, PutStep
<1>. QED BY <1>1, <1>2, <1>3 DEF Shape

LEMMA StepKinds ==
  ASSUME Shape, [MNext]_mvars
  PROVE  /\ Shape'
         /\ \/ LooksOn
            \/ NewObject
            \/ \E trunc \in BOOLEAN : Open(trunc)
            \/ Closes
            \/ Writes
            \/ StoresText
            \/ Marks
<1> DEFINE Kinds == \/ LooksOn
                    \/ NewObject
                    \/ \E trunc \in BOOLEAN : Open(trunc)
                    \/ Closes
                    \/ Writes
                    \/ StoresText
                    \/ Marks
<1> SUFFICES Shape' /\ Kinds
  OBVIOUS
<1> USE DEF Shape
<1>1. CASE UNCHANGED mvars
  BY <1>1 DEF mvars, vars, client, LooksOn, SameObj
<1>2. ASSUME NEW n \in {0, N}, Construct(n) PROVE Shape' /\ Kinds
  BY <1>2 DEF Construct, NewObj, client, NewObject
<1>3. ASSUME NEW trunc \in BOOLEAN, Open(trunc) PROVE Shape' /\ Kinds
  <2> DEFINE new == trunc \/ ~db.exists
             d   == IF new THEN NewDb(obj.max) ELSE db
  <2>1. /\ obj' = Opened(d)
        /\ db' = IF IsEmpty(d) /\ obj.nbin # 0 /\ Len(obj.cfgs) = d.numcfgs
                 THEN [d EXCEPT !.cfig = SetConfigs(d.cfig, obj.cfgs)] ELSE d
        /\ given' = IF new THEN [k \in Keys |-> NoString] ELSE given
        /\ at' \in Indices
    BY <1>3 DEF Open
  <2>2. d = [exists |-> d.exists, numcfgs |-> d.numcfgs, cfig |-> d.cfig,
             uinfo |-> d.uinfo, data |-> d.data] /\ d.data = [k \in Keys |-> d.data[k]]
    BY DEF NewDb
  <2> HIDE DEF d
  <2>3. db' = [exists |-> db'.exists, numcfgs |-> db'.numcfgs, cfig |-> db'.cfig,
               uinfo |-> db'.uinfo, data |-> db'.data] /\ db'.data = [k \in Keys |-> db'.data[k]]
    BY <2>1, <2>2
  <2>4. obj' = [dbh |-> obj'.dbh, nbin |-> obj'.nbin, bytesize |-> obj'.bytesize,
                empty |-> obj'.empty, max |-> obj'.max, cfgs |-> obj'.cfgs]
    BY <2>1 DEF Opened
  <2>5. given' = [k \in Keys |-> given'[k]]
    BY <2>1
  <2>. QED BY <1>3, <2>1, <2>3, <2>4, <2>5
<1>4. CASE Close
  BY <1>4 DEF Close, client, Closes
<1>5. ASSUME NEW k \in AppKeys, NEW vec \in AppEnsembles, Insert(k, vec) PROVE Shape' /\ Kinds
  <2>1. \E size : PutStep(k, Concat(vec), size, vec)
    BY <1>5 DEF Insert, InsertString, PutStep
  <2>2. obj.dbh /\ obj.nbin # 0
    BY <1>5 DEF Insert, Ready
  <2>. QED BY <2>1, <2>2, PutShape DEF Writes
<1>6. CASE InsertOther
  BY <1>6 DEF InsertOther, client, LooksOn, SameObj
<1>7. ASSUME NEW k \in AppKeys, NEW v \in Values, UpdateStored(k, v) PROVE Shape' /\ Kinds
  <2>1. \E string, size, vec : PutStep(k, string, size, vec)
    BY <1>7 DEF UpdateStored, PutStep
  <2>2. obj.dbh /\ obj.nbin # 0
    BY <1>7 DEF UpdateStored, Ready
  <2>. QED BY <2>1, <2>2, PutShape DEF Writes
<1>8. ASSUME NEW k \in AppKeys, NEW v \in Values, UpdateFresh(k, v) PROVE Shape' /\ Kinds
  <2>1. \E string, size, vec : PutStep(k, string, size, vec)
    BY <1>8 DEF UpdateFresh, InsertString, PutStep
  <2>2. obj.dbh /\ obj.nbin # 0
    BY <1>8 DEF UpdateFresh, Ready
  <2>. QED BY <2>1, <2>2, PutShape DEF Writes
<1>9. CASE UpdateDone
  BY <1>9 DEF UpdateDone, LooksOn, SameObj
<1>10. ASSUME NEW k \in AppKeys, Get(k) PROVE Shape' /\ Kinds
  BY <1>10 DEF Get, client, LooksOn, SameObj
<1>11. CASE KeysAndData
  BY <1>11 DEF KeysAndData, client, LooksOn, SameObj
<1>12. ASSUME NEW text \in Infos, InsertUserdata(text) PROVE Shape' /\ Kinds
  <2>1. CASE Len(text) > MaxInfo + 1
    BY <1>12, <2>1 DEF InsertUserdata, LooksOn, SameObj
  <2>2. CASE ~(Len(text) > MaxInfo + 1)
    <3>1. Len(text) <= MaxInfo + 1
      BY <2>2, StoreAssumption, LenProperties
    <3>. QED BY <1>12, <2>2, <3>1 DEF InsertUserdata, StoresText, SameMeta, SameObj
  <2>. QED BY <2>1, <2>2
<1>13. ASSUME NEW i \in 1 .. N + 1, NEW j \in Indices, MarkInserted(i, ConfigNums[j])
       PROVE  Shape' /\ Kinds
  BY <1>13 DEF MarkInserted, Marks
<1>14. CASE UpdateConfigInfo
  BY <1>14 DEF UpdateConfigInfo, Marks
<1>15. ASSUME NEW k \in Keys, InsertBag(k) PROVE Shape' /\ Kinds
  <2>1. \E string, size, vec : PutStep(k, string, size, vec)
    BY <1>15 DEF InsertBag, PutStep
  <2>2. mg # Idle
    BY <1>15 DEF InsertBag, Idle
  <2>. QED BY <2>1, <2>2, PutShape DEF Writes
<1>16. ASSUME NEW src \in SourceSets, NEW memory \in Memories, Start(src, memory)
       PROVE  Shape' /\ Kinds
  BY <1>16 DEF Start, client, LooksOn, SameObj
<1>17. CASE InitBag \/ PopulateBag \/ NextLoop \/ Return \/ Leave
  BY <1>17 DEF InitBag, PopulateBag, NextLoop, Return, Leave, vars, client, LooksOn, SameObj
<1>. QED
  BY Steps, <1>1, <1>2, <1>3, <1>4, <1>5, <1>6, <1>7, <1>8, <1>9, <1>10, <1>11, <1>12,
     <1>13, <1>14, <1>15, <1>16, <1>17, Zenon

\* A list over a set is one over any larger set.
LEMMA SeqWider ==
  ASSUME NEW S, NEW T, S \subseteq T, NEW s \in Seq(S)
  PROVE  s \in Seq(T)
<1>1. Len(s) \in Nat /\ s \in [1 .. Len(s) -> S]
  BY LenProperties
<1>2. s \in [1 .. Len(s) -> T]
  BY <1>1
<1>. QED BY <1>1, <1>2, SeqDef

\* A file that open creates.
LEMMA NewFile ==
  ASSUME NEW d, d = NewDb(N)
  PROVE  /\ d = [exists |-> TRUE, numcfgs |-> N, cfig |-> BlankConfigs(N),
                 uinfo |-> BlankUinfo(MaxInfo + 1), data |-> [k \in Keys |-> NoString]]
         /\ d.exists /\ d.numcfgs = N /\ d.cfig = BlankConfigs(N)
         /\ d.uinfo = BlankUinfo(MaxInfo + 1) /\ IsEmpty(d)
         /\ \A k \in Keys : d.data[k] = NoString
  BY Sizes DEF NewDb, IsEmpty

\* What open does to a new file and to one that is there.
LEMMA OpenCases ==
  ASSUME Shape, NEW trunc \in BOOLEAN, Open(trunc)
  PROVE  \E d :
           /\ \/ /\ d = NewDb(N) /\ obj = NewObj(N) /\ info' = << >>
                 /\ given' = [k \in Keys |-> NoString]
              \/ d = db /\ db.exists /\ info' = info /\ given' = given
           /\ obj' = Opened(d)
           /\ db'.exists = d.exists /\ db'.numcfgs = d.numcfgs
           /\ db'.uinfo = d.uinfo /\ db'.data = d.data
           /\ db'.cfig = IF IsEmpty(d) /\ obj.nbin # 0 /\ Len(obj.cfgs) = d.numcfgs
                         THEN SetConfigs(d.cfig, obj.cfgs) ELSE d.cfig
           /\ marked' = IF IsEmpty(d) THEN {} ELSE marked
           /\ how' = "any" /\ at' \in Indices
<1> DEFINE new == trunc \/ ~db.exists
           d   == IF new THEN NewDb(obj.max) ELSE db
<1>1. /\ new => obj = NewObj(N)
      /\ obj' = Opened(d)
      /\ db' = IF IsEmpty(d) /\ obj.nbin # 0 /\ Len(obj.cfgs) = d.numcfgs
               THEN [d EXCEPT !.cfig = SetConfigs(d.cfig, obj.cfgs)] ELSE d
      /\ given' = IF new THEN [k \in Keys |-> NoString] ELSE given
      /\ info' = IF new THEN << >> ELSE info
      /\ marked' = IF IsEmpty(d) THEN {} ELSE marked
      /\ how' = "any" /\ at' \in Indices
  BY DEF Open
<1>2. \/ /\ d = NewDb(N) /\ obj = NewObj(N) /\ info' = << >>
         /\ given' = [k \in Keys |-> NoString]
      \/ d = db /\ db.exists /\ info' = info /\ given' = given
  <2>1. CASE new
    <3>1. obj.max = N
      BY <1>1, <2>1 DEF NewObj
    <3>. QED BY <1>1, <2>1, <3>1
  <2>2. CASE ~new
    BY <1>1, <2>2
  <2>. QED BY <2>1, <2>2
<1>3. d = [exists |-> d.exists, numcfgs |-> d.numcfgs, cfig |-> d.cfig,
           uinfo |-> d.uinfo, data |-> d.data]
  BY DEF NewDb, Shape
<1> HIDE DEF d, new
<1>4. /\ db'.exists = d.exists /\ db'.numcfgs = d.numcfgs
      /\ db'.uinfo = d.uinfo /\ db'.data = d.data
      /\ db'.cfig = IF IsEmpty(d) /\ obj.nbin # 0 /\ Len(obj.cfgs) = d.numcfgs
                    THEN SetConfigs(d.cfig, obj.cfgs) ELSE d.cfig
  BY <1>1, <1>3
<1>. QED BY <1>1, <1>2, <1>4

LEMMA MarksKeep ==
  ASSUME Shape, Marks
  PROVE  /\ db'.exists = db.exists /\ db'.numcfgs = db.numcfgs /\ db'.uinfo = db.uinfo
         /\ db'.data = db.data
  BY DEF Shape, Marks, MarkInserted, UpdateConfigInfo

----------------------------------------------------------------------------
LEMMA ShapeInit == ASSUME MInit PROVE Shape
  BY Sizes DEF MInit, Init, NewDb, NewObj, Shape

LEMMA InfoInit == ASSUME MInit PROVE InfoInv
<1>1. db.uinfo = BlankUinfo(MaxInfo + 1) /\ info = << >>
  BY DEF MInit, Init, NewDb
<1>. QED BY <1>1, UinfoBlank DEF InfoInv

LEMMA InfoStep ==
  ASSUME Shape, InfoInv, [MNext]_mvars
  PROVE  InfoInv'
<1>1. CASE LooksOn \/ NewObject \/ Closes
  BY <1>1 DEF LooksOn, NewObject, Closes, InfoInv
<1>2. ASSUME NEW trunc \in BOOLEAN, Open(trunc) PROVE InfoInv'
  <2>1. PICK d :
           /\ \/ d = NewDb(N) /\ info' = << >>
              \/ d = db /\ info' = info
           /\ db'.uinfo = d.uinfo
    BY <1>2, OpenCases
  <2>2. CASE d = NewDb(N) /\ info' = << >>
    BY <2>1, <2>2, NewFile, UinfoBlank DEF InfoInv
  <2>3. CASE d = db /\ info' = info
    BY <2>1, <2>3 DEF InfoInv
  <2>. QED BY <2>1, <2>2, <2>3
<1>3. CASE Writes
  BY <1>3 DEF Writes, InfoInv
<1>4. CASE Marks
  BY <1>4, MarksKeep DEF Marks, InfoInv
<1>5. CASE StoresText
  <2>1. PICK text \in Infos :
          /\ Len(text) <= MaxInfo + 1
          /\ db'.uinfo = SetUinfo(db.uinfo, text) /\ info' = text
    BY <1>5 DEF StoresText
  <2>2. text \in Seq(Chars)
    <3>1. text \in Seq(Range(text)) /\ Range(text) \subseteq Chars
      BY StoreAssumption DEF Chars
    <3>. QED BY <3>1, SeqWider
  <2>. QED BY <2>1, <2>2, UinfoReadBack DEF InfoInv
<1>. QED BY StepKinds, <1>1, <1>2, <1>3, <1>4, <1>5

\* A reader of user information gets the text that was stored last, whatever
\* else was done to the store: ffdb_set_uinfo and ffdb_get_uinfo agree on what
\* each page holds, for any size of pages and any text that is accepted.
THEOREM UserInfoIsKept == MSpec => []UserInfoReadsBack
<1>1. MInit => Shape /\ InfoInv
  BY ShapeInit, InfoInit
<1>2. Shape /\ InfoInv /\ [MNext]_mvars => (Shape /\ InfoInv)'
  BY StepKinds, InfoStep
<1>3. InfoInv => UserInfoReadsBack
  BY DEF InfoInv, UserInfoReadsBack
<1>. QED BY <1>1, <1>2, <1>3, PTL DEF MSpec

(***************************************************************************)
(* A merge.                                                                *)
(***************************************************************************)
\* The databases of configurations that are all there.
LEMMA Sources ==
  ASSUME Finished, NEW src \in SourceSets
  PROVE  /\ \A i \in Indices : src[i] # NoSource
         /\ \A i \in Indices : UrlsOf(src)[i] = src[i]
         /\ {i \in Indices : UrlsOf(src)[i] # NoSource} = Indices
         /\ Least(Indices) = 1
         /\ \A i \in Indices : \A k \in DOMAIN src[i] : src[i][k] \in Values /\ k \in Keys
         /\ \A i \in Indices : IsFiniteSet(DOMAIN src[i])
         /\ \A i \in Indices : \A k \in DOMAIN src[i] \cap DOMAIN src[1] :
              Size[src[i][k]] = Size[src[1][k]]
<1>1. \A i \in Indices : src[i] # NoSource
  BY DEF Finished
<1>2. ASSUME NEW i \in Indices PROVE UrlsOf(src)[i] = src[i]
  <2> DEFINE named == {j \in 1 .. i : src[j] # NoSource}
             P(j) == \A m \in named : m <= j
  <2>1. i \in Nat /\ i >= 1 /\ \A j \in 1 .. i : j \in Indices
    BY Sizes
  <2>2. named = 1 .. i
    BY <1>1, <2>1
  <2>3. i \in named /\ P(i) /\ \A j \in named : P(j) => j = i
    BY <2>1, <2>2
  <2>4. UrlsOf(src)[i] = IF named = {} THEN NoSource ELSE src[CHOOSE j \in named : P(j)]
    BY DEF UrlsOf
  <2> HIDE DEF named, P
  <2>5. (CHOOSE j \in named : P(j)) = i
    BY <2>3
  <2>. QED BY <2>3, <2>4, <2>5
<1>3. {i \in Indices : UrlsOf(src)[i] # NoSource} = Indices
  BY <1>1, <1>2
<1>4. Least(Indices) = 1
  <2> DEFINE P(x) == \A y \in Indices : x <= y
  <2>1. 1 \in Indices /\ P(1) /\ \A x \in Indices : P(x) => x = 1
    BY Sizes
  <2>2. Least(Indices) = CHOOSE x \in Indices : P(x)
    BY DEF Least
  <2> HIDE DEF P
  <2>. QED BY <2>1, <2>2
<1>5. ASSUME NEW i \in Indices
      PROVE  /\ \A k \in DOMAIN src[i] : src[i][k] \in Values /\ k \in Keys
             /\ IsFiniteSet(DOMAIN src[i])
             /\ \A k \in DOMAIN src[i] \cap DOMAIN src[1] : Size[src[i][k]] = Size[src[1][k]]
  <2>1. 1 \in Indices
    BY Sizes
  <2>. QED BY <1>1, <2>1, MergerAssumption
<1>. QED BY <1>1, <1>2, <1>3, <1>4, <1>5

\* SetToSeq lists every element of a finite set once.
LEMMA ListOfSet ==
  ASSUME NEW S, IsFiniteSet(S)
  PROVE  LET s == SetToSeq(S)
         IN  /\ Len(s) = Cardinality(S) /\ Len(s) \in Nat
             /\ \A p \in 1 .. Len(s) : s[p] \in S
             /\ \A p, q \in 1 .. Len(s) : s[p] = s[q] => p = q
             /\ \A x \in S : \E p \in 1 .. Len(s) : s[p] = x
<1> DEFINE n == Cardinality(S)
           F == [1 .. n -> S]
           s == SetToSeq(S)
<1>1. n \in Nat
  BY FS_CardinalityType
<1>2. IsFiniteSet(1 .. n) /\ Cardinality(1 .. n) = n
  <2> HIDE DEF n
  <2>1. IsFiniteSet(1 .. n) /\ Cardinality(1 .. n) = IF 1 > n THEN 0 ELSE n - 1 + 1
    BY <1>1, FS_Interval
  <2>. QED BY <1>1, <2>1
<1>3. ExistsBijection(1 .. n, S)
  BY <1>2, FS_SameCardinalityBij
<1>4. \E f \in F : IsInjective(f)
  BY <1>3 DEF ExistsBijection, Bijection, Injection, IsInjective
<1>5. s \in F /\ IsInjective(s)
  BY <1>4 DEF SetToSeq
<1> HIDE DEF s, n
<1>6. s \in Injection(1 .. n, S)
  BY <1>5 DEF Injection
<1>7. s \in Surjection(1 .. n, S)
  BY <1>2, <1>6, FS_Injection DEF n
<1>8. s \in Seq(S) /\ Len(s) = n
  BY <1>1, <1>5, SeqDef, LenProperties
<1>9. \A x \in S : \E p \in 1 .. n : s[p] = x
  BY <1>7 DEF Surjection
<1>10. \A p, q \in 1 .. n : s[p] = s[q] => p = q
  BY <1>5 DEF IsInjective
<1>. QED BY <1>1, <1>5, <1>8, <1>9, <1>10 DEF s, n

\* iterateSize and numloops: the chunks cover the keys.
LEMMA ChunksCover ==
  ASSUME NEW n \in Nat, NEW len \in Nat, NEW memory \in Nat
  PROVE  /\ Chunk(n, len, memory) \in Nat
         /\ \A c \in Nat \ {0} : NumLoops(n, c) \in Nat /\ NumLoops(n, c) * c >= n
<1>1. Chunk(n, len, memory) \in Nat
  <2> DEFINE m == (KeyLen + len) * N
  <2>1. m \in Nat \ {0}
    BY MergerAssumption, Sizes
  <2>2. Chunk(n, len, memory) = IF memory \div m > n THEN n ELSE memory \div m
    BY DEF Chunk
  <2> HIDE DEF m
  <2>3. memory \div m \in Nat
    BY <2>1, Quotient
  <2>. QED BY <2>2, <2>3
<1>2. ASSUME NEW c \in Nat \ {0} PROVE NumLoops(n, c) \in Nat /\ NumLoops(n, c) * c >= n
  <2> DEFINE q == n \div c
  <2>1. q \in Nat /\ n < (q + 1) * c
    BY Quotient
  <2>2. NumLoops(n, c) = IF n = q * c THEN q ELSE q + 1
    BY DEF NumLoops
  <2> HIDE DEF q
  <2>3. (q + 1) * c \in Nat /\ q * c \in Nat
    BY <2>1
  <2>4. CASE n = q * c
    BY <2>1, <2>2, <2>3, <2>4
  <2>5. CASE n # q * c
    <3>1. NumLoops(n, c) = q + 1
      BY <2>2, <2>5
    <3>2. (q + 1) * c >= n
      BY <2>1, <2>3
    <3>. QED BY <2>1, <3>1, <3>2
  <2>. QED BY <2>4, <2>5
<1>. QED BY <1>1, <1>2

\* The keys at the positions from a + 1 to b.
KeysAt(a, b) == {mg.keys[p] : p \in {q \in 1 .. Len(mg.keys) : a < q /\ q <= b}}

\* The chunks follow one another in the list of keys, and have no key twice.
LEMMA ChunkKeys ==
  ASSUME MergeShape, KeysInv, Finished
  PROVE  /\ Earlier = KeysAt(0, mg.loop * mg.chunk)
         /\ InChunk = KeysAt(mg.loop * mg.chunk, (mg.loop + 1) * mg.chunk)
         /\ KeysAt(0, (mg.loop + 1) * mg.chunk) = Earlier \cup InChunk
         /\ Earlier \cap InChunk = {}
         /\ InChunk \subseteq DOMAIN mg.src[1] /\ InChunk \subseteq Keys
<1> DEFINE a == mg.loop * mg.chunk
           b == (mg.loop + 1) * mg.chunk
           n == Len(mg.keys)
           last == IF b > n THEN n ELSE b
<1>1. a \in Nat /\ b \in Nat /\ a <= b /\ n \in Nat
  BY DEF MergeShape
<1>2. Earlier = {mg.keys[p] : p \in {q \in 1 .. n : q <= a}}
  BY DEF Earlier
<1>3. InChunk = {mg.keys[p] : p \in a + 1 .. last}
  BY DEF InChunk
<1>4. \A p, q \in 1 .. n : mg.keys[p] = mg.keys[q] => p = q
  BY DEF KeysInv
<1>5. \A p \in 1 .. n : mg.keys[p] \in DOMAIN mg.src[1]
  BY DEF KeysInv
<1>6. \A k \in DOMAIN mg.src[1] : k \in Keys
  <2>1. mg.src \in SourceSets /\ 1 \in Indices
    BY Sizes DEF MergeShape
  <2>. QED BY <2>1, Sources
<1> HIDE DEF a, b, n
<1>7. {q \in 1 .. n : q <= a} = {q \in 1 .. n : 0 < q /\ q <= a}
  BY <1>1
<1>8. a + 1 .. last = {q \in 1 .. n : a < q /\ q <= b}
  BY <1>1
<1> HIDE DEF last
<1>9. Earlier = KeysAt(0, a)
  BY <1>2, <1>7 DEF KeysAt, n
<1>10. InChunk = KeysAt(a, b)
  BY <1>3, <1>8 DEF KeysAt, n
<1>11. KeysAt(0, b) = KeysAt(0, a) \cup KeysAt(a, b)
  <2>1. {q \in 1 .. n : 0 < q /\ q <= b} =
          {q \in 1 .. n : 0 < q /\ q <= a} \cup {q \in 1 .. n : a < q /\ q <= b}
    BY <1>1
  <2>. QED BY <2>1 DEF KeysAt, n
<1>12. KeysAt(0, a) \cap KeysAt(a, b) = {}
  <2>1. \A p, q \in 1 .. n : p <= a /\ a < q => mg.keys[p] # mg.keys[q]
    BY <1>1, <1>4
  <2>. QED BY <2>1 DEF KeysAt, n
<1>13. \A k \in KeysAt(a, b) : k \in DOMAIN mg.src[1]
  BY <1>5 DEF KeysAt, n
<1>. QED BY <1>6, <1>9, <1>10, <1>11, <1>12, <1>13 DEF a, b

\* What a merge has put into the store, and the rest of the invariant.
MergeData ==
  \A k \in Keys : db.data[k] = IF k \in MergedKeys THEN Concat(Whole(k)) ELSE NoString

LEMMA MergeInvIs ==
  MergeInv <=> (mg # Idle => MergeShape /\ KeysInv /\ BagInv /\ MarkInv /\ MergeData)
  BY DEF MergeInv, MergeData

\* merge: the first chunk.
LEMMA StartStep ==
  ASSUME Finished, Shape, NEW src \in SourceSets, NEW memory \in Memories, Start(src, memory)
  PROVE  MergeInv'
<1> DEFINE url   == UrlsOf(src)
           named == {i \in Indices : url[i] # NoSource}
           first == Least(named)
           keys  == SetToSeq(DOMAIN url[first])
           chunk == Chunk(Len(keys), Size[url[first][keys[1]]], memory)
<1>1. /\ mg = Idle /\ obj.dbh /\ obj.nbin = N /\ IsEmpty(db) /\ db' = db /\ obj' = obj
      /\ \/ mg' = mg
         \/ /\ DOMAIN url[first] # {} /\ chunk # 0
            /\ mg' = [pc |-> "bag", src |-> src, url |-> url, first |-> first,
                      keys |-> keys, chunk |-> chunk,
                      loops |-> NumLoops(Len(keys), chunk),
                      loop |-> 0, conf |-> 1, bag |-> << >>]
  BY DEF Start
<1>2. CASE mg' = mg
  BY <1>1, <1>2 DEF MergeInv, Idle
<1>3. CASE mg' # mg
  <2>1. first = 1 /\ 1 \in Indices /\ \A i \in Indices : url[i] = src[i]
    BY Sources, Sizes
  <2>2. DOMAIN src[1] # {} /\ IsFiniteSet(DOMAIN src[1]) /\ url[first] = src[1]
    BY <1>1, <1>3, <2>1, Sources
  <2>3. /\ Len(keys) \in Nat
        /\ \A p \in 1 .. Len(keys) : keys[p] \in DOMAIN src[1]
        /\ \A p, q \in 1 .. Len(keys) : keys[p] = keys[q] => p = q
        /\ \A x \in DOMAIN src[1] : \E p \in 1 .. Len(keys) : keys[p] = x
    BY <2>2, ListOfSet
  <2> HIDE DEF url, keys, first
  <2>4. 1 \in 1 .. Len(keys)
    BY <2>2, <2>3
  <2>5. Size[url[first][keys[1]]] \in Nat
    BY <2>1, <2>2, <2>3, <2>4, Sources, StoreAssumption
  <2>6. memory \in Nat
    BY MergerAssumption
  <2>7. chunk \in Nat
    BY <2>3, <2>5, <2>6, ChunksCover
  <2> HIDE DEF chunk
  <2>8. chunk > 0
    BY <1>1, <1>3, <2>7
  <2> DEFINE loops == NumLoops(Len(keys), chunk)
  <2>9. loops \in Nat /\ loops * chunk >= Len(keys)
    <3>1. chunk \in Nat \ {0}
      BY <2>7, <2>8
    <3>. QED BY <2>3, <2>5, <2>6, <3>1, ChunksCover DEF loops
  <2> HIDE DEF loops
  <2>10. mg' = [pc |-> "bag", src |-> src, url |-> url, first |-> first,
                keys |-> keys, chunk |-> chunk, loops |-> loops,
                loop |-> 0, conf |-> 1, bag |-> << >>]
    BY <1>1, <1>3 DEF loops
  <2>11. /\ mg'.pc = "bag" /\ mg'.src = src /\ mg'.url = url /\ mg'.first = 1
         /\ mg'.keys = keys /\ mg'.chunk = chunk /\ mg'.loops = loops
         /\ mg'.loop = 0 /\ mg'.conf = 1
    BY <2>1, <2>10
  <2>12. MergeShape'
    BY <1>1, <2>1, <2>3, <2>7, <2>8, <2>9, <2>10, <2>11 DEF MergeShape
  <2>13. KeysInv'
    BY <2>3, <2>11 DEF KeysInv
  <2>14. BagInv' /\ MarkInv'
    BY <2>11 DEF BagInv, MarkInv
  <2>15. MergedKeys' = {}
    <3>1. mg'.loop * mg'.chunk = 0
      BY <2>7, <2>11
    <3>2. Earlier' = {}
      BY <3>1 DEF Earlier
    <3>. QED BY <2>11, <3>2 DEF MergedKeys
  <2>16. MergeData'
    BY <1>1, <2>15 DEF MergeData, IsEmpty
  <2>. QED BY <2>12, <2>13, <2>14, <2>16 DEF MergeInv, MergeData
<1>. QED BY <1>2, <1>3

\* A step that leaves the keys, the databases and the store's object alone.
Goes(m) ==
  /\ mg' = m
  /\ m = [pc |-> m.pc, src |-> mg.src, url |-> mg.url, first |-> mg.first,
          keys |-> mg.keys, chunk |-> mg.chunk, loops |-> mg.loops,
          loop |-> m.loop, conf |-> m.conf, bag |-> m.bag]
  /\ m.pc \in {"bag", "fill", "mark", "done"}
  /\ m.loop \in Nat /\ m.conf \in Nat /\ m.conf > 0
  /\ obj'.dbh = obj.dbh /\ obj'.nbin = obj.nbin

LEMMA GoesKeeps ==
  ASSUME MergeShape, KeysInv, NEW m, Goes(m)
  PROVE  /\ MergeShape' /\ KeysInv'
         /\ mg'.src = mg.src /\ mg'.url = mg.url /\ mg'.keys = mg.keys
         /\ mg'.chunk = mg.chunk /\ mg'.first = mg.first /\ mg'.pc = m.pc /\ mg'.loop = m.loop
         /\ mg'.conf = m.conf /\ mg'.bag = m.bag
         /\ \A k : Whole(k)' = Whole(k)
<1>1. /\ mg'.src = mg.src /\ mg'.url = mg.url /\ mg'.keys = mg.keys
      /\ mg'.chunk = mg.chunk /\ mg'.first = mg.first /\ mg'.pc = m.pc /\ mg'.loop = m.loop
      /\ mg'.conf = m.conf /\ mg'.bag = m.bag /\ mg'.loops = mg.loops
  BY DEF Goes
<1>2. MergeShape'
  BY <1>1 DEF MergeShape, Goes
<1>3. KeysInv'
  BY <1>1 DEF KeysInv
<1>4. \A k : Whole(k)' = Whole(k)
  BY <1>1 DEF Whole
<1>. QED BY <1>1, <1>2, <1>3, <1>4

\* The chunk is the same as long as the loop is.
LEMMA SameChunk ==
  ASSUME mg'.keys = mg.keys, mg'.chunk = mg.chunk, mg'.loop = mg.loop
  PROVE  Earlier' = Earlier /\ InChunk' = InChunk
  BY DEF Earlier, InChunk

\* The merger's record after an assignment to some of its members.
MgFill(p, c, b) == [mg EXCEPT !.pc = p, !.conf = c, !.bag = b]
MgNext(p, l, c) == [mg EXCEPT !.pc = p, !.loop = l, !.conf = c]
MgAdd(c, b) == [mg EXCEPT !.conf = c, !.bag = b]
MgConf(c) == [mg EXCEPT !.conf = c]
MgBag(b) == [mg EXCEPT !.bag = b]
MgPc(p) == [mg EXCEPT !.pc = p]

LEMMA MergerExcept ==
  ASSUME MergeShape
  PROVE  /\ \A p, c, b : MgFill(p, c, b) =
              [pc |-> p, src |-> mg.src, url |-> mg.url, first |-> mg.first, keys |-> mg.keys,
               chunk |-> mg.chunk, loops |-> mg.loops, loop |-> mg.loop, conf |-> c, bag |-> b]
         /\ \A p, l, c : MgNext(p, l, c) =
              [pc |-> p, src |-> mg.src, url |-> mg.url, first |-> mg.first, keys |-> mg.keys,
               chunk |-> mg.chunk, loops |-> mg.loops, loop |-> l, conf |-> c, bag |-> mg.bag]
         /\ \A c, b : MgAdd(c, b) =
              [pc |-> mg.pc, src |-> mg.src, url |-> mg.url, first |-> mg.first, keys |-> mg.keys,
               chunk |-> mg.chunk, loops |-> mg.loops, loop |-> mg.loop, conf |-> c, bag |-> b]
         /\ \A c : MgConf(c) =
              [pc |-> mg.pc, src |-> mg.src, url |-> mg.url, first |-> mg.first, keys |-> mg.keys,
               chunk |-> mg.chunk, loops |-> mg.loops, loop |-> mg.loop, conf |-> c, bag |-> mg.bag]
         /\ \A b : MgBag(b) =
              [pc |-> mg.pc, src |-> mg.src, url |-> mg.url, first |-> mg.first, keys |-> mg.keys,
               chunk |-> mg.chunk, loops |-> mg.loops, loop |-> mg.loop, conf |-> mg.conf, bag |-> b]
         /\ \A p : MgPc(p) =
              [pc |-> p, src |-> mg.src, url |-> mg.url, first |-> mg.first, keys |-> mg.keys,
               chunk |-> mg.chunk, loops |-> mg.loops, loop |-> mg.loop, conf |-> mg.conf, bag |-> mg.bag]
<1> DEFINE pc == mg.pc
           src == mg.src
           url == mg.url
           first == mg.first
           keys == mg.keys
           chunk == mg.chunk
           loops == mg.loops
           loop == mg.loop
           conf == mg.conf
           bag == mg.bag
<1>0. mg = [pc |-> pc, src |-> src, url |-> url, first |-> first, keys |-> keys,
            chunk |-> chunk, loops |-> loops, loop |-> loop, conf |-> conf, bag |-> bag]
  BY DEF MergeShape
<1> HIDE DEF pc, src, url, first, keys, chunk, loops, loop, conf, bag
<1>1. ASSUME NEW p, NEW c, NEW b
      PROVE  [mg EXCEPT !.pc = p, !.conf = c, !.bag = b] =
        [pc |-> p, src |-> src, url |-> url, first |-> first, keys |-> keys,
         chunk |-> chunk, loops |-> loops, loop |-> loop, conf |-> c, bag |-> b]
  <2> DEFINE r1 == [pc |-> p, src |-> src, url |-> url, first |-> first, keys |-> keys,
                   chunk |-> chunk, loops |-> loops, loop |-> loop, conf |-> conf, bag |-> bag]
             r2 == [pc |-> p, src |-> src, url |-> url, first |-> first, keys |-> keys,
                   chunk |-> chunk, loops |-> loops, loop |-> loop, conf |-> c, bag |-> bag]
             r3 == [pc |-> p, src |-> src, url |-> url, first |-> first, keys |-> keys,
                   chunk |-> chunk, loops |-> loops, loop |-> loop, conf |-> c, bag |-> b]
  <2>1. [mg EXCEPT !.pc = p] = r1
    BY <1>0
  <2>2. [r1 EXCEPT !.conf = c] = r2
    BY <1>0
  <2>3. [r2 EXCEPT !.bag = b] = r3
    BY <1>0
  <2>4. [mg EXCEPT !.pc = p, !.conf = c, !.bag = b] = [[[mg EXCEPT !.pc = p] EXCEPT !.conf = c] EXCEPT !.bag = b]
    BY <1>0
  <2> HIDE DEF r1, r2, r3
  <2>5. [mg EXCEPT !.pc = p, !.conf = c, !.bag = b] = r3
    BY <2>1, <2>2, <2>3, <2>4
  <2>. QED BY <2>5 DEF r3
<1>2. ASSUME NEW p, NEW l, NEW c
      PROVE  [mg EXCEPT !.pc = p, !.loop = l, !.conf = c] =
        [pc |-> p, src |-> src, url |-> url, first |-> first, keys |-> keys,
         chunk |-> chunk, loops |-> loops, loop |-> l, conf |-> c, bag |-> bag]
  <2> DEFINE r1 == [pc |-> p, src |-> src, url |-> url, first |-> first, keys |-> keys,
                   chunk |-> chunk, loops |-> loops, loop |-> loop, conf |-> conf, bag |-> bag]
             r2 == [pc |-> p, src |-> src, url |-> url, first |-> first, keys |-> keys,
                   chunk |-> chunk, loops |-> loops, loop |-> l, conf |-> conf, bag |-> bag]
             r3 == [pc |-> p, src |-> src, url |-> url, first |-> first, keys |-> keys,
                   chunk |-> chunk, loops |-> loops, loop |-> l, conf |-> c, bag |-> bag]
  <2>1. [mg EXCEPT !.pc = p] = r1
    BY <1>0
  <2>2. [r1 EXCEPT !.loop = l] = r2
    BY <1>0
  <2>3. [r2 EXCEPT !.conf = c] = r3
    BY <1>0
  <2>4. [mg EXCEPT !.pc = p, !.loop = l, !.conf = c] = [[[mg EXCEPT !.pc = p] EXCEPT !.loop = l] EXCEPT !.conf = c]
    BY <1>0
  <2> HIDE DEF r1, r2, r3
  <2>5. [mg EXCEPT !.pc = p, !.loop = l, !.conf = c] = r3
    BY <2>1, <2>2, <2>3, <2>4
  <2>. QED BY <2>5 DEF r3
<1>3. ASSUME NEW c, NEW b
      PROVE  [mg EXCEPT !.conf = c, !.bag = b] =
        [pc |-> pc, src |-> src, url |-> url, first |-> first, keys |-> keys,
         chunk |-> chunk, loops |-> loops, loop |-> loop, conf |-> c, bag |-> b]
  <2> DEFINE r1 == [pc |-> pc, src |-> src, url |-> url, first |-> first, keys |-> keys,
                   chunk |-> chunk, loops |-> loops, loop |-> loop, conf |-> c, bag |-> bag]
             r2 == [pc |-> pc, src |-> src, url |-> url, first |-> first, keys |-> keys,
                   chunk |-> chunk, loops |-> loops, loop |-> loop, conf |-> c, bag |-> b]
  <2>1. [mg EXCEPT !.conf = c] = r1
    BY <1>0
  <2>2. [r1 EXCEPT !.bag = b] = r2
    BY <1>0
  <2>3. [mg EXCEPT !.conf = c, !.bag = b] = [[mg EXCEPT !.conf = c] EXCEPT !.bag = b]
    BY <1>0
  <2> HIDE DEF r1, r2
  <2>4. [mg EXCEPT !.conf = c, !.bag = b] = r2
    BY <2>1, <2>2, <2>3
  <2>. QED BY <2>4 DEF r2
<1>4. \A c : [mg EXCEPT !.conf = c] =
        [pc |-> pc, src |-> src, url |-> url, first |-> first, keys |-> keys,
         chunk |-> chunk, loops |-> loops, loop |-> loop, conf |-> c, bag |-> bag]
  BY <1>0
<1>5. \A b : [mg EXCEPT !.bag = b] =
        [pc |-> pc, src |-> src, url |-> url, first |-> first, keys |-> keys,
         chunk |-> chunk, loops |-> loops, loop |-> loop, conf |-> conf, bag |-> b]
  BY <1>0
<1>6. \A p : [mg EXCEPT !.pc = p] =
        [pc |-> p, src |-> src, url |-> url, first |-> first, keys |-> keys,
         chunk |-> chunk, loops |-> loops, loop |-> loop, conf |-> conf, bag |-> bag]
  BY <1>0
<1>. QED BY <1>1, <1>2, <1>3, <1>4, <1>5, <1>6
  DEF pc, src, url, first, keys, chunk, loops, loop, conf, bag, MgFill, MgNext, MgAdd, MgConf, MgBag, MgPc

LEMMA MergeFields ==
  ASSUME MergeShape
  PROVE  /\ mg = [pc |-> mg.pc, src |-> mg.src, url |-> mg.url, first |-> mg.first,
                  keys |-> mg.keys, chunk |-> mg.chunk, loops |-> mg.loops,
                  loop |-> mg.loop, conf |-> mg.conf, bag |-> mg.bag]
         /\ mg.loop \in Nat /\ mg.conf \in Nat /\ mg.conf > 0
  BY DEF MergeShape

\* A step that changes neither the merger nor the store.
LEMMA MergeStays ==
  ASSUME MergeInv, mg' = mg, db' = db, marked' = marked,
         obj'.dbh = obj.dbh, obj'.nbin = obj.nbin
  PROVE  MergeInv'
<1>1. MergeShape => MergeShape'
  BY DEF MergeShape
<1>2. KeysInv => KeysInv'
  BY DEF KeysInv
<1>3. InChunk' = InChunk /\ Earlier' = Earlier /\ \A k : Whole(k)' = Whole(k)
  BY DEF InChunk, Earlier, Whole
<1>4. BagInv => BagInv'
  BY <1>3 DEF BagInv
<1>5. MarkInv => MarkInv'
  BY DEF MarkInv
<1>6. MergedKeys' = MergedKeys
  BY <1>3 DEF MergedKeys
<1>7. MergeData => MergeData'
  BY <1>3, <1>6 DEF MergeData
<1>8. Idle' = Idle
  BY DEF Idle
<1>. QED BY <1>1, <1>2, <1>4, <1>5, <1>7, <1>8, MergeInvIs DEF MergeInv, MergeData

\* initBag
LEMMA InitBagStep ==
  ASSUME Finished, Shape, MergeInv, InitBag
  PROVE  MergeInv'
<1> DEFINE bag == [k \in InChunk |-> [i \in Indices |->
                     IF i = mg.first THEN Bytes(mg.url[mg.first][k]) ELSE Missing]]
           m   == [mg EXCEPT !.pc = "fill", !.conf = 1, !.bag = bag]
<1>1. mg # Idle /\ mg.pc = "bag" /\ mg' = m /\ db' = db /\ obj' = obj
  BY DEF InitBag, Idle, vars
<1>2. MergeShape /\ KeysInv /\ MergeData
  BY <1>1 DEF MergeInv, MergeData
<1>3. bag = [k \in InChunk |-> [i \in Indices |->
               IF i = 1 \/ i < 1 THEN Bytes(mg.src[i][k]) ELSE Missing]]
  BY <1>2, Sizes DEF MergeShape
<1> HIDE DEF bag
<1>4. Goes(m) /\ m.pc = "fill" /\ m.conf = 1 /\ m.bag = bag /\ m.loop = mg.loop
  <2>1. m = [pc |-> "fill", src |-> mg.src, url |-> mg.url, first |-> mg.first,
             keys |-> mg.keys, chunk |-> mg.chunk, loops |-> mg.loops,
             loop |-> mg.loop, conf |-> 1, bag |-> bag]
    <3>1. m = MgFill("fill", 1, bag)
      BY DEF MgFill
    <3>. QED BY <1>2, <3>1, MergerExcept
  <2>2. mg' = m /\ mg.loop \in Nat /\ obj' = obj
    BY <1>1, <1>2, MergeFields
  <2> HIDE DEF m
  <2>. QED BY <2>1, <2>2 DEF Goes
<1> HIDE DEF m
<1>5. /\ MergeShape' /\ KeysInv'
      /\ mg'.src = mg.src /\ mg'.pc = "fill" /\ mg'.conf = 1 /\ mg'.bag = bag
      /\ mg'.keys = mg.keys /\ mg'.chunk = mg.chunk /\ mg'.loop = mg.loop
      /\ \A k : Whole(k)' = Whole(k)
  BY <1>2, <1>4, GoesKeeps
<1>6. Earlier' = Earlier /\ InChunk' = InChunk
  BY <1>5, SameChunk
<1>7. DOMAIN bag = InChunk
  BY <1>3
<1>8. \A i \in Indices : ~(i < 1)
  BY Sizes
<1>9. BagInv'
  BY <1>3, <1>5, <1>6, <1>7, <1>8 DEF BagInv
<1>10. MarkInv'
  BY <1>5 DEF MarkInv
<1>11. MergedKeys' = MergedKeys
  BY <1>1, <1>5, <1>6, <1>7 DEF MergedKeys
<1>12. MergeData'
  BY <1>1, <1>2, <1>5, <1>11 DEF MergeData
<1>. QED BY <1>5, <1>9, <1>10, <1>12 DEF MergeInv, MergeData

\* populateBag: the data of one more configuration.
LEMMA PopulateBagStep ==
  ASSUME Finished, Shape, MergeInv, PopulateBag
  PROVE  MergeInv'
<1> DEFINE c == mg.conf
           bag == IF c = 1 THEN mg.bag
                  ELSE [k \in DOMAIN mg.bag |-> [mg.bag[k] EXCEPT ![c] = Bytes(mg.url[c][k])]]
           m == [mg EXCEPT !.conf = @ + 1, !.bag = bag]
<1>1. mg # Idle /\ mg.pc = "fill" /\ c <= N /\ db' = db /\ obj' = obj /\ marked' = marked
  BY DEF PopulateBag, Idle, client
<1>2. MergeShape /\ KeysInv /\ BagInv /\ MarkInv /\ MergeData
  BY <1>1 DEF MergeInv, MergeData
<1>3. c \in Indices /\ c \in Nat /\ mg.url[c] = mg.src[c] /\ mg.src[c] # NoSource
      /\ mg.first = 1 /\ mg.src \in SourceSets
  BY <1>1, <1>2, Sizes DEF MergeShape, Finished
<1>4. CASE mg' = mg
  BY <1>1, <1>2, <1>4, MergeStays
<1>5. CASE mg' # mg
  <2>1. (c # 1 => InChunk \subseteq DOMAIN mg.src[c]) /\ mg' = m
    BY <1>3, <1>5 DEF PopulateBag
  <2>2. InChunk \subseteq DOMAIN mg.src[c]
    BY <1>2, <2>1, ChunkKeys
  <2>3. DOMAIN mg.bag = InChunk
    BY <1>1, <1>2 DEF BagInv
  <2>4. mg.bag = [k \in DOMAIN mg.bag |-> [i \in Indices |->
                    IF i = 1 \/ i < c THEN Bytes(mg.src[i][k]) ELSE Missing]]
    BY <1>1, <1>2 DEF BagInv
  <2>5. bag = [k \in InChunk |-> [i \in Indices |->
                 IF i = 1 \/ i < c + 1 THEN Bytes(mg.src[i][k]) ELSE Missing]]
    <3>1. \A i \in Indices : i < c + 1 <=> i < c \/ i = c
      BY <1>3, Sizes
    <3>2. CASE c = 1
      BY <2>3, <2>4, <3>1, <3>2
    <3>3. CASE c # 1
      <4>1. ASSUME NEW k \in InChunk
            PROVE  [mg.bag[k] EXCEPT ![c] = Bytes(mg.url[c][k])] =
                     [i \in Indices |-> IF i = 1 \/ i < c + 1 THEN Bytes(mg.src[i][k]) ELSE Missing]
        <5>1. mg.bag[k] = [i \in Indices |->
                             IF i = 1 \/ i < c THEN Bytes(mg.src[i][k]) ELSE Missing]
          BY <2>3, <2>4
        <5>. QED BY <1>3, <3>1, <5>1
      <4>. QED BY <2>3, <3>3, <4>1
    <3>. QED BY <3>2, <3>3
  <2> HIDE DEF bag
  <2>6. Goes(m) /\ m.pc = "fill" /\ m.conf = c + 1 /\ m.bag = bag /\ m.loop = mg.loop
    <3>1. m = [pc |-> "fill", src |-> mg.src, url |-> mg.url, first |-> mg.first,
               keys |-> mg.keys, chunk |-> mg.chunk, loops |-> mg.loops,
               loop |-> mg.loop, conf |-> c + 1, bag |-> bag]
      <4>1. m = MgAdd(c + 1, bag)
        BY DEF MgAdd
      <4> HIDE DEF m
      <4>. QED BY <1>1, <1>2, <4>1, MergerExcept
    <3>2. mg' = m /\ mg.loop \in Nat /\ obj' = obj /\ c + 1 \in Nat /\ c + 1 > 0
      BY <1>1, <1>2, <1>3, <2>1, MergeFields
    <3> HIDE DEF m
    <3>. QED BY <3>1, <3>2 DEF Goes
  <2> HIDE DEF m
  <2>7. /\ MergeShape' /\ KeysInv'
        /\ mg'.src = mg.src /\ mg'.pc = "fill" /\ mg'.conf = c + 1 /\ mg'.bag = bag
        /\ mg'.keys = mg.keys /\ mg'.chunk = mg.chunk /\ mg'.loop = mg.loop
        /\ \A k : Whole(k)' = Whole(k)
    BY <1>2, <2>6, GoesKeeps
  <2>8. Earlier' = Earlier /\ InChunk' = InChunk
    BY <2>7, SameChunk
  <2>9. DOMAIN bag = InChunk
    BY <2>5
  <2>10. \A i \in Indices : i < c + 1 => InChunk \subseteq DOMAIN mg.src[i]
    <3>1. \A i \in Indices : i < c + 1 <=> i < c \/ i = c
      BY <1>3, Sizes
    <3>. QED BY <1>1, <1>2, <2>2, <3>1 DEF BagInv
  <2>11. BagInv'
    BY <2>5, <2>7, <2>8, <2>9, <2>10 DEF BagInv
  <2>12. MarkInv'
    BY <2>7 DEF MarkInv
  <2>13. MergedKeys' = MergedKeys
    BY <1>1, <2>3, <2>7, <2>8, <2>9 DEF MergedKeys
  <2>14. MergeData'
    BY <1>1, <1>2, <2>7, <2>13 DEF MergeData
  <2>. QED BY <2>7, <2>11, <2>12, <2>14 DEF MergeInv, MergeData
<1>. QED BY <1>4, <1>5

\* What insertBag puts into the store for a key is the string of the data of
\* all configurations.
LEMMA BagString ==
  ASSUME Finished, MergeShape, KeysInv, BagInv, MergeData,
         mg.pc = "fill", mg.conf > N, NEW k \in DOMAIN mg.bag
  PROVE  /\ FlattenSeq(mg.bag[k]) = Concat(Whole(k))
         /\ Ensemble(Whole(k))
         /\ k \in Keys /\ k \in InChunk /\ db.data[k] = NoString
<1>1. k \in InChunk /\ k \in Keys /\ k \notin Earlier /\ InChunk \subseteq DOMAIN mg.src[1]
  BY ChunkKeys DEF BagInv
<1>2. \A i \in Indices : i < mg.conf
  BY Sizes DEF MergeShape
<1>3. mg.bag[k] = [i \in Indices |-> Bytes(mg.src[i][k])]
  BY <1>2 DEF BagInv
<1>4. \A i \in Indices : k \in DOMAIN mg.src[i]
  BY <1>1, <1>2 DEF BagInv
<1>5. DOMAIN Whole(k) = Indices /\ \A i \in Indices : Whole(k)[i] = mg.src[i][k]
  BY DEF Whole
<1>6. [i \in DOMAIN Whole(k) |-> Bytes(Whole(k)[i])] = [i \in Indices |-> Bytes(mg.src[i][k])]
  BY <1>5
<1>7. FlattenSeq(mg.bag[k]) = Concat(Whole(k))
  BY <1>3, <1>6 DEF Concat
<1>8. mg.src \in SourceSets /\ 1 \in Indices
  BY Sizes DEF MergeShape
<1>9. \A i \in Indices : mg.src[i][k] \in Values /\ Size[mg.src[i][k]] = Size[mg.src[1][k]]
  BY <1>4, <1>8, Sources
<1>10. Ensemble(Whole(k))
  <2> DEFINE w == Whole(k)
  <2>1. w \in [1 .. N -> Values] /\ N \in Nat
    BY <1>5, <1>9, Sizes DEF Whole
  <2> HIDE DEF w
  <2>2. w \in Seq(Values) /\ Len(w) = N
    BY <2>1, SeqDef, LenProperties
  <2>3. \A i \in Indices : Size[w[i]] = Size[w[1]]
    BY <1>5, <1>8, <1>9 DEF w
  <2>. QED BY <2>2, <2>3 DEF Ensemble, w
<1>11. k \notin MergedKeys
  BY <1>1 DEF MergedKeys
<1>12. db.data[k] = NoString
  BY <1>1, <1>11 DEF MergeData
<1>. QED BY <1>1, <1>7, <1>10, <1>12

\* insertBag: one more key is in the store.
LEMMA InsertBagStep ==
  ASSUME Finished, Shape, MergeInv, NEW k \in Keys, InsertBag(k)
  PROVE  MergeInv' /\ db'.data = [db.data EXCEPT ![k] = Concat(Whole(k))]
         /\ Ensemble(Whole(k)) /\ given' = [given EXCEPT ![k] = Whole(k)]
         /\ db.data[k] = NoString /\ how' = "insert"
<1> DEFINE bag == [j \in DOMAIN mg.bag \ {k} |-> mg.bag[j]]
           m == [mg EXCEPT !.bag = bag]
           w == Concat(Whole(k))
<1>1. /\ mg # Idle /\ mg.pc = "fill" /\ mg.conf > N /\ k \in DOMAIN mg.bag /\ mg' = m
      /\ obj' = [obj EXCEPT !.bytesize = IF @ = 0 THEN Len(mg.bag[k][1]) ELSE @]
      /\ db' = IF PutAccepts(k, FlattenSeq(mg.bag[k]))
               THEN [db EXCEPT !.data[k] = FlattenSeq(mg.bag[k])] ELSE db
      /\ marked' = marked /\ how' = "insert"
      /\ given' = [given EXCEPT ![k] =
                     [i \in Indices |-> IF mg.src[i] = NoSource THEN Blank ELSE mg.src[i][k]]]
  BY DEF InsertBag, Idle
<1>2. MergeShape /\ KeysInv /\ BagInv /\ MarkInv /\ MergeData
  BY <1>1 DEF MergeInv, MergeData
<1>3. FlattenSeq(mg.bag[k]) = w /\ Ensemble(Whole(k)) /\ k \in InChunk /\ db.data[k] = NoString
  BY <1>1, <1>2, BagString
<1>4. [i \in Indices |-> IF mg.src[i] = NoSource THEN Blank ELSE mg.src[i][k]] = Whole(k)
  BY <1>2 DEF Whole, MergeShape, Finished
<1> HIDE DEF w, bag
<1>5. db' = [db EXCEPT !.data[k] = w]
  BY <1>1, <1>3 DEF PutAccepts
<1>6. db'.data = [db.data EXCEPT ![k] = w]
  BY <1>5 DEF Shape
<1>7. obj'.dbh = obj.dbh /\ obj'.nbin = obj.nbin
  BY <1>1 DEF Shape
<1>8. Goes(m) /\ m.pc = "fill" /\ m.conf = mg.conf /\ m.bag = bag /\ m.loop = mg.loop
  <2>1. m = [pc |-> mg.pc, src |-> mg.src, url |-> mg.url, first |-> mg.first,
             keys |-> mg.keys, chunk |-> mg.chunk, loops |-> mg.loops,
             loop |-> mg.loop, conf |-> mg.conf, bag |-> bag]
    <3>1. m = MgBag(bag)
      BY DEF MgBag
    <3> HIDE DEF m
    <3>. QED BY <1>2, <3>1, MergerExcept
  <2>2. mg' = m /\ mg.loop \in Nat /\ mg.conf \in Nat /\ mg.conf > 0
    BY <1>1, <1>2, MergeFields
  <2> HIDE DEF m
  <2>. QED BY <1>1, <1>7, <2>1, <2>2 DEF Goes
<1> HIDE DEF m
<1>9. /\ MergeShape' /\ KeysInv'
      /\ mg'.src = mg.src /\ mg'.pc = "fill" /\ mg'.conf = mg.conf /\ mg'.bag = bag
      /\ mg'.keys = mg.keys /\ mg'.chunk = mg.chunk /\ mg'.loop = mg.loop
      /\ \A j : Whole(j)' = Whole(j)
  BY <1>2, <1>8, GoesKeeps
<1>10. Earlier' = Earlier /\ InChunk' = InChunk
  BY <1>9, SameChunk
<1>11. DOMAIN bag = DOMAIN mg.bag \ {k} /\ (\A j \in DOMAIN bag : bag[j] = mg.bag[j])
       /\ bag = [j \in DOMAIN bag |-> bag[j]]
  BY DEF bag
<1>12. DOMAIN mg.bag \subseteq InChunk
       /\ (\A i \in Indices : i < mg.conf => InChunk \subseteq DOMAIN mg.src[i])
       /\ mg.bag = [j \in DOMAIN mg.bag |-> [i \in Indices |->
            IF i = 1 \/ i < mg.conf THEN Bytes(mg.src[i][j]) ELSE Missing]]
  BY <1>1, <1>2 DEF BagInv
<1>13. bag = [j \in DOMAIN bag |-> [i \in Indices |->
                IF i = 1 \/ i < mg.conf THEN Bytes(mg.src[i][j]) ELSE Missing]]
  <2>1. \A j \in DOMAIN bag : bag[j] = [i \in Indices |->
                IF i = 1 \/ i < mg.conf THEN Bytes(mg.src[i][j]) ELSE Missing]
    BY <1>11, <1>12
  <2>. QED BY <1>11, <2>1
<1>14. ~(mg.conf <= N)
  BY <1>1, <1>2, Sizes, MergeFields
<1>15. BagInv'
  BY <1>9, <1>10, <1>11, <1>12, <1>13, <1>14 DEF BagInv
<1>16. MarkInv'
  BY <1>9 DEF MarkInv
<1>17. MergedKeys' = MergedKeys \cup {k}
  <2>1. InChunk \ DOMAIN bag = (InChunk \ DOMAIN mg.bag) \cup {k}
    BY <1>3, <1>11
  <2>. QED BY <1>1, <1>9, <1>10, <2>1 DEF MergedKeys
<1>18. MergeData'
  <2>1. ASSUME NEW j \in Keys
        PROVE  db'.data[j] = IF j \in MergedKeys' THEN Concat(Whole(j)') ELSE NoString
    <3>1. DOMAIN db.data = Keys
      BY DEF Shape
    <3>2. CASE j = k
      BY <1>6, <1>9, <1>17, <3>1, <3>2 DEF w
    <3>3. CASE j # k
      BY <1>2, <1>6, <1>9, <1>17, <3>1, <3>3 DEF MergeData
    <3>. QED BY <3>2, <3>3
  <2>. QED BY <2>1 DEF MergeData
<1>. QED BY <1>1, <1>3, <1>4, <1>6, <1>9, <1>15, <1>16, <1>18 DEF MergeInv, MergeData, w

\* The next chunk, or the end of the last.
LEMMA NextLoopStep ==
  ASSUME Finished, Shape, MergeInv, NextLoop
  PROVE  MergeInv'
<1> DEFINE pc == IF mg.loop + 1 < mg.loops THEN "bag" ELSE "mark"
           m == [mg EXCEPT !.pc = pc, !.loop = mg.loop + 1, !.conf = 1]
<1>1. mg # Idle /\ mg.pc = "fill" /\ mg.conf > N /\ mg.bag = << >> /\ mg' = m
      /\ db' = db /\ obj' = obj /\ marked' = marked
  BY DEF NextLoop, Idle, vars, client
<1>2. MergeShape /\ KeysInv /\ BagInv /\ MarkInv /\ MergeData
  BY <1>1 DEF MergeInv, MergeData
<1>3. mg.loop \in Nat /\ mg.loops \in Nat /\ mg.chunk \in Nat /\ mg.chunk > 0
      /\ mg.loops * mg.chunk >= Len(mg.keys) /\ Len(mg.keys) \in Nat
  BY <1>2 DEF MergeShape
<1> HIDE DEF pc
<1>4. Goes(m) /\ m.pc = pc /\ m.conf = 1 /\ m.loop = mg.loop + 1
  <2>1. m = [pc |-> pc, src |-> mg.src, url |-> mg.url, first |-> mg.first,
             keys |-> mg.keys, chunk |-> mg.chunk, loops |-> mg.loops,
             loop |-> mg.loop + 1, conf |-> 1, bag |-> mg.bag]
    <3>1. m = MgNext(pc, mg.loop + 1, 1)
      BY DEF MgNext
    <3> HIDE DEF m
    <3>. QED BY <1>2, <3>1, MergerExcept
  <2>2. mg' = m /\ mg.loop + 1 \in Nat /\ obj' = obj /\ pc \in {"bag", "mark"}
    BY <1>1, <1>3 DEF pc
  <2> HIDE DEF m
  <2>. QED BY <2>1, <2>2 DEF Goes
<1> HIDE DEF m
<1>5. /\ MergeShape' /\ KeysInv'
      /\ mg'.src = mg.src /\ mg'.pc = pc /\ mg'.conf = 1
      /\ mg'.keys = mg.keys /\ mg'.chunk = mg.chunk /\ mg'.loop = mg.loop + 1
      /\ \A j : Whole(j)' = Whole(j)
  BY <1>2, <1>4, GoesKeeps
<1>6. pc \in {"bag", "mark"}
  BY DEF pc
<1>7. BagInv'
  BY <1>5, <1>6 DEF BagInv
<1>8. MarkInv'
  <2>1. pc = "mark" => (mg.loop + 1) * mg.chunk >= Len(mg.keys)
    <3>1. pc = "mark" => mg.loop + 1 >= mg.loops
      BY <1>3 DEF pc
    <3>2. mg.loop + 1 >= mg.loops => (mg.loop + 1) * mg.chunk >= mg.loops * mg.chunk
      BY <1>3
    <3> DEFINE a == (mg.loop + 1) * mg.chunk
               b == mg.loops * mg.chunk
    <3>3. a \in Nat /\ b \in Nat
      BY <1>3
    <3> HIDE DEF a, b
    <3>4. mg.loop + 1 >= mg.loops => a >= b
      BY <3>2 DEF a, b
    <3>5. b >= Len(mg.keys)
      BY <1>3 DEF b
    <3>6. pc = "mark" => a >= Len(mg.keys)
      BY <1>3, <3>1, <3>3, <3>4, <3>5
    <3>. QED BY <3>6 DEF a
  <2>2. \A i \in Indices : ~(i < 1)
    BY Sizes
  <2>. QED BY <1>5, <1>6, <2>1, <2>2 DEF MarkInv
<1>9. MergedKeys' = MergedKeys
  <2>1. DOMAIN mg.bag = {}
    BY <1>1
  <2>2. MergedKeys = Earlier \cup InChunk
    BY <1>1, <2>1 DEF MergedKeys
  <2>3. MergedKeys' = Earlier'
    BY <1>5, <1>6 DEF MergedKeys
  <2>4. Earlier' = KeysAt(0, (mg.loop + 1) * mg.chunk)
    <3> DEFINE b == (mg.loop + 1) * mg.chunk
    <3>1. Earlier' = {mg.keys[p] : p \in {q \in 1 .. Len(mg.keys) : q <= b}}
      BY <1>5 DEF Earlier
    <3>2. \A q \in 1 .. Len(mg.keys) : 0 < q
      BY <1>3
    <3> HIDE DEF b
    <3>3. {q \in 1 .. Len(mg.keys) : q <= b} = {q \in 1 .. Len(mg.keys) : 0 < q /\ q <= b}
      BY <3>2
    <3>4. Earlier' = KeysAt(0, b)
      BY <3>1, <3>3 DEF KeysAt
    <3>. QED BY <3>4 DEF b
  <2>. QED BY <1>2, <2>2, <2>3, <2>4, ChunkKeys
<1>10. MergeData'
  BY <1>1, <1>2, <1>5, <1>9 DEF MergeData
<1>. QED BY <1>5, <1>7, <1>8, <1>10 DEF MergeInv, MergeData

\* updateConfigInfo: one more configuration is marked.
LEMMA UpdateConfigStep ==
  ASSUME Finished, Shape, MergeInv, UpdateConfigInfo
  PROVE  /\ MergeInv'
         /\ \E c \in Indices :
              /\ marked' = marked \cup {c}
              /\ obj.dbh /\ obj.nbin = N
              /\ LET pages == SetConfigInfoOf(c, ConfigNums[c])
                 IN  db' = IF pages # << >> THEN [db EXCEPT !.cfig = pages] ELSE db
<1> DEFINE c == mg.conf
           m == [mg EXCEPT !.conf = c + 1]
           pages == SetConfigInfoOf(c, ConfigNums[c])
<1>1. /\ mg # Idle /\ mg.pc = "mark" /\ c <= N /\ mg' = m /\ obj' = obj
      /\ db' = IF mg.url[c] # NoSource /\ pages # << >> THEN [db EXCEPT !.cfig = pages] ELSE db
      /\ marked' = IF mg.src[c] # NoSource THEN marked \cup {c} ELSE marked
  BY DEF UpdateConfigInfo, Idle
<1>2. MergeShape /\ KeysInv /\ MarkInv /\ MergeData
  BY <1>1 DEF MergeInv, MergeData
<1>3. c \in Nat /\ c > 0 /\ c \in Indices /\ obj.dbh /\ obj.nbin = N
  BY <1>1, <1>2, Sizes DEF MergeShape
<1>4. mg.url[c] # NoSource /\ mg.src[c] # NoSource
  BY <1>2, <1>3 DEF MergeShape, Finished
<1>5. marked' = marked \cup {c} /\ db' = IF pages # << >> THEN [db EXCEPT !.cfig = pages] ELSE db
  BY <1>1, <1>4
<1> HIDE DEF pages
<1>6. db'.data = db.data
  BY <1>5 DEF Shape
<1>7. Goes(m) /\ m.pc = "mark" /\ m.conf = c + 1 /\ m.bag = mg.bag /\ m.loop = mg.loop
  <2>1. m = [pc |-> mg.pc, src |-> mg.src, url |-> mg.url, first |-> mg.first,
             keys |-> mg.keys, chunk |-> mg.chunk, loops |-> mg.loops,
             loop |-> mg.loop, conf |-> c + 1, bag |-> mg.bag]
    <3>1. m = MgConf(c + 1)
      BY DEF MgConf
    <3> HIDE DEF m
    <3>. QED BY <1>2, <3>1, MergerExcept
  <2>2. mg' = m /\ mg.loop \in Nat /\ c + 1 \in Nat /\ c + 1 > 0
    BY <1>1, <1>2, <1>3, MergeFields
  <2> HIDE DEF m
  <2>. QED BY <1>1, <2>1, <2>2 DEF Goes
<1> HIDE DEF m
<1>8. /\ MergeShape' /\ KeysInv'
      /\ mg'.src = mg.src /\ mg'.pc = "mark" /\ mg'.conf = c + 1
      /\ mg'.keys = mg.keys /\ mg'.chunk = mg.chunk /\ mg'.loop = mg.loop
      /\ \A j : Whole(j)' = Whole(j)
  BY <1>2, <1>7, GoesKeeps
<1>9. BagInv'
  BY <1>8 DEF BagInv
<1>10. MarkInv'
  <2>1. \A i \in Indices : i < c + 1 <=> i < c \/ i = c
    BY <1>3, Sizes
  <2>. QED BY <1>1, <1>2, <1>5, <1>8, <2>1 DEF MarkInv
<1>11. MergedKeys' = MergedKeys
  BY <1>1, <1>8, SameChunk DEF MergedKeys
<1>12. MergeData'
  BY <1>2, <1>6, <1>8, <1>11 DEF MergeData
<1>. QED BY <1>3, <1>5, <1>8, <1>9, <1>10, <1>12 DEF MergeInv, MergeData, pages

\* The merge returns.
LEMMA ReturnStep ==
  ASSUME Finished, Shape, MergeInv, Return
  PROVE  MergeInv'
<1> DEFINE m == [mg EXCEPT !.pc = "done"]
<1>1. mg # Idle /\ mg.pc = "mark" /\ mg.conf > N /\ mg' = m
      /\ db' = db /\ obj' = obj /\ marked' = marked
  BY DEF Return, Idle, vars, client
<1>2. MergeShape /\ KeysInv /\ MarkInv /\ MergeData
  BY <1>1 DEF MergeInv, MergeData
<1>3. Goes(m) /\ m.pc = "done" /\ m.loop = mg.loop
  <2>1. m = [pc |-> "done", src |-> mg.src, url |-> mg.url, first |-> mg.first,
             keys |-> mg.keys, chunk |-> mg.chunk, loops |-> mg.loops,
             loop |-> mg.loop, conf |-> mg.conf, bag |-> mg.bag]
    <3>1. m = MgPc("done")
      BY DEF MgPc
    <3> HIDE DEF m
    <3>. QED BY <1>2, <3>1, MergerExcept
  <2>2. mg' = m /\ mg.loop \in Nat /\ mg.conf \in Nat /\ mg.conf > 0
    BY <1>1, <1>2, MergeFields
  <2> HIDE DEF m
  <2>. QED BY <1>1, <2>1, <2>2 DEF Goes
<1> HIDE DEF m
<1>4. /\ MergeShape' /\ KeysInv'
      /\ mg'.src = mg.src /\ mg'.pc = "done"
      /\ mg'.keys = mg.keys /\ mg'.chunk = mg.chunk /\ mg'.loop = mg.loop
      /\ \A j : Whole(j)' = Whole(j)
  BY <1>2, <1>3, GoesKeeps
<1>5. BagInv'
  BY <1>4 DEF BagInv
<1>6. MarkInv'
  <2>1. \A i \in Indices : i < mg.conf
    BY <1>1, <1>2, Sizes, MergeFields
  <2>. QED BY <1>1, <1>2, <1>4, <2>1 DEF MarkInv
<1>7. MergedKeys' = MergedKeys
  BY <1>1, <1>4, SameChunk DEF MergedKeys
<1>8. MergeData'
  BY <1>1, <1>2, <1>4, <1>7 DEF MergeData
<1>. QED BY <1>4, <1>5, <1>6, <1>8 DEF MergeInv, MergeData

LEMMA MergeStep ==
  ASSUME Finished, Shape, MergeInv, [MNext]_mvars
  PROVE  MergeInv'
<1>1. CASE UNCHANGED mvars
  BY <1>1, MergeStays DEF mvars, vars, client
<1>2. CASE mg = Idle /\ UNCHANGED mg
  BY <1>2 DEF MergeInv, Idle
<1>3. ASSUME NEW src \in SourceSets, NEW memory \in Memories, Start(src, memory)
      PROVE  MergeInv'
  BY <1>3, StartStep
<1>4. ASSUME NEW k \in Keys, InsertBag(k) PROVE MergeInv'
  BY <1>4, InsertBagStep
<1>5. CASE InitBag \/ PopulateBag \/ NextLoop \/ UpdateConfigInfo \/ Return
  BY <1>5, InitBagStep, PopulateBagStep, NextLoopStep, UpdateConfigStep, ReturnStep
<1>6. CASE Leave
  BY <1>6 DEF Leave, MergeInv, Idle
<1>. QED BY Steps, <1>1, <1>2, <1>3, <1>4, <1>5, <1>6, Zenon

(***************************************************************************)
(* The data.                                                               *)
(***************************************************************************)
\* What is stored for a key is a string of bytes.
StringInv == \A k \in Keys : db.data[k] = NoString \/ db.data[k] \in Seq(ByteSet)

LEMMA NotNoString ==
  /\ \A string \in Seq(ByteSet) : string # NoString
  /\ \A vec : Ensemble(vec) => vec # NoString /\ Concat(vec) # NoString
<1>1. \A string \in Seq(ByteSet) : string # NoString
  BY StoreAssumption DEF ByteSet
<1>2. ASSUME NEW vec, Ensemble(vec) PROVE vec # NoString /\ Concat(vec) # NoString
  BY <1>1, <1>2, StoreAssumption, PiecesOfConcat DEF Ensemble
<1>. QED BY <1>1, <1>2

LEMMA AppEnsemble ==
  ASSUME NEW vec \in AppEnsembles
  PROVE  Ensemble(vec)
<1>1. DOMAIN ConfigNums = Indices
  BY StoreAssumption, LenProperties DEF Indices, N
<1>. QED BY <1>1, StoreAssumption DEF Ensemble, N

\* An ensemble of default values but for one.
Single(v) == [i \in Indices |-> IF i = at THEN v ELSE Blank]

LEMMA SingleEnsemble ==
  ASSUME NEW v \in Values, Size[v] = Size[Blank]
  PROVE  Ensemble(Single(v))
<1> DEFINE w == Single(v)
<1>1. w \in [1 .. N -> Values] /\ N \in Nat /\ \A i \in Indices : Size[w[i]] = Size[Blank]
  BY StoreAssumption, Sizes DEF Single
<1> HIDE DEF w
<1>2. w \in Seq(Values) /\ Len(w) = N
  BY <1>1, SeqDef, LenProperties
<1>. QED BY <1>1, <1>2, Sizes DEF Ensemble, w

LEMMA PatchedString ==
  ASSUME NEW string \in Seq(ByteSet), NEW v \in Values, NEW i \in Indices
  PROVE  Patched(string, v, i) \in Seq(ByteSet)
<1> DEFINE z == Size[v]
           a == (i - 1) * z
           b == i * z
           p == Patched(string, v, i)
<1>1. z \in Nat /\ i \in Nat /\ i - 1 \in Nat
  BY StoreAssumption, Sizes
<1>2. a \in Nat /\ b \in Nat
  BY <1>1
<1>3. p = [j \in DOMAIN string |-> IF j \in a + 1 .. b THEN <<v, j - a>> ELSE string[j]]
  BY DEF Patched
<1> HIDE DEF a, b, p, z
<1>4. Len(string) \in Nat /\ DOMAIN string = 1 .. Len(string)
      /\ \A j \in DOMAIN string : string[j] \in ByteSet
  BY LenProperties, ElementOfSeq
<1>5. ASSUME NEW j \in a + 1 .. b PROVE <<v, j - a>> \in ByteSet
  <2>1. j - a \in Nat
    BY <1>2
  <2>. QED BY <2>1 DEF ByteSet
<1>6. p \in [1 .. Len(string) -> ByteSet]
  BY <1>3, <1>4, <1>5
<1>. QED BY <1>4, <1>6, SeqDef DEF p

\* What a step does to the data and to the history of them.
Put(k, vec, string) ==
  /\ k \in Keys /\ string \in Seq(ByteSet)
  /\ db'.data = [db.data EXCEPT ![k] = string]
  /\ given' = [given EXCEPT ![k] = vec]

LEMMA DataKinds ==
  ASSUME Finished, Shape, MergeInv, StringInv, [MNext]_mvars
  PROVE  \/ db'.data = db.data /\ given' = given
         \/ \E trunc \in BOOLEAN : Open(trunc)
         \/ \E k \in AppKeys, vec \in AppEnsembles :
              Insert(k, vec) /\ Put(k, vec, Concat(vec))
         \/ \E k \in AppKeys, v \in Values :
              /\ UpdateStored(k, v) /\ UpdateReads(k)
              /\ Size[v] = IF obj.bytesize = 0 THEN Len(db.data[k]) \div obj.nbin
                           ELSE obj.bytesize
              /\ Put(k, [given[k] EXCEPT ![at] = v], Patched(db.data[k], v, at))
         \/ \E k \in AppKeys, v \in Values :
              /\ UpdateFresh(k, v)
              /\ Put(k, IF given[k] = NoString THEN Single(v) ELSE [given[k] EXCEPT ![at] = v],
                     Concat(Single(v)))
         \/ \E k \in Keys : InsertBag(k) /\ Put(k, Whole(k), Concat(Whole(k)))
<1> DEFINE Kinds ==
         \/ db'.data = db.data /\ given' = given
         \/ \E trunc \in BOOLEAN : Open(trunc)
         \/ \E k \in AppKeys, vec \in AppEnsembles :
              Insert(k, vec) /\ Put(k, vec, Concat(vec))
         \/ \E k \in AppKeys, v \in Values :
              /\ UpdateStored(k, v) /\ UpdateReads(k)
              /\ Size[v] = IF obj.bytesize = 0 THEN Len(db.data[k]) \div obj.nbin
                           ELSE obj.bytesize
              /\ Put(k, [given[k] EXCEPT ![at] = v], Patched(db.data[k], v, at))
         \/ \E k \in AppKeys, v \in Values :
              /\ UpdateFresh(k, v)
              /\ Put(k, IF given[k] = NoString THEN Single(v) ELSE [given[k] EXCEPT ![at] = v],
                     Concat(Single(v)))
         \/ \E k \in Keys : InsertBag(k) /\ Put(k, Whole(k), Concat(Whole(k)))
<1> SUFFICES Kinds
  OBVIOUS
<1>1. CASE UNCHANGED mvars
  BY <1>1 DEF mvars, vars, client
<1>2. ASSUME NEW trunc \in BOOLEAN, Open(trunc) PROVE Kinds
  BY <1>2
<1>3. ASSUME NEW k \in AppKeys, NEW vec \in AppEnsembles, Insert(k, vec) PROVE Kinds
  <2>1. k \in Keys /\ Concat(vec) \in Seq(ByteSet)
    BY AppEnsemble, PiecesOfConcat, StoreAssumption
  <2>2. CASE PutAccepts(k, Concat(vec))
    <3>1. db' = [db EXCEPT !.data[k] = Concat(vec)] /\ given' = [given EXCEPT ![k] = vec]
      BY <1>3, <2>2 DEF Insert, InsertString
    <3>2. db'.data = [db.data EXCEPT ![k] = Concat(vec)]
      BY <3>1 DEF Shape
    <3>. QED BY <1>3, <2>1, <3>1, <3>2 DEF Put
  <2>3. CASE ~PutAccepts(k, Concat(vec))
    BY <1>3, <2>3 DEF Insert, InsertString
  <2>. QED BY <2>2, <2>3
<1>4. ASSUME NEW k \in AppKeys, NEW v \in Values, UpdateStored(k, v) PROVE Kinds
  <2> DEFINE size == IF obj.bytesize = 0 THEN Len(db.data[k]) \div obj.nbin ELSE obj.bytesize
             pat == Patched(db.data[k], v, at)
             vec == [given[k] EXCEPT ![at] = v]
  <2>1. /\ db' = IF UpdateReads(k) /\ Size[v] = size
                 THEN [db EXCEPT !.data[k] = pat] ELSE db
        /\ given' = IF UpdateReads(k) /\ Size[v] = size
                    THEN [given EXCEPT ![k] = vec] ELSE given
    BY <1>4 DEF UpdateStored
  <2>2. CASE UpdateReads(k) /\ Size[v] = size
    <3>1. k \in Keys
      BY StoreAssumption
    <3>2. db.data[k] \in Seq(ByteSet)
      BY <2>2, <3>1 DEF UpdateReads, StringInv
    <3>3. pat \in Seq(ByteSet)
      BY <3>2, PatchedString DEF Shape
    <3> HIDE DEF pat, vec
    <3>4. db'.data = [db.data EXCEPT ![k] = pat] /\ given' = [given EXCEPT ![k] = vec]
      BY <2>1, <2>2 DEF Shape
    <3>5. Put(k, vec, pat)
      BY <3>1, <3>3, <3>4 DEF Put
    <3>. QED BY <1>4, <2>2, <3>5 DEF pat, vec
  <2>3. CASE ~(UpdateReads(k) /\ Size[v] = size)
    BY <2>1, <2>3
  <2>. QED BY <2>2, <2>3
<1>5. ASSUME NEW k \in AppKeys, NEW v \in Values, UpdateFresh(k, v) PROVE Kinds
  <2> DEFINE vec == IF given[k] = NoString THEN Single(v) ELSE [given[k] EXCEPT ![at] = v]
             string == Concat(Single(v))
  <2>1. Size[v] = Size[Blank] /\ k \in Keys
    BY <1>5, StoreAssumption DEF UpdateFresh
  <2>2. string \in Seq(ByteSet)
    BY <2>1, SingleEnsemble, PiecesOfConcat
  <2>3. /\ db' = IF PutAccepts(k, string) THEN [db EXCEPT !.data[k] = string] ELSE db
        /\ given' = IF PutAccepts(k, string) THEN [given EXCEPT ![k] = vec] ELSE given
    BY <1>5 DEF UpdateFresh, InsertString, Single
  <2> HIDE DEF vec, string
  <2>4. CASE PutAccepts(k, string)
    <3>1. db'.data = [db.data EXCEPT ![k] = string] /\ given' = [given EXCEPT ![k] = vec]
      BY <2>3, <2>4 DEF Shape
    <3>2. Put(k, vec, string)
      BY <2>1, <2>2, <3>1 DEF Put
    <3>. QED BY <1>5, <3>2 DEF vec, string
  <2>5. CASE ~PutAccepts(k, string)
    BY <2>3, <2>5
  <2>. QED BY <2>4, <2>5
<1>6. ASSUME NEW k \in Keys, InsertBag(k) PROVE Kinds
  <2>1. Ensemble(Whole(k)) /\ given' = [given EXCEPT ![k] = Whole(k)]
        /\ db'.data = [db.data EXCEPT ![k] = Concat(Whole(k))]
    BY <1>6, InsertBagStep
  <2>2. Put(k, Whole(k), Concat(Whole(k)))
    BY <2>1, PiecesOfConcat DEF Put
  <2>. QED BY <1>6, <2>2
<1>7. ASSUME NEW text \in Infos, InsertUserdata(text) PROVE Kinds
  BY <1>7 DEF InsertUserdata, Shape
<1>8. CASE \/ \E i \in 1 .. N + 1, j \in Indices : MarkInserted(i, ConfigNums[j])
           \/ UpdateConfigInfo
  <2>1. given' = given
    BY <1>8 DEF MarkInserted, UpdateConfigInfo
  <2>2. Marks
    BY <1>8 DEF Marks, MarkInserted, UpdateConfigInfo
  <2>. QED BY <2>1, <2>2, MarksKeep
<1>9. CASE (\E n \in {0, N} : Construct(n)) \/ Close \/ InsertOther \/ UpdateDone \/ KeysAndData
  BY <1>9 DEF Construct, Close, InsertOther, UpdateDone, KeysAndData, client
<1>10. ASSUME NEW k \in AppKeys, Get(k) PROVE Kinds
  BY <1>10 DEF Get, client
<1>11. ASSUME NEW src \in SourceSets, NEW memory \in Memories, Start(src, memory) PROVE Kinds
  BY <1>11 DEF Start, client
<1>12. CASE InitBag \/ PopulateBag \/ NextLoop \/ Return \/ Leave
  BY <1>12 DEF InitBag, PopulateBag, NextLoop, Return, Leave, vars, client
<1> HIDE DEF Kinds
<1>. QED
  BY Steps, <1>1, <1>2, <1>3, <1>4, <1>5, <1>6, <1>7, <1>8, <1>9, <1>10, <1>11, <1>12, Zenon

\* The data stay strings, and no key is lost but by a new file.
LEMMA StringStep ==
  ASSUME Finished, Shape, MergeInv, StringInv, [MNext]_mvars
  PROVE  /\ StringInv'
         /\ (\E trunc \in BOOLEAN : Open(trunc)) \/ (IsEmpty(db') => IsEmpty(db))
<1>1. DOMAIN db.data = Keys
  BY DEF Shape
<1>2. CASE db'.data = db.data
  BY <1>2 DEF StringInv, IsEmpty
<1>3. ASSUME NEW k, NEW vec, NEW string, Put(k, vec, string)
      PROVE  StringInv' /\ (IsEmpty(db') => IsEmpty(db))
  <2>1. db'.data[k] # NoString /\ StringInv'
    BY <1>1, <1>3, NotNoString DEF Put, StringInv
  <2>. QED BY <1>3, <2>1 DEF Put, IsEmpty
<1>4. ASSUME NEW trunc \in BOOLEAN, Open(trunc)
      PROVE  StringInv'
  <2>1. PICK d : (d = NewDb(N) \/ d = db) /\ db'.data = d.data
    BY <1>4, OpenCases
  <2>2. CASE d = NewDb(N)
    BY <2>1, <2>2, NewFile DEF StringInv
  <2>3. CASE d = db
    BY <2>1, <2>3 DEF StringInv
  <2>. QED BY <2>1, <2>2, <2>3
<1>. QED BY DataKinds, <1>2, <1>3, <1>4

----------------------------------------------------------------------------
(***************************************************************************)
(* The configurations.                                                     *)
(***************************************************************************)
LEMMA SetConfigsIs ==
  ASSUME NEW pages, DOMAIN pages = 1 .. ConfigPages(N)
  PROVE  SetConfigs(pages, Confs({})) = Layout({})
<1>1. DOMAIN BlankConfigs(N) = 1 .. ConfigPages(N)
  BY DEF BlankConfigs
<1>. QED BY <1>1 DEF SetConfigs, Layout

LEMMA SetInfoDomain ==
  ASSUME NEW pages, NEW c
  PROVE  SetConfigInfo(pages, c) = << >> \/ DOMAIN SetConfigInfo(pages, c) = DOMAIN pages
  BY DEF SetConfigInfo

\* A fresh object has the records of a file in which nothing is marked.
LEMMA NewObjectIs ==
  ASSUME NEW n \in {0, N}, NEW o, o = NewObj(n)
  PROVE  /\ ~o.dbh /\ o.nbin = n
         /\ n # 0 => o.cfgs = Confs({})
<1>1. [i \in 1 .. N |-> NewConfig(i)] = Confs({})
  BY Sizes DEF Confs, NewConfig
<1>2. ~o.dbh /\ o.nbin = n /\ o.cfgs = [i \in 1 .. n |-> NewConfig(i)]
  BY DEF NewObj
<1>3. n # 0 => n = N
  OBVIOUS
<1>. QED BY <1>1, <1>2, <1>3

\* Marking configuration i, under the number num, in a file that is open.
LEMMA MarkOne ==
  ASSUME Shape, ConfigInv, obj.dbh, NEW i \in 1 .. N + 1, NEW num,
         NEW pages, pages = SetConfigInfoOf(i, num)
  PROVE  /\ pages # << >> => DOMAIN pages = 1 .. ConfigPages(N)
         /\ Settled /\ i \in Indices /\ num = ConfigNums[i] =>
              pages = Layout(marked \cup {i}) /\ pages # << >>
         /\ Settled /\ ~(i \in Indices /\ num = ConfigNums[i]) => pages = << >>
<1> DEFINE c == [config |-> num, index |-> i - 1, inserted |-> 1]
<1>1. db.numcfgs = N /\ DOMAIN db.cfig = 1 .. ConfigPages(N)
  BY DEF ConfigInv
<1>2. pages = IF i > N THEN << >> ELSE SetConfigInfo(db.cfig, c)
  BY <1>1 DEF SetConfigInfoOf
<1>3. pages # << >> => DOMAIN pages = 1 .. ConfigPages(N)
  BY <1>1, <1>2, SetInfoDomain
<1>4. i \in Nat \ {0} /\ (i > N <=> i \notin Indices)
  BY Sizes
<1>5. Settled => db.cfig = Layout(marked)
  BY DEF ConfigInv
<1>6. Layout(marked \cup {i}) # << >>
  BY LayoutPages
<1>7. /\ i \in Indices /\ num = ConfigNums[i]
           => SetConfigInfo(Layout(marked), c) = Layout(marked \cup {i})
      /\ ~(i \in Indices /\ num = ConfigNums[i]) => SetConfigInfo(Layout(marked), c) = << >>
  BY <1>4, SetLayout
<1>. QED BY <1>2, <1>3, <1>4, <1>5, <1>6, <1>7

LEMMA ConfigInit == ASSUME MInit PROVE ConfigInv /\ StringInv /\ MergeInv
<1>1. db = [NewDb(1) EXCEPT !.exists = FALSE] /\ obj = NewObj(0) /\ mg = Idle
  BY DEF MInit, Init
<1>2. ~db.exists /\ \A k \in Keys : db.data[k] = NoString
  BY <1>1 DEF NewDb
<1>3. IsEmpty(db) /\ StringInv
  BY <1>2 DEF IsEmpty, StringInv
<1>4. obj.nbin = 0 /\ ~obj.dbh
  BY <1>1, NewObjectIs
<1>. QED BY <1>1, <1>2, <1>3, <1>4 DEF ConfigInv, Settled, MergeInv

LEMMA ConfigStep ==
  ASSUME Finished, Shape, MergeInv, StringInv, ConfigInv, [MNext]_mvars
  PROVE  ConfigInv'
<1>1. N # 0
  BY Sizes
<1>2. CASE LooksOn \/ Closes
  <2>1. db' = db /\ marked' = marked /\ obj'.nbin = obj.nbin /\ obj'.cfgs = obj.cfgs
        /\ (obj'.dbh => obj.dbh)
    BY <1>2 DEF LooksOn, Closes, SameObj
  <2>. QED BY <2>1 DEF ConfigInv, Settled
<1>3. CASE NewObject
  <2>1. PICK n \in {0, N} : obj' = NewObj(n)
    BY <1>3 DEF NewObject
  <2>2. db' = db /\ marked' = marked /\ ~obj.dbh
    BY <1>3 DEF NewObject
  <2>3. ~obj'.dbh /\ obj'.nbin = n /\ (n # 0 => obj'.cfgs = Confs({}))
    BY <2>1, NewObjectIs
  <2>. QED BY <2>2, <2>3 DEF ConfigInv, Settled
<1>4. ASSUME NEW trunc \in BOOLEAN, Open(trunc) PROVE ConfigInv'
  <2>1. PICK d :
           /\ (d = NewDb(N) /\ obj = NewObj(N)) \/ (d = db /\ db.exists)
           /\ obj' = Opened(d)
           /\ db'.exists = d.exists /\ db'.numcfgs = d.numcfgs /\ db'.data = d.data
           /\ db'.cfig = IF IsEmpty(d) /\ obj.nbin # 0 /\ Len(obj.cfgs) = d.numcfgs
                         THEN SetConfigs(d.cfig, obj.cfgs) ELSE d.cfig
           /\ marked' = IF IsEmpty(d) THEN {} ELSE marked
    BY <1>4, OpenCases
  <2>2. /\ d.exists /\ d.numcfgs = N /\ DOMAIN d.cfig = 1 .. ConfigPages(N)
        /\ obj.nbin \in {0, N}
        /\ IsEmpty(d) /\ obj.nbin # 0 => obj.cfgs = Confs({})
        /\ ~IsEmpty(d) => d.cfig = Layout(marked)
    <3>1. CASE d = NewDb(N) /\ obj = NewObj(N)
      <4>1. d.exists /\ d.numcfgs = N /\ d.cfig = BlankConfigs(N) /\ IsEmpty(d)
        BY <3>1, NewFile
      <4>2. DOMAIN BlankConfigs(N) = 1 .. ConfigPages(N)
        BY DEF BlankConfigs
      <4>3. obj.nbin = N /\ obj.cfgs = Confs({})
        BY <1>1, <3>1, NewObjectIs
      <4>. QED BY <4>1, <4>2, <4>3
    <3>2. CASE d = db /\ db.exists
      BY <3>2 DEF ConfigInv, Settled
    <3>. QED BY <2>1, <3>1, <3>2
  <2>3. IsEmpty(db') = IsEmpty(d)
    BY <2>1 DEF IsEmpty
  <2>4. CASE IsEmpty(d)
    <3>1. obj'.nbin = obj.nbin /\ obj'.cfgs = obj.cfgs
      BY <2>1, <2>4 DEF Opened, Shape
    <3>2. CASE obj.nbin # 0
      <4>1. obj.cfgs = Confs({}) /\ Len(obj.cfgs) = d.numcfgs
        BY <2>2, <2>4, <3>2, ConfsType
      <4>2. db'.cfig = Layout({}) /\ marked' = {}
        BY <2>1, <2>2, <2>4, <3>2, <4>1, SetConfigsIs
      <4>3. DOMAIN Layout({}) = 1 .. ConfigPages(N)
        BY LayoutPages DEF CPages
      <4>. QED BY <2>1, <2>2, <2>3, <2>4, <3>1, <4>1, <4>2, <4>3 DEF ConfigInv, Settled
    <3>3. CASE obj.nbin = 0
      BY <2>1, <2>2, <2>3, <2>4, <3>1, <3>3 DEF ConfigInv, Settled
    <3>. QED BY <3>2, <3>3
  <2>5. CASE ~IsEmpty(d)
    <3>1. obj'.nbin = N
      BY <2>1, <2>2, <2>5 DEF Opened, Shape
    <3>2. db'.cfig = d.cfig /\ marked' = marked
      BY <2>1, <2>5
    <3>. QED BY <2>1, <2>2, <2>3, <2>5, <3>1, <3>2 DEF ConfigInv, Settled
  <2>. QED BY <2>4, <2>5
<1>5. CASE Writes /\ ~(\E trunc \in BOOLEAN : Open(trunc))
  <2>1. obj.dbh /\ obj.nbin # 0
    BY <1>1, <1>5 DEF Writes, MergeInv, MergeShape
  <2>2. IsEmpty(db') => IsEmpty(db)
    BY <1>5, StringStep
  <2>3. Settled /\ db.exists
    BY <2>1 DEF Settled, ConfigInv
  <2>. QED BY <1>5, <2>1, <2>2, <2>3 DEF Writes, SameMeta, SameObj, ConfigInv, Settled
<1>6. CASE StoresText
  <2>1. IsEmpty(db') = IsEmpty(db)
    BY <1>6 DEF StoresText, IsEmpty
  <2>. QED BY <1>6, <2>1 DEF StoresText, SameMeta, SameObj, ConfigInv, Settled
<1>7. CASE Marks
  <2>1. db'.exists = db.exists /\ db'.numcfgs = db.numcfgs /\ db'.data = db.data /\ obj' = obj
    BY <1>7, MarksKeep DEF Marks
  <2>2. IsEmpty(db') = IsEmpty(db) /\ Settled' = Settled
    BY <2>1 DEF IsEmpty, Settled
  <2>3. ASSUME NEW i \in 1 .. N + 1, NEW j \in Indices, MarkInserted(i, ConfigNums[j])
        PROVE  ConfigInv'
    <3> DEFINE num == ConfigNums[j]
               pages == SetConfigInfoOf(i, num)
    <3>1. /\ obj.dbh
          /\ db' = IF pages = << >> THEN db ELSE [db EXCEPT !.cfig = pages]
          /\ marked' = IF i \in Indices /\ num = ConfigNums[i] /\ pages # << >>
                       THEN marked \cup {i} ELSE marked
      BY <2>3 DEF MarkInserted
    <3> HIDE DEF num
    <3>2. /\ pages # << >> => DOMAIN pages = 1 .. ConfigPages(N)
          /\ Settled /\ i \in Indices /\ num = ConfigNums[i] =>
               pages = Layout(marked \cup {i}) /\ pages # << >>
          /\ Settled /\ ~(i \in Indices /\ num = ConfigNums[i]) => pages = << >>
      BY <3>1, MarkOne
    <3> HIDE DEF pages
    <3>3. db'.cfig = IF pages = << >> THEN db.cfig ELSE pages
      BY <3>1 DEF Shape
    <3>4. Settled => db'.cfig = Layout(marked')
      BY <3>1, <3>2, <3>3 DEF ConfigInv
    <3>. QED BY <2>1, <2>2, <3>2, <3>3, <3>4 DEF ConfigInv
  <2>4. CASE UpdateConfigInfo
    <3>1. PICK c \in Indices :
              /\ marked' = marked \cup {c}
              /\ obj.dbh /\ obj.nbin = N
              /\ db' = IF SetConfigInfoOf(c, ConfigNums[c]) # << >>
                       THEN [db EXCEPT !.cfig = SetConfigInfoOf(c, ConfigNums[c])] ELSE db
      BY <2>4, UpdateConfigStep
    <3> DEFINE pages == SetConfigInfoOf(c, ConfigNums[c])
    <3>2. c \in 1 .. N + 1 /\ Settled
      BY <1>1, <3>1, Sizes DEF Settled
    <3>3. /\ pages # << >> => DOMAIN pages = 1 .. ConfigPages(N)
          /\ pages = Layout(marked \cup {c}) /\ pages # << >>
      <4>1. pages = SetConfigInfoOf(c, ConfigNums[c])
        OBVIOUS
      <4> HIDE DEF pages
      <4> DEFINE num == ConfigNums[c]
      <4>2. pages = SetConfigInfoOf(c, num) /\ num = ConfigNums[c]
        BY <4>1
      <4> HIDE DEF num
      <4>. QED BY <3>1, <3>2, <4>2, MarkOne
    <3> HIDE DEF pages
    <3>4. db' = [db EXCEPT !.cfig = pages]
      BY <3>1, <3>3 DEF pages
    <3>5. db'.cfig = pages
      BY <3>4 DEF Shape
    <3>. QED BY <2>1, <2>2, <3>1, <3>3, <3>5 DEF ConfigInv
  <2>. QED BY <1>7, <2>3, <2>4 DEF Marks
<1>. QED BY StepKinds, <1>2, <1>3, <1>4, <1>5, <1>6, <1>7

\* The configurations of a store with data are those it was created with, one
\* by one, and exactly the ones that setConfigInfo or a merge marked are
\* marked: for any number of configurations, any division into pages and any
\* sequence of sessions, if the numbers differ and no merge is given "N/A".
\* getConfigInfo returns them too, when the index it never wrote to is below
\* the number of pages they take, and otherwise refuses.
THEOREM ConfigurationsAreKept ==
  ASSUME Finished, DistinctConfigs
  PROVE  MSpec => []ConfigsKept
<1>1. MInit => Shape /\ MergeInv /\ StringInv /\ ConfigInv
  BY ShapeInit, ConfigInit
<1>2. Shape /\ MergeInv /\ StringInv /\ ConfigInv /\ [MNext]_mvars
        => (Shape /\ MergeInv /\ StringInv /\ ConfigInv)'
  BY StepKinds, MergeStep, StringStep, ConfigStep
<1>3. ConfigInv => ConfigsKept
  <2>1. ASSUME ConfigInv, ~IsEmpty(db)
        PROVE  /\ GetConfigs(db.cfig) = [i \in Indices |-> Kept(i)]
               /\ \A i \in Indices, index \in Leftovers :
                    GetConfigOf(index, ConfigNums[i]) =
                      IF index \in 0 .. ConfigPages(N) - 1 THEN << Kept(i) >> ELSE << >>
    <3>1. db.cfig = Layout(marked)
      BY <2>1 DEF ConfigInv, Settled
    <3>2. Confs(marked) = [i \in Indices |-> Kept(i)]
      BY DEF Confs, Kept
    <3>3. GetConfigs(db.cfig) = [i \in Indices |-> Kept(i)]
      BY <3>1, <3>2, GetLayout
    <3>4. Len(db.cfig) = ConfigPages(N)
      BY <3>1, LayoutPages DEF CPages
    <3>5. ASSUME NEW i \in Indices, NEW index \in Leftovers
          PROVE  GetConfigOf(index, ConfigNums[i]) =
                   IF index \in 0 .. ConfigPages(N) - 1 THEN << Kept(i) >> ELSE << >>
      <4>1. GetConfigInfo(db.cfig, ConfigNums[i]) = << Kept(i) >>
        BY <3>1, <3>2, GetInfoLayout
      <4>. QED BY <3>4, <4>1 DEF GetConfigOf
    <3>. QED BY <3>3, <3>5
  <2>. QED BY <2>1 DEF ConfigsKept
<1>. QED BY <1>1, <1>2, <1>3, PTL DEF MSpec

----------------------------------------------------------------------------
(***************************************************************************)
(* The ensembles.                                                          *)
(***************************************************************************)
\* The two parts of EnsembleInv.
StoredInv ==
  \A k \in Keys :
    \/ given[k] = NoString /\ db.data[k] = NoString
    \/ Ensemble(given[k]) /\ db.data[k] = Concat(given[k])

FreshInv ==
  obj.dbh /\ obj.empty /\ how # "insert" =>
    \A k \in Keys : given[k] # NoString =>
      \A i \in Indices : i # at => given[k][i] = Blank

LEMMA EnsembleParts == EnsembleInv <=> StoredInv /\ FreshInv
  BY DEF EnsembleInv, StoredInv, FreshInv

\* On an object that opened an empty file, an update gives a key an ensemble of
\* default values but for one, also a key that was updated before.
LEMMA FreshIsSingle ==
  ASSUME Shape, StoredInv, FreshInv, ~FreshUpdates,
         NEW k \in Keys, NEW v \in Values, UpdateFresh(k, v)
  PROVE  given[k] # NoString => [given[k] EXCEPT ![at] = v] = Single(v)
<1>1. obj.dbh /\ obj.empty /\ how # "insert"
  BY DEF UpdateFresh, Ready
<1>2. ASSUME given[k] # NoString PROVE [given[k] EXCEPT ![at] = v] = Single(v)
  <2> DEFINE g == given[k]
  <2>1. Ensemble(g) /\ \A i \in Indices : i # at => g[i] = Blank
    BY <1>1, <1>2 DEF StoredInv, FreshInv
  <2>2. g \in Seq(Values) /\ DOMAIN g = Indices
    BY <2>1, EnsembleType DEF Ensemble
  <2>3. g = [i \in Indices |-> g[i]]
    <3>1. g \in [1 .. Len(g) -> Values]
      BY <2>2, LenProperties
    <3>. QED BY <2>2, <3>1
  <2> HIDE DEF g
  <2>4. [g EXCEPT ![at] = v] = Single(v)
    BY <2>1, <2>3 DEF Single
  <2>. QED BY <2>4 DEF g
<1>. QED BY <1>2

LEMMA StoredStep ==
  ASSUME Finished, ~FreshUpdates, Shape, MergeInv, StringInv, ConfigInv,
         StoredInv, FreshInv, [MNext]_mvars
  PROVE  StoredInv'
<1>1. DOMAIN db.data = Keys /\ DOMAIN given = Keys
  BY DEF Shape
<1>2. ASSUME NEW k, NEW vec, NEW string, Put(k, vec, string),
             Ensemble(vec) /\ string = Concat(vec)
      PROVE  StoredInv'
  BY <1>1, <1>2 DEF Put, StoredInv
<1>3. CASE db'.data = db.data /\ given' = given
  BY <1>3 DEF StoredInv
<1>4. ASSUME NEW trunc \in BOOLEAN, Open(trunc) PROVE StoredInv'
  <2>1. PICK d :
           /\ \/ d = NewDb(N) /\ given' = [k \in Keys |-> NoString]
              \/ d = db /\ given' = given
           /\ db'.data = d.data
    BY <1>4, OpenCases
  <2>2. CASE d = NewDb(N) /\ given' = [k \in Keys |-> NoString]
    BY <2>1, <2>2, NewFile DEF StoredInv
  <2>3. CASE d = db /\ given' = given
    BY <2>1, <2>3 DEF StoredInv
  <2>. QED BY <2>1, <2>2, <2>3
<1>5. ASSUME NEW k \in AppKeys, NEW vec \in AppEnsembles, Put(k, vec, Concat(vec))
      PROVE  StoredInv'
  BY <1>2, <1>5, AppEnsemble
<1>6. ASSUME NEW k \in AppKeys, NEW v \in Values,
             UpdateStored(k, v), UpdateReads(k),
             Size[v] = IF obj.bytesize = 0 THEN Len(db.data[k]) \div obj.nbin
                       ELSE obj.bytesize,
             Put(k, [given[k] EXCEPT ![at] = v], Patched(db.data[k], v, at))
      PROVE  StoredInv'
  <2>1. k \in Keys /\ db.data[k] # NoString /\ at \in Indices
    BY <1>6, StoreAssumption DEF UpdateReads, Shape
  <2>2. Ensemble(given[k]) /\ db.data[k] = Concat(given[k])
    BY <2>1 DEF StoredInv
  <2>3. obj.nbin = N
    <3>1. obj.nbin > 0
      BY <1>6 DEF UpdateStored, Ready
    <3>2. obj.nbin # 0
      BY <3>1
    <3>. QED BY <3>2 DEF ConfigInv
  <2>4. Size[v] = Len(db.data[k]) \div N
    BY <1>6, <2>3 DEF UpdateReads
  <2>5. Size[v] = Size[given[k][1]]
    BY <2>2, <2>4, PiecesOfConcat
  <2> DEFINE vec == given[k]
             new == [vec EXCEPT ![at] = v]
  <2>6. Ensemble(vec) /\ Size[v] = Size[vec[1]]
    BY <2>2, <2>5
  <2> HIDE DEF vec
  <2>7. Ensemble(new) /\ Patched(Concat(vec), v, at) = Concat(new)
    BY <2>1, <2>6, PatchedConcat
  <2> HIDE DEF new
  <2>8. Put(k, new, Patched(db.data[k], v, at)) /\ Patched(db.data[k], v, at) = Concat(new)
    BY <1>6, <2>2, <2>7 DEF vec, new
  <2>. QED BY <1>2, <2>7, <2>8
<1>7. ASSUME NEW k \in AppKeys, NEW v \in Values, UpdateFresh(k, v),
             Put(k, IF given[k] = NoString THEN Single(v) ELSE [given[k] EXCEPT ![at] = v],
                 Concat(Single(v)))
      PROVE  StoredInv'
  <2>1. k \in Keys /\ Size[v] = Size[Blank]
    BY <1>7, StoreAssumption DEF UpdateFresh
  <2>2. Put(k, Single(v), Concat(Single(v)))
    BY <1>7, <2>1, FreshIsSingle
  <2>. QED BY <1>2, <2>1, <2>2, SingleEnsemble
<1>8. ASSUME NEW k \in Keys, InsertBag(k), Put(k, Whole(k), Concat(Whole(k)))
      PROVE  StoredInv'
  BY <1>2, <1>8, InsertBagStep
<1>. QED BY DataKinds, <1>3, <1>4, <1>5, <1>6, <1>7, <1>8

LEMMA FreshStep ==
  ASSUME Shape, StoredInv, FreshInv, ~FreshUpdates, [MNext]_mvars
  PROVE  FreshInv'
<1> DEFINE Same == /\ obj'.dbh = obj.dbh /\ obj'.empty = obj.empty
                   /\ how' = how /\ given' = given /\ at' = at
<1>1. ASSUME Same PROVE FreshInv'
  BY <1>1 DEF FreshInv
<1>2. ASSUME ~obj'.dbh \/ ~obj'.empty \/ how' = "insert" PROVE FreshInv'
  BY <1>2 DEF FreshInv
<1>3. CASE UNCHANGED mvars
  BY <1>1, <1>3 DEF mvars, vars, client
<1>4. ASSUME NEW n \in {0, N}, Construct(n) PROVE FreshInv'
  BY <1>2, <1>4, NewObjectIs DEF Construct
<1>5. ASSUME NEW trunc \in BOOLEAN, Open(trunc) PROVE FreshInv'
  <2>1. PICK d :
           /\ \/ d = NewDb(N) /\ given' = [k \in Keys |-> NoString]
              \/ d = db /\ given' = given
           /\ obj' = Opened(d)
    BY <1>5, OpenCases
  <2>2. CASE IsEmpty(d)
    <3>1. \A k \in Keys : given'[k] = NoString
      <4>1. CASE given' = [k \in Keys |-> NoString]
        BY <4>1
      <4>2. CASE d = db /\ given' = given
        BY <2>2, <4>2, NotNoString DEF StoredInv, IsEmpty
      <4>. QED BY <2>1, <4>1, <4>2
    <3>. QED BY <3>1 DEF FreshInv
  <2>3. CASE ~IsEmpty(d)
    <3>1. ~obj'.empty
      BY <2>1, <2>3 DEF Opened, Shape
    <3>. QED BY <1>2, <3>1
  <2>. QED BY <2>2, <2>3
<1>6. CASE Close \/ UpdateDone
  <2>1. ~obj'.dbh \/ ~obj'.empty
    BY <1>6 DEF Close, UpdateDone, Shape
  <2>. QED BY <1>2, <2>1
<1>7. ASSUME NEW k \in AppKeys, NEW vec \in AppEnsembles, Insert(k, vec) PROVE FreshInv'
  <2>1. ~obj'.empty \/ how' = "insert"
    BY <1>7 DEF Insert, InsertString, Shape
  <2>. QED BY <1>2, <2>1
<1>8. CASE InsertOther \/ KeysAndData
  <2>1. Same
    BY <1>8 DEF InsertOther, KeysAndData, client, Shape
  <2>. QED BY <1>1, <2>1
<1>9. ASSUME NEW k \in AppKeys, NEW v \in Values, UpdateStored(k, v) PROVE FreshInv'
  <2>1. ~obj'.empty
    BY <1>9 DEF UpdateStored, Shape
  <2>. QED BY <1>2, <2>1
<1>10. ASSUME NEW k \in AppKeys, NEW v \in Values, UpdateFresh(k, v) PROVE FreshInv'
  <2>1. k \in Keys /\ how # "insert" /\ obj.dbh /\ obj.empty /\ at' = at
    BY <1>10, StoreAssumption DEF UpdateFresh, Ready
  <2>2. given[k] # NoString => [given[k] EXCEPT ![at] = v] = Single(v)
    BY <1>10, <2>1, FreshIsSingle
  <2>3. given' = given \/ given' = [given EXCEPT ![k] = Single(v)]
    <3>1. \/ given' = given
          \/ given[k] = NoString /\ given' = [given EXCEPT ![k] = Single(v)]
          \/ given[k] # NoString /\ given' = [given EXCEPT ![k] = [given[k] EXCEPT ![at] = v]]
      BY <1>10 DEF UpdateFresh, Single
    <3>. QED BY <2>2, <3>1
  <2>4. \A i \in Indices : i # at => Single(v)[i] = Blank
    BY DEF Single
  <2>5. \A j \in Keys : given'[j] = given[j] \/ given'[j] = Single(v)
    BY <2>1, <2>3 DEF Shape
  <2>. QED BY <2>1, <2>4, <2>5 DEF FreshInv
<1>11. ASSUME NEW k \in AppKeys, Get(k) PROVE FreshInv'
  <2>1. Same
    BY <1>11 DEF Get, client, Shape
  <2>. QED BY <1>1, <2>1
<1>12. ASSUME NEW text \in Infos, InsertUserdata(text) PROVE FreshInv'
  BY <1>1, <1>12 DEF InsertUserdata
<1>13. CASE \/ \E i \in 1 .. N + 1, j \in Indices : MarkInserted(i, ConfigNums[j])
            \/ UpdateConfigInfo
  <2>1. Same
    BY <1>13 DEF MarkInserted, UpdateConfigInfo
  <2>. QED BY <1>1, <2>1
<1>14. ASSUME NEW src \in SourceSets, NEW memory \in Memories, Start(src, memory) PROVE FreshInv'
  BY <1>1, <1>14 DEF Start, client
<1>15. CASE InitBag \/ PopulateBag \/ NextLoop \/ Return \/ Leave
  <2>1. Same
    BY <1>15 DEF InitBag, PopulateBag, NextLoop, Return, Leave, vars, client
  <2>. QED BY <1>1, <2>1
<1>16. ASSUME NEW k \in Keys, InsertBag(k) PROVE FreshInv'
  BY <1>2, <1>16 DEF InsertBag
<1>. QED
  BY Steps, <1>3, <1>4, <1>5, <1>6, <1>7, <1>8, <1>9, <1>10, <1>11, <1>12, <1>13, <1>14,
     <1>15, <1>16, Zenon

LEMMA EnsembleInit == ASSUME MInit PROVE StoredInv /\ FreshInv
<1>1. db = [NewDb(1) EXCEPT !.exists = FALSE] /\ obj = NewObj(0)
      /\ given = [k \in Keys |-> NoString]
  BY DEF MInit, Init
<1>2. \A k \in Keys : db.data[k] = NoString /\ given[k] = NoString
  BY <1>1 DEF NewDb
<1>3. ~obj.dbh
  BY <1>1, NewObjectIs
<1>. QED BY <1>2, <1>3 DEF StoredInv, FreshInv

\* The whole invariant.
AllInv == Shape /\ MergeInv /\ StringInv /\ ConfigInv /\ StoredInv /\ FreshInv

LEMMA AllInvHolds ==
  ASSUME Finished, ~FreshUpdates
  PROVE  MSpec => []AllInv
<1>1. MInit => AllInv
  BY ShapeInit, ConfigInit, EnsembleInit DEF AllInv
<1>2. AllInv /\ [MNext]_mvars => AllInv'
  <2> SUFFICES ASSUME AllInv, [MNext]_mvars PROVE AllInv'
    OBVIOUS
  <2>1. Shape /\ MergeInv /\ StringInv /\ ConfigInv /\ StoredInv /\ FreshInv
    BY DEF AllInv
  <2>2. Shape'
    BY <2>1, StepKinds
  <2>3. MergeInv' /\ StringInv' /\ ConfigInv'
    BY <2>1, MergeStep, StringStep, ConfigStep
  <2>4. StoredInv' /\ FreshInv'
    BY <2>1, StoredStep, FreshStep
  <2>. QED BY <2>2, <2>3, <2>4 DEF AllInv
<1>. QED BY <1>1, <1>2, PTL DEF MSpec

\* The bytes in the database are those of the ensembles that insert, update and
\* merge have accepted, for any sizes of data and any order of calls, if no
\* object that inserts into a new database also updates it without a call of
\* updateDone, and no merge is given "N/A".
THEOREM EnsemblesStayIntact ==
  ASSUME Finished, ~FreshUpdates
  PROVE  MSpec => []EnsemblesIntact
<1>1. MSpec => []AllInv
  BY AllInvHolds
<1>2. AllInv => EnsemblesIntact
  BY NotNoString DEF AllInv, StoredInv, EnsemblesIntact
<1>. QED BY <1>1, <1>2, PTL

\* What get and keysAndData hand out of a string that is an ensemble's.
LEMMA ReadsFollow ==
  ASSUME AllInv, Ready
  PROVE  /\ \A k \in Keys :
              /\ GetStatus(k) = 0 =>
                   GetReturns(k) = [i \in Indices |-> Bytes(given[k][i])]
              /\ GetStatus(k) = 1 => given[k] = NoString
         /\ \A k \in Stored :
              PairsReturned[k] = [i \in Indices |-> Bytes(given[k][i])]
<1>1. obj.nbin = N
  <2>1. obj.nbin # 0
    BY DEF Ready
  <2>. QED BY <2>1 DEF AllInv, ConfigInv
<1>2. ASSUME NEW k \in Keys, db.data[k] # NoString
      PROVE  /\ Len(db.data[k]) % N = 0
             /\ Pieces(db.data[k], Len(db.data[k]) \div N) = [i \in Indices |-> Bytes(given[k][i])]
  <2>1. Ensemble(given[k]) /\ db.data[k] = Concat(given[k])
    BY <1>2 DEF AllInv, StoredInv
  <2>. QED BY <2>1, PiecesOfConcat
<1>3. ASSUME NEW k \in Keys
      PROVE  /\ GetStatus(k) = 0 => GetReturns(k) = [i \in Indices |-> Bytes(given[k][i])]
             /\ GetStatus(k) = 1 => given[k] = NoString
  <2>1. CASE db.data[k] = NoString
    <3>1. GetStatus(k) = 1
      BY <2>1 DEF GetStatus
    <3>2. given[k] = NoString
      BY <2>1, NotNoString DEF AllInv, StoredInv
    <3>. QED BY <3>1, <3>2
  <2>2. CASE db.data[k] # NoString
    <3>1. Len(db.data[k]) % obj.nbin = 0
      BY <1>1, <1>2, <2>2
    <3>2. GetStatus(k) = IF Learnt(k) = Len(db.data[k]) \div obj.nbin THEN 0 ELSE -1
      BY <2>2, <3>1 DEF GetStatus
    <3>3. GetStatus(k) # 1 /\ (GetStatus(k) = 0 => Learnt(k) = Len(db.data[k]) \div N)
      BY <1>1, <3>2
    <3>. QED BY <1>2, <2>2, <3>3 DEF GetReturns
  <2>. QED BY <2>1, <2>2
<1>4. ASSUME NEW k \in Stored
      PROVE  PairsReturned[k] = [i \in Indices |-> Bytes(given[k][i])]
  <2>1. k \in Keys /\ db.data[k] # NoString
    BY DEF Stored
  <2>2. PairsReturned[k] = Pieces(db.data[k], Len(db.data[k]) \div N)
    BY <1>1 DEF PairsReturned
  <2>. QED BY <1>2, <2>1, <2>2
<1>. QED BY <1>3, <1>4

\* A get that succeeds and keysAndData return every datum as it was stored,
\* whichever key the object learnt the size of a datum from, and a get says
\* that there is no such key only for a key that was never stored.
THEOREM ReadsReturnTheData ==
  ASSUME Finished, ~FreshUpdates
  PROVE  MSpec => []ReadsAreRight
<1>1. MSpec => []AllInv
  BY AllInvHolds
<1>2. AllInv => ReadsAreRight
  <2>1. DOMAIN PairsReturned = Stored
    BY DEF PairsReturned
  <2>. QED BY <2>1, ReadsFollow DEF ReadsAreRight
<1>. QED BY <1>1, <1>2, PTL

\* A merge that returns has put into the store exactly the keys of the first
\* database with the data of all configurations, and marked all of them: for
\* any number of keys, any size of memory and any order of the bag.
THEOREM MergeIsWhole ==
  ASSUME Finished
  PROVE  MSpec => []MergedIsWhole
<1>1. MInit => Shape /\ MergeInv /\ StringInv /\ ConfigInv
  BY ShapeInit, ConfigInit
<1>2. Shape /\ MergeInv /\ StringInv /\ ConfigInv /\ [MNext]_mvars
        => (Shape /\ MergeInv /\ StringInv /\ ConfigInv)'
  BY StepKinds, MergeStep, StringStep, ConfigStep
<1>3. MergeInv /\ ConfigInv => MergedIsWhole
  <2> SUFFICES ASSUME MergeInv, ConfigInv, mg.pc = "done"
               PROVE  LET have == {i \in Indices : mg.src[i] # NoSource}
                          all  == GetConfigs(db.cfig)
                      IN  /\ \A k \in Keys :
                               db.data[k] = IF k \notin DOMAIN mg.src[Least(have)] THEN NoString
                                            ELSE Concat([i \in Indices |-> mg.src[i][k]])
                          /\ \A i \in Indices : all[i].inserted = 1 <=> i \in have
    BY DEF MergedIsWhole
  <2> DEFINE have == {i \in Indices : mg.src[i] # NoSource}
             n == Len(mg.keys)
  <2>1. MergeShape /\ KeysInv /\ MarkInv /\ MergeData
    BY DEF MergeInv, MergeData, Idle
  <2>2. mg.src \in SourceSets /\ obj.dbh /\ obj.nbin = N /\ n \in Nat
        /\ mg.loop \in Nat /\ mg.chunk \in Nat
    BY <2>1 DEF MergeShape
  <2>3. have = Indices /\ Least(have) = 1
    BY <2>2, Sources
  <2>4. MergedKeys = DOMAIN mg.src[1]
    <3> DEFINE a == mg.loop * mg.chunk
    <3>1. a \in Nat /\ a >= n
      BY <2>1, <2>2 DEF MarkInv
    <3>2. MergedKeys = {mg.keys[p] : p \in {q \in 1 .. n : q <= a}}
      BY DEF MergedKeys, Earlier
    <3> HIDE DEF a, n
    <3>3. {q \in 1 .. n : q <= a} = 1 .. n
      BY <2>2, <3>1
    <3>4. (\A p \in 1 .. n : mg.keys[p] \in DOMAIN mg.src[1])
          /\ \A k \in DOMAIN mg.src[1] : \E p \in 1 .. n : mg.keys[p] = k
      BY <2>1 DEF KeysInv, n
    <3>. QED BY <3>2, <3>3, <3>4
  <2>5. \A k \in Keys : db.data[k] = IF k \notin DOMAIN mg.src[1] THEN NoString
                                    ELSE Concat([i \in Indices |-> mg.src[i][k]])
    BY <2>1, <2>4 DEF MergeData, Whole
  <2>6. \A i \in Indices : GetConfigs(db.cfig)[i].inserted = 1
    <3>1. Settled
      BY <2>2, Sizes DEF Settled
    <3>2. GetConfigs(db.cfig) = Confs(marked)
      BY <3>1, GetLayout DEF ConfigInv
    <3>3. \A i \in Indices : i \in marked
      BY <2>1 DEF MarkInv
    <3>4. ASSUME NEW i \in Indices PROVE Confs(marked)[i].inserted = 1
      <4>1. Confs(marked)[i].inserted = IF i \in marked THEN 1 ELSE 0
        BY ConfsFields
      <4>. QED BY <3>3, <4>1
    <3>. QED BY <3>2, <3>4
  <2>. QED BY <2>3, <2>5, <2>6
<1>. QED BY <1>1, <1>2, <1>3, PTL DEF MSpec
=============================================================================
