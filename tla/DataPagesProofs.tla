--------------------------- MODULE DataPagesProofs ---------------------------
(***************************************************************************)
(* What DataPages checks on small pages, for pages, headers and lengths of *)
(* any size: every datum reads back, a page that takes data has room for a *)
(* header, and the walk along the headers of a page meets all of them.     *)
(***************************************************************************)
EXTENDS DataPages, ListLemmas, FiniteSetTheorems

(***************************************************************************)
(* Arithmetic.                                                             *)
(***************************************************************************)
LEMMA Sizes ==
  /\ BSize \in Nat /\ PageHdr \in Nat \ {0} /\ DataHdr \in Nat \ {0}
  /\ Align \in Nat \ {0} /\ LenBase \in Nat \ {0}
  /\ Cap \in Nat /\ Cap > DataHdr /\ BSize = PageHdr + Cap /\ BSize < LenBase
  /\ Lens \subseteq Nat
  BY DataPagesAssumption DEF Cap

\* Multiples of Cap.
LEMMA CapTimes ==
  ASSUME NEW i \in Nat \ {0}, NEW j \in Nat \ {0}, i < j
  PROVE  /\ (i - 1) * Cap \in Nat /\ (j - 1) * Cap \in Nat
         /\ (i - 1) * Cap + Cap <= (j - 1) * Cap
<1>. DEFINE d == j - i - 1
<1>1. d \in Nat /\ j - 1 = (i - 1) + (d + 1) /\ i - 1 \in Nat /\ Cap \in Nat
  BY Sizes
<1>. HIDE DEF d
<1>2. d * Cap \in Nat /\ (i - 1) * Cap \in Nat
  BY <1>1
<1>3. (j - 1) * Cap = (i - 1) * Cap + d * Cap + Cap
  BY <1>1
<1>. QED BY <1>1, <1>2, <1>3

\* ALIGN_ADDR goes to the next multiple.
LEMMA AlignUpIs ==
  ASSUME NEW x \in Nat
  PROVE  /\ AlignUp(x) \in Nat /\ AlignUp(x) >= x
         /\ AlignUp(x) % Align = 0
         /\ \A m \in Nat : m % Align = 0 /\ x <= m => AlignUp(x) <= m
<1>. DEFINE A == Align
            y == x + A - 1
            q == y \div A
            r == y % A
<1>1. A \in Nat \ {0} /\ y \in Nat /\ y = x + A - 1
  BY Sizes
<1>2. AlignUp(x) = q * A
  BY DEF AlignUp
<1>. HIDE DEF y, A
<1>3. q \in Nat /\ r \in 0 .. A - 1 /\ y = A * q + r
  BY <1>1, Quotient
<1>. HIDE DEF q, r
<1>4. q * A = A * q /\ q * A \in Nat
  BY <1>1, <1>3
<1>5. q * A >= x
  BY <1>1, <1>3, <1>4
<1>6. (q * A) % A = 0
  BY <1>1, <1>3, ExactQuotient
<1>7. ASSUME NEW m \in Nat, m % A = 0, x <= m PROVE q * A <= m
  <2>. DEFINE p == m \div A
  <2>1. p \in Nat /\ m = A * p
    <3>1. p \in Nat /\ m = A * p + (m % A)
      BY <1>1, Quotient
    <3>. HIDE DEF p
    <3>2. A * p \in Nat
      BY <1>1, <3>1
    <3>. QED BY <1>7, <3>1, <3>2
  <2>. HIDE DEF p
  <2>2. CASE q <= p
    <3>. DEFINE e == p - q
    <3>1. e \in Nat /\ p = q + e
      BY <1>3, <2>1, <2>2
    <3>. HIDE DEF e
    <3>2. A * p = A * q + A * e /\ A * e \in Nat
      BY <1>1, <1>3, <3>1
    <3>. QED BY <1>4, <2>1, <3>2
  <2>3. CASE q > p
    <3>. DEFINE e == q - p - 1
    <3>1. e \in Nat /\ q = p + e + 1
      BY <1>3, <2>1, <2>3
    <3>. HIDE DEF e
    <3>2. A * q = A * p + A * e + A /\ A * e \in Nat /\ A * p \in Nat
      BY <1>1, <2>1, <3>1
    <3>3. y >= m + A
      BY <1>1, <1>3, <1>4, <2>1, <3>2
    <3>. QED BY <1>1, <1>7, <3>3
  <2>. QED BY <1>3, <2>1, <2>2, <2>3
<1>. QED BY <1>2, <1>4, <1>5, <1>6, <1>7 DEF A

\* A length is put together again from its two parts.
LEMMA LengthIs ==
  ASSUME NEW n \in Nat
  PROVE  /\ Low(n) \in Nat /\ High(n) \in Nat
         /\ RealLen(Low(n), High(n)) = n
         /\ ~IsHuge(n) => High(n) = 0
<1>. DEFINE B == LenBase
            q == n \div B
            r == n % B
<1>1. B \in Nat \ {0}
  BY Sizes
<1>2. Low(n) = r /\ High(n) = q
  BY DEF Low, High
<1>3. RealLen(r, q) = q * B + r
  BY DEF RealLen
<1>. HIDE DEF B
<1>4. q \in Nat /\ r \in 0 .. B - 1 /\ n = B * q + r
  BY <1>1, Quotient
<1>. HIDE DEF q, r
<1>5. q * B = B * q
  BY <1>1, <1>4
<1>6. ASSUME n < B, q # 0 PROVE FALSE
  <2>. DEFINE e == q - 1
  <2>1. e \in Nat /\ q = e + 1
    BY <1>4, <1>6
  <2>. HIDE DEF e
  <2>2. B * q = B * e + B /\ B * e \in Nat
    BY <1>1, <2>1
  <2>. QED BY <1>1, <1>4, <1>6, <2>2
<1>7. ~IsHuge(n) => q = 0
  BY <1>1, <1>6 DEF IsHuge, B
<1>. QED BY <1>2, <1>3, <1>4, <1>5, <1>7

\* How many pages the rest of a datum takes.
LEMMA PiecesAre ==
  ASSUME NEW rest \in Nat \ {0}, NEW N, N = (rest + Cap - 1) \div Cap
  PROVE  /\ N \in Nat \ {0}
         /\ \A i \in Nat \ {0} : rest - (i - 1) * Cap > 0 <=> i <= N
<1>. DEFINE C == Cap
            y == rest + C - 1
            r == y % C
<1>1. C \in Nat \ {0} /\ y \in Nat /\ y = rest + C - 1 /\ N = y \div C
  BY Sizes
<1>. HIDE DEF C, y
<1>2. N \in Nat /\ r \in 0 .. C - 1 /\ y = C * N + r
  <2>1. y \div C \in Nat /\ y % C \in 0 .. C - 1 /\ y = C * (y \div C) + (y % C)
    BY <1>1, Quotient
  <2>. QED BY <1>1, <2>1
<1>. HIDE DEF r
<1>3. N # 0
  BY <1>1, <1>2
<1>4. ASSUME NEW i \in Nat \ {0} PROVE rest - (i - 1) * C > 0 <=> i <= N
  <2>1. CASE i <= N
    <3>. DEFINE e == N - i
    <3>1. e \in Nat /\ N = (i - 1) + e + 1
      BY <1>2, <2>1
    <3>. HIDE DEF e
    <3>2. C * N = (i - 1) * C + C * e + C /\ C * e \in Nat /\ (i - 1) * C \in Nat
      BY <1>1, <3>1
    <3>. QED BY <1>1, <1>2, <2>1, <3>2
  <2>2. CASE i > N
    <3>. DEFINE e == i - 1 - N
    <3>1. e \in Nat /\ i - 1 = N + e
      BY <1>2, <2>2
    <3>. HIDE DEF e
    <3>2. (i - 1) * C = C * N + C * e /\ C * e \in Nat /\ C * N \in Nat
      BY <1>1, <1>2, <3>1
    <3>. QED BY <1>1, <1>2, <2>2, <3>2
  <2>. QED BY <1>2, <2>1, <2>2
<1>. QED BY <1>2, <1>3, <1>4 DEF C


-----------------------------------------------------------------------------
(***************************************************************************)
(* The pages.  Next to what RoomForHeader says, a page has its headers in  *)
(* the order of their offsets: each names the one behind it, the last one  *)
(* the place where data is added.                                          *)
(***************************************************************************)
Cells  == {Junk} \cup (Nat \X Int) \cup (Keys \X (0 .. 1) \X Int)
Hdr    == [len : Nat, high : Nat, next : Nat, place : 0 .. 1]
Hdrs   == UNION {[S -> Hdr] : S \in SUBSET Offsets}
PageT  == [cell : [Offsets -> Cells], hdr : Hdrs, free : Nat,
           firstpos : Nat, next : Nat, num : Nat]
Values == [key : Keys, gen : 0 .. 1, len : Nat]

RoomOk(pg) ==
  pg.free # 0 => /\ pg.free >= PageHdr /\ BSize - pg.free >= DataHdr
                 /\ pg.free % Align = 0
                 /\ \A i \in pg.free .. BSize - 1 : pg.cell[i] = Junk

\* The headers H with their links nx, the first of them and the place free.
Listed(H, nx, first, free, num) ==
  /\ IsFiniteSet(H) /\ num = Cardinality(H)
  /\ \A h \in H : h \in Nat /\ h + DataHdr <= BSize /\ nx[h] \in Nat
  /\ free # 0 => \A h \in H : h < free /\ nx[h] # 0
  /\ \A h \in H : nx[h] # 0 => nx[h] > h /\ (nx[h] \in H \/ nx[h] = free)
  /\ \A h, g \in H : h < g => nx[h] # 0 /\ nx[h] <= g
  /\ IF H = {} THEN first = free ELSE first \in H /\ \A h \in H : first <= h

NextOf(pg) == [h \in DOMAIN pg.hdr |-> pg.hdr[h].next]

ListOk(pg) == Listed(DOMAIN pg.hdr, NextOf(pg), pg.firstpos, pg.free, pg.num)

PageOk(pg) == pg \in PageT /\ RoomOk(pg) /\ ListOk(pg)

(***************************************************************************)
(* A datum of n bytes whose header is at offset off of page p: Inner bytes *)
(* of it lie behind the header, the rest on the pages that follow in the   *)
(* order they were added.  Left says what is left when page i of them      *)
(* begins, and Wide how much of it is written there.                       *)
(***************************************************************************)
Inner(off)      == BSize - off - DataHdr
Left(n, off, i) == n - Inner(off) - (i - 1) * Cap
Wide(l)         == IF l <= Cap - DataHdr THEN l ELSE Cap
Base(P, p)      == P[p].next - 1

\* The cells of the datum.
TakenFirst(p, off, n, q, c) ==
  q = p /\ off <= c /\ c < off + DataHdr + n /\ c < BSize
TakenThere(b, off, n, q, c) ==
  \E i \in Nat \ {0} :
    /\ q = b + i /\ Left(n, off, i) > 0
    /\ PageHdr <= c /\ c < PageHdr + Wide(Left(n, off, i))
Taken(P, p, off, n, q, c) ==
  TakenFirst(p, off, n, q, c) \/ TakenThere(Base(P, p), off, n, q, c)

\* Its pages follow one another.
Links(P, p, off, n) ==
  /\ Left(n, off, 1) > 0 => Base(P, p) >= p
  /\ \A i \in Nat \ {0} : Left(n, off, i) > 0 =>
       /\ Base(P, p) + i <= Len(P)
       /\ Left(n, off, i + 1) > 0 => P[Base(P, p) + i].next = Base(P, p) + i + 1

HeaderOk(pg, off, n, pl) ==
  /\ off \in DOMAIN pg.hdr
  /\ pg.hdr[off].len = Low(n) /\ pg.hdr[off].high = High(n)
  /\ pg.hdr[off].place = pl
  /\ \A i \in 0 .. DataHdr - 1 : pg.cell[off + i] = <<off, i>>

BytesOk(P, p, off, v) ==
  /\ \A j \in 1 .. v.len : j <= Inner(off) => P[p].cell[off + DataHdr + j - 1] = Byte(v, j)
  /\ \A i \in Nat \ {0}, r \in 0 .. Cap - 1 :
       r < Left(v.len, off, i) =>
         P[Base(P, p) + i].cell[PageHdr + r]
           = Byte(v, Inner(off) + (i - 1) * Cap + r + 1)

DatumOk(P, p, off, v, pl) ==
  /\ p \in 1 .. Len(P)
  /\ HeaderOk(P[p], off, v.len, pl)
  /\ Links(P, p, off, v.len)
  /\ BytesOk(P, p, off, v)

\* No cell of the datum is where data is added.
Below(P, p, off, n) ==
  \A q \in 1 .. Len(P), c \in Nat :
    Taken(P, p, off, n, q, c) /\ P[q].free # 0 => c < P[q].free

Pointer(p, off, v) ==
  [first |-> p, off |-> off, len |-> Low(v.len), high |-> High(v.len), chksum |-> v]

CurrOk(P, cur) == cur # 0 => cur \in 1 .. Len(P) /\ P[cur].next = 0

PagesOk(P) == P \in Seq(PageT) /\ \A q \in 1 .. Len(P) : PageOk(P[q])

KeyOk(P, d, v, pl) ==
  /\ v \in Values /\ d = Pointer(d.first, d.off, v)
  /\ DatumOk(P, d.first, d.off, v, pl)
  /\ Below(P, d.first, d.off, v.len)

Apart(P, d, v, e, w) ==
  \A q, c \in Nat : ~(/\ Taken(P, d.first, d.off, v.len, q, c)
                      /\ Taken(P, e.first, e.off, w.len, q, c))

DataInv ==
  /\ PagesOk(page) /\ CurrOk(page, curr)
  /\ DOMAIN datap = Keys /\ DOMAIN given = Keys /\ place \in [Keys -> 0 .. 1]
  /\ \A k \in Stored : KeyOk(page, datap[k], given[k], place[k]) /\ given[k].key = k
  /\ \A k, m \in Stored : k # m => Apart(page, datap[k], given[k], datap[m], given[m])


-----------------------------------------------------------------------------
(***************************************************************************)
(* Writing on a page.                                                      *)
(***************************************************************************)
LEMMA ByteIs ==
  ASSUME NEW v \in Values, NEW i \in Int
  PROVE  Byte(v, i) \in Cells
  BY DEF Values, Byte, Cells

LEMMA Bytes ==
  ASSUME NEW pg \in PageT, NEW v \in Values,
         NEW at \in Int, NEW first \in Int, NEW n \in Int,
         NEW w, w = WithBytes(pg, at, v, first, n)
  PROVE  /\ w \in PageT /\ w.hdr = pg.hdr /\ w.free = pg.free
         /\ w.firstpos = pg.firstpos /\ w.next = pg.next /\ w.num = pg.num
         /\ \A c \in Offsets :
              w.cell[c] = IF c \in at .. at + n - 1 THEN Byte(v, first + c - at)
                          ELSE pg.cell[c]
<1>. DEFINE f == [i \in Offsets |-> IF i \in at .. at + n - 1
                                    THEN Byte(v, first + i - at) ELSE pg.cell[i]]
<1>1. f \in [Offsets -> Cells]
  <2>. SUFFICES ASSUME NEW i \in Offsets PROVE f[i] \in Cells
    OBVIOUS
  <2>1. i \in Int /\ first + i - at \in Int
    BY Sizes DEF Offsets
  <2>2. pg.cell[i] \in Cells
    BY DEF PageT
  <2>. QED BY <2>1, <2>2, ByteIs
<1>2. w = [pg EXCEPT !.cell = f]
  BY DEF WithBytes
<1>3. \A c \in Offsets : f[c] = IF c \in at .. at + n - 1 THEN Byte(v, first + c - at)
                                ELSE pg.cell[c]
  OBVIOUS
<1>. HIDE DEF f
<1>. QED BY <1>1, <1>2, <1>3 DEF PageT

LEMMA HeaderWritten ==
  ASSUME NEW pg \in PageT, NEW off \in Offsets, off + DataHdr <= BSize,
         NEW h \in Hdr, NEW w, w = WithHeader(pg, off, h)
  PROVE  /\ w \in PageT /\ w.free = pg.free
         /\ w.firstpos = pg.firstpos /\ w.next = pg.next /\ w.num = pg.num
         /\ DOMAIN w.hdr = DOMAIN pg.hdr \cup {off}
         /\ w.hdr[off] = h
         /\ \A o \in DOMAIN pg.hdr : o # off => w.hdr[o] = pg.hdr[o]
         /\ \A c \in Offsets :
              w.cell[c] = IF c \in off .. off + DataHdr - 1 THEN <<off, c - off>>
                          ELSE pg.cell[c]
<1>. DEFINE f == [i \in Offsets |-> IF i \in off .. off + DataHdr - 1
                                    THEN <<off, i - off>> ELSE pg.cell[i]]
            g == [o \in DOMAIN pg.hdr \cup {off} |-> IF o = off THEN h ELSE pg.hdr[o]]
<1>1. f \in [Offsets -> Cells]
  <2>. SUFFICES ASSUME NEW i \in Offsets PROVE f[i] \in Cells
    OBVIOUS
  <2>1. <<off, i - off>> \in Nat \X Int
    BY Sizes DEF Offsets
  <2>2. pg.cell[i] \in Cells
    BY DEF PageT
  <2>3. <<off, i - off>> \in Cells
    BY <2>1 DEF Cells
  <2>. QED BY <2>2, <2>3
<1>2. w = [pg EXCEPT !.hdr = g, !.cell = f]
  BY DEF WithHeader
<1>3. g \in Hdrs
  <2>1. pg.hdr \in Hdrs
    BY DEF PageT
  <2>2. PICK S \in SUBSET Offsets : pg.hdr \in [S -> Hdr]
    BY <2>1 DEF Hdrs
  <2>3. g \in [S \cup {off} -> Hdr]
    BY <2>2
  <2>4. S \cup {off} \in SUBSET Offsets
    OBVIOUS
  <2>. HIDE DEF g
  <2>. QED BY <2>3, <2>4 DEF Hdrs
<1>4. /\ DOMAIN g = DOMAIN pg.hdr \cup {off} /\ g[off] = h
      /\ \A o \in DOMAIN pg.hdr : o # off => g[o] = pg.hdr[o]
  OBVIOUS
<1>5. \A c \in Offsets : f[c] = IF c \in off .. off + DataHdr - 1 THEN <<off, c - off>>
                                ELSE pg.cell[c]
  OBVIOUS
<1>. HIDE DEF f, g
<1>6. w \in PageT
  BY <1>1, <1>2, <1>3 DEF PageT
<1>7. w.hdr = g /\ w.cell = f /\ w.free = pg.free
      /\ w.firstpos = pg.firstpos /\ w.next = pg.next /\ w.num = pg.num
  BY <1>2 DEF PageT
<1>. QED BY <1>4, <1>5, <1>6, <1>7

LEMMA HdrsAre ==
  ASSUME NEW pg \in PageT
  PROVE  /\ DOMAIN pg.hdr \subseteq Offsets
         /\ \A o \in DOMAIN pg.hdr : pg.hdr[o] \in Hdr
<1>1. pg.hdr \in Hdrs
  BY DEF PageT
<1>2. PICK S \in SUBSET Offsets : pg.hdr \in [S -> Hdr]
  BY <1>1 DEF Hdrs
<1>. QED BY <1>2

LEMMA NewPageOk ==
  PageOk(NewPage) /\ NewPage.free = PageHdr /\ NewPage.next = 0
  /\ DOMAIN NewPage.hdr = {} /\ NewPage.num = 0
  /\ \A c \in Offsets : NewPage.cell[c] = Junk
<1>. DEFINE p == NewPage
<1>1. p = [cell |-> [i \in Offsets |-> Junk], hdr |-> << >>,
           free |-> PageHdr, firstpos |-> PageHdr, next |-> 0, num |-> 0]
  BY DEF NewPage
<1>. HIDE DEF p
<1>2. << >> \in Hdrs /\ DOMAIN << >> = {}
  <2>1. << >> \in [{} -> Hdr] /\ {} \in SUBSET Offsets
    OBVIOUS
  <2>. QED BY <2>1 DEF Hdrs
<1>3. [i \in Offsets |-> Junk] \in [Offsets -> Cells]
  BY DEF Cells
<1>4. p \in PageT
  BY <1>1, <1>2, <1>3, Sizes DEF PageT
<1>5. RoomOk(p)
  BY <1>1, Sizes, DataPagesAssumption DEF RoomOk, Offsets
<1>6. DOMAIN p.hdr = {} /\ p.firstpos = p.free /\ p.num = 0
  BY <1>1, <1>2
<1>7. ListOk(p)
  BY <1>6, FS_EmptySet DEF ListOk, Listed
<1>. QED BY <1>1, <1>4, <1>5, <1>6, <1>7 DEF PageOk, p

\* One more header, behind the others.
LEMMA ListAppend ==
  ASSUME NEW H, NEW nx, NEW first, NEW free \in Nat \ {0}, NEW num,
         Listed(H, nx, first, free, num), free + DataHdr <= BSize,
         NEW m \in Nat, m = 0 \/ m > free,
         NEW ny, \A h \in H : ny[h] = nx[h], ny[free] = m
  PROVE  Listed(H \cup {free}, ny, first, m, num + 1) /\ free \notin H
<1>1. /\ IsFiniteSet(H) /\ num = Cardinality(H)
      /\ \A h \in H : h \in Nat /\ h + DataHdr <= BSize /\ nx[h] \in Nat
      /\ \A h \in H : h < free /\ nx[h] # 0
      /\ \A h \in H : nx[h] # 0 => nx[h] > h /\ (nx[h] \in H \/ nx[h] = free)
      /\ \A h, g \in H : h < g => nx[h] # 0 /\ nx[h] <= g
      /\ IF H = {} THEN first = free ELSE first \in H /\ \A h \in H : first <= h
  BY DEF Listed
<1>. DEFINE G == H \cup {free}
<1>2. free \notin H
  BY <1>1
<1>3. IsFiniteSet(G) /\ num + 1 = Cardinality(G)
  BY <1>1, <1>2, FS_AddElement
<1>4. \A h \in G : h \in Nat /\ h + DataHdr <= BSize /\ ny[h] \in Nat
  BY <1>1
<1>5. m # 0 => \A h \in G : h < m /\ ny[h] # 0
  BY <1>1
<1>6. \A h \in G : ny[h] # 0 => ny[h] > h /\ (ny[h] \in G \/ ny[h] = m)
  BY <1>1
<1>7. \A h, g \in G : h < g => ny[h] # 0 /\ ny[h] <= g
  <2>. SUFFICES ASSUME NEW h \in G, NEW g \in G, h < g
                PROVE  ny[h] # 0 /\ ny[h] <= g
    OBVIOUS
  <2>1. h \in H
    BY <1>1
  <2>2. CASE g \in H
    BY <1>1, <2>1, <2>2
  <2>3. CASE g = free
    <3>1. nx[h] # 0 /\ (nx[h] \in H \/ nx[h] = free)
      BY <1>1, <2>1
    <3>2. nx[h] <= free
      BY <1>1, <3>1
    <3>. QED BY <2>1, <2>3, <3>1, <3>2
  <2>. QED BY <2>2, <2>3
<1>8. G # {} /\ first \in G /\ \A h \in G : first <= h
  <2>1. CASE H = {}
    BY <1>1, <2>1
  <2>2. CASE H # {}
    BY <1>1, <2>2
  <2>. QED BY <2>1, <2>2
<1>. HIDE DEF G
<1>9. Listed(G, ny, first, m, num + 1)
  BY <1>3, <1>4, <1>5, <1>6, <1>7, <1>8 DEF Listed
<1>. QED BY <1>2, <1>9 DEF G


\* What a page is after a datum's header and n of its bytes were added at
\* start.
Grown(pg, w, start, h, v, n) ==
  /\ w.firstpos = pg.firstpos /\ w.num = pg.num + 1
  /\ DOMAIN w.hdr = DOMAIN pg.hdr \cup {start} /\ start \notin DOMAIN pg.hdr
  /\ w.hdr[start] = h
  /\ \A o \in DOMAIN pg.hdr : w.hdr[o] = pg.hdr[o]
  /\ \A c \in Offsets :
       w.cell[c] = IF c \in start + DataHdr .. start + DataHdr + n - 1
                   THEN Byte(v, 1 + c - (start + DataHdr))
                   ELSE IF c \in start .. start + DataHdr - 1 THEN <<start, c - start>>
                   ELSE pg.cell[c]

\* A page with a place for data keeps its headers in order when one is added
\* there.
LEMMA GrownOk ==
  ASSUME NEW pg, PageOk(pg), pg.free # 0, NEW w \in PageT,
         NEW h \in Hdr, NEW v \in Values, NEW n \in Nat,
         Grown(pg, w, pg.free, h, v, n), w.free = h.next,
         h.next # 0 => /\ h.next >= pg.free + DataHdr + n /\ h.next % Align = 0
                       /\ BSize - h.next >= DataHdr
  PROVE  PageOk(w)
<1>. DEFINE s == pg.free
            m == h.next
<1>1. /\ s \in Nat \ {0} /\ s >= PageHdr /\ s + DataHdr <= BSize
      /\ \A i \in s .. BSize - 1 : pg.cell[i] = Junk
      /\ ListOk(pg) /\ pg \in PageT /\ m \in Nat
  BY Sizes DEF PageOk, RoomOk, PageT, Hdr
<1>2. Grown(pg, w, s, h, v, n) /\ w.free = m
  OBVIOUS
<1>3. m # 0 => m >= s + DataHdr + n /\ m % Align = 0 /\ BSize - m >= DataHdr
  OBVIOUS
<1>4. RoomOk(w)
  <2>. SUFFICES ASSUME m # 0
                PROVE  /\ m >= PageHdr /\ BSize - m >= DataHdr /\ m % Align = 0
                       /\ \A i \in m .. BSize - 1 : w.cell[i] = Junk
    BY <1>2 DEF RoomOk
  <2>. HIDE DEF s, m
  <2>1. m >= PageHdr
    BY <1>1, <1>3, Sizes
  <2>2. ASSUME NEW i \in m .. BSize - 1 PROVE w.cell[i] = Junk
    <3>1. i \in Offsets /\ i \in s .. BSize - 1 /\ i >= s + DataHdr + n
      BY <1>1, <1>3, Sizes DEF Offsets
    <3>2. i \notin s + DataHdr .. s + DataHdr + n - 1
          /\ i \notin s .. s + DataHdr - 1
      BY <1>1, <3>1, Sizes
    <3>3. w.cell[i] = pg.cell[i]
      BY <1>2, <3>1, <3>2 DEF Grown
    <3>. QED BY <1>1, <3>1, <3>3
  <2>. QED BY <1>3, <2>1, <2>2
<1>. DEFINE H == DOMAIN pg.hdr
            nx == NextOf(pg)
            ny == NextOf(w)
<1>5. Listed(H, nx, pg.firstpos, s, pg.num)
  BY <1>1 DEF ListOk
<1>6. (\A o \in H : ny[o] = nx[o]) /\ ny[s] = m
  BY <1>2 DEF NextOf, Grown
<1>7. m = 0 \/ m > s
  <2>. HIDE DEF s, m
  <2>. QED BY <1>1, <1>3, Sizes
<1>8. Listed(H \cup {s}, ny, pg.firstpos, m, pg.num + 1)
  <2>. HIDE DEF H, nx, ny, s, m
  <2>. QED BY <1>1, <1>5, <1>6, <1>7, ListAppend
<1>9. ListOk(w)
  <2>1. DOMAIN w.hdr = H \cup {s} /\ w.firstpos = pg.firstpos
        /\ w.num = pg.num + 1
    BY <1>2 DEF Grown
  <2>. HIDE DEF H, s, m
  <2>. QED BY <1>2, <1>8, <2>1 DEF ListOk
<1>. QED BY <1>4, <1>9 DEF PageOk

\* The page of a datum that fits, and the first one of a datum that does not.
FitsPage(pg, h, v) ==
  [WithBytes(WithHeader(pg, pg.free, h), pg.free + DataHdr, v, 1, v.len)
     EXCEPT !.free = h.next, !.num = @ + 1]

SpreadFirst(pg, h, v, nn) ==
  [WithHeader(WithBytes(pg, pg.free + DataHdr, v, 1, BSize - pg.free - DataHdr),
              pg.free, h)
     EXCEPT !.free = 0, !.next = nn, !.num = @ + 1]

\* _ffdb_add_data when the datum fits.
LEMMA FitsOk ==
  ASSUME NEW pg, PageOk(pg), pg.free # 0, NEW v \in Values, Fits(v, pg.free),
         NEW h \in Hdr, h.next = NextFree(pg.free, v),
         NEW w, w = FitsPage(pg, h, v)
  PROVE  /\ PageOk(w) /\ w.next = pg.next /\ w.free = h.next
         /\ Grown(pg, w, pg.free, h, v, v.len)
         /\ h.next # 0 => h.next >= pg.free + DataHdr + v.len
         /\ pg.free + DataHdr + v.len <= BSize
<1>. DEFINE s == pg.free
            x == WithHeader(pg, s, h)
            y == WithBytes(x, s + DataHdr, v, 1, v.len)
            m == h.next
            n == v.len
<1>1. /\ s \in Nat \ {0} /\ s + DataHdr <= BSize /\ s \in Offsets /\ pg \in PageT
      /\ n \in Nat
  BY Sizes DEF PageOk, RoomOk, PageT, Values, Offsets
<1>2. s + DataHdr + n <= BSize
  <2>1. DataHdr + n <= BSize - s
    BY DEF Fits
  <2>. HIDE DEF s, n
  <2>. QED BY <1>1, <2>1, Sizes
<1>3. /\ x \in PageT /\ x.free = pg.free
      /\ x.firstpos = pg.firstpos /\ x.next = pg.next /\ x.num = pg.num
      /\ DOMAIN x.hdr = DOMAIN pg.hdr \cup {s}
      /\ x.hdr[s] = h
      /\ \A o \in DOMAIN pg.hdr : o # s => x.hdr[o] = pg.hdr[o]
      /\ \A c \in Offsets :
           x.cell[c] = IF c \in s .. s + DataHdr - 1 THEN <<s, c - s>> ELSE pg.cell[c]
  <2>1. x = WithHeader(pg, s, h)
    OBVIOUS
  <2>. HIDE DEF s, x
  <2>. QED BY <1>1, <2>1, HeaderWritten
<1>. HIDE DEF x
<1>4. /\ y \in PageT /\ y.hdr = x.hdr /\ y.free = x.free
      /\ y.firstpos = x.firstpos /\ y.next = x.next /\ y.num = x.num
      /\ \A c \in Offsets :
           y.cell[c] = IF c \in s + DataHdr .. s + DataHdr + n - 1
                       THEN Byte(v, 1 + c - (s + DataHdr)) ELSE x.cell[c]
  <2>1. s + DataHdr \in Int /\ n \in Int /\ 1 \in Int
    BY <1>1, Sizes
  <2>. DEFINE at == s + DataHdr
  <2>2. y = WithBytes(x, at, v, 1, n)
    OBVIOUS
  <2>3. x \in PageT
    BY <1>3
  <2>. HIDE DEF s, n, y, at
  <2>4. at \in Int /\ n \in Int
    BY <2>1 DEF at
  <2>5. /\ y \in PageT /\ y.hdr = x.hdr /\ y.free = x.free
        /\ y.firstpos = x.firstpos /\ y.next = x.next /\ y.num = x.num
        /\ \A c \in Offsets :
             y.cell[c] = IF c \in at .. at + n - 1 THEN Byte(v, 1 + c - at)
                         ELSE x.cell[c]
    BY <2>2, <2>3, <2>4, Bytes
  <2>. QED BY <2>5 DEF at
<1>. HIDE DEF y
<1>5. w = [y EXCEPT !.free = m, !.num = @ + 1]
  BY DEF y, x, FitsPage
<1>6. /\ w.hdr = y.hdr /\ w.cell = y.cell /\ w.free = m /\ w.firstpos = y.firstpos
      /\ w.next = y.next /\ w.num = y.num + 1 /\ w \in PageT
  <2>1. m \in Nat
    BY DEF Hdr
  <2>2. y \in PageT
    BY <1>4
  <2>. HIDE DEF m, s, n
  <2>3. y.num \in Nat
    BY <2>2 DEF PageT
  <2>4. w \in PageT
    <3>1. y = [cell |-> y.cell, hdr |-> y.hdr, free |-> y.free,
               firstpos |-> y.firstpos, next |-> y.next, num |-> y.num]
      BY <2>2 DEF PageT
    <3>2. w = [cell |-> y.cell, hdr |-> y.hdr, free |-> m,
               firstpos |-> y.firstpos, next |-> y.next, num |-> y.num + 1]
      BY <1>5, <3>1
    <3>3. y.num + 1 \in Nat
      BY <2>3
    <3>. QED BY <2>1, <2>2, <3>2, <3>3 DEF PageT
  <2>5. /\ w.hdr = y.hdr /\ w.cell = y.cell /\ w.free = m
        /\ w.firstpos = y.firstpos /\ w.next = y.next /\ w.num = y.num + 1
    BY <1>5, <2>2 DEF PageT
  <2>. QED BY <2>4, <2>5
<1>7. s \notin DOMAIN pg.hdr
  BY <1>1 DEF PageOk, ListOk, Listed
<1>8. Grown(pg, w, s, h, v, n)
  BY <1>3, <1>4, <1>6, <1>7 DEF Grown
<1>9. m # 0 => m >= s + DataHdr + n /\ m % Align = 0 /\ BSize - m >= DataHdr
  <2>. DEFINE u == AlignUp(s + DataHdr + n)
  <2>1. m = IF u + DataHdr >= BSize THEN 0 ELSE u
    BY DEF NextFree
  <2>2. s + DataHdr + n \in Nat
    BY <1>1, Sizes
  <2>. HIDE DEF u, m, s, n
  <2>3. u \in Nat /\ u >= s + DataHdr + n /\ u % Align = 0
    BY <2>2, AlignUpIs DEF u
  <2>. QED BY <2>1, <2>3, Sizes
<1>10. PageOk(w)
  BY <1>1, <1>6, <1>8, <1>9, GrownOk
<1>. QED BY <1>2, <1>3, <1>4, <1>6, <1>8, <1>9, <1>10

\* The first page of a datum that is spread over several: it is full.
LEMMA SpreadFirstOk ==
  ASSUME NEW pg, PageOk(pg), pg.free # 0, NEW v \in Values,
         NEW h \in Hdr, h.next = 0, NEW nn \in Nat,
         NEW w, w = SpreadFirst(pg, h, v, nn)
  PROVE  /\ PageOk(w) /\ w.next = nn /\ w.free = 0
         /\ Grown(pg, w, pg.free, h, v, BSize - pg.free - DataHdr)
<1>. DEFINE s == pg.free
            n == BSize - s - DataHdr
            x == WithBytes(pg, s + DataHdr, v, 1, n)
            y == WithHeader(x, s, h)
<1>1. /\ s \in Nat \ {0} /\ s + DataHdr <= BSize /\ s \in Offsets /\ pg \in PageT
      /\ n \in Nat
  <2>1. /\ s \in Nat \ {0} /\ s + DataHdr <= BSize /\ s \in Offsets /\ pg \in PageT
    BY Sizes DEF PageOk, RoomOk, PageT, Offsets
  <2>. HIDE DEF s
  <2>. QED BY <2>1, Sizes
<1>2. /\ x \in PageT /\ x.hdr = pg.hdr /\ x.free = pg.free
      /\ x.firstpos = pg.firstpos /\ x.next = pg.next /\ x.num = pg.num
      /\ \A c \in Offsets :
           x.cell[c] = IF c \in s + DataHdr .. s + DataHdr + n - 1
                       THEN Byte(v, 1 + c - (s + DataHdr)) ELSE pg.cell[c]
  <2>1. s + DataHdr \in Int /\ n \in Int /\ 1 \in Int
    BY <1>1, Sizes
  <2>2. x = WithBytes(pg, s + DataHdr, v, 1, n)
    OBVIOUS
  <2>3. pg \in PageT
    BY <1>1
  <2>. DEFINE at == s + DataHdr
  <2>. HIDE DEF s, x, n, y, at
  <2>4. at \in Int /\ n \in Int /\ x = WithBytes(pg, at, v, 1, n)
    BY <2>1, <2>2 DEF at
  <2>5. /\ x \in PageT /\ x.hdr = pg.hdr /\ x.free = pg.free
        /\ x.firstpos = pg.firstpos /\ x.next = pg.next /\ x.num = pg.num
        /\ \A c \in Offsets :
             x.cell[c] = IF c \in at .. at + n - 1 THEN Byte(v, 1 + c - at)
                         ELSE pg.cell[c]
    BY <2>3, <2>4, Bytes
  <2>. QED BY <2>5 DEF at
<1>. HIDE DEF x, n
<1>3. /\ y \in PageT /\ y.free = x.free
      /\ y.firstpos = x.firstpos /\ y.next = x.next /\ y.num = x.num
      /\ DOMAIN y.hdr = DOMAIN x.hdr \cup {s}
      /\ y.hdr[s] = h
      /\ \A o \in DOMAIN x.hdr : o # s => y.hdr[o] = x.hdr[o]
      /\ \A c \in Offsets :
           y.cell[c] = IF c \in s .. s + DataHdr - 1 THEN <<s, c - s>> ELSE x.cell[c]
  <2>. HIDE DEF s
  <2>. QED BY <1>1, <1>2, HeaderWritten
<1>. HIDE DEF y
<1>4. w = [y EXCEPT !.free = 0, !.next = nn, !.num = @ + 1]
  BY DEF y, x, n, SpreadFirst
<1>5. /\ w.hdr = y.hdr /\ w.cell = y.cell /\ w.free = 0 /\ w.firstpos = y.firstpos
      /\ w.next = nn /\ w.num = y.num + 1 /\ w \in PageT
  <2>1. y \in PageT
    BY <1>3
  <2>2. y.num \in Nat
    BY <2>1 DEF PageT
  <2>3. w \in PageT
    <3>1. y = [cell |-> y.cell, hdr |-> y.hdr, free |-> y.free,
               firstpos |-> y.firstpos, next |-> y.next, num |-> y.num]
      BY <2>1 DEF PageT
    <3>2. w = [cell |-> y.cell, hdr |-> y.hdr, free |-> 0,
               firstpos |-> y.firstpos, next |-> nn, num |-> y.num + 1]
      BY <1>4, <3>1
    <3>3. y.num + 1 \in Nat
      BY <2>2
    <3>. QED BY <2>1, <3>2, <3>3 DEF PageT
  <2>. QED BY <1>4, <2>1, <2>3 DEF PageT
<1>6. s \notin DOMAIN pg.hdr
  BY <1>1 DEF PageOk, ListOk, Listed
<1>7. \A c \in Offsets :
         w.cell[c] = IF c \in s + DataHdr .. s + DataHdr + n - 1
                     THEN Byte(v, 1 + c - (s + DataHdr))
                     ELSE IF c \in s .. s + DataHdr - 1 THEN <<s, c - s>>
                     ELSE pg.cell[c]
  <2>. HIDE DEF s
  <2>1. \A c \in Offsets : ~(/\ c \in s + DataHdr .. s + DataHdr + n - 1
                             /\ c \in s .. s + DataHdr - 1)
    BY <1>1, Sizes DEF Offsets
  <2>. QED BY <1>2, <1>3, <1>5, <2>1
<1>8. Grown(pg, w, s, h, v, n)
  BY <1>2, <1>3, <1>5, <1>6, <1>7 DEF Grown
<1>9. PageOk(w)
  <2>1. w.free = h.next
    BY <1>5
  <2>2. Grown(pg, w, pg.free, h, v, n)
    BY <1>8
  <2>3. w \in PageT /\ n \in Nat
    BY <1>1, <1>5
  <2>4. h.next = 0
    OBVIOUS
  <2>. HIDE DEF n, s
  <2>5. h.next # 0 => /\ h.next >= pg.free + DataHdr + n /\ h.next % Align = 0
                      /\ BSize - h.next >= DataHdr
    BY <2>4
  <2>. QED BY <2>1, <2>2, <2>3, <2>5, GrownOk, Zenon
<1>. QED BY <1>5, <1>8, <1>9 DEF n

\* A page behind the first one of a datum.
LEMMA SpreadPageOk ==
  ASSUME NEW v \in Values, NEW l \in Nat \ {0}, NEW nn \in Nat,
         NEW w, w = SpreadPage(v, l, nn)
  PROVE  /\ PageOk(w) /\ w.next = nn /\ DOMAIN w.hdr = {}
         /\ w.free # 0 => w.free >= PageHdr + Wide(l)
         /\ \A r \in 0 .. Cap - 1 : r < l => w.cell[PageHdr + r] = Byte(v, v.len - l + 1 + r)
<1>. DEFINE x == WithBytes(NewPage, PageHdr, v, v.len - l + 1, Wide(l))
            m == SpreadFree(l)
<1>1. NewPage \in PageT /\ Wide(l) \in Nat /\ v.len \in Nat
  BY NewPageOk, Sizes DEF PageOk, Wide, Values
<1>2. /\ x \in PageT /\ x.hdr = NewPage.hdr /\ x.num = NewPage.num
      /\ \A c \in Offsets :
           x.cell[c] = IF c \in PageHdr .. PageHdr + Wide(l) - 1
                       THEN Byte(v, v.len - l + 1 + c - PageHdr) ELSE NewPage.cell[c]
  <2>1. PageHdr \in Int /\ v.len - l + 1 \in Int /\ Wide(l) \in Int
    BY <1>1, Sizes
  <2>. QED BY <1>1, <2>1, Bytes
<1>3. w = [x EXCEPT !.free = m, !.firstpos = m, !.next = nn]
  BY DEF SpreadPage, Wide
<1>4. /\ m \in Nat
      /\ m # 0 => /\ l <= Cap - DataHdr /\ m >= PageHdr + l
                  /\ m % Align = 0 /\ BSize - m >= DataHdr
  <2>1. CASE l <= Cap - DataHdr
    <3>1. PageHdr + l \in Nat /\ BSize - DataHdr \in Nat
          /\ PageHdr + l <= BSize - DataHdr
      BY <2>1, Sizes
    <3>2. (BSize - DataHdr) % Align = 0
      <4>1. BSize % Align = 0 /\ DataHdr % Align = 0
        BY DataPagesAssumption
      <4>. DEFINE A == Align
                  a == BSize \div A
                  d == DataHdr \div A
      <4>2. A \in Nat \ {0} /\ A = Align
        BY Sizes
      <4>. HIDE DEF A
      <4>3. a \in Nat /\ BSize = A * a + (BSize % A)
        BY <4>2, Sizes, Quotient
      <4>4. d \in Nat /\ DataHdr = A * d + (DataHdr % A)
        BY <4>2, Sizes, Quotient
      <4>. HIDE DEF a, d
      <4>5. BSize = A * a /\ DataHdr = A * d
        <5>1. A * a \in Nat /\ A * d \in Nat
          BY <4>2, <4>3, <4>4
        <5>. QED BY <4>1, <4>2, <4>3, <4>4, <5>1
      <4>. DEFINE e == a - d
      <4>6. e \in Nat
        <5>1. CASE a < d
          <6>. DEFINE z == d - a
          <6>1. z \in Nat /\ d = a + z
            BY <4>3, <4>4, <5>1
          <6>. HIDE DEF z
          <6>2. A * d = A * a + A * z /\ A * z \in Nat
            BY <4>2, <4>3, <6>1
          <6>. QED BY <4>5, <6>2, <3>1, Sizes
        <5>2. CASE a >= d
          BY <4>3, <4>4, <5>2
        <5>. QED BY <4>3, <4>4, <5>1, <5>2
      <4>7. BSize - DataHdr = e * A
        <5>1. a = e + d
          BY <4>3, <4>4
        <5>. HIDE DEF e
        <5>2. A * a = A * e + A * d /\ A * e = e * A
          BY <4>2, <4>4, <4>6, <5>1
        <5>3. A * e \in Nat /\ A * d \in Nat
          BY <4>2, <4>4, <4>6
        <5>. QED BY <4>5, <5>2, <5>3
      <4>. HIDE DEF e
      <4>8. (e * A) % A = 0
        BY <4>2, <4>6, ExactQuotient
      <4>. QED BY <4>2, <4>7, <4>8
    <3>3. m = AlignUp(PageHdr + l)
      BY <2>1 DEF SpreadFree
    <3>4. m \in Nat /\ m >= PageHdr + l /\ m % Align = 0 /\ m <= BSize - DataHdr
      BY <3>1, <3>2, <3>3, AlignUpIs
    <3>. HIDE DEF m
    <3>. QED BY <2>1, <3>4, Sizes
  <2>2. CASE ~(l <= Cap - DataHdr)
    BY <2>2 DEF SpreadFree
  <2>. QED BY <2>1, <2>2
<1>. HIDE DEF m, x
<1>5. /\ w.hdr = x.hdr /\ w.cell = x.cell /\ w.free = m /\ w.firstpos = m
      /\ w.next = nn /\ w.num = x.num /\ w \in PageT
  BY <1>2, <1>3, <1>4 DEF PageT
<1>6. DOMAIN w.hdr = {} /\ w.num = 0
  BY <1>2, <1>5, NewPageOk
<1>7. ListOk(w)
  BY <1>5, <1>6, FS_EmptySet DEF ListOk, Listed
<1>8. m # 0 => Wide(l) = l
  BY <1>4 DEF Wide
<1>9. RoomOk(w)
  <2>. SUFFICES ASSUME m # 0
                PROVE  /\ m >= PageHdr /\ BSize - m >= DataHdr /\ m % Align = 0
                       /\ \A i \in m .. BSize - 1 : w.cell[i] = Junk
    BY <1>5 DEF RoomOk
  <2>1. m >= PageHdr
    BY <1>4, Sizes
  <2>2. ASSUME NEW i \in m .. BSize - 1 PROVE w.cell[i] = Junk
    <3>1. i \in Offsets /\ i \notin PageHdr .. PageHdr + Wide(l) - 1
      BY <1>4, <1>8, Sizes DEF Offsets
    <3>. QED BY <1>2, <1>5, <3>1, NewPageOk
  <2>. QED BY <1>4, <2>1, <2>2
<1>10. ASSUME NEW r \in 0 .. Cap - 1, r < l
       PROVE  w.cell[PageHdr + r] = Byte(v, v.len - l + 1 + r)
  <2>. DEFINE c == PageHdr + r
  <2>1. c \in Offsets /\ c \in PageHdr .. PageHdr + Wide(l) - 1
    BY <1>10, Sizes DEF Offsets, Wide
  <2>2. v.len - l + 1 + c - PageHdr = v.len - l + 1 + r
    BY <1>1, Sizes
  <2>. HIDE DEF c
  <2>3. w.cell[c] = Byte(v, v.len - l + 1 + c - PageHdr)
    BY <1>2, <1>5, <2>1
  <2>. QED BY <2>2, <2>3 DEF c
<1>11. w.free # 0 => w.free >= PageHdr + Wide(l)
  BY <1>4, <1>5, <1>8
<1>. QED BY <1>5, <1>6, <1>7, <1>9, <1>10, <1>11 DEF PageOk

\* Writing below the place where data is added, and other lengths and places
\* in the headers, leave a page in order.
LEMMA ChangedOk ==
  ASSUME NEW pg, PageOk(pg), NEW w \in PageT,
         w.free = pg.free, w.firstpos = pg.firstpos, w.num = pg.num,
         DOMAIN w.hdr = DOMAIN pg.hdr,
         \A o \in DOMAIN pg.hdr : w.hdr[o].next = pg.hdr[o].next,
         \A c \in Offsets : pg.free # 0 /\ c >= pg.free => w.cell[c] = pg.cell[c]
  PROVE  PageOk(w)
<1>1. RoomOk(w)
  <2>1. ASSUME pg.free # 0, NEW i \in pg.free .. BSize - 1 PROVE w.cell[i] = Junk
    <3>1. pg.free \in Nat
      BY DEF PageOk, PageT
    <3>2. i \in Offsets /\ i >= pg.free
      BY <3>1, Sizes DEF Offsets
    <3>. QED BY <2>1, <3>2 DEF PageOk, RoomOk
  <2>. QED BY <2>1 DEF PageOk, RoomOk
<1>2. NextOf(w) = NextOf(pg)
  BY DEF NextOf
<1>3. ListOk(w)
  BY <1>2 DEF PageOk, ListOk
<1>. QED BY <1>1, <1>3 DEF PageOk


-----------------------------------------------------------------------------
(***************************************************************************)
(* Where a datum lies.                                                     *)
(***************************************************************************)
LEMMA HeaderInside ==
  ASSUME NEW pg, PageOk(pg), NEW off \in DOMAIN pg.hdr
  PROVE  /\ off \in Nat /\ off + DataHdr <= BSize /\ off \in Offsets
         /\ Inner(off) \in Nat /\ off + DataHdr + Inner(off) = BSize
         /\ pg.hdr[off] \in Hdr
<1>1. off \in Nat /\ off + DataHdr <= BSize
  BY DEF PageOk, ListOk, Listed
<1>2. pg.hdr[off] \in Hdr
  BY HdrsAre DEF PageOk
<1>. QED BY <1>1, <1>2, Sizes DEF Inner, Offsets

\* What is left on each page: a full page less than on the one before.
LEMMA LeftIs ==
  ASSUME NEW n \in Nat, NEW off \in Nat, off + DataHdr <= BSize,
         NEW i \in Nat \ {0}
  PROVE  /\ Left(n, off, i) \in Int /\ Left(n, off, 1) = n - Inner(off)
         /\ Left(n, off, i + 1) = Left(n, off, i) - Cap
         /\ Left(n, off, i) <= Left(n, off, 1)
         /\ \A m \in Nat : m <= n => Left(m, off, i) <= Left(n, off, i)
<1>1. Inner(off) \in Nat
  BY Sizes DEF Inner
<1>. DEFINE j == i - 1
<1>2. j \in Nat /\ i = j + 1
  OBVIOUS
<1>3. j * Cap \in Nat /\ i * Cap = j * Cap + Cap /\ Cap \in Nat
  BY <1>2, Sizes
<1>4. \A m \in Nat : Left(m, off, i) = m - Inner(off) - j * Cap
  BY DEF Left
<1>5. (i + 1) - 1 = i /\ (1 - 1) * Cap = 0
  BY <1>3
<1>6. Left(n, off, i + 1) = n - Inner(off) - i * Cap
  BY <1>5 DEF Left
<1>7. Left(n, off, 1) = n - Inner(off)
  BY <1>1, <1>5 DEF Left
<1>. HIDE DEF j
<1>. QED BY <1>1, <1>3, <1>4, <1>6, <1>7

\* How much is written on a page.
LEMMA WideIs ==
  ASSUME NEW l \in Int, l > 0
  PROVE  /\ Wide(l) \in Nat /\ Wide(l) <= Cap
         /\ \A r \in 0 .. Cap - 1 : r < l => r < Wide(l)
         /\ \A k \in Int : 0 < k /\ k <= l => Wide(k) <= Wide(l)
  BY Sizes DEF Wide

\* A datum of n bytes in the pages P.
Lies(P, p, off, n) ==
  /\ PagesOk(P) /\ p \in 1 .. Len(P) /\ n \in Nat
  /\ off \in DOMAIN P[p].hdr /\ Links(P, p, off, n)

LEMMA PageIs ==
  ASSUME NEW P, PagesOk(P), NEW q \in 1 .. Len(P)
  PROVE  PageOk(P[q]) /\ P[q] \in PageT /\ P[q].next \in Nat /\ P[q].free \in Nat
         /\ Len(P) \in Nat /\ DOMAIN P = 1 .. Len(P)
<1>1. P \in Seq(PageT) /\ PageOk(P[q])
  BY DEF PagesOk
<1>2. Len(P) \in Nat /\ DOMAIN P = 1 .. Len(P)
  BY <1>1, LenProperties
<1>3. P[q] \in PageT
  BY <1>1 DEF PageOk
<1>. QED BY <1>1, <1>2, <1>3 DEF PageT

LEMMA LiesIn ==
  ASSUME NEW P, NEW p, NEW off, NEW n, Lies(P, p, off, n)
  PROVE  /\ off \in Nat /\ off + DataHdr <= BSize /\ off \in Offsets
         /\ Inner(off) \in Nat /\ off + DataHdr + Inner(off) = BSize
         /\ Len(P) \in Nat /\ p \in Nat /\ n \in Nat /\ Base(P, p) \in Int
         /\ \A i \in Nat \ {0} : Left(n, off, i) > 0 =>
              Base(P, p) \in Nat /\ Base(P, p) >= p /\ Base(P, p) + i \in 1 .. Len(P)
<1>1. PageOk(P[p]) /\ P[p].next \in Nat /\ Len(P) \in Nat /\ p \in Nat /\ p >= 1
  BY PageIs DEF Lies
<1>2. /\ off \in Nat /\ off + DataHdr <= BSize /\ off \in Offsets
      /\ Inner(off) \in Nat /\ off + DataHdr + Inner(off) = BSize
  BY <1>1, HeaderInside DEF Lies
<1>3. Base(P, p) \in Int /\ n \in Nat
  BY <1>1 DEF Base, Lies
<1>4. ASSUME NEW i \in Nat \ {0}, Left(n, off, i) > 0
      PROVE  Base(P, p) \in Nat /\ Base(P, p) >= p /\ Base(P, p) + i \in 1 .. Len(P)
  <2>1. Left(n, off, 1) > 0
    <3>1. Left(n, off, i) \in Int /\ Left(n, off, i) <= Left(n, off, 1)
      BY <1>2, <1>3, LeftIs
    <3>2. Left(n, off, 1) \in Int
      BY <1>2, <1>3, LeftIs
    <3>. QED BY <1>4, <3>1, <3>2
  <2>2. Base(P, p) >= p /\ Base(P, p) + i <= Len(P)
    BY <1>4, <2>1 DEF Lies, Links
  <2>. QED BY <1>1, <1>3, <2>2
<1>. QED BY <1>1, <1>2, <1>3, <1>4


\* The cells of a datum are in its pages, from its header on.
LEMMA TakenIn ==
  ASSUME NEW P, NEW p, NEW off, NEW n, Lies(P, p, off, n),
         NEW q, NEW c \in Nat, Taken(P, p, off, n, q, c)
  PROVE  /\ q \in 1 .. Len(P) /\ c \in Offsets
         /\ q = p => c >= off
         /\ q = p \/ \E i \in Nat \ {0} : q = Base(P, p) + i /\ Left(n, off, i) > 0
<1>0. /\ off \in Nat /\ Len(P) \in Nat /\ p \in Nat /\ n \in Nat
      /\ off + DataHdr <= BSize
  BY LiesIn
<1>1. CASE TakenFirst(p, off, n, q, c)
  <2>1. q = p /\ off <= c /\ c < BSize
    BY <1>1 DEF TakenFirst
  <2>. QED BY <2>1, Sizes DEF Lies, Offsets
<1>2. CASE TakenThere(Base(P, p), off, n, q, c)
  <2>1. PICK i \in Nat \ {0} :
          /\ q = Base(P, p) + i /\ Left(n, off, i) > 0
          /\ PageHdr <= c /\ c < PageHdr + Wide(Left(n, off, i))
    BY <1>2 DEF TakenThere
  <2>2. Base(P, p) \in Nat /\ Base(P, p) >= p /\ q \in 1 .. Len(P)
    BY <2>1, LiesIn
  <2>3. q # p
    BY <1>0, <2>1, <2>2
  <2>4. Left(n, off, i) \in Int
    BY <1>0, LeftIs
  <2>5. Wide(Left(n, off, i)) \in Nat /\ Wide(Left(n, off, i)) <= Cap
    BY <2>1, <2>4, WideIs
  <2>6. c \in Offsets
    BY <2>1, <2>5, Sizes DEF Offsets
  <2>. QED BY <2>1, <2>2, <2>3, <2>6
<1>. QED BY <1>1, <1>2 DEF Taken

\* Its header and its bytes are among them.
LEMMA TakenCells ==
  ASSUME NEW P, NEW p, NEW off, NEW n, Lies(P, p, off, n)
  PROVE  /\ \A i \in 0 .. DataHdr - 1 :
              off + i \in Nat /\ Taken(P, p, off, n, p, off + i)
         /\ \A j \in 1 .. n : j <= Inner(off) =>
              off + DataHdr + j - 1 \in Nat /\ Taken(P, p, off, n, p, off + DataHdr + j - 1)
         /\ \A i \in Nat \ {0}, r \in 0 .. Cap - 1 : r < Left(n, off, i) =>
              /\ Base(P, p) + i \in 1 .. Len(P) /\ PageHdr + r \in Nat
              /\ Taken(P, p, off, n, Base(P, p) + i, PageHdr + r)
<1>0. /\ off \in Nat /\ n \in Nat /\ off + DataHdr <= BSize
      /\ Inner(off) \in Nat /\ off + DataHdr + Inner(off) = BSize
  BY LiesIn
<1>1. ASSUME NEW i \in 0 .. DataHdr - 1
      PROVE  off + i \in Nat /\ Taken(P, p, off, n, p, off + i)
  <2>1. off + i \in Nat /\ off <= off + i /\ off + i < off + DataHdr + n /\ off + i < BSize
    BY <1>0, Sizes
  <2>. QED BY <2>1 DEF Taken, TakenFirst
<1>2. ASSUME NEW j \in 1 .. n, j <= Inner(off)
      PROVE  off + DataHdr + j - 1 \in Nat /\ Taken(P, p, off, n, p, off + DataHdr + j - 1)
  <2>. DEFINE c == off + DataHdr + j - 1
  <2>1. c \in Nat /\ off <= c /\ c < off + DataHdr + n /\ c < BSize
    BY <1>0, <1>2, Sizes
  <2>. HIDE DEF c
  <2>2. Taken(P, p, off, n, p, c)
    BY <2>1 DEF Taken, TakenFirst
  <2>. QED BY <2>1, <2>2 DEF c
<1>3. ASSUME NEW i \in Nat \ {0}, NEW r \in 0 .. Cap - 1, r < Left(n, off, i)
      PROVE  /\ Base(P, p) + i \in 1 .. Len(P) /\ PageHdr + r \in Nat
             /\ Taken(P, p, off, n, Base(P, p) + i, PageHdr + r)
  <2>1. Left(n, off, i) \in Int
    BY <1>0, LeftIs
  <2>2. Left(n, off, i) > 0 /\ r \in Nat
    BY <1>3, <2>1, Sizes
  <2>3. Base(P, p) + i \in 1 .. Len(P)
    BY <2>2, LiesIn
  <2>4. r < Wide(Left(n, off, i)) /\ Wide(Left(n, off, i)) \in Nat
    BY <1>3, <2>1, <2>2, WideIs
  <2>. DEFINE c == PageHdr + r
  <2>5. c \in Nat /\ PageHdr <= c /\ c < PageHdr + Wide(Left(n, off, i))
    BY <2>2, <2>4, Sizes
  <2>. HIDE DEF c
  <2>6. TakenThere(Base(P, p), off, n, Base(P, p) + i, c)
    BY <2>2, <2>5 DEF TakenThere
  <2>. QED BY <2>3, <2>5, <2>6 DEF Taken, c
<1>. QED BY <1>1, <1>2, <1>3

\* A shorter datum in the same place takes fewer cells.
LEMMA Shorter ==
  ASSUME NEW P, NEW p, NEW off, NEW n, Lies(P, p, off, n), NEW m \in Nat, m <= n
  PROVE  /\ Lies(P, p, off, m)
         /\ \A q, c \in Nat : Taken(P, p, off, m, q, c) => Taken(P, p, off, n, q, c)
<1>0. /\ off \in Nat /\ n \in Nat /\ off + DataHdr <= BSize
  BY LiesIn
<1>1. ASSUME NEW i \in Nat \ {0}, Left(m, off, i) > 0
      PROVE  /\ Left(n, off, i) > 0 /\ Wide(Left(m, off, i)) <= Wide(Left(n, off, i))
             /\ Wide(Left(m, off, i)) \in Nat /\ Wide(Left(n, off, i)) \in Nat
  <2>1. /\ Left(n, off, i) \in Int /\ Left(m, off, i) \in Int
        /\ Left(m, off, i) <= Left(n, off, i)
    BY <1>0, LeftIs
  <2>2. Left(n, off, i) > 0
    BY <1>1, <2>1
  <2>. QED BY <1>1, <2>1, <2>2, WideIs
<1>2. Lies(P, p, off, m)
  <2>1. Links(P, p, off, m)
    <3>1. Left(m, off, 1) > 0 => Base(P, p) >= p
      BY <1>1 DEF Lies, Links
    <3>2. ASSUME NEW i \in Nat \ {0}, Left(m, off, i) > 0
          PROVE  /\ Base(P, p) + i <= Len(P)
                 /\ Left(m, off, i + 1) > 0 => P[Base(P, p) + i].next = Base(P, p) + i + 1
      <4>1. i + 1 \in Nat \ {0}
        OBVIOUS
      <4>. QED BY <1>1, <3>2, <4>1 DEF Lies, Links
    <3>. QED BY <3>1, <3>2 DEF Links
  <2>. QED BY <2>1 DEF Lies
<1>3. ASSUME NEW q \in Nat, NEW c \in Nat, Taken(P, p, off, m, q, c)
      PROVE  Taken(P, p, off, n, q, c)
  <2>1. CASE TakenFirst(p, off, m, q, c)
    <3>1. q = p /\ off <= c /\ c < off + DataHdr + m /\ c < BSize
      BY <2>1 DEF TakenFirst
    <3>2. c < off + DataHdr + n
      BY <1>0, <3>1, Sizes
    <3>. QED BY <3>1, <3>2 DEF Taken, TakenFirst
  <2>2. CASE TakenThere(Base(P, p), off, m, q, c)
    <3>1. PICK i \in Nat \ {0} :
            /\ q = Base(P, p) + i /\ Left(m, off, i) > 0
            /\ PageHdr <= c /\ c < PageHdr + Wide(Left(m, off, i))
      BY <2>2 DEF TakenThere
    <3>2. Left(n, off, i) > 0 /\ c < PageHdr + Wide(Left(n, off, i))
      BY <1>1, <3>1, Sizes
    <3>. QED BY <3>1, <3>2 DEF Taken, TakenThere
  <2>. QED BY <1>3, <2>1, <2>2 DEF Taken
<1>. QED BY <1>2, <1>3

\* Pages that are added, and pages on which data are added, keep their links
\* to the pages behind them.
Keeps(P, R) ==
  /\ Len(P) <= Len(R)
  /\ \A q \in 1 .. Len(P) :
       /\ P[q].next # 0 => R[q].next = P[q].next
       /\ R[q].free # 0 => P[q].free # 0 /\ R[q].free >= P[q].free

LEMMA SameTaken ==
  ASSUME NEW P, NEW R, NEW p, NEW off, NEW n, Lies(P, p, off, n),
         PagesOk(R), Keeps(P, R), off \in DOMAIN R[p].hdr
  PROVE  /\ Lies(R, p, off, n)
         /\ \A i \in Nat \ {0} : Left(n, off, i) > 0 => Base(R, p) = Base(P, p)
         /\ \A q, c \in Nat : Taken(R, p, off, n, q, c) <=> Taken(P, p, off, n, q, c)
<1>0. /\ off \in Nat /\ n \in Nat /\ off + DataHdr <= BSize
      /\ p \in 1 .. Len(P) /\ Len(P) \in Nat /\ Len(R) \in Nat /\ PagesOk(P)
  <2>1. Len(R) \in Nat
    BY LenProperties DEF PagesOk
  <2>. QED BY <2>1, LiesIn DEF Lies
<1>1. ASSUME NEW i \in Nat \ {0}, Left(n, off, i) > 0
      PROVE  Base(R, p) = Base(P, p)
  <2>1. Base(P, p) \in Nat /\ P[p].next \in Nat
    BY <1>0, <1>1, LiesIn, PageIs
  <2>2. P[p].next # 0
    BY <2>1 DEF Base
  <2>3. R[p].next = P[p].next
    BY <1>0, <2>2 DEF Keeps
  <2>. QED BY <2>3 DEF Base
<1>2. Lies(R, p, off, n)
  <2>1. Left(n, off, 1) > 0 => Base(R, p) >= p
    BY <1>1 DEF Lies, Links
  <2>2. ASSUME NEW i \in Nat \ {0}, Left(n, off, i) > 0
        PROVE  /\ Base(R, p) + i <= Len(R)
               /\ Left(n, off, i + 1) > 0 => R[Base(R, p) + i].next = Base(R, p) + i + 1
    <3>. DEFINE q == Base(P, p) + i
    <3>1. Base(R, p) = Base(P, p) /\ Base(P, p) \in Nat /\ q \in 1 .. Len(P)
      BY <1>1, <2>2, LiesIn
    <3>2. q <= Len(R)
      BY <1>0, <3>1 DEF Keeps
    <3>3. Left(n, off, i + 1) > 0 => P[q].next = q + 1
      BY <2>2 DEF Lies, Links
    <3>. HIDE DEF q
    <3>4. q + 1 # 0
      BY <3>1
    <3>5. Left(n, off, i + 1) > 0 => R[q].next = q + 1
      BY <3>1, <3>3, <3>4 DEF Keeps
    <3>. QED BY <3>1, <3>2, <3>5 DEF q
  <2>3. Links(R, p, off, n)
    BY <2>1, <2>2 DEF Links
  <2>4. p \in 1 .. Len(R)
    BY <1>0 DEF Keeps
  <2>. QED BY <1>0, <2>3, <2>4 DEF Lies
<1>3. \A q, c \in Nat :
        TakenThere(Base(R, p), off, n, q, c) <=> TakenThere(Base(P, p), off, n, q, c)
  BY <1>1 DEF TakenThere
<1>. QED BY <1>1, <1>2, <1>3 DEF Taken


LEMMA KeyLies ==
  ASSUME NEW P, PagesOk(P), NEW d, NEW v, NEW pl, KeyOk(P, d, v, pl)
  PROVE  /\ Lies(P, d.first, d.off, v.len) /\ v \in Values /\ v.len \in Nat
         /\ d = Pointer(d.first, d.off, v)
         /\ HeaderOk(P[d.first], d.off, v.len, pl)
         /\ BytesOk(P, d.first, d.off, v)
         /\ Below(P, d.first, d.off, v.len)
<1>1. v \in Values /\ v.len \in Nat
  BY DEF KeyOk, Values
<1>. QED BY <1>1 DEF KeyOk, DatumOk, HeaderOk, Lies

\* A datum whose header and bytes were written where a datum of at least that
\* length was.
LEMMA KeyAfter ==
  ASSUME NEW P, NEW R, NEW p, NEW off, NEW n, Lies(P, p, off, n), Below(P, p, off, n),
         PagesOk(R), Keeps(P, R), NEW v \in Values, v.len <= n, NEW pl,
         HeaderOk(R[p], off, v.len, pl), BytesOk(R, p, off, v)
  PROVE  /\ KeyOk(R, Pointer(p, off, v), v, pl)
         /\ \A q, c \in Nat : Taken(R, p, off, v.len, q, c) => Taken(P, p, off, n, q, c)
<1>. DEFINE m == v.len
            d == Pointer(p, off, v)
<1>0. m \in Nat /\ n \in Nat /\ m <= n /\ PagesOk(P)
  BY DEF Values, Lies
<1>1. d.first = p /\ d.off = off /\ d = Pointer(d.first, d.off, v)
  BY DEF Pointer
<1>. HIDE DEF m, d
<1>2. /\ Lies(P, p, off, m)
      /\ \A q, c \in Nat : Taken(P, p, off, m, q, c) => Taken(P, p, off, n, q, c)
  BY <1>0, Shorter
<1>3. off \in DOMAIN R[p].hdr
  BY DEF HeaderOk
<1>4. /\ Lies(R, p, off, m)
      /\ \A q, c \in Nat : Taken(R, p, off, m, q, c) <=> Taken(P, p, off, m, q, c)
  BY <1>2, <1>3, SameTaken
<1>5. Below(R, p, off, m)
  <2>. SUFFICES ASSUME NEW q \in 1 .. Len(R), NEW c \in Nat,
                       Taken(R, p, off, m, q, c), R[q].free # 0
                PROVE  c < R[q].free
    BY DEF Below
  <2>1. q \in Nat
    OBVIOUS
  <2>2. Taken(P, p, off, n, q, c)
    BY <1>2, <1>4, <2>1
  <2>3. q \in 1 .. Len(P)
    BY <2>2, TakenIn
  <2>4. P[q].free # 0 /\ R[q].free >= P[q].free
    BY <2>3 DEF Keeps
  <2>5. c < P[q].free
    BY <2>2, <2>3, <2>4 DEF Below
  <2>6. P[q].free \in Nat /\ R[q].free \in Nat
    BY <1>0, <2>3, PageIs
  <2>. QED BY <2>4, <2>5, <2>6
<1>6. DatumOk(R, p, off, v, pl)
  BY <1>4 DEF DatumOk, Lies, m
<1>7. KeyOk(R, d, v, pl)
  BY <1>1, <1>5, <1>6 DEF KeyOk, m
<1>. QED BY <1>2, <1>4, <1>7 DEF m, d

\* The cells a datum lies on are the same.
Untouched(P, R, p, off, n) ==
  \A q \in 1 .. Len(P), c \in Nat : Taken(P, p, off, n, q, c) => R[q].cell[c] = P[q].cell[c]

\* The header too, but for the place of the key.
SameHeader(pg, w, off, pl) ==
  /\ off \in DOMAIN w.hdr
  /\ w.hdr[off].len = pg.hdr[off].len /\ w.hdr[off].high = pg.hdr[off].high
  /\ w.hdr[off].place = pl

LEMMA KeyStays ==
  ASSUME NEW P, NEW R, NEW d, NEW v, NEW pl, PagesOk(P), KeyOk(P, d, v, pl),
         PagesOk(R), Keeps(P, R), Untouched(P, R, d.first, d.off, v.len),
         NEW pl2, SameHeader(P[d.first], R[d.first], d.off, pl2)
  PROVE  /\ KeyOk(R, d, v, pl2)
         /\ \A q, c \in Nat : Taken(R, d.first, d.off, v.len, q, c)
                                => Taken(P, d.first, d.off, v.len, q, c)
<1>. DEFINE p == d.first
            off == d.off
            n == v.len
<1>1. /\ Lies(P, p, off, n) /\ v \in Values /\ n \in Nat /\ d = Pointer(p, off, v)
      /\ HeaderOk(P[p], off, n, pl) /\ BytesOk(P, p, off, v) /\ Below(P, p, off, n)
  BY KeyLies
<1>2. SameHeader(P[p], R[p], off, pl2) /\ Untouched(P, R, p, off, n) /\ n = v.len
  OBVIOUS
<1>. HIDE DEF p, off, n
<1>3. p \in 1 .. Len(P)
  BY <1>1 DEF Lies
<1>4. HeaderOk(R[p], off, n, pl2)
  <2>1. ASSUME NEW i \in 0 .. DataHdr - 1 PROVE R[p].cell[off + i] = <<off, i>>
    <3>1. off + i \in Nat /\ Taken(P, p, off, n, p, off + i)
      BY <1>1, TakenCells
    <3>2. P[p].cell[off + i] = <<off, i>>
      BY <1>1 DEF HeaderOk
    <3>. QED BY <1>2, <1>3, <3>1, <3>2 DEF Untouched
  <2>. QED BY <1>1, <1>2, <2>1 DEF HeaderOk, SameHeader
<1>5. /\ Lies(R, p, off, n)
      /\ \A i \in Nat \ {0} : Left(n, off, i) > 0 => Base(R, p) = Base(P, p)
  BY <1>1, <1>4, SameTaken DEF HeaderOk
<1>6. BytesOk(R, p, off, v)
  <2>1. ASSUME NEW j \in 1 .. v.len, j <= Inner(off)
        PROVE  R[p].cell[off + DataHdr + j - 1] = Byte(v, j)
    <3>. DEFINE c == off + DataHdr + j - 1
    <3>1. c \in Nat /\ Taken(P, p, off, n, p, c)
      BY <1>1, <1>2, <2>1, TakenCells
    <3>2. P[p].cell[c] = Byte(v, j)
      BY <1>1, <2>1 DEF BytesOk
    <3>. HIDE DEF c
    <3>3. R[p].cell[c] = P[p].cell[c]
      BY <1>2, <1>3, <3>1 DEF Untouched
    <3>. QED BY <3>2, <3>3 DEF c
  <2>2. ASSUME NEW i \in Nat \ {0}, NEW r \in 0 .. Cap - 1, r < Left(v.len, off, i)
        PROVE  R[Base(R, p) + i].cell[PageHdr + r]
                 = Byte(v, Inner(off) + (i - 1) * Cap + r + 1)
    <3>. DEFINE q == Base(P, p) + i
                c == PageHdr + r
    <3>1. q \in 1 .. Len(P) /\ c \in Nat /\ Taken(P, p, off, n, q, c)
      BY <1>1, <1>2, <2>2, TakenCells
    <3>2. P[q].cell[c] = Byte(v, Inner(off) + (i - 1) * Cap + r + 1)
      BY <1>1, <2>2 DEF BytesOk
    <3>3. Base(R, p) = Base(P, p)
      <4>1. Left(n, off, i) \in Int
        BY <1>1, LiesIn, LeftIs
      <4>2. Left(n, off, i) > 0
        BY <1>2, <2>2, <4>1, Sizes
      <4>. QED BY <1>5, <4>2
    <3>4. Base(R, p) + i = q
      BY <3>3
    <3>. HIDE DEF q, c
    <3>5. R[q].cell[c] = P[q].cell[c]
      BY <1>2, <3>1 DEF Untouched
    <3>. QED BY <3>2, <3>4, <3>5 DEF c
  <2>. QED BY <2>1, <2>2 DEF BytesOk
<1>7. n <= n
  BY <1>1
<1>8. KeyOk(R, Pointer(p, off, v), v, pl2)
      /\ \A q, c \in Nat : Taken(R, p, off, v.len, q, c) => Taken(P, p, off, n, q, c)
  BY <1>1, <1>2, <1>4, <1>6, <1>7, KeyAfter
<1>. QED BY <1>1, <1>8 DEF p, off, n


-----------------------------------------------------------------------------
(***************************************************************************)
(* Steps that change one page, and steps after which each datum lies where *)
(* it lay.                                                                 *)
(***************************************************************************)
Changed(P, R, p, w) == R = [P EXCEPT ![p] = w]

LEMMA OneChanged ==
  ASSUME NEW P, PagesOk(P), NEW p \in 1 .. Len(P), NEW w, PageOk(w),
         NEW R, Changed(P, R, p, w)
  PROVE  /\ PagesOk(R) /\ Len(R) = Len(P) /\ R[p] = w
         /\ \A q \in 1 .. Len(P) : q # p => R[q] = P[q]
<1>1. P \in Seq(PageT) /\ w \in PageT
  BY DEF PagesOk, PageOk
<1>2. R \in Seq(PageT) /\ Len(R) = Len(P)
      /\ \A q \in 1 .. Len(P) : R[q] = IF q = p THEN w ELSE P[q]
  BY <1>1, ExceptSeq DEF Changed
<1>3. PagesOk(R)
  BY <1>2 DEF PagesOk
<1>. QED BY <1>2, <1>3

LEMMA OneKept ==
  ASSUME NEW P, PagesOk(P), NEW p \in 1 .. Len(P), NEW w, PageOk(w),
         NEW R, Changed(P, R, p, w),
         P[p].next # 0 => w.next = P[p].next,
         w.free # 0 => P[p].free # 0 /\ w.free >= P[p].free
  PROVE  Keeps(P, R)
<1>1. /\ Len(R) = Len(P) /\ R[p] = w
      /\ \A q \in 1 .. Len(P) : q # p => R[q] = P[q]
  BY OneChanged
<1>2. \A q \in 1 .. Len(P) : P[q].free \in Nat
  BY PageIs
<1>3. Len(P) \in Nat
  BY PageIs
<1>. QED BY <1>1, <1>2, <1>3 DEF Keeps

\* Another length or place in a header.
LEMMA HeaderChanged ==
  ASSUME NEW pg, PageOk(pg), NEW off \in DOMAIN pg.hdr, NEW h \in Hdr,
         h.next = pg.hdr[off].next, NEW w, w = [pg EXCEPT !.hdr[off] = h]
  PROVE  /\ PageOk(w) /\ w.cell = pg.cell /\ w.next = pg.next /\ w.free = pg.free
         /\ DOMAIN w.hdr = DOMAIN pg.hdr /\ w.hdr[off] = h
         /\ \A o \in DOMAIN pg.hdr : o # off => w.hdr[o] = pg.hdr[o]
<1>. DEFINE g == [pg.hdr EXCEPT ![off] = h]
<1>1. pg \in PageT
  BY DEF PageOk
<1>2. /\ pg = [cell |-> pg.cell, hdr |-> pg.hdr, free |-> pg.free,
               firstpos |-> pg.firstpos, next |-> pg.next, num |-> pg.num]
      /\ pg.cell \in [Offsets -> Cells] /\ pg.hdr \in Hdrs /\ pg.free \in Nat
      /\ pg.firstpos \in Nat /\ pg.next \in Nat /\ pg.num \in Nat
  BY <1>1 DEF PageT
<1>3. g \in Hdrs /\ DOMAIN g = DOMAIN pg.hdr /\ g[off] = h
      /\ \A o \in DOMAIN pg.hdr : o # off => g[o] = pg.hdr[o]
  <2>1. PICK S \in SUBSET Offsets : pg.hdr \in [S -> Hdr]
    BY <1>2 DEF Hdrs
  <2>2. g \in [S -> Hdr]
    BY <2>1
  <2>3. g \in Hdrs
    BY <2>2 DEF Hdrs
  <2>. QED BY <2>1, <2>3
<1>. HIDE DEF g
<1>4. w = [pg EXCEPT !.hdr = g]
  BY DEF g
<1>5. w = [cell |-> pg.cell, hdr |-> g, free |-> pg.free,
           firstpos |-> pg.firstpos, next |-> pg.next, num |-> pg.num]
  BY <1>2, <1>4
<1>6. /\ w \in PageT /\ w.cell = pg.cell /\ w.hdr = g /\ w.free = pg.free
      /\ w.firstpos = pg.firstpos /\ w.next = pg.next /\ w.num = pg.num
  BY <1>2, <1>3, <1>5 DEF PageT
<1>7. \A o \in DOMAIN pg.hdr : w.hdr[o].next = pg.hdr[o].next
  BY <1>3, <1>6
<1>8. PageOk(w)
  <2>1. DOMAIN w.hdr = DOMAIN pg.hdr
    BY <1>3, <1>6
  <2>. QED BY <1>6, <1>7, <2>1, ChangedOk
<1>. QED BY <1>3, <1>6, <1>8

\* A datum lies where it lay, though another may have taken its place.
Stays(k) ==
  /\ KeyOk(page', datap'[k], given'[k], place'[k]) /\ given'[k].key = k
  /\ \A q, c \in Nat :
       Taken(page', datap'[k].first, datap'[k].off, given'[k].len, q, c)
         => Taken(page, datap[k].first, datap[k].off, given[k].len, q, c)

LEMMA AllStay ==
  ASSUME DataInv, PagesOk(page'), CurrOk(page', curr'),
         DOMAIN datap' = Keys, DOMAIN given' = Keys, place' \in [Keys -> 0 .. 1],
         Stored' \subseteq Stored, \A k \in Stored : Stays(k)
  PROVE  DataInv'
<1>1. ASSUME NEW k \in Stored', NEW m \in Stored', k # m
      PROVE  Apart(page', datap'[k], given'[k], datap'[m], given'[m])
  <2>1. Apart(page, datap[k], given[k], datap[m], given[m])
    BY <1>1 DEF DataInv
  <2>2. Stays(k) /\ Stays(m)
    BY <1>1
  <2>. QED BY <2>1, <2>2 DEF Apart, Stays
<1>2. \A k \in Stored' : KeyOk(page', datap'[k], given'[k], place'[k]) /\ given'[k].key = k
  BY DEF Stays
<1>. QED BY <1>1, <1>2 DEF DataInv

\* Two data do not have one header.
LEMMA TwoHeaders ==
  ASSUME DataInv, NEW k \in Stored, NEW m \in Stored, k # m
  PROVE  datap[k].first # datap[m].first \/ datap[k].off # datap[m].off
<1>1. Apart(page, datap[k], given[k], datap[m], given[m])
  BY DEF DataInv
<1>2. /\ Lies(page, datap[k].first, datap[k].off, given[k].len)
      /\ Lies(page, datap[m].first, datap[m].off, given[m].len)
  BY KeyLies DEF DataInv
<1>3. 0 \in 0 .. DataHdr - 1
  BY Sizes
<1>4. /\ datap[k].off + 0 \in Nat
      /\ Taken(page, datap[k].first, datap[k].off, given[k].len, datap[k].first, datap[k].off + 0)
      /\ Taken(page, datap[m].first, datap[m].off, given[m].len, datap[m].first, datap[m].off + 0)
  BY <1>2, <1>3, TakenCells
<1>5. datap[k].first \in Nat
  BY <1>2, LiesIn
<1>. QED BY <1>1, <1>4, <1>5 DEF Apart


\* A split moves a key: its datum's header says where it is now.
LEMMA MoveKeyStep ==
  ASSUME DataInv, NEW k \in Keys, MoveKey(k)
  PROVE  DataInv'
<1>. DEFINE p == datap[k].first
            off == datap[k].off
            to == 1 - place[k]
            pg == page[p]
            h == [pg.hdr[off] EXCEPT !.place = to]
            w == [pg EXCEPT !.hdr[off] = h]
<1>1. /\ k \in Stored /\ UNCHANGED <<curr, datap, given>>
      /\ place' = [place EXCEPT ![k] = to]
      /\ page' = [page EXCEPT ![p] = w]
  BY DEF MoveKey, Stored, UpdateDataInfo
<1>2. /\ PagesOk(page) /\ CurrOk(page, curr)
      /\ DOMAIN datap = Keys /\ DOMAIN given = Keys /\ place \in [Keys -> 0 .. 1]
      /\ KeyOk(page, datap[k], given[k], place[k])
  BY <1>1 DEF DataInv
<1>3. to \in 0 .. 1
  BY <1>2
<1>4. p \in 1 .. Len(page) /\ off \in DOMAIN pg.hdr /\ PageOk(pg) /\ pg.hdr[off] \in Hdr
      /\ pg.next \in Nat /\ pg.free \in Nat
  <2>1. Lies(page, p, off, given[k].len)
    BY <1>2, KeyLies
  <2>2. p \in 1 .. Len(page) /\ off \in DOMAIN pg.hdr
    BY <2>1 DEF Lies
  <2>3. PageOk(pg) /\ pg.next \in Nat /\ pg.free \in Nat
    BY <1>2, <2>2, PageIs
  <2>. QED BY <2>2, <2>3, HeaderInside
<1>5. /\ h \in Hdr /\ h.next = pg.hdr[off].next /\ h.len = pg.hdr[off].len
      /\ h.high = pg.hdr[off].high /\ h.place = to
  BY <1>3, <1>4 DEF Hdr
<1>6. w = [pg EXCEPT !.hdr[off] = h] /\ pg = page[p]
  OBVIOUS
<1>. HIDE DEF h, w, to, p, off, pg
<1>7. /\ PageOk(w) /\ w.cell = pg.cell /\ w.next = pg.next /\ w.free = pg.free
      /\ DOMAIN w.hdr = DOMAIN pg.hdr /\ w.hdr[off] = h
      /\ \A o \in DOMAIN pg.hdr : o # off => w.hdr[o] = pg.hdr[o]
  BY <1>4, <1>5, <1>6, HeaderChanged
<1>8. /\ PagesOk(page') /\ Len(page') = Len(page) /\ page'[p] = w
      /\ \A q \in 1 .. Len(page) : q # p => page'[q] = page[q]
      /\ Keeps(page, page')
  <2>1. p \in 1 .. Len(page) /\ PageOk(w) /\ PagesOk(page)
    BY <1>2, <1>4, <1>7
  <2>2. Changed(page, page', p, w)
    BY <1>1 DEF Changed
  <2>3. /\ page[p].next # 0 => w.next = page[p].next
        /\ w.free # 0 => page[p].free # 0 /\ w.free >= page[p].free
    BY <1>4, <1>6, <1>7
  <2>. QED BY <2>1, <2>2, <2>3, OneChanged, OneKept
<1>9. \A q \in 1 .. Len(page) : page'[q].cell = page[q].cell /\ page'[q].next = page[q].next
  BY <1>6, <1>7, <1>8
<1>10. ASSUME NEW m \in Stored PROVE Stays(m)
  <2>1. KeyOk(page, datap[m], given[m], place[m]) /\ given[m].key = m /\ m \in Keys
    BY DEF DataInv, Stored
  <2>2. Untouched(page, page', datap[m].first, datap[m].off, given[m].len)
    BY <1>9 DEF Untouched
  <2>3. datap[m].first \in 1 .. Len(page) /\ datap[m].off \in DOMAIN page[datap[m].first].hdr
    BY <1>2, <2>1, KeyLies DEF Lies
  <2>4. SameHeader(page[datap[m].first], page'[datap[m].first], datap[m].off, place'[m])
    <3>1. CASE m = k
      <4>1. place'[m] = to
        BY <1>1, <1>2, <2>1, <3>1
      <4>2. datap[m].first = p /\ datap[m].off = off
        BY <3>1 DEF p, off
      <4>3. /\ h.len = page[p].hdr[off].len /\ h.high = page[p].hdr[off].high
            /\ h.place = to
        BY <1>5, <1>6
      <4>4. off \in DOMAIN page'[p].hdr /\ page'[p].hdr[off] = h
        BY <1>4, <1>7, <1>8
      <4>. QED BY <4>1, <4>2, <4>3, <4>4 DEF SameHeader
    <3>2. CASE m # k
      <4>1. place'[m] = place[m]
        BY <1>1, <1>2, <2>1, <3>2
      <4>2. datap[m].first # p \/ datap[m].off # off
        BY <1>1, <3>2, TwoHeaders DEF p, off
      <4>3. page'[datap[m].first].hdr[datap[m].off] = page[datap[m].first].hdr[datap[m].off]
            /\ DOMAIN page'[datap[m].first].hdr = DOMAIN page[datap[m].first].hdr
        BY <1>6, <1>7, <1>8, <2>3, <4>2
      <4>4. page[datap[m].first].hdr[datap[m].off].place = place[m]
        BY <1>2, <2>1, KeyLies DEF HeaderOk
      <4>. QED BY <2>3, <4>1, <4>3, <4>4 DEF SameHeader
    <3>. QED BY <3>1, <3>2
  <2>5. /\ KeyOk(page', datap[m], given[m], place'[m])
        /\ \A q, c \in Nat :
             Taken(page', datap[m].first, datap[m].off, given[m].len, q, c)
               => Taken(page, datap[m].first, datap[m].off, given[m].len, q, c)
    BY <1>2, <1>8, <2>1, <2>2, <2>4, KeyStays
  <2>. QED BY <1>1, <2>1, <2>5 DEF Stays
<1>11. CurrOk(page', curr')
  BY <1>1, <1>2, <1>8, <1>9 DEF CurrOk
<1>12. place' \in [Keys -> 0 .. 1] /\ Stored' \subseteq Stored
       /\ DOMAIN datap' = Keys /\ DOMAIN given' = Keys
  BY <1>1, <1>2, <1>3 DEF Stored
<1>. QED BY <1>8, <1>10, <1>11, <1>12, AllStay

\* A new level, and opening the file at a page without a successor.
LEMMA CurrStep ==
  ASSUME DataInv, NewLevel \/ \E p \in DOMAIN page : Reopen(p)
  PROVE  DataInv'
<1>1. UNCHANGED <<page, datap, place, given>>
  BY DEF NewLevel, Reopen
<1>2. DOMAIN page = 1 .. Len(page)
  BY LenProperties DEF DataInv, PagesOk
<1>3. CurrOk(page, curr')
  BY <1>2 DEF NewLevel, Reopen, CurrOk
<1>4. Stored' = Stored
  BY <1>1 DEF Stored
<1>. QED BY <1>1, <1>3, <1>4 DEF DataInv

LEMMA SameStep ==
  ASSUME DataInv, UNCHANGED vars
  PROVE  DataInv'
<1>1. Stored' = Stored
  BY DEF Stored, vars
<1>. QED BY <1>1 DEF DataInv, vars

LEMMA DataInit == Init => DataInv
<1>. SUFFICES ASSUME Init PROVE DataInv
  OBVIOUS
<1>1. page = << >> /\ curr = 0 /\ Stored = {} /\ Len(page) = 0
  BY DEF Init, Stored
<1>2. PagesOk(page) /\ CurrOk(page, curr)
  BY <1>1 DEF PagesOk, CurrOk
<1>. QED BY <1>1, <1>2 DEF DataInv, Init


-----------------------------------------------------------------------------
(***************************************************************************)
(* The chain of a datum's pages.                                           *)
(***************************************************************************)
NextPage(x) == IF x = 0 THEN 0 ELSE page[x].next

Follows(g, p, m) ==
  /\ g = [j \in 0 .. m |-> g[j]]
  /\ g[0] = p
  /\ \A j \in 1 .. m : g[j] = NextPage(g[j - 1])

LEMMA FollowsExists ==
  ASSUME NEW p, NEW m \in Nat
  PROVE  \E g : Follows(g, p, m)
<1>. DEFINE T == {i \in Nat : ~\E g : Follows(g, p, i)}
<1>1. ASSUME T # {} PROVE FALSE
  <2>1. T \in SUBSET Nat
    OBVIOUS
  <2>. HIDE DEF T
  <2>2. PICK i \in T : \A y \in T : i <= y
    BY <1>1, <2>1, LeastExists
  <2>3. i \in Nat /\ ~\E g : Follows(g, p, i)
    BY DEF T
  <2>4. i # 0
    <3>. DEFINE f == [j \in 0 .. 0 |-> p]
    <3>1. f[0] = p /\ f = [j \in 0 .. 0 |-> f[j]] /\ 1 .. 0 = {}
      OBVIOUS
    <3>. HIDE DEF f
    <3>2. Follows(f, p, 0)
      BY <3>1 DEF Follows
    <3>. QED BY <2>3, <3>2
  <2>. DEFINE l == i - 1
  <2>5. l \in Nat /\ i = l + 1 /\ ~(i <= l)
    BY <2>3, <2>4
  <2>. HIDE DEF l
  <2>6. l \notin T
    BY <2>2, <2>5
  <2>7. PICK g : Follows(g, p, l)
    BY <2>5, <2>6 DEF T
  <2>. DEFINE x == NextPage(g[l])
              f == [j \in 0 .. i |-> IF j = i THEN x ELSE g[j]]
  <2>8. f[i] = x /\ f = [j \in 0 .. i |-> f[j]] /\ \A j \in 0 .. l : f[j] = g[j]
    BY <2>5
  <2>. HIDE DEF f
  <2>9. f[0] = p
    BY <2>5, <2>7, <2>8 DEF Follows
  <2>10. ASSUME NEW j \in 1 .. i PROVE f[j] = NextPage(f[j - 1])
    <3>1. j - 1 \in 0 .. l /\ f[j - 1] = g[j - 1]
      <4>1. j - 1 \in 0 .. l
        BY <2>5
      <4>. QED BY <2>8, <4>1
    <3>2. CASE j = i
      BY <2>5, <2>8, <3>1, <3>2
    <3>3. CASE j # i
      <4>1. j \in 1 .. l /\ j \in 0 .. l
        BY <2>5, <3>3
      <4>2. g[j] = NextPage(g[j - 1])
        BY <2>7, <4>1 DEF Follows
      <4>. QED BY <2>8, <3>1, <4>1, <4>2
    <3>. QED BY <3>2, <3>3
  <2>11. Follows(f, p, i)
    BY <2>8, <2>9, <2>10 DEF Follows
  <2>. QED BY <2>3, <2>11
<1>. QED BY <1>1

LEMMA ChainFollows ==
  ASSUME NEW p, Len(page) \in Nat
  PROVE  \E g : Follows(g, p, Len(page)) /\ \A i : Chain(p, i) = g[i]
<1>. DEFINE Is(f) == f = [j \in 0 .. Len(page) |->
                            IF j = 0 THEN p
                            ELSE IF f[j - 1] = 0 THEN 0 ELSE page[f[j - 1]].next]
            c == CHOOSE f : Is(f)
<1>1. PICK g : Follows(g, p, Len(page))
  BY FollowsExists
<1>2. Is(g)
  <2>1. ASSUME NEW j \in 0 .. Len(page)
        PROVE  g[j] = IF j = 0 THEN p ELSE IF g[j - 1] = 0 THEN 0 ELSE page[g[j - 1]].next
    <3>1. CASE j = 0
      BY <1>1, <3>1 DEF Follows
    <3>2. CASE j # 0
      <4>1. j \in 1 .. Len(page)
        BY <3>2
      <4>2. g[j] = NextPage(g[j - 1])
        BY <1>1, <4>1 DEF Follows
      <4>. QED BY <3>2, <4>2 DEF NextPage
    <3>. QED BY <3>1, <3>2
  <2>2. g = [j \in 0 .. Len(page) |-> g[j]]
    BY <1>1 DEF Follows
  <2>. QED BY <2>1, <2>2, Zenon
<1>3. Is(c)
  BY <1>2
<1>4. \A i : Chain(p, i) = c[i]
  BY DEF Chain
<1>. HIDE DEF c
<1>5. c[0] = p /\ c = [j \in 0 .. Len(page) |-> c[j]]
  BY <1>3
<1>6. ASSUME NEW j \in 1 .. Len(page) PROVE c[j] = NextPage(c[j - 1])
  <2>1. j \in 0 .. Len(page) /\ j # 0
    OBVIOUS
  <2>2. c[j] = IF c[j - 1] = 0 THEN 0 ELSE page[c[j - 1]].next
    BY <1>3, <2>1
  <2>. QED BY <2>2 DEF NextPage
<1>7. Follows(c, p, Len(page))
  BY <1>5, <1>6 DEF Follows
<1>. QED BY <1>4, <1>7

\* The pages of a datum follow one another.
LEMMA ChainIs ==
  ASSUME NEW p, NEW off, NEW n, Lies(page, p, off, n),
         NEW i \in Nat \ {0}, Left(n, off, i) > 0
  PROVE  Chain(p, i) = Base(page, p) + i
<1>. DEFINE b == Base(page, p)
<1>0. /\ off \in Nat /\ n \in Nat /\ off + DataHdr <= BSize /\ p \in Nat /\ p # 0
      /\ Len(page) \in Nat
      /\ \A j \in Nat \ {0} : Left(n, off, j) > 0 =>
           b \in Nat /\ b >= p /\ b + j \in 1 .. Len(page)
  BY LiesIn DEF Lies
<1>1. PICK g : Follows(g, p, Len(page)) /\ \A j : Chain(p, j) = g[j]
  BY <1>0, ChainFollows
<1>. DEFINE T == {j \in Nat : j # 0 /\ Left(n, off, j) > 0 /\ g[j] # b + j}
<1>2. ASSUME T # {} PROVE FALSE
  <2>1. T \in SUBSET Nat
    OBVIOUS
  <2>. HIDE DEF T
  <2>2. PICK j \in T : \A y \in T : j <= y
    BY <1>2, <2>1, LeastExists
  <2>3. j \in Nat \ {0} /\ Left(n, off, j) > 0 /\ g[j] # b + j
    BY DEF T
  <2>4. b \in Nat /\ b >= p /\ b + j \in 1 .. Len(page)
    BY <1>0, <2>3
  <2>5. j \in 1 .. Len(page)
    BY <1>0, <2>3, <2>4
  <2>6. g[j] = NextPage(g[j - 1])
    BY <1>1, <2>5 DEF Follows
  <2>7. CASE j = 1
    <3>1. g[j] = page[p].next
      BY <1>0, <1>1, <2>6, <2>7 DEF Follows, NextPage
    <3>2. page[p].next \in Nat
      BY PageIs DEF Lies
    <3>. QED BY <2>3, <2>7, <3>1, <3>2 DEF Base
  <2>8. CASE j # 1
    <3>. DEFINE l == j - 1
    <3>1. l \in Nat \ {0} /\ j = l + 1 /\ ~(j <= l)
      BY <2>3, <2>8
    <3>. HIDE DEF l
    <3>2. Left(n, off, l) > 0
      <4>1. Left(n, off, l) \in Int /\ Left(n, off, j) = Left(n, off, l) - Cap
        <5>1. off \in Nat /\ n \in Nat /\ off + DataHdr <= BSize
          BY <1>0
        <5>2. Left(n, off, l) \in Int /\ Left(n, off, l + 1) = Left(n, off, l) - Cap
          BY <3>1, <5>1, LeftIs
        <5>. QED BY <3>1, <5>2
      <4>. QED BY <2>3, <4>1, Sizes
    <3>3. l \notin T
      BY <2>2, <3>1
    <3>4. g[l] = b + l
      BY <3>1, <3>2, <3>3 DEF T
    <3>5. page[b + l].next = b + l + 1
      BY <2>3, <3>1, <3>2 DEF Lies, Links
    <3>. HIDE DEF b
    <3>6. b + l # 0 /\ b + l + 1 = b + j
      BY <2>4, <3>1
    <3>7. g[l + 1] = page[b + l].next
      <4>1. g[j - 1] = g[l]
        BY <3>1
      <4>. QED BY <2>6, <3>1, <3>4, <3>6, <4>1 DEF NextPage
    <3>. QED BY <2>3, <3>1, <3>5, <3>6, <3>7
  <2>. QED BY <2>7, <2>8
<1>3. i \notin T
  BY <1>2
<1>. QED BY <1>1, <1>3


-----------------------------------------------------------------------------
(***************************************************************************)
(* Replacing a datum by one that is not longer.                            *)
(***************************************************************************)
\* Bytes written below the place where data is added.
LEMMA WrittenOk ==
  ASSUME NEW pg, PageOk(pg), NEW v \in Values, NEW at \in Nat, NEW first \in Int,
         NEW m \in Nat, pg.free # 0 => at + m <= pg.free,
         NEW w, w = WithBytes(pg, at, v, first, m)
  PROVE  /\ PageOk(w) /\ w.hdr = pg.hdr /\ w.free = pg.free /\ w.next = pg.next
         /\ \A c \in Offsets :
              w.cell[c] = IF c \in at .. at + m - 1 THEN Byte(v, first + c - at)
                          ELSE pg.cell[c]
<1>1. pg \in PageT /\ pg.free \in Nat
  BY DEF PageOk, PageT
<1>2. at \in Int /\ m \in Int
  OBVIOUS
<1>3. /\ w \in PageT /\ w.hdr = pg.hdr /\ w.free = pg.free
      /\ w.firstpos = pg.firstpos /\ w.next = pg.next /\ w.num = pg.num
      /\ \A c \in Offsets :
           w.cell[c] = IF c \in at .. at + m - 1 THEN Byte(v, first + c - at)
                       ELSE pg.cell[c]
  BY <1>1, <1>2, Bytes
<1>4. \A c \in Offsets : pg.free # 0 /\ c >= pg.free => w.cell[c] = pg.cell[c]
  <2>. SUFFICES ASSUME NEW c \in Offsets, pg.free # 0, c >= pg.free
                PROVE  w.cell[c] = pg.cell[c]
    OBVIOUS
  <2>1. c \in Nat
    BY DEF Offsets
  <2>2. c \notin at .. at + m - 1
    BY <1>1, <2>1
  <2>. QED BY <1>3, <2>2
<1>5. DOMAIN w.hdr = DOMAIN pg.hdr /\ \A o \in DOMAIN pg.hdr : w.hdr[o].next = pg.hdr[o].next
  BY <1>3
<1>6. PageOk(w)
  BY <1>3, <1>4, <1>5, ChangedOk
<1>. QED BY <1>3, <1>6

\* The bytes of v that go to its first page, and to the page at place i
\* behind it.
OnFirst(v, off)  == IF v.len <= Inner(off) THEN v.len ELSE Inner(off)
FirstPage(pg, off, v) == WithBytes(pg, off + DataHdr, v, 1, OnFirst(v, off))
LaterPage(P, b, off, v, i) ==
  WithBytes(P[b + i], PageHdr, v, v.len - Left(v.len, off, i) + 1, Wide(Left(v.len, off, i)))

\* The pages R after v was written over the pages P of a datum, whose first
\* page has the header changed already.
Rewritten(P, R, p, off, v, pg) ==
  /\ R = [q \in 1 .. Len(P) |-> R[q]]
  /\ R[p] = FirstPage(pg, off, v)
  /\ \A i \in Nat \ {0} : Left(v.len, off, i) > 0 =>
       R[Base(P, p) + i] = LaterPage(P, Base(P, p), off, v, i)
  /\ \A q \in 1 .. Len(P) :
       \/ q = p
       \/ \E i \in Nat \ {0} : Left(v.len, off, i) > 0 /\ q = Base(P, p) + i
       \/ R[q] = P[q]

\* A header with the length of v.
Relabelled(pg, off, v) ==
  [pg EXCEPT !.hdr[off].len = Low(v.len), !.hdr[off].high = High(v.len)]

\* _ffdb_replace_data follows the chain to the pages of the datum.
LEMMA OverwrittenIs ==
  ASSUME NEW k, NEW v \in Values, NEW p, NEW off,
         p = datap[k].first, off = datap[k].off, Lies(page, p, off, v.len)
  PROVE  Rewritten(page, Overwritten(k, v), p, off, v, Relabelled(page[p], off, v))
<1>. DEFINE b   == Base(page, p)
            fsp == Inner(off)
            n   == v.len
            R   == Overwritten(k, v)
            pg  == Relabelled(page[p], off, v)
<1>0. /\ off \in Nat /\ n \in Nat /\ off + DataHdr <= BSize /\ fsp \in Nat
      /\ Len(page) \in Nat /\ p \in Nat /\ p \in 1 .. Len(page) /\ DOMAIN page = 1 .. Len(page)
      /\ \A j \in Nat \ {0} : Left(n, off, j) > 0 =>
           b \in Nat /\ b >= p /\ b + j \in 1 .. Len(page)
  <2>1. DOMAIN page = 1 .. Len(page)
    BY PageIs DEF Lies
  <2>. QED BY <2>1, LiesIn DEF Lies
<1>1. Left(n, off, 1) = n - fsp
  <2>1. 1 \in Nat \ {0} /\ n \in Nat /\ off \in Nat /\ off + DataHdr <= BSize
    BY <1>0
  <2>. HIDE DEF n
  <2>. QED BY <2>1, LeftIs
<1>2. \A i \in Nat \ {0} : Left(n, off, i) \in Int /\ Left(n, off, i) <= Left(n, off, 1)
  BY <1>0, LeftIs
<1>3. CASE n <= fsp
  <2>1. R = [page EXCEPT ![p] = WithBytes(pg, off + DataHdr, v, 1, n)]
    BY <1>3 DEF Overwritten, Relabelled, Inner
  <2>2. OnFirst(v, off) = n
    BY <1>3 DEF OnFirst
  <2>3. \A i \in Nat \ {0} : ~(Left(n, off, i) > 0)
    <3>. HIDE DEF n, fsp
    <3>. QED BY <1>0, <1>1, <1>2, <1>3
  <2>. DEFINE w == WithBytes(pg, off + DataHdr, v, 1, n)
  <2>4. w = FirstPage(pg, off, v)
    BY <2>2 DEF FirstPage
  <2>. HIDE DEF w, R, pg
  <2>5. /\ R = [q \in 1 .. Len(page) |-> R[q]] /\ R[p] = w
        /\ \A q \in 1 .. Len(page) : q # p => R[q] = page[q]
    BY <1>0, <2>1 DEF w
  <2>. QED BY <2>3, <2>4, <2>5 DEF Rewritten, R, pg
<1>4. CASE ~(n <= fsp)
  <2>. DEFINE N == (n - fsp + Cap - 1) \div Cap
              rest == n - fsp
              w == WithBytes(pg, off + DataHdr, v, 1, fsp)
              J(q) == CHOOSE j \in 1 .. N : Chain(p, j) = q
              Len2(j) == n - fsp - (j - 1) * Cap
              W(q, j) == WithBytes(page[q], PageHdr, v, n - Len2(j) + 1,
                                   IF Len2(j) <= Cap - DataHdr THEN Len2(j) ELSE Cap)
  <2>1. R = [q \in DOMAIN page |->
              IF q = p THEN w
              ELSE IF \E j \in 1 .. N : Chain(p, j) = q THEN W(q, J(q)) ELSE page[q]]
    BY <1>4 DEF Overwritten, Relabelled, Inner
  <2>2. OnFirst(v, off) = fsp
    BY <1>4 DEF OnFirst
  <2>3. w = FirstPage(pg, off, v)
    BY <2>2 DEF FirstPage
  <2>4. N \in Nat \ {0}
        /\ \A i \in Nat \ {0} : rest - (i - 1) * Cap > 0 <=> i <= N
    <3>1. rest \in Nat \ {0} /\ N = (rest + Cap - 1) \div Cap
      <4>. HIDE DEF n, fsp
      <4>. QED BY <1>0, <1>4
    <3>. HIDE DEF rest, N
    <3>. QED BY <3>1, PiecesAre
  <2>5. \A j : Len2(j) = Left(n, off, j) /\ Len2(j) = rest - (j - 1) * Cap
    BY DEF Left
  <2>6. \A q, j : W(q, j) = WithBytes(page[q], PageHdr, v, n - Left(n, off, j) + 1,
                                      Wide(Left(n, off, j)))
    BY <2>5 DEF Wide
  <2>. HIDE DEF w, R, pg, W, Len2, rest
  <2>7. \A i \in Nat \ {0} : Left(n, off, i) > 0 <=> i <= N
    BY <2>4, <2>5
  <2>8. \A j \in 1 .. N : Chain(p, j) = b + j /\ b \in Nat /\ b >= p /\ b + j \in 1 .. Len(page)
    <3>. SUFFICES ASSUME NEW j \in 1 .. N
                  PROVE  Chain(p, j) = b + j /\ b \in Nat /\ b >= p /\ b + j \in 1 .. Len(page)
      OBVIOUS
    <3>1. j \in Nat \ {0} /\ Left(n, off, j) > 0
      <4>. HIDE DEF N
      <4>. QED BY <2>4, <2>7
    <3>2. Chain(p, j) = b + j
      BY <3>1, ChainIs
    <3>. QED BY <1>0, <3>1, <3>2
  <2>9. ASSUME NEW i \in Nat \ {0}, Left(n, off, i) > 0
        PROVE  /\ i \in 1 .. N /\ Chain(p, i) = b + i /\ b + i # p /\ J(b + i) = i
               /\ b + i \in 1 .. Len(page)
    <3>. HIDE DEF N, b
    <3>1. i \in 1 .. N
      BY <2>4, <2>7, <2>9
    <3>2. Chain(p, i) = b + i /\ b \in Nat /\ b >= p
      BY <2>8, <3>1
    <3>3. \A j \in 1 .. N : Chain(p, j) = b + i => j = i
      BY <2>4, <2>8, <3>2
    <3>4. J(b + i) = i
      BY <3>1, <3>2, <3>3
    <3>. QED BY <1>0, <2>8, <3>1, <3>2, <3>4
  <2>10. R = [q \in 1 .. Len(page) |-> R[q]] /\ R[p] = w
    BY <1>0, <2>1
  <2>11. ASSUME NEW i \in Nat \ {0}, Left(n, off, i) > 0
         PROVE  R[b + i] = LaterPage(page, b, off, v, i)
    <3>. DEFINE q == b + i
    <3>1. /\ q \in DOMAIN page /\ q # p /\ J(q) = i
          /\ \E j \in 1 .. N : Chain(p, j) = q
      BY <1>0, <2>9, <2>11
    <3>. HIDE DEF q, J
    <3>2. R[q] = W(q, i)
      BY <2>1, <3>1
    <3>3. R[q] = WithBytes(page[q], PageHdr, v, n - Left(n, off, i) + 1, Wide(Left(n, off, i)))
      BY <2>6, <3>2
    <3>. QED BY <3>3 DEF LaterPage, q
  <2>12. ASSUME NEW q \in 1 .. Len(page)
         PROVE  \/ q = p
                \/ \E i \in Nat \ {0} : Left(n, off, i) > 0 /\ q = b + i
                \/ R[q] = page[q]
    <3>1. CASE \E j \in 1 .. N : Chain(p, j) = q
      <4>1. PICK j \in 1 .. N : Chain(p, j) = q
        BY <3>1
      <4>. HIDE DEF N, b
      <4>2. j \in Nat \ {0} /\ Left(n, off, j) > 0 /\ q = b + j
        BY <2>4, <2>7, <2>8, <4>1
      <4>. QED BY <4>2
    <3>2. CASE ~\E j \in 1 .. N : Chain(p, j) = q
      BY <1>0, <2>1, <3>2
    <3>. QED BY <3>1, <3>2
  <2>. QED BY <2>3, <2>10, <2>11, <2>12 DEF Rewritten, R, pg
<1>. QED BY <1>3, <1>4


\* The pages P of a datum of o bytes, over which the shorter v was written.
Rewriting(P, R, p, off, o, v, pg) ==
  /\ Lies(P, p, off, o) /\ Below(P, p, off, o)
  /\ v \in Values /\ v.len \in Nat /\ v.len <= o
  /\ PageOk(pg) /\ pg.cell = P[p].cell /\ pg.next = P[p].next /\ pg.free = P[p].free
  /\ Rewritten(P, R, p, off, v, pg)

LEMMA FirstRewritten ==
  ASSUME NEW P, NEW R, NEW p, NEW off, NEW o, NEW v, NEW pg,
         Rewriting(P, R, p, off, o, v, pg)
  PROVE  /\ PageOk(R[p]) /\ R[p].hdr = pg.hdr /\ R[p].free = P[p].free
         /\ R[p].next = P[p].next /\ OnFirst(v, off) \in Nat
         /\ OnFirst(v, off) <= v.len /\ OnFirst(v, off) <= Inner(off)
         /\ \A j \in 1 .. v.len : j <= Inner(off) => j <= OnFirst(v, off)
         /\ \A c \in Offsets :
              R[p].cell[c] = IF c \in off + DataHdr .. off + DataHdr + OnFirst(v, off) - 1
                             THEN Byte(v, 1 + c - (off + DataHdr))
                             ELSE P[p].cell[c]
<1>. DEFINE at == off + DataHdr
            m  == OnFirst(v, off)
            n  == v.len
<1>1. /\ off \in Nat /\ Inner(off) \in Nat /\ off + DataHdr + Inner(off) = BSize
      /\ n \in Nat /\ o \in Nat /\ n <= o /\ v \in Values /\ PageOk(pg)
      /\ pg.free = P[p].free /\ p \in 1 .. Len(P) /\ PagesOk(P)
  BY LiesIn DEF Rewriting, Lies
<1>2. m = IF n <= Inner(off) THEN n ELSE Inner(off)
  BY DEF OnFirst
<1>. HIDE DEF m, n
<1>3. m \in Nat /\ m <= n /\ m <= Inner(off)
      /\ \A j \in 1 .. n : j <= Inner(off) => j <= m
  BY <1>1, <1>2
<1>4. at \in Nat /\ at = off + DataHdr
  BY <1>1, Sizes
<1>5. ASSUME pg.free # 0 PROVE at + m <= pg.free
  <2>. DEFINE c == at + m - 1
  <2>1. c \in Nat /\ off <= c /\ c < off + DataHdr + o /\ c < BSize
    BY <1>1, <1>3, <1>4, Sizes
  <2>. HIDE DEF c
  <2>2. Taken(P, p, off, o, p, c)
    BY <2>1 DEF Taken, TakenFirst
  <2>3. c < P[p].free /\ P[p].free \in Nat
    BY <1>1, <1>5, <2>1, <2>2, PageIs DEF Rewriting, Below
  <2>. QED BY <1>1, <1>3, <1>4, <2>3 DEF c
<1>. HIDE DEF at
<1>6. R[p] = WithBytes(pg, at, v, 1, m)
  BY DEF Rewriting, Rewritten, FirstPage, m, at
<1>7. /\ PageOk(R[p]) /\ R[p].hdr = pg.hdr /\ R[p].free = pg.free /\ R[p].next = pg.next
      /\ \A c \in Offsets :
           R[p].cell[c] = IF c \in at .. at + m - 1 THEN Byte(v, 1 + c - at) ELSE pg.cell[c]
  BY <1>1, <1>3, <1>4, <1>5, <1>6, WrittenOk
<1>. QED BY <1>3, <1>7 DEF Rewriting, m, n, at

LEMMA LaterRewritten ==
  ASSUME NEW P, NEW R, NEW p, NEW off, NEW o, NEW v, NEW pg,
         Rewriting(P, R, p, off, o, v, pg), NEW i \in Nat \ {0}, Left(v.len, off, i) > 0,
         NEW q, q = Base(P, p) + i
  PROVE  /\ q \in 1 .. Len(P) /\ q # p
         /\ PageOk(R[q]) /\ R[q].hdr = P[q].hdr /\ R[q].free = P[q].free
         /\ R[q].next = P[q].next
         /\ Wide(Left(v.len, off, i)) \in Nat
         /\ \A c \in Offsets :
              R[q].cell[c] = IF c \in PageHdr .. PageHdr + Wide(Left(v.len, off, i)) - 1
                             THEN Byte(v, v.len - Left(v.len, off, i) + 1 + c - PageHdr)
                             ELSE P[q].cell[c]
<1>. DEFINE n == v.len
            l == Left(v.len, off, i)
            m == Wide(l)
<1>1. /\ off \in Nat /\ off + DataHdr <= BSize /\ p \in Nat /\ Len(P) \in Nat
      /\ n \in Nat /\ v \in Values /\ PagesOk(P) /\ Below(P, p, off, o)
      /\ Lies(P, p, off, n)
      /\ \A x, c \in Nat : Taken(P, p, off, n, x, c) => Taken(P, p, off, o, x, c)
  BY LiesIn, Shorter DEF Rewriting, Lies
<1>2. l \in Int /\ l > 0
  BY <1>1, LeftIs
<1>3. m \in Nat /\ m <= Cap /\ 0 < m
  <2>1. m \in Nat /\ m <= Cap /\ \A r \in 0 .. Cap - 1 : r < l => r < m
    BY <1>2, WideIs
  <2>2. 0 \in 0 .. Cap - 1
    BY Sizes
  <2>. QED BY <1>2, <2>1, <2>2
<1>4. q \in 1 .. Len(P) /\ q # p
  <2>1. Base(P, p) \in Nat /\ Base(P, p) >= p /\ q \in 1 .. Len(P)
    BY <1>1, <1>2, LiesIn
  <2>. QED BY <1>1, <2>1
<1>5. PageOk(P[q]) /\ P[q].free \in Nat
  BY <1>1, <1>4, PageIs
<1>6. ASSUME P[q].free # 0 PROVE PageHdr + m <= P[q].free
  <2>. DEFINE c == PageHdr + m - 1
  <2>1. c \in Nat /\ PageHdr <= c /\ c < PageHdr + m
    BY <1>3, Sizes
  <2>. HIDE DEF c
  <2>2. Taken(P, p, off, n, q, c)
    BY <1>2, <2>1 DEF Taken, TakenThere
  <2>3. c < P[q].free
    BY <1>1, <1>4, <1>6, <2>1, <2>2 DEF Below
  <2>. QED BY <1>3, <1>5, <2>3, Sizes DEF c
<1>7. R[q] = LaterPage(P, Base(P, p), off, v, i)
  BY DEF Rewriting, Rewritten
<1>8. R[q] = WithBytes(P[q], PageHdr, v, n - l + 1, m)
  BY <1>7 DEF LaterPage
<1>9. n - l + 1 \in Int /\ PageHdr \in Nat
  BY <1>1, <1>2, Sizes
<1>. HIDE DEF n, l, m
<1>10. /\ PageOk(R[q]) /\ R[q].hdr = P[q].hdr /\ R[q].free = P[q].free
       /\ R[q].next = P[q].next
       /\ \A c \in Offsets :
            R[q].cell[c] = IF c \in PageHdr .. PageHdr + m - 1
                           THEN Byte(v, n - l + 1 + c - PageHdr) ELSE P[q].cell[c]
  <2>1. v \in Values /\ m \in Nat /\ PageOk(P[q])
    BY <1>1, <1>3, <1>5
  <2>. QED BY <1>6, <1>8, <1>9, <2>1, WrittenOk
<1>. QED BY <1>3, <1>4, <1>10 DEF n, l, m


\* All of it: the pages are in order, the bytes are those of v, and nothing
\* else has changed.
LEMMA RewrittenOk ==
  ASSUME NEW P, NEW R, NEW p, NEW off, NEW o, NEW v, NEW pg,
         Rewriting(P, R, p, off, o, v, pg)
  PROVE  /\ PagesOk(R) /\ Len(R) = Len(P) /\ Keeps(P, R) /\ R[p].hdr = pg.hdr
         /\ \A q \in 1 .. Len(P) : /\ R[q].next = P[q].next
                                   /\ q # p => R[q].hdr = P[q].hdr
         /\ \A q \in 1 .. Len(P), c \in Offsets :
              ~Taken(P, p, off, v.len, q, c) => R[q].cell[c] = P[q].cell[c]
         /\ \A i \in 0 .. DataHdr - 1 : R[p].cell[off + i] = P[p].cell[off + i]
         /\ BytesOk(R, p, off, v)
<1>. DEFINE n == v.len
            b == Base(P, p)
<1>1. /\ off \in Nat /\ off + DataHdr <= BSize /\ p \in 1 .. Len(P) /\ Len(P) \in Nat
      /\ Inner(off) \in Nat /\ off + DataHdr + Inner(off) = BSize
      /\ n \in Nat /\ v \in Values /\ PagesOk(P) /\ Rewritten(P, R, p, off, v, pg)
      /\ Lies(P, p, off, n) /\ \A q \in 1 .. Len(P) : P[q].free \in Nat /\ PageOk(P[q])
  BY LiesIn, PageIs, Shorter DEF Rewriting, Lies
<1>2. /\ PageOk(R[p]) /\ R[p].hdr = pg.hdr /\ R[p].free = P[p].free
      /\ R[p].next = P[p].next /\ OnFirst(v, off) \in Nat
      /\ OnFirst(v, off) <= v.len /\ OnFirst(v, off) <= Inner(off)
      /\ \A j \in 1 .. v.len : j <= Inner(off) => j <= OnFirst(v, off)
      /\ \A c \in Offsets :
           R[p].cell[c] = IF c \in off + DataHdr .. off + DataHdr + OnFirst(v, off) - 1
                          THEN Byte(v, 1 + c - (off + DataHdr))
                          ELSE P[p].cell[c]
  BY FirstRewritten
<1>3. ASSUME NEW i \in Nat \ {0}, Left(n, off, i) > 0
      PROVE  /\ b + i \in 1 .. Len(P) /\ b + i # p
             /\ PageOk(R[b + i]) /\ R[b + i].hdr = P[b + i].hdr
             /\ R[b + i].free = P[b + i].free /\ R[b + i].next = P[b + i].next
             /\ Wide(Left(n, off, i)) \in Nat
             /\ \A c \in Offsets :
                  R[b + i].cell[c]
                    = IF c \in PageHdr .. PageHdr + Wide(Left(n, off, i)) - 1
                      THEN Byte(v, n - Left(n, off, i) + 1 + c - PageHdr)
                      ELSE P[b + i].cell[c]
  BY <1>3, LaterRewritten
<1>4. ASSUME NEW q \in 1 .. Len(P)
      PROVE  \/ q = p
             \/ \E i \in Nat \ {0} : Left(n, off, i) > 0 /\ q = b + i
             \/ R[q] = P[q]
  BY <1>1 DEF Rewritten
<1>. HIDE DEF n, b
<1>5. ASSUME NEW q \in 1 .. Len(P)
      PROVE  /\ PageOk(R[q]) /\ R[q].next = P[q].next /\ R[q].free = P[q].free
             /\ q # p => R[q].hdr = P[q].hdr
  <2>1. CASE q = p
    BY <1>2, <2>1
  <2>2. CASE \E i \in Nat \ {0} : Left(n, off, i) > 0 /\ q = b + i
    BY <1>3, <2>2
  <2>3. CASE R[q] = P[q]
    BY <1>1, <2>3
  <2>. QED BY <1>4, <2>1, <2>2, <2>3
<1>6. R \in Seq(PageT) /\ Len(R) = Len(P)
  <2>1. \A q \in 1 .. Len(P) : R[q] \in PageT
    BY <1>5 DEF PageOk
  <2>2. R \in [1 .. Len(P) -> PageT]
    BY <1>1, <2>1 DEF Rewritten
  <2>. QED BY <1>1, <2>2, SeqDef, LenProperties
<1>7. PagesOk(R)
  BY <1>5, <1>6 DEF PagesOk
<1>8. Keeps(P, R)
  BY <1>1, <1>5, <1>6 DEF Keeps
<1>9. ASSUME NEW q \in 1 .. Len(P), NEW c \in Offsets, ~Taken(P, p, off, n, q, c)
      PROVE  R[q].cell[c] = P[q].cell[c]
  <2>0. c \in Nat /\ c < BSize
    BY Sizes DEF Offsets
  <2>1. CASE q = p
    <3>1. ~(off <= c /\ c < off + DataHdr + n)
      BY <1>9, <2>0, <2>1 DEF Taken, TakenFirst
    <3>2. c \notin off + DataHdr .. off + DataHdr + OnFirst(v, off) - 1
      <4>. DEFINE m == OnFirst(v, off)
      <4>1. m \in Nat /\ m <= n /\ n \in Nat /\ off \in Nat /\ DataHdr \in Nat
        BY <1>1, <1>2, Sizes DEF n
      <4>. HIDE DEF m
      <4>2. c \notin off + DataHdr .. off + DataHdr + m - 1
        BY <2>0, <3>1, <4>1
      <4>. QED BY <4>2 DEF m
    <3>. QED BY <1>2, <2>1, <3>2
  <2>2. CASE \E i \in Nat \ {0} : Left(n, off, i) > 0 /\ q = b + i
    <3>1. PICK i \in Nat \ {0} : Left(n, off, i) > 0 /\ q = b + i
      BY <2>2
    <3>2. ~(PageHdr <= c /\ c < PageHdr + Wide(Left(n, off, i)))
      BY <1>9, <3>1 DEF Taken, TakenThere, b
    <3>3. Wide(Left(n, off, i)) \in Nat
      BY <1>3, <3>1
    <3>4. c \notin PageHdr .. PageHdr + Wide(Left(n, off, i)) - 1
      BY <2>0, <3>2, <3>3, Sizes
    <3>. QED BY <1>3, <3>1, <3>4
  <2>3. CASE R[q] = P[q]
    BY <2>3
  <2>. QED BY <1>4, <2>1, <2>2, <2>3
<1>10. ASSUME NEW i \in 0 .. DataHdr - 1 PROVE R[p].cell[off + i] = P[p].cell[off + i]
  <2>. DEFINE c == off + i
  <2>1. c \in Offsets /\ c \notin off + DataHdr .. off + DataHdr + OnFirst(v, off) - 1
    BY <1>1, <1>2, Sizes DEF Offsets
  <2>. HIDE DEF c
  <2>2. R[p].cell[c] = P[p].cell[c]
    BY <1>2, <2>1
  <2>. QED BY <2>2 DEF c
<1>11. BytesOk(R, p, off, v)
  <2>1. ASSUME NEW j \in 1 .. v.len, j <= Inner(off)
        PROVE  R[p].cell[off + DataHdr + j - 1] = Byte(v, j)
    <3>. DEFINE c == off + DataHdr + j - 1
    <3>1. j <= OnFirst(v, off)
      BY <1>2, <2>1
    <3>2. /\ c \in Offsets /\ c \in off + DataHdr .. off + DataHdr + OnFirst(v, off) - 1
          /\ 1 + c - (off + DataHdr) = j
      BY <1>1, <1>2, <2>1, <3>1, Sizes DEF Offsets
    <3>. HIDE DEF c
    <3>3. R[p].cell[c] = Byte(v, 1 + c - (off + DataHdr))
      BY <1>2, <3>2
    <3>4. R[p].cell[c] = Byte(v, j)
      BY <3>2, <3>3
    <3>. QED BY <3>4 DEF c
  <2>2. ASSUME NEW i \in Nat \ {0}, NEW r \in 0 .. Cap - 1, r < Left(v.len, off, i)
        PROVE  R[Base(R, p) + i].cell[PageHdr + r]
                 = Byte(v, Inner(off) + (i - 1) * Cap + r + 1)
    <3>. DEFINE l == Left(n, off, i)
                c == PageHdr + r
    <3>1. l \in Int
      BY <1>1, LeftIs
    <3>2. l > 0 /\ r < l /\ r \in Nat
      BY <2>2, <3>1, Sizes DEF n
    <3>3. r < Wide(l) /\ Wide(l) \in Nat /\ Wide(l) <= Cap
      BY <3>1, <3>2, WideIs
    <3>4. Base(R, p) = b
      BY <1>1, <1>5 DEF Base, b
    <3>5. n - l = Inner(off) + (i - 1) * Cap
      <4>. DEFINE z == (i - 1) * Cap
      <4>1. z \in Nat
        BY Sizes
      <4>2. l = n - Inner(off) - z
        BY DEF Left
      <4>. HIDE DEF z, l
      <4>3. n - l = Inner(off) + z
        BY <1>1, <4>1, <4>2
      <4>. QED BY <4>3 DEF z
    <3>. DEFINE z == Inner(off) + (i - 1) * Cap
    <3>. HIDE DEF l, z
    <3>6. c \in Offsets /\ c \in PageHdr .. PageHdr + Wide(l) - 1
          /\ n - l + 1 + c - PageHdr = z + r + 1
      <4>1. n - l = z /\ n - l \in Int /\ z \in Int
        BY <1>1, <3>1, <3>5 DEF z
      <4>2. c \in Offsets /\ c \in PageHdr .. PageHdr + Wide(l) - 1
        BY <3>2, <3>3, Sizes DEF Offsets
      <4>. QED BY <1>1, <3>1, <3>2, <4>1, <4>2, Sizes
    <3>. HIDE DEF c
    <3>7. R[b + i].cell[c] = Byte(v, n - l + 1 + c - PageHdr)
      BY <1>3, <3>2, <3>6 DEF l
    <3>8. R[b + i].cell[c] = Byte(v, z + r + 1)
      BY <3>6, <3>7
    <3>. QED BY <3>4, <3>8 DEF c, z
  <2>. QED BY <2>1, <2>2 DEF BytesOk
<1>. QED BY <1>2, <1>5, <1>6, <1>7, <1>8, <1>9, <1>10, <1>11 DEF n


\* The length that is stored, and the pointer of a datum that is not longer.
LEMMA StoredLenIs ==
  ASSUME DataInv, NEW k \in Stored
  PROVE  StoredLen(k) = given[k].len /\ given[k].len \in Nat
<1>1. given[k].len \in Nat /\ datap[k] = Pointer(datap[k].first, datap[k].off, given[k])
  BY KeyLies DEF DataInv
<1>2. datap[k].len = Low(given[k].len) /\ datap[k].high = High(given[k].len)
  BY <1>1 DEF Pointer
<1>. QED BY <1>1, <1>2, LengthIs DEF StoredLen

LEMMA NewPointerIs ==
  ASSUME DataInv, ~ShrinkHuge, NEW k \in Stored, NEW v \in Values,
         v.len <= given[k].len, IsHuge(StoredLen(k)) /\ ~IsHuge(v.len) => ShrinkHuge
  PROVE  NewPointer(k, v) = Pointer(datap[k].first, datap[k].off, v)
<1>1. /\ datap[k] = Pointer(datap[k].first, datap[k].off, given[k])
      /\ given[k].len \in Nat /\ v.len \in Nat
  BY KeyLies DEF DataInv, Values
<1>2. datap[k].high = High(given[k].len)
  BY <1>1 DEF Pointer
<1>3. ~IsHuge(v.len) => datap[k].high = High(v.len)
  <2>1. ~IsHuge(v.len) => ~IsHuge(given[k].len)
    BY StoredLenIs
  <2>. QED BY <1>1, <1>2, <2>1, LengthIs
<1>. DEFINE f == datap[k].first
            off == datap[k].off
            d == datap[k]
<1>4. NewPointer(k, v) = [d EXCEPT !.len = Low(v.len), !.chksum = v, !.high = High(v.len)]
  BY <1>3 DEF NewPointer
<1>5. d = [first |-> f, off |-> off, len |-> Low(given[k].len),
           high |-> High(given[k].len), chksum |-> given[k]]
  BY <1>1 DEF Pointer
<1>. HIDE DEF d, f, off
<1>. QED BY <1>4, <1>5 DEF Pointer, f, off

\* The header of a datum gets the length of v.
LEMMA RelabelledIs ==
  ASSUME NEW pg, PageOk(pg), NEW off \in DOMAIN pg.hdr, NEW v \in Values,
         NEW w, w = Relabelled(pg, off, v)
  PROVE  /\ PageOk(w) /\ w.cell = pg.cell /\ w.next = pg.next /\ w.free = pg.free
         /\ DOMAIN w.hdr = DOMAIN pg.hdr
         /\ w.hdr[off].len = Low(v.len) /\ w.hdr[off].high = High(v.len)
         /\ w.hdr[off].place = pg.hdr[off].place
         /\ \A o \in DOMAIN pg.hdr : o # off => w.hdr[o] = pg.hdr[o]
<1>. DEFINE g == pg.hdr[off]
            a == Low(v.len)
            b == High(v.len)
            h == [g EXCEPT !.len = a, !.high = b]
<1>1. g \in Hdr /\ a \in Nat /\ b \in Nat
  BY HeaderInside, LengthIs DEF Values
<1>2. w = [pg EXCEPT !.hdr[off] = h]
  BY HdrsAre DEF Relabelled, PageOk
<1>. HIDE DEF a, b, g
<1>3. h \in Hdr /\ h.next = g.next /\ h.len = a /\ h.high = b /\ h.place = g.place
  <2>1. /\ g = [len |-> g.len, high |-> g.high, next |-> g.next, place |-> g.place]
        /\ g.next \in Nat /\ g.place \in 0 .. 1
    BY <1>1 DEF Hdr
  <2>. DEFINE x == g.next
              y == g.place
              s == g.len
              t == g.high
  <2>3. g = [len |-> s, high |-> t, next |-> x, place |-> y]
    BY <2>1
  <2>. HIDE DEF x, y, s, t
  <2>4. h = [len |-> a, high |-> b, next |-> x, place |-> y]
    <3>. DEFINE h1 == [g EXCEPT !.len = a]
    <3>1. h1 = [len |-> a, high |-> t, next |-> x, place |-> y]
      BY <2>3
    <3>2. h = [h1 EXCEPT !.high = b]
      OBVIOUS
    <3>. HIDE DEF h1
    <3>. QED BY <3>1, <3>2
  <2>. HIDE DEF h
  <2>2. h = [len |-> a, high |-> b, next |-> g.next, place |-> g.place]
    BY <2>4 DEF x, y
  <2>. QED BY <1>1, <2>1, <2>2 DEF Hdr
<1>. HIDE DEF h
<1>4. h.next = pg.hdr[off].next
  BY <1>3 DEF g
<1>5. /\ PageOk(w) /\ w.cell = pg.cell /\ w.next = pg.next /\ w.free = pg.free
      /\ DOMAIN w.hdr = DOMAIN pg.hdr /\ w.hdr[off] = h
      /\ \A o \in DOMAIN pg.hdr : o # off => w.hdr[o] = pg.hdr[o]
  BY <1>2, <1>3, <1>4, HeaderChanged
<1>. QED BY <1>3, <1>5 DEF a, b, g

\* A datum is replaced: it has the new bytes, the others are as they were.
LEMMA ReplaceStep ==
  ASSUME DataInv, ~ShrinkHuge, NEW k \in Keys, NEW n \in Lens, Replace(k, n)
  PROVE  DataInv'
<1>. DEFINE p   == datap[k].first
            off == datap[k].off
            o   == given[k].len
            v   == Value(k, 1 - given[k].gen, n)
            pg  == Relabelled(page[p], off, v)
<1>1. /\ k \in Stored /\ UNCHANGED <<curr, place>>
      /\ datap' = [datap EXCEPT ![k] = NewPointer(k, v)]
      /\ page' = Overwritten(k, v)
      /\ given' = [given EXCEPT ![k] = v]
      /\ IsHuge(StoredLen(k)) /\ ~IsHuge(n) => ShrinkHuge
      /\ n <= StoredLen(k)
  BY DEF Replace, Stored, Replaceable
<1>2. /\ PagesOk(page) /\ CurrOk(page, curr)
      /\ DOMAIN datap = Keys /\ DOMAIN given = Keys /\ place \in [Keys -> 0 .. 1]
      /\ KeyOk(page, datap[k], given[k], place[k])
  BY <1>1 DEF DataInv
<1>3. n \in Nat /\ v \in Values /\ v.len = n /\ v.key = k
  <2>1. given[k].gen \in 0 .. 1
    BY <1>2, KeyLies DEF Values
  <2>. QED BY <2>1, Sizes DEF Value, Values
<1>4. n <= o /\ o \in Nat
  BY <1>1, StoredLenIs
<1>. HIDE DEF v
<1>5. NewPointer(k, v) = Pointer(p, off, v)
  BY <1>1, <1>3, <1>4, NewPointerIs
<1>6. /\ Lies(page, p, off, o) /\ Below(page, p, off, o)
      /\ HeaderOk(page[p], off, o, place[k])
  BY <1>2, KeyLies
<1>7. p \in 1 .. Len(page) /\ off \in DOMAIN page[p].hdr /\ PageOk(page[p])
  BY <1>2, <1>6, PageIs DEF Lies
<1>8. /\ PageOk(pg) /\ pg.cell = page[p].cell /\ pg.next = page[p].next
      /\ pg.free = page[p].free
      /\ DOMAIN pg.hdr = DOMAIN page[p].hdr
      /\ pg.hdr[off].len = Low(v.len) /\ pg.hdr[off].high = High(v.len)
      /\ pg.hdr[off].place = page[p].hdr[off].place
      /\ \A x \in DOMAIN page[p].hdr : x # off => pg.hdr[x] = page[p].hdr[x]
  BY <1>3, <1>7, RelabelledIs
<1>9. Rewritten(page, page', p, off, v, pg)
  <2>1. Lies(page, p, off, v.len)
    BY <1>3, <1>4, <1>6, Shorter
  <2>. QED BY <1>1, <1>3, <2>1, OverwrittenIs
<1>. HIDE DEF p, off, o, pg
<1>10. Rewriting(page, page', p, off, o, v, pg)
  BY <1>3, <1>4, <1>6, <1>8, <1>9 DEF Rewriting
<1>11. /\ PagesOk(page') /\ Len(page') = Len(page) /\ Keeps(page, page')
       /\ page'[p].hdr = pg.hdr
       /\ \A q \in 1 .. Len(page) : /\ page'[q].next = page[q].next
                                    /\ q # p => page'[q].hdr = page[q].hdr
       /\ \A q \in 1 .. Len(page), c \in Offsets :
            ~Taken(page, p, off, v.len, q, c) => page'[q].cell[c] = page[q].cell[c]
       /\ \A i \in 0 .. DataHdr - 1 : page'[p].cell[off + i] = page[p].cell[off + i]
       /\ BytesOk(page', p, off, v)
  BY <1>10, RewrittenOk
<1>12. HeaderOk(page'[p], off, v.len, place[k])
  BY <1>6, <1>7, <1>8, <1>11 DEF HeaderOk
<1>13. /\ KeyOk(page', Pointer(p, off, v), v, place[k])
       /\ \A q, c \in Nat : Taken(page', p, off, v.len, q, c) => Taken(page, p, off, o, q, c)
  BY <1>3, <1>4, <1>6, <1>11, <1>12, KeyAfter
<1>14. Stays(k)
  <2>1. datap'[k] = Pointer(p, off, v) /\ given'[k] = v /\ place'[k] = place[k]
    BY <1>1, <1>2, <1>5
  <2>2. Pointer(p, off, v).first = p /\ Pointer(p, off, v).off = off
    BY DEF Pointer
  <2>3. datap'[k].first = p /\ datap'[k].off = off
    BY <2>1, <2>2
  <2>4. KeyOk(page', datap'[k], given'[k], place'[k])
    BY <1>13, <2>1
  <2>5. \A q, c \in Nat :
          Taken(page', datap'[k].first, datap'[k].off, given'[k].len, q, c)
            => Taken(page, datap[k].first, datap[k].off, given[k].len, q, c)
    BY <1>13, <2>1, <2>3 DEF p, off, o
  <2>. QED BY <1>3, <2>1, <2>4, <2>5 DEF Stays
<1>15. ASSUME NEW m \in Stored, m # k PROVE Stays(m)
  <2>1. KeyOk(page, datap[m], given[m], place[m]) /\ given[m].key = m /\ m \in Keys
    BY DEF DataInv, Stored
  <2>2. Lies(page, datap[m].first, datap[m].off, given[m].len)
        /\ datap[m].first \in 1 .. Len(page) /\ datap[m].off \in DOMAIN page[datap[m].first].hdr
        /\ HeaderOk(page[datap[m].first], datap[m].off, given[m].len, place[m])
    BY <1>2, <2>1, KeyLies DEF Lies
  <2>3. Untouched(page, page', datap[m].first, datap[m].off, given[m].len)
    <3>. SUFFICES ASSUME NEW q \in 1 .. Len(page), NEW c \in Nat,
                         Taken(page, datap[m].first, datap[m].off, given[m].len, q, c)
                  PROVE  page'[q].cell[c] = page[q].cell[c]
      BY DEF Untouched
    <3>1. q \in Nat /\ c \in Offsets
      BY <2>2, TakenIn
    <3>2. Apart(page, datap[k], given[k], datap[m], given[m])
      BY <1>1, <1>15 DEF DataInv
    <3>3. ~Taken(page, p, off, o, q, c)
      BY <3>1, <3>2 DEF Apart, p, off, o
    <3>4. ~Taken(page, p, off, v.len, q, c)
      BY <1>3, <1>4, <1>6, <3>1, <3>3, Shorter
    <3>. QED BY <1>11, <3>1, <3>4
  <2>4. SameHeader(page[datap[m].first], page'[datap[m].first], datap[m].off, place[m])
    <3>1. datap[m].first # p \/ datap[m].off # off
      BY <1>1, <1>15, TwoHeaders DEF p, off
    <3>2. page'[datap[m].first].hdr[datap[m].off] = page[datap[m].first].hdr[datap[m].off]
          /\ DOMAIN page'[datap[m].first].hdr = DOMAIN page[datap[m].first].hdr
      BY <1>8, <1>11, <2>2, <3>1
    <3>. QED BY <2>2, <3>2 DEF SameHeader, HeaderOk
  <2>5. /\ KeyOk(page', datap[m], given[m], place[m])
        /\ \A q, c \in Nat :
             Taken(page', datap[m].first, datap[m].off, given[m].len, q, c)
               => Taken(page, datap[m].first, datap[m].off, given[m].len, q, c)
    BY <1>2, <1>11, <2>1, <2>3, <2>4, KeyStays
  <2>6. datap'[m] = datap[m] /\ given'[m] = given[m] /\ place'[m] = place[m]
    BY <1>1, <1>2, <1>15, <2>1
  <2>. QED BY <2>1, <2>5, <2>6 DEF Stays
<1>16. CurrOk(page', curr')
  BY <1>1, <1>2, <1>11 DEF CurrOk
<1>17. /\ place' \in [Keys -> 0 .. 1] /\ DOMAIN datap' = Keys /\ DOMAIN given' = Keys
       /\ Stored' \subseteq Stored
  <2>1. \A m \in Keys : m # k => datap'[m] = datap[m]
    BY <1>1, <1>2
  <2>2. Stored' \subseteq Stored
    BY <1>1, <2>1 DEF Stored
  <2>. QED BY <1>1, <1>2, <2>2
<1>. QED BY <1>11, <1>14, <1>15, <1>16, <1>17, AllStay


-----------------------------------------------------------------------------
(***************************************************************************)
(* Adding a datum.                                                         *)
(***************************************************************************)
\* The data that are stored lie in the pages P.
DataOk(P) ==
  /\ PagesOk(P)
  /\ \A m \in Stored : KeyOk(P, datap[m], given[m], place[m]) /\ given[m].key = m
  /\ \A k, m \in Stored : k # m => Apart(P, datap[k], given[k], datap[m], given[m])

\* In the pages R they take no other cells than in P.
Within(P, R) ==
  \A m \in Stored, q, c \in Nat :
    Taken(R, datap[m].first, datap[m].off, given[m].len, q, c)
      => Taken(P, datap[m].first, datap[m].off, given[m].len, q, c)

\* Nothing that is stored was touched.
LEMMA DataMoved ==
  ASSUME NEW P, DataOk(P), NEW R, PagesOk(R), Keeps(P, R),
         \A m \in Stored : Untouched(P, R, datap[m].first, datap[m].off, given[m].len),
         \A p \in 1 .. Len(P) : \A off \in DOMAIN P[p].hdr :
           off \in DOMAIN R[p].hdr /\ R[p].hdr[off] = P[p].hdr[off]
  PROVE  DataOk(R) /\ Within(P, R)
<1>1. ASSUME NEW m \in Stored
      PROVE  /\ KeyOk(R, datap[m], given[m], place[m]) /\ given[m].key = m
             /\ \A q, c \in Nat : Taken(R, datap[m].first, datap[m].off, given[m].len, q, c)
                                    => Taken(P, datap[m].first, datap[m].off, given[m].len, q, c)
  <2>1. PagesOk(P) /\ KeyOk(P, datap[m], given[m], place[m]) /\ given[m].key = m
    BY DEF DataOk
  <2>2. /\ datap[m].first \in 1 .. Len(P) /\ datap[m].off \in DOMAIN P[datap[m].first].hdr
        /\ P[datap[m].first].hdr[datap[m].off].place = place[m]
    BY <2>1, KeyLies DEF Lies, HeaderOk
  <2>3. SameHeader(P[datap[m].first], R[datap[m].first], datap[m].off, place[m])
    BY <2>2 DEF SameHeader
  <2>. QED BY <2>1, <2>3, KeyStays
<1>2. Within(P, R)
  BY <1>1 DEF Within
<1>3. ASSUME NEW k \in Stored, NEW m \in Stored, k # m
      PROVE  Apart(R, datap[k], given[k], datap[m], given[m])
  <2>1. Apart(P, datap[k], given[k], datap[m], given[m])
    BY <1>3 DEF DataOk
  <2>. QED BY <1>2, <2>1 DEF Apart, Within
<1>. QED BY <1>1, <1>2, <1>3 DEF DataOk

\* A page and a new one behind it.
LEMMA PageAdded ==
  ASSUME NEW P, PagesOk(P), NEW R, R = Append(P, NewPage)
  PROVE  /\ PagesOk(R) /\ Len(R) = Len(P) + 1 /\ Len(R) \in 1 .. Len(R)
         /\ R[Len(R)] = NewPage
         /\ \A q \in 1 .. Len(P) : R[q] = P[q]
<1>1. P \in Seq(PageT) /\ NewPage \in PageT /\ PageOk(NewPage) /\ Len(P) \in Nat
  BY NewPageOk, LenProperties DEF PagesOk, PageOk
<1>2. /\ R \in Seq(PageT) /\ Len(R) = Len(P) + 1 /\ R[Len(R)] = NewPage
      /\ \A q \in 1 .. Len(P) : R[q] = P[q]
  BY <1>1, AppendProperties
<1>3. \A q \in 1 .. Len(R) : q = Len(R) \/ q \in 1 .. Len(P)
  BY <1>1, <1>2
<1>4. PagesOk(R)
  BY <1>1, <1>2, <1>3 DEF PagesOk
<1>. QED BY <1>1, <1>2, <1>4


\* What making room leaves of the pages P: a page may get a successor.
SamePages(P, R) ==
  /\ Len(P) <= Len(R)
  /\ \A q \in 1 .. Len(P) :
       /\ R[q].cell = P[q].cell /\ R[q].hdr = P[q].hdr /\ R[q].free = P[q].free
       /\ P[q].next # 0 => R[q].next = P[q].next

\* ffdb_get_page of the current page, which has no successor.
LEMMA CurrentIs ==
  ASSUME DataInv, NEW P, NEW c, P = Current.page, c = Current.curr
  PROVE  PagesOk(P) /\ c \in 1 .. Len(P) /\ P[c].next = 0 /\ SamePages(page, P)
<1>1. PagesOk(page) /\ CurrOk(page, curr) /\ Len(page) \in Nat
  BY LenProperties DEF DataInv, PagesOk
<1>2. CASE curr = 0
  <2>1. P = Append(page, NewPage) /\ c = Len(page) + 1
    BY <1>2 DEF Current
  <2>2. /\ PagesOk(P) /\ Len(P) = Len(page) + 1 /\ Len(P) \in 1 .. Len(P)
        /\ P[Len(P)] = NewPage /\ \A q \in 1 .. Len(page) : P[q] = page[q]
    BY <1>1, <2>1, PageAdded
  <2>3. P[c].next = 0
    BY <2>1, <2>2, NewPageOk
  <2>. QED BY <1>1, <2>1, <2>2, <2>3 DEF SamePages
<1>3. CASE curr # 0
  <2>1. P = page /\ c = curr
    BY <1>3 DEF Current
  <2>. QED BY <1>1, <1>3, <2>1 DEF CurrOk, SamePages
<1>. QED BY <1>2, <1>3

\* A page gets a successor.
LEMMA LinkedIs ==
  ASSUME NEW P, PagesOk(P), NEW c \in 1 .. Len(P), P[c].next = 0, NEW nn \in Nat,
         NEW R, R = [P EXCEPT ![c].next = nn]
  PROVE  PagesOk(R) /\ Len(R) = Len(P) /\ SamePages(P, R)
<1>. DEFINE pg == P[c]
            w == [pg EXCEPT !.next = nn]
<1>1. PageOk(pg) /\ pg \in PageT /\ Len(P) \in Nat /\ DOMAIN P = 1 .. Len(P)
  BY PageIs
<1>2. R = [P EXCEPT ![c] = w]
  BY <1>1
<1>. HIDE DEF pg
<1>3. /\ w \in PageT /\ w.cell = pg.cell /\ w.hdr = pg.hdr /\ w.free = pg.free
      /\ w.firstpos = pg.firstpos /\ w.num = pg.num
  BY <1>1 DEF PageT
<1>. HIDE DEF w
<1>4. PageOk(w)
  BY <1>1, <1>3, ChangedOk
<1>5. Changed(P, R, c, w)
  BY <1>2 DEF Changed
<1>6. /\ PagesOk(R) /\ Len(R) = Len(P) /\ R[c] = w
      /\ \A q \in 1 .. Len(P) : q # c => R[q] = P[q]
  BY <1>4, <1>5, OneChanged
<1>7. ASSUME NEW q \in 1 .. Len(P)
      PROVE  /\ R[q].cell = P[q].cell /\ R[q].hdr = P[q].hdr /\ R[q].free = P[q].free
             /\ P[q].next # 0 => R[q].next = P[q].next
  <2>1. CASE q = c
    BY <1>3, <1>6, <2>1 DEF pg
  <2>2. CASE q # c
    BY <1>6, <2>2
  <2>. QED BY <2>1, <2>2
<1>. QED BY <1>1, <1>6, <1>7 DEF SamePages

\* The page a datum is added on: it has room and no successor.
LEMMA RoomMade ==
  ASSUME DataInv, NEW kept \in BOOLEAN, NEW P, NEW c,
         P = WithRoom(Current, kept).page, c = WithRoom(Current, kept).curr
  PROVE  /\ PagesOk(P) /\ c \in 1 .. Len(P) /\ P[c].next = 0 /\ P[c].free # 0
         /\ SamePages(page, P)
<1>. DEFINE s == Current
            S == s.page
            b == s.curr
            nn == IF kept THEN Len(S) + 1 ELSE 0
            T == [S EXCEPT ![b].next = nn]
<1>1. PagesOk(S) /\ b \in 1 .. Len(S) /\ S[b].next = 0 /\ SamePages(page, S)
  BY CurrentIs
<1>2. CASE S[b].free # 0
  <2>1. P = S /\ c = b
    BY <1>2 DEF WithRoom
  <2>. QED BY <1>1, <1>2, <2>1
<1>3. CASE S[b].free = 0
  <2>1. /\ P = Append([S EXCEPT ![b].next = IF kept THEN Len(S) + 1 ELSE @], NewPage)
        /\ c = Len(S) + 1
    BY <1>3 DEF WithRoom
  <2>2. Len(S) \in Nat /\ DOMAIN S = 1 .. Len(S)
    BY <1>1, PageIs
  <2>3. nn \in Nat
    BY <2>2
  <2>. HIDE DEF s, S, b
  <2>4. T = [S EXCEPT ![b].next = IF kept THEN Len(S) + 1 ELSE @]
    BY <1>1, <2>2
  <2>5. P = Append(T, NewPage)
    BY <2>1, <2>4
  <2>. HIDE DEF nn
  <2>6. PagesOk(T) /\ Len(T) = Len(S) /\ SamePages(S, T)
    BY <1>1, <2>3, LinkedIs
  <2>. HIDE DEF T
  <2>7. /\ PagesOk(P) /\ Len(P) = Len(T) + 1 /\ Len(P) \in 1 .. Len(P)
        /\ P[Len(P)] = NewPage /\ \A q \in 1 .. Len(T) : P[q] = T[q]
    BY <2>5, <2>6, PageAdded
  <2>8. P[c] = NewPage /\ c \in 1 .. Len(P)
    BY <2>1, <2>6, <2>7
  <2>9. P[c].next = 0 /\ P[c].free # 0
    BY <2>8, NewPageOk, Sizes
  <2>10. SamePages(page, P)
    <3>1. SamePages(S, P)
      BY <2>2, <2>6, <2>7 DEF SamePages
    <3>2. Len(page) \in Nat /\ Len(P) \in Nat
      BY <2>2, <2>6, <2>7, LenProperties DEF DataInv, PagesOk
    <3>3. Len(page) <= Len(S) /\ Len(S) <= Len(P)
      BY <1>1, <3>1 DEF SamePages
    <3>4. ASSUME NEW q \in 1 .. Len(page)
          PROVE  /\ P[q].cell = page[q].cell /\ P[q].hdr = page[q].hdr
                 /\ P[q].free = page[q].free
                 /\ page[q].next # 0 => P[q].next = page[q].next
      <4>1. q \in 1 .. Len(S)
        BY <2>2, <3>2, <3>3
      <4>. QED BY <1>1, <3>1, <4>1 DEF SamePages
    <3>5. Len(page) <= Len(P)
      BY <2>2, <3>2, <3>3
    <3>. QED BY <3>4, <3>5 DEF SamePages
  <2>. QED BY <2>7, <2>8, <2>9, <2>10
<1>. QED BY <1>2, <1>3

\* The data are in these pages as they were before.
LEMMA RoomKeeps ==
  ASSUME DataInv, NEW P, PagesOk(P), SamePages(page, P)
  PROVE  DataOk(P) /\ Within(page, P)
<1>1. DataOk(page)
  BY DEF DataInv, DataOk
<1>2. \A q \in 1 .. Len(page) : page[q].free \in Nat
  BY PageIs DEF DataInv
<1>3. Keeps(page, P)
  BY <1>2 DEF Keeps, SamePages
<1>4. \A m \in Stored : Untouched(page, P, datap[m].first, datap[m].off, given[m].len)
  BY DEF Untouched, SamePages
<1>5. \A p \in 1 .. Len(page) : \A off \in DOMAIN page[p].hdr :
        off \in DOMAIN P[p].hdr /\ P[p].hdr[off] = page[p].hdr[off]
  BY DEF SamePages
<1>. QED BY <1>1, <1>3, <1>4, <1>5, DataMoved


\* The pages R after a datum was added to the pages P, on page c and on pages
\* behind all others.
Growth(P, R, c, h, v, n) ==
  /\ PagesOk(P) /\ c \in 1 .. Len(P) /\ P[c].free # 0 /\ P[c].next = 0
  /\ PagesOk(R) /\ Len(P) <= Len(R)
  /\ \A q \in 1 .. Len(P) : q # c => R[q] = P[q]
  /\ Grown(P[c], R[c], P[c].free, h, v, n)
  /\ R[c].free # 0 => R[c].free >= P[c].free

\* The cells of the new datum.
Fresh(P, R, c, v) ==
  \A q, x \in Nat :
    Taken(R, c, P[c].free, v.len, q, x) => (q = c /\ x >= P[c].free) \/ q > Len(P)

LEMMA GrowthKeeps ==
  ASSUME NEW P, NEW R, NEW c, NEW h, NEW v, NEW n, Growth(P, R, c, h, v, n), DataOk(P)
  PROVE  DataOk(R) /\ Within(P, R)
<1>. DEFINE s == P[c].free
<1>1. /\ s \in Nat /\ s # 0 /\ c \in 1 .. Len(P) /\ P[c].next = 0
      /\ PagesOk(P) /\ PagesOk(R) /\ Grown(P[c], R[c], s, h, v, n)
      /\ \A q \in 1 .. Len(P) : P[q].free \in Nat /\ PageOk(P[q])
  BY PageIs DEF Growth
<1>2. Keeps(P, R)
  BY <1>1 DEF Keeps, Growth
<1>3. ASSUME NEW m \in Stored
      PROVE  Untouched(P, R, datap[m].first, datap[m].off, given[m].len)
  <2>. SUFFICES ASSUME NEW q \in 1 .. Len(P), NEW x \in Nat,
                       Taken(P, datap[m].first, datap[m].off, given[m].len, q, x)
                PROVE  R[q].cell[x] = P[q].cell[x]
    BY DEF Untouched
  <2>1. KeyOk(P, datap[m], given[m], place[m])
    BY DEF DataOk
  <2>2. /\ Lies(P, datap[m].first, datap[m].off, given[m].len)
        /\ Below(P, datap[m].first, datap[m].off, given[m].len)
    BY <1>1, <2>1, KeyLies
  <2>3. x \in Offsets
    BY <2>2, TakenIn
  <2>4. CASE q = c
    <3>1. x < s
      BY <1>1, <2>2, <2>4 DEF Below
    <3>2. x \notin s + DataHdr .. s + DataHdr + n - 1 /\ x \notin s .. s + DataHdr - 1
      <4>. HIDE DEF s
      <4>. QED BY <1>1, <3>1, Sizes
    <3>. QED BY <1>1, <2>3, <2>4, <3>2 DEF Grown
  <2>5. CASE q # c
    BY <2>5 DEF Growth
  <2>. QED BY <2>4, <2>5
<1>4. ASSUME NEW p \in 1 .. Len(P), NEW off \in DOMAIN P[p].hdr
      PROVE  off \in DOMAIN R[p].hdr /\ R[p].hdr[off] = P[p].hdr[off]
  <2>1. CASE p = c
    BY <1>1, <2>1 DEF Grown
  <2>2. CASE p # c
    BY <2>2 DEF Growth
  <2>. QED BY <2>1, <2>2
<1>. QED BY <1>1, <1>2, <1>3, <1>4, DataMoved

\* With the new datum the invariant holds again.
LEMMA Added ==
  ASSUME DataInv, NEW k \in Keys, k \notin Stored,
         NEW P, DataOk(P), Within(page, P), NEW c, NEW h, NEW n, NEW v \in Values, v.key = k,
         Growth(P, page', c, h, v, n), Fresh(P, page', c, v),
         KeyOk(page', Pointer(c, P[c].free, v), v, place[k]), CurrOk(page', curr'),
         datap' = [datap EXCEPT ![k] = Pointer(c, P[c].free, v)],
         given' = [given EXCEPT ![k] = v], place' = place
  PROVE  DataInv'
<1>. DEFINE d == Pointer(c, P[c].free, v)
            R == page'
<1>1. DataOk(R) /\ Within(P, R)
  BY GrowthKeeps
<1>2. /\ d.first = c /\ d.off = P[c].free /\ PagesOk(P) /\ P[c].free \in Nat
      /\ \A q \in 1 .. Len(P) : P[q].free \in Nat
      /\ Len(P) \in Nat /\ DOMAIN datap = Keys /\ DOMAIN given = Keys
      /\ KeyOk(R, d, v, place[k])
  BY PageIs DEF Growth, Pointer, DataInv
<1>3. datap'[k] = d /\ given'[k] = v
  BY <1>2
<1>4. \A m \in Keys : m # k => datap'[m] = datap[m] /\ given'[m] = given[m]
  BY <1>2
<1>5. Stored' \subseteq Stored \cup {k} /\ DOMAIN datap' = Keys /\ DOMAIN given' = Keys
  BY <1>2, <1>4 DEF Stored
<1>6. ASSUME NEW m \in Stored
      PROVE  /\ m # k /\ m \in Keys
             /\ KeyOk(R, datap[m], given[m], place[m]) /\ given[m].key = m
             /\ Apart(R, d, v, datap[m], given[m]) /\ Apart(R, datap[m], given[m], d, v)
  <2>1. m # k /\ m \in Keys
    BY DEF Stored
  <2>2. KeyOk(P, datap[m], given[m], place[m])
    BY DEF DataOk
  <2>3. /\ Lies(P, datap[m].first, datap[m].off, given[m].len)
        /\ Below(P, datap[m].first, datap[m].off, given[m].len)
    BY <1>2, <2>2, KeyLies
  <2>4. ASSUME NEW q \in Nat, NEW x \in Nat, Taken(R, d.first, d.off, v.len, q, x),
               Taken(R, datap[m].first, datap[m].off, given[m].len, q, x)
        PROVE  FALSE
    <3>1. Taken(P, datap[m].first, datap[m].off, given[m].len, q, x)
      BY <1>1, <2>4 DEF Within
    <3>2. q \in 1 .. Len(P)
      BY <2>3, <3>1, TakenIn
    <3>3. (q = c /\ x >= P[c].free) \/ q > Len(P)
      BY <1>2, <2>4 DEF Fresh
    <3>4. q = c /\ x >= P[c].free /\ P[c].free # 0
      BY <1>2, <3>2, <3>3 DEF Growth
    <3>5. x < P[c].free
      BY <2>3, <3>1, <3>2, <3>4 DEF Below
    <3>. QED BY <1>2, <3>4, <3>5
  <2>5. Apart(R, d, v, datap[m], given[m])
    BY <2>4 DEF Apart
  <2>6. Apart(R, datap[m], given[m], d, v)
    BY <2>4 DEF Apart
  <2>7. KeyOk(R, datap[m], given[m], place[m]) /\ given[m].key = m
    BY <1>1 DEF DataOk
  <2>. QED BY <2>1, <2>5, <2>6, <2>7
<1>. HIDE DEF d, R
<1>7. ASSUME NEW m \in Stored'
      PROVE  KeyOk(R, datap'[m], given'[m], place[m]) /\ given'[m].key = m
  <2>1. CASE m = k
    BY <1>2, <1>3, <2>1
  <2>2. CASE m # k
    <3>1. m \in Stored
      BY <1>5, <2>2
    <3>. QED BY <1>4, <1>6, <3>1
  <2>. QED BY <2>1, <2>2
<1>8. ASSUME NEW l \in Stored', NEW m \in Stored', l # m
      PROVE  Apart(R, datap'[l], given'[l], datap'[m], given'[m])
  <2>1. CASE l = k
    <3>1. m \in Stored
      BY <1>5, <1>8, <2>1
    <3>. QED BY <1>3, <1>4, <1>6, <2>1, <3>1
  <2>2. CASE m = k
    <3>1. l \in Stored
      BY <1>5, <1>8, <2>2
    <3>. QED BY <1>3, <1>4, <1>6, <2>2, <3>1
  <2>3. CASE l # k /\ m # k
    <3>1. l \in Stored /\ m \in Stored
      BY <1>5, <2>3
    <3>2. Apart(R, datap[l], given[l], datap[m], given[m])
      BY <1>1, <1>8, <3>1 DEF DataOk
    <3>. QED BY <1>4, <1>6, <3>1, <3>2
  <2>. QED BY <2>1, <2>2, <2>3
<1>9. PagesOk(R) /\ CurrOk(R, curr')
  BY DEF Growth, R
<1>10. place \in [Keys -> 0 .. 1]
  BY DEF DataInv
<1>. QED BY <1>5, <1>7, <1>8, <1>9, <1>10 DEF DataInv, R


\* The first n bytes of a datum lie behind its header.
Behind(w, s, v, n) == \A j \in 1 .. n : w.cell[s + DataHdr + j - 1] = Byte(v, j)

\* The header of the new datum and the bytes behind it.
LEMMA GrownDatum ==
  ASSUME NEW pg, NEW w, NEW s \in Nat, NEW h, NEW v \in Values, NEW n \in Nat,
         Grown(pg, w, s, h, v, n), s + DataHdr + n <= BSize,
         h.len = Low(v.len), h.high = High(v.len)
  PROVE  HeaderOk(w, s, v.len, h.place) /\ Behind(w, s, v, n)
<1>1. ASSUME NEW i \in 0 .. DataHdr - 1 PROVE w.cell[s + i] = <<s, i>>
  <2>. DEFINE x == s + i
  <2>1. /\ x \in Offsets /\ x \in s .. s + DataHdr - 1 /\ x - s = i
        /\ x \notin s + DataHdr .. s + DataHdr + n - 1
    BY Sizes DEF Offsets
  <2>. HIDE DEF x
  <2>2. w.cell[x] = <<s, x - s>>
    BY <2>1 DEF Grown
  <2>. QED BY <2>1, <2>2 DEF x
<1>2. ASSUME NEW j \in 1 .. n PROVE w.cell[s + DataHdr + j - 1] = Byte(v, j)
  <2>. DEFINE x == s + DataHdr + j - 1
  <2>1. /\ x \in Offsets /\ x \in s + DataHdr .. s + DataHdr + n - 1
        /\ 1 + x - (s + DataHdr) = j
    BY Sizes DEF Offsets
  <2>. HIDE DEF x
  <2>2. w.cell[x] = Byte(v, 1 + x - (s + DataHdr))
    BY <2>1 DEF Grown
  <2>. QED BY <2>1, <2>2 DEF x
<1>3. s \in DOMAIN w.hdr /\ w.hdr[s] = h
  BY DEF Grown
<1>. QED BY <1>1, <1>2, <1>3 DEF HeaderOk, Behind

\* The header of a datum.
HeaderOf(h, v, next, pl) ==
  h = [len |-> Low(v.len), high |-> High(v.len), next |-> next, place |-> pl]

\* A datum that fits behind the others.
FitCase(P, R, c, h, v, pl) ==
  /\ PagesOk(P) /\ c \in 1 .. Len(P) /\ P[c].free # 0 /\ P[c].next = 0
  /\ v \in Values /\ Fits(v, P[c].free) /\ pl \in 0 .. 1
  /\ HeaderOf(h, v, NextFree(P[c].free, v), pl)
  /\ Changed(P, R, c, FitsPage(P[c], h, v))

LEMMA FitStep ==
  ASSUME NEW P, NEW R, NEW c, NEW h, NEW v, NEW pl, FitCase(P, R, c, h, v, pl)
  PROVE  /\ Growth(P, R, c, h, v, v.len) /\ Fresh(P, R, c, v)
         /\ KeyOk(R, Pointer(c, P[c].free, v), v, pl)
         /\ R[c].next = 0
<1>. DEFINE s == P[c].free
            n == v.len
            w == FitsPage(P[c], h, v)
<1>. /\ PagesOk(P) /\ c \in 1 .. Len(P) /\ P[c].free # 0 /\ P[c].next = 0
     /\ v \in Values /\ Fits(v, P[c].free) /\ pl \in 0 .. 1
     /\ HeaderOf(h, v, NextFree(P[c].free, v), pl)
     /\ Changed(P, R, c, FitsPage(P[c], h, v))
  BY DEF FitCase
<1>1. /\ s \in Nat /\ s # 0 /\ n \in Nat /\ PageOk(P[c]) /\ Len(P) \in Nat /\ c \in Nat
      /\ s >= PageHdr /\ s + DataHdr <= BSize
  <2>1. s \in Nat /\ s # 0 /\ PageOk(P[c]) /\ Len(P) \in Nat
    BY PageIs
  <2>2. n \in Nat
    BY DEF Values
  <2>3. s >= PageHdr /\ BSize - s >= DataHdr
    BY <2>1 DEF PageOk, RoomOk
  <2>4. c \in Nat /\ c <= Len(P)
    BY <2>1
  <2>. HIDE DEF s
  <2>5. s + DataHdr <= BSize
    BY <2>1, <2>3, Sizes
  <2>. QED BY <2>1, <2>2, <2>3, <2>4, <2>5
<1>2. h.next \in Nat /\ h.next = NextFree(s, v)
  <2>1. s + DataHdr + n \in Nat
    BY <1>1, Sizes
  <2>2. AlignUp(s + DataHdr + n) \in Nat
    BY <2>1, AlignUpIs
  <2>3. NextFree(s, v) \in Nat
    BY <2>2 DEF NextFree
  <2>. QED BY <2>3 DEF HeaderOf
<1>3. h \in Hdr /\ h.len = Low(n) /\ h.high = High(n) /\ h.place = pl
  <2>1. Low(n) \in Nat /\ High(n) \in Nat
    BY <1>1, LengthIs
  <2>. DEFINE x == NextFree(P[c].free, v)
              a == Low(v.len)
              b == High(v.len)
  <2>2. x \in Nat /\ a \in Nat /\ b \in Nat
    BY <1>2, <2>1
  <2>3. h = [len |-> a, high |-> b, next |-> x, place |-> pl]
    BY DEF HeaderOf
  <2>. HIDE DEF x, a, b
  <2>4. h \in Hdr /\ h.len = a /\ h.high = b /\ h.place = pl
    BY <2>2, <2>3 DEF Hdr
  <2>. QED BY <2>4 DEF a, b
<1>4. /\ PageOk(w) /\ w.next = P[c].next /\ w.free = h.next
      /\ Grown(P[c], w, s, h, v, n)
      /\ h.next # 0 => h.next >= s + DataHdr + n
      /\ s + DataHdr + n <= BSize
  BY <1>1, <1>2, <1>3, FitsOk
<1>. HIDE DEF w
<1>5. Changed(P, R, c, w)
  BY DEF w
<1>6. /\ PagesOk(R) /\ Len(R) = Len(P) /\ R[c] = w
      /\ \A q \in 1 .. Len(P) : q # c => R[q] = P[q]
  BY <1>4, <1>5, OneChanged
<1>. HIDE DEF s, n
<1>7. w.free # 0 => w.free >= s + DataHdr + n /\ w.free >= s
  BY <1>1, <1>2, <1>4, Sizes
<1>8. Growth(P, R, c, h, v, n)
  BY <1>1, <1>4, <1>6, <1>7 DEF Growth, s
<1>9. HeaderOk(w, s, n, pl) /\ Behind(w, s, v, n)
  <2>1. h.len = Low(v.len) /\ h.high = High(v.len) /\ n = v.len
    BY <1>3 DEF n
  <2>2. HeaderOk(w, s, v.len, pl) /\ Behind(w, s, v, n)
    <3>1. s \in Nat /\ n \in Nat /\ s + DataHdr + n <= BSize /\ h.place = pl
          /\ Grown(P[c], w, s, h, v, n)
      BY <1>1, <1>3, <1>4
    <3>. QED BY <2>1, <3>1, GrownDatum
  <2>. QED BY <2>1, <2>2
<1>10. ASSUME NEW i \in Nat \ {0} PROVE ~(Left(n, s, i) > 0) /\ Left(n, s, i) \in Int
  <2>1. /\ Left(n, s, i) \in Int /\ Left(n, s, i) <= Left(n, s, 1)
        /\ Left(n, s, 1) = n - Inner(s)
    BY <1>1, LeftIs
  <2>2. n <= Inner(s) /\ Inner(s) \in Nat
    BY <1>1, <1>4, Sizes DEF Inner
  <2>. QED BY <1>1, <2>1, <2>2
<1>11. Links(R, c, s, n)
  BY <1>10 DEF Links
<1>12. BytesOk(R, c, s, v)
  <2>1. \A i \in Nat \ {0}, r \in 0 .. Cap - 1 : ~(r < Left(v.len, s, i))
    <3>. SUFFICES ASSUME NEW i \in Nat \ {0}, NEW r \in 0 .. Cap - 1 PROVE ~(r < Left(n, s, i))
      BY DEF n
    <3>. DEFINE l == Left(n, s, i)
    <3>1. ~(l > 0) /\ l \in Int
      BY <1>10
    <3>2. r \in Nat
      BY Sizes
    <3>. HIDE DEF l
    <3>3. ~(r < l)
      BY <3>1, <3>2
    <3>. QED BY <3>3 DEF l
  <2>. QED BY <1>6, <1>9, <2>1 DEF BytesOk, Behind, n
<1>13. \A q, x \in Nat : Taken(R, c, s, n, q, x) => q = c /\ x >= s /\ x < s + DataHdr + n
  BY <1>10 DEF Taken, TakenFirst, TakenThere
<1>14. Fresh(P, R, c, v)
  BY <1>13 DEF Fresh, s, n
<1>15. Below(R, c, s, n)
  <2>. SUFFICES ASSUME NEW q \in 1 .. Len(R), NEW x \in Nat, Taken(R, c, s, n, q, x),
                       R[q].free # 0
                PROVE  x < R[q].free
    BY DEF Below
  <2>1. q \in Nat
    OBVIOUS
  <2>2. q = c /\ x < s + DataHdr + n
    BY <1>13, <2>1
  <2>3. w.free >= s + DataHdr + n /\ w.free \in Nat
    BY <1>2, <1>4, <1>6, <1>7, <2>2
  <2>. QED BY <1>1, <1>6, <2>2, <2>3, Sizes
<1>16. DatumOk(R, c, s, v, pl)
  BY <1>6, <1>9, <1>11, <1>12 DEF DatumOk, n
<1>17. KeyOk(R, Pointer(c, s, v), v, pl)
  <2>1. Pointer(c, s, v).first = c /\ Pointer(c, s, v).off = s
    BY DEF Pointer
  <2>. QED BY <1>15, <1>16, <2>1 DEF KeyOk, n
<1>. QED BY <1>4, <1>6, <1>8, <1>14, <1>17 DEF s, n


\* Where page i of the pages behind the first one begins, its link, its bytes
\* and its place for more data.
PieceIs(pg, v, l, nn) ==
  /\ PageOk(pg) /\ pg.next = nn
  /\ pg.free # 0 => pg.free >= PageHdr + Wide(l)
  /\ \A r \in 0 .. Cap - 1 : r < l => pg.cell[PageHdr + r] = Byte(v, v.len - l + 1 + r)

\* The pages behind the first one are as many as the rest needs.
Pieces(M, v, rest, num) ==
  /\ PagesOk(M) /\ Len(M) \in Nat \ {0}
  /\ \A i \in Nat \ {0} : rest - (i - 1) * Cap > 0 <=> i <= Len(M)
  /\ \A i \in 1 .. Len(M) :
       PieceIs(M[i], v, rest - (i - 1) * Cap, IF i < Len(M) THEN num + i + 1 ELSE 0)

LEMMA MoreIs ==
  ASSUME NEW v \in Values, NEW rest \in Nat \ {0}, NEW num \in Nat,
         NEW M, M = SpreadPages(v, rest, num)
  PROVE  Pieces(M, v, rest, num)
<1>. DEFINE N == (rest + Cap - 1) \div Cap
            nn(i) == IF i < N THEN num + i + 1 ELSE 0
            l(i) == rest - (i - 1) * Cap
<1>1. N \in Nat \ {0} /\ \A i \in Nat \ {0} : l(i) > 0 <=> i <= N
  <2>. HIDE DEF N
  <2>1. N = (rest + Cap - 1) \div Cap
    BY DEF N
  <2>. QED BY <2>1, PiecesAre
<1>2. M = [i \in 1 .. N |-> SpreadPage(v, l(i), nn(i))]
  BY DEF SpreadPages
<1>. HIDE DEF N
<1>3. ASSUME NEW i \in 1 .. N PROVE PieceIs(M[i], v, l(i), nn(i))
  <2>1. M[i] = SpreadPage(v, l(i), nn(i))
    BY <1>2
  <2>2. (i - 1) * Cap \in Nat /\ i \in Nat \ {0} /\ nn(i) \in Nat
    BY <1>1, Sizes
  <2>. DEFINE z == (i - 1) * Cap
  <2>. HIDE DEF z
  <2>3. l(i) = rest - z /\ z \in Nat
    BY <2>2 DEF z
  <2>4. l(i) > 0
    BY <1>1, <2>2
  <2>. HIDE DEF l, nn
  <2>5. l(i) \in Nat \ {0}
    BY <2>3, <2>4
  <2>6. /\ PageOk(M[i]) /\ M[i].next = nn(i)
        /\ M[i].free # 0 => M[i].free >= PageHdr + Wide(l(i))
        /\ \A r \in 0 .. Cap - 1 :
             r < l(i) => M[i].cell[PageHdr + r] = Byte(v, v.len - l(i) + 1 + r)
    BY <2>1, <2>2, <2>5, SpreadPageOk
  <2>. QED BY <2>6 DEF PieceIs
<1>4. M \in [1 .. N -> PageT]
  <2>1. M = [i \in 1 .. N |-> M[i]]
    <3>. HIDE DEF l, nn
    <3>. QED BY <1>2
  <2>2. \A i \in 1 .. N : M[i] \in PageT
    BY <1>3 DEF PieceIs, PageOk
  <2>. QED BY <2>1, <2>2
<1>5. M \in Seq(PageT) /\ Len(M) = N
  BY <1>1, <1>4, SeqDef, LenProperties
<1>6. PagesOk(M)
  BY <1>3, <1>5 DEF PagesOk, PieceIs
<1>. QED BY <1>1, <1>3, <1>5, <1>6 DEF Pieces

\* Pages behind pages.
Joined(P, M, R) ==
  /\ Len(R) = Len(P) + Len(M)
  /\ \A q \in 1 .. Len(P) : R[q] = P[q]
  /\ \A i \in 1 .. Len(M) : R[Len(P) + i] = M[i]

LEMMA PagesBehind ==
  ASSUME NEW P, PagesOk(P), NEW M, PagesOk(M), NEW R, R = P \o M
  PROVE  PagesOk(R) /\ Joined(P, M, R)
<1>1. /\ P \in Seq(PageT) /\ M \in Seq(PageT) /\ Len(P) \in Nat /\ Len(M) \in Nat
  BY LenProperties DEF PagesOk
<1>2. /\ R \in Seq(PageT) /\ Len(R) = Len(P) + Len(M)
      /\ \A i \in 1 .. Len(P) + Len(M) : R[i] = IF i <= Len(P) THEN P[i] ELSE M[i - Len(P)]
  BY <1>1, ConcatProperties
<1>3. \A q \in 1 .. Len(P) : R[q] = P[q]
  BY <1>1, <1>2
<1>4. ASSUME NEW i \in 1 .. Len(M) PROVE R[Len(P) + i] = M[i]
  <2>. DEFINE q == Len(P) + i
  <2>1. q \in 1 .. Len(P) + Len(M) /\ ~(q <= Len(P)) /\ q - Len(P) = i
    BY <1>1
  <2>. HIDE DEF q
  <2>. QED BY <1>2, <2>1 DEF q
<1>5. ASSUME NEW q \in 1 .. Len(R) PROVE PageOk(R[q])
  <2>1. CASE q <= Len(P)
    BY <1>1, <1>3, <2>1 DEF PagesOk
  <2>2. CASE q > Len(P)
    <3>. DEFINE i == q - Len(P)
    <3>1. i \in 1 .. Len(M) /\ q = Len(P) + i
      BY <1>1, <1>2, <2>2
    <3>. HIDE DEF i
    <3>. QED BY <1>4, <3>1 DEF PagesOk
  <2>. QED BY <1>1, <2>1, <2>2
<1>. QED BY <1>2, <1>3, <1>4, <1>5 DEF PagesOk, Joined


\* The last page has no successor.
EndsAt(R, c) == c \in 1 .. Len(R) /\ R[c].next = 0

\* A datum that does not fit: it is spread over new pages.
LEMMA SpreadStep ==
  ASSUME NEW P, PagesOk(P), NEW c \in 1 .. Len(P), P[c].free # 0, P[c].next = 0,
         NEW v \in Values, ~Fits(v, P[c].free), NEW pl \in 0 .. 1,
         NEW h, HeaderOf(h, v, 0, pl),
         NEW Q, Changed(P, Q, c, SpreadFirst(P[c], h, v, Len(P) + 1)),
         NEW M, M = SpreadPages(v, Rest(v, P[c].free), Len(P)),
         NEW R, R = Q \o M
  PROVE  /\ Growth(P, R, c, h, v, Inner(P[c].free)) /\ Fresh(P, R, c, v)
         /\ KeyOk(R, Pointer(c, P[c].free, v), v, pl)
         /\ EndsAt(R, Len(P) + Len(M))
<1>. DEFINE s == P[c].free
            n == v.len
            L == Len(P)
            N == Len(M)
            rest == Rest(v, s)
            w == SpreadFirst(P[c], h, v, L + 1)
            nn(i) == IF i < N THEN L + i + 1 ELSE 0
<1>1. /\ s \in Nat /\ s # 0 /\ n \in Nat /\ PageOk(P[c]) /\ L \in Nat /\ c \in Nat
      /\ c <= L /\ s >= PageHdr /\ s + DataHdr <= BSize
  <2>1. s \in Nat /\ s # 0 /\ PageOk(P[c]) /\ L \in Nat
    BY PageIs
  <2>2. n \in Nat
    BY DEF Values
  <2>3. s >= PageHdr /\ BSize - s >= DataHdr
    BY <2>1 DEF PageOk, RoomOk
  <2>4. c \in Nat /\ c <= Len(P)
    BY <2>1
  <2>. HIDE DEF s
  <2>5. s + DataHdr <= BSize
    BY <2>1, <2>3, Sizes
  <2>. QED BY <2>1, <2>2, <2>3, <2>4, <2>5
<1>2. /\ rest \in Nat \ {0} /\ rest = n - Inner(s) /\ Inner(s) \in Nat
      /\ s + DataHdr + Inner(s) = BSize /\ Inner(s) = BSize - s - DataHdr
  <2>1. rest = n - Inner(s) /\ Inner(s) = BSize - s - DataHdr
    BY DEF Rest, Inner
  <2>2. ~(~(n >= LenBase) /\ DataHdr + n <= BSize - s)
    BY DEF Fits, IsHuge
  <2>. HIDE DEF rest, s, n
  <2>3. Inner(s) \in Nat /\ s + DataHdr + Inner(s) = BSize /\ Inner(s) < LenBase
    BY <1>1, <2>1, Sizes
  <2>4. n > Inner(s)
    BY <1>1, <2>1, <2>2, <2>3, Sizes
  <2>. QED BY <1>1, <2>1, <2>3, <2>4
<1>3. h \in Hdr /\ h.len = Low(n) /\ h.high = High(n) /\ h.place = pl /\ h.next = 0
  <2>. DEFINE a == Low(v.len)
              b == High(v.len)
  <2>2. a \in Nat /\ b \in Nat
    BY <1>1, LengthIs
  <2>3. h = [len |-> a, high |-> b, next |-> 0, place |-> pl]
    BY DEF HeaderOf
  <2>. HIDE DEF a, b
  <2>4. h \in Hdr /\ h.len = a /\ h.high = b /\ h.place = pl /\ h.next = 0
    BY <2>2, <2>3 DEF Hdr
  <2>. QED BY <2>4 DEF a, b
<1>4. /\ PageOk(w) /\ w.next = L + 1 /\ w.free = 0 /\ Grown(P[c], w, s, h, v, Inner(s))
  <2>1. L + 1 \in Nat
    BY <1>1
  <2>2. /\ PageOk(w) /\ w.next = L + 1 /\ w.free = 0
        /\ Grown(P[c], w, P[c].free, h, v, BSize - P[c].free - DataHdr)
    BY <1>1, <1>3, <2>1, SpreadFirstOk
  <2>. QED BY <1>2, <2>2
<1>. HIDE DEF w
<1>5. /\ PagesOk(Q) /\ Len(Q) = L /\ Q[c] = w
      /\ \A q \in 1 .. L : q # c => Q[q] = P[q]
  <2>1. Changed(P, Q, c, w)
    BY DEF w
  <2>. QED BY <1>4, <2>1, OneChanged
<1>6. /\ PagesOk(M) /\ N \in Nat \ {0}
      /\ \A i \in Nat \ {0} : rest - (i - 1) * Cap > 0 <=> i <= N
      /\ \A i \in 1 .. N : PieceIs(M[i], v, rest - (i - 1) * Cap, nn(i))
  <2>1. M = SpreadPages(v, rest, L)
    OBVIOUS
  <2>2. Pieces(M, v, rest, L)
    <3>1. rest \in Nat \ {0} /\ L \in Nat
      BY <1>1, <1>2
    <3>. HIDE DEF rest, s, L
    <3>. QED BY <2>1, <3>1, MoreIs
  <2>. HIDE DEF rest, s, L
  <2>. QED BY <2>2 DEF Pieces
<1>7. /\ PagesOk(R) /\ Len(R) = L + N
      /\ \A q \in 1 .. L : R[q] = Q[q]
      /\ \A i \in 1 .. N : R[L + i] = M[i]
  <2>1. PagesOk(R) /\ Joined(Q, M, R)
    BY <1>5, <1>6, PagesBehind
  <2>2. Len(Q) = L /\ Len(M) = N
    BY <1>5
  <2>. HIDE DEF L, N
  <2>. QED BY <2>1, <2>2 DEF Joined
<1>. HIDE DEF s, n, L, N, rest, nn
<1>8. R[c] = w /\ \A q \in 1 .. L : q # c => R[q] = P[q]
  BY <1>1, <1>5, <1>7 DEF L
<1>9. Growth(P, R, c, h, v, Inner(s))
  <2>1. L <= Len(R)
    BY <1>1, <1>6, <1>7
  <2>. QED BY <1>1, <1>4, <1>7, <1>8, <2>1 DEF Growth, s, L
<1>10. Base(R, c) = L
  BY <1>1, <1>4, <1>8 DEF Base
<1>11. \A i : Left(n, s, i) = rest - (i - 1) * Cap
  BY <1>2 DEF Left
<1>12. \A i \in Nat \ {0} : Left(n, s, i) > 0 <=> i <= N
  BY <1>6, <1>11
<1>13. ASSUME NEW i \in 1 .. N PROVE PieceIs(R[L + i], v, Left(n, s, i), nn(i))
  <2>1. R[L + i] = M[i]
    BY <1>7
  <2>2. PieceIs(M[i], v, rest - (i - 1) * Cap, nn(i))
    BY <1>6
  <2>3. Left(n, s, i) = rest - (i - 1) * Cap
    BY <1>11
  <2>. QED BY <2>1, <2>2, <2>3
<1>14. Links(R, c, s, n)
  <2>1. Left(n, s, 1) > 0 => L >= c
    BY <1>1
  <2>2. ASSUME NEW i \in Nat \ {0}, Left(n, s, i) > 0
        PROVE  L + i <= Len(R) /\ (Left(n, s, i + 1) > 0 => R[L + i].next = L + i + 1)
    <3>1. i \in 1 .. N /\ i + 1 \in Nat \ {0}
      BY <1>6, <1>12, <2>2
    <3>2. L + i <= Len(R)
      BY <1>1, <1>6, <1>7, <3>1
    <3>3. Left(n, s, i + 1) > 0 => i < N
      BY <1>6, <1>12, <3>1
    <3>4. R[L + i].next = nn(i)
      BY <1>13, <3>1 DEF PieceIs
    <3>. QED BY <3>2, <3>3, <3>4 DEF nn
  <2>. QED BY <1>10, <2>1, <2>2 DEF Links
<1>15. HeaderOk(w, s, n, pl) /\ Behind(w, s, v, Inner(s))
  <2>1. h.len = Low(v.len) /\ h.high = High(v.len) /\ n = v.len
    BY <1>3 DEF n
  <2>2. s \in Nat /\ Inner(s) \in Nat /\ s + DataHdr + Inner(s) <= BSize /\ h.place = pl
        /\ Grown(P[c], w, s, h, v, Inner(s))
    BY <1>1, <1>2, <1>3, <1>4, Sizes
  <2>3. HeaderOk(w, s, v.len, pl) /\ Behind(w, s, v, Inner(s))
    BY <2>1, <2>2, GrownDatum
  <2>. QED BY <2>1, <2>3
<1>16. BytesOk(R, c, s, v)
  <2>1. ASSUME NEW j \in 1 .. v.len, j <= Inner(s)
        PROVE  R[c].cell[s + DataHdr + j - 1] = Byte(v, j)
    <3>1. j \in 1 .. Inner(s)
      BY <1>1, <1>2, <2>1 DEF n
    <3>. QED BY <1>8, <1>15, <3>1 DEF Behind
  <2>2. ASSUME NEW i \in Nat \ {0}, NEW r \in 0 .. Cap - 1, r < Left(v.len, s, i)
        PROVE  R[Base(R, c) + i].cell[PageHdr + r]
                 = Byte(v, Inner(s) + (i - 1) * Cap + r + 1)
    <3>. DEFINE l == Left(n, s, i)
                z == (i - 1) * Cap
    <3>0. z \in Nat
      BY Sizes
    <3>1. z \in Nat /\ l = rest - z
      BY <1>11, <3>0
    <3>2. r < l /\ r \in Nat
      BY <2>2, Sizes DEF n
    <3>3. l > 0
      <4>. HIDE DEF l, z
      <4>. QED BY <1>2, <3>1, <3>2
    <3>4. i \in 1 .. N
      BY <1>6, <1>12, <3>3
    <3>5. R[L + i].cell[PageHdr + r] = Byte(v, n - l + 1 + r)
      BY <1>13, <3>2, <3>4 DEF PieceIs, n
    <3>6. n - l + 1 + r = Inner(s) + z + r + 1
      <4>. HIDE DEF l, z
      <4>. DEFINE e == Inner(s)
      <4>1. rest \in Nat /\ e \in Nat /\ n \in Nat /\ rest = n - e
        BY <1>1, <1>2
      <4>. HIDE DEF e
      <4>2. n - l = e + z
        BY <3>1, <4>1
      <4>3. n - l + 1 + r = e + z + r + 1
        BY <3>1, <3>2, <4>1, <4>2
      <4>. QED BY <4>3 DEF e
    <3>. QED BY <1>10, <3>5, <3>6
  <2>. QED BY <2>1, <2>2 DEF BytesOk
<1>17. ASSUME NEW q \in Nat, NEW x \in Nat, Taken(R, c, s, n, q, x)
       PROVE  \/ q = c /\ x >= s
              \/ \E i \in 1 .. N : q = L + i /\ x < PageHdr + Wide(Left(n, s, i))
  <2>1. CASE TakenFirst(c, s, n, q, x)
    BY <1>1, <2>1 DEF TakenFirst
  <2>2. CASE TakenThere(L, s, n, q, x)
    <3>1. PICK i \in Nat \ {0} :
            /\ q = L + i /\ Left(n, s, i) > 0
            /\ PageHdr <= x /\ x < PageHdr + Wide(Left(n, s, i))
      BY <2>2 DEF TakenThere
    <3>2. i \in 1 .. N
      BY <1>6, <1>12, <3>1
    <3>. QED BY <3>1, <3>2
  <2>. QED BY <1>10, <1>17, <2>1, <2>2 DEF Taken
<1>18. Fresh(P, R, c, v)
  <2>. SUFFICES ASSUME NEW q \in Nat, NEW x \in Nat, Taken(R, c, s, n, q, x)
                PROVE  (q = c /\ x >= s) \/ q > L
    BY DEF Fresh, s, n, L
  <2>1. CASE \E i \in 1 .. N : q = L + i
    <3>1. L \in Nat /\ N \in Nat
      BY <1>1, <1>6
    <3>. QED BY <2>1, <3>1
  <2>2. \/ q = c /\ x >= s
        \/ \E i \in 1 .. N : q = L + i
    BY <1>17
  <2>. QED BY <2>1, <2>2
<1>19. Below(R, c, s, n)
  <2>. SUFFICES ASSUME NEW q \in 1 .. Len(R), NEW x \in Nat, Taken(R, c, s, n, q, x),
                       R[q].free # 0
                PROVE  x < R[q].free
    BY DEF Below
  <2>1. q \in Nat /\ R[q].free \in Nat
    <3>1. PagesOk(R) /\ q \in 1 .. Len(R)
      BY <1>7
    <3>2. R[q].free \in Nat /\ Len(R) \in Nat
      BY <3>1, PageIs
    <3>. QED BY <3>2
  <2>2. q # c
    BY <1>4, <1>8
  <2>3. PICK i \in 1 .. N : q = L + i /\ x < PageHdr + Wide(Left(n, s, i))
    BY <1>17, <2>1, <2>2
  <2>4. R[q].free >= PageHdr + Wide(Left(n, s, i))
    BY <1>13, <2>3 DEF PieceIs
  <2>5. Wide(Left(n, s, i)) \in Nat
    <3>1. i \in Nat \ {0} /\ Left(n, s, i) > 0
      BY <1>6, <1>12
    <3>2. Left(n, s, i) \in Int
      BY <1>1, <3>1, LeftIs
    <3>. QED BY <3>1, <3>2, WideIs
  <2>. DEFINE m == Wide(Left(n, s, i))
              fr == R[q].free
  <2>6. /\ m \in Nat /\ fr \in Nat /\ PageHdr \in Nat
        /\ x < PageHdr + m /\ fr >= PageHdr + m
    BY <2>1, <2>3, <2>4, <2>5, Sizes
  <2>. HIDE DEF m, fr
  <2>7. x < fr
    BY <2>6
  <2>. QED BY <2>7 DEF fr
<1>20. DatumOk(R, c, s, v, pl)
  <2>1. c \in 1 .. Len(R)
    BY <1>1, <1>6, <1>7
  <2>. QED BY <1>8, <1>14, <1>15, <1>16, <2>1 DEF DatumOk, n
<1>21. KeyOk(R, Pointer(c, s, v), v, pl)
  <2>1. Pointer(c, s, v).first = c /\ Pointer(c, s, v).off = s
    BY DEF Pointer
  <2>. QED BY <1>19, <1>20, <2>1 DEF KeyOk, n
<1>22. L + N \in 1 .. Len(R) /\ R[L + N].next = 0
  <2>1. L + N \in 1 .. Len(R) /\ N \in 1 .. N /\ ~(N < N)
    BY <1>1, <1>6, <1>7
  <2>2. R[L + N].next = nn(N)
    BY <1>13, <2>1 DEF PieceIs
  <2>. QED BY <2>1, <2>2 DEF nn
<1>. QED BY <1>9, <1>18, <1>21, <1>22 DEF s, L, N, EndsAt


LEMMA AddStep ==
  ASSUME DataInv, NEW k \in Keys, NEW n \in Lens, NEW kept \in BOOLEAN, Add(k, n, kept)
  PROVE  DataInv'
<1>. DEFINE v == Value(k, 0, n)
            S == WithRoom(Current, kept)
            P == S.page
            c == S.curr
            s == P[c].free
            more == SpreadPages(v, Rest(v, s), Len(P))
            next == NextFree(s, v)
            hf == Header(k, v, next)
            hs == Header(k, v, 0)
            pl == place[k]
<1>1. /\ k \notin Stored
      /\ datap' = [datap EXCEPT ![k] = [first |-> c, off |-> s, len |-> Low(n),
                                        high |-> High(n), chksum |-> v]]
      /\ given' = [given EXCEPT ![k] = v] /\ place' = place
      /\ IF Fits(v, s)
         THEN /\ page' = [P EXCEPT ![c] =
                   [WithBytes(WithHeader(P[c], s, hf), s + DataHdr, v, 1, n)
                      EXCEPT !.free = next, !.num = @ + 1]]
              /\ curr' = c
         ELSE /\ page' = [P EXCEPT ![c] =
                   [WithHeader(WithBytes(P[c], s + DataHdr, v, 1, BSize - s - DataHdr), s, hs)
                      EXCEPT !.free = 0, !.next = Len(P) + 1, !.num = @ + 1]]
                   \o more
              /\ curr' = Len(P) + Len(more)
  BY DEF Add, Stored
<1>2. v \in Values /\ v.len = n /\ v.key = k /\ pl \in 0 .. 1
  <2>1. v \in Values /\ v.len = n /\ v.key = k
    BY Sizes DEF Value, Values
  <2>. QED BY <2>1 DEF DataInv
<1>3. /\ PagesOk(P) /\ c \in 1 .. Len(P) /\ P[c].next = 0 /\ P[c].free # 0
      /\ SamePages(page, P)
  BY RoomMade
<1>4. DataOk(P) /\ Within(page, P)
  BY <1>3, RoomKeeps
<1>5. /\ HeaderOf(hf, v, next, pl) /\ hf.next = next
      /\ HeaderOf(hs, v, 0, pl)
  BY DEF Header, HeaderOf
<1>. HIDE DEF hf, hs, v, pl
<1>6. datap' = [datap EXCEPT ![k] = Pointer(c, s, v)]
  BY <1>1, <1>2 DEF Pointer
<1>7. ASSUME Fits(v, s) PROVE DataInv'
  <2>1. page' = [P EXCEPT ![c] = FitsPage(P[c], hf, v)] /\ curr' = c
    BY <1>1, <1>2, <1>5, <1>7 DEF FitsPage
  <2>2. HeaderOf(hf, v, NextFree(s, v), pl)
    BY <1>5
  <2>. HIDE DEF next, more, S
  <2>. DEFINE R == page'
  <2>3. Changed(P, R, c, FitsPage(P[c], hf, v))
    BY <2>1 DEF Changed
  <2>. HIDE DEF P, c
  <2>4. /\ Growth(P, R, c, hf, v, v.len) /\ Fresh(P, R, c, v)
        /\ KeyOk(R, Pointer(c, P[c].free, v), v, pl)
        /\ R[c].next = 0
    <3>. HIDE DEF R, s
    <3>1. PagesOk(P) /\ c \in 1 .. Len(P) /\ P[c].free # 0 /\ P[c].next = 0
      BY <1>3
    <3>2. Fits(v, P[c].free) /\ HeaderOf(hf, v, NextFree(P[c].free, v), pl)
      BY <1>7, <2>2 DEF s
    <3>3. v \in Values /\ pl \in 0 .. 1
      BY <1>2
    <3>4. FitCase(P, R, c, hf, v, pl)
      BY <2>3, <3>1, <3>2, <3>3 DEF FitCase
    <3>. QED BY <3>4, FitStep
  <2>5. CurrOk(R, curr')
    <3>1. c \in 1 .. Len(R)
      <4>1. Len(P) <= Len(R) /\ Len(P) \in Nat /\ Len(R) \in Nat /\ c \in 1 .. Len(P)
        BY <1>3, <2>4, LenProperties DEF Growth, PagesOk
      <4>. QED BY <4>1
    <3>. QED BY <2>1, <2>4, <3>1 DEF CurrOk
  <2>. QED BY <1>1, <1>2, <1>4, <1>6, <2>4, <2>5, Added DEF pl
<1>8. ASSUME ~Fits(v, s) PROVE DataInv'
  <2>. DEFINE Q == [P EXCEPT ![c] = SpreadFirst(P[c], hs, v, Len(P) + 1)]
              R == page'
  <2>1. R = Q \o more /\ curr' = Len(P) + Len(more)
    BY <1>1, <1>8 DEF SpreadFirst
  <2>2. Changed(P, Q, c, SpreadFirst(P[c], hs, v, Len(P) + 1))
    BY DEF Changed
  <2>3. more = SpreadPages(v, Rest(v, P[c].free), Len(P))
    OBVIOUS
  <2>. HIDE DEF next, more, S, P, c, Q
  <2>4. /\ Growth(P, R, c, hs, v, Inner(P[c].free)) /\ Fresh(P, R, c, v)
        /\ KeyOk(R, Pointer(c, P[c].free, v), v, pl)
        /\ EndsAt(R, Len(P) + Len(more))
    <3>. HIDE DEF R
    <3>1. /\ PagesOk(P) /\ c \in 1 .. Len(P) /\ P[c].free # 0 /\ P[c].next = 0
          /\ ~Fits(v, P[c].free) /\ HeaderOf(hs, v, 0, pl) /\ R = Q \o more
      BY <1>3, <1>5, <1>8, <2>1
    <3>2. v \in Values /\ pl \in 0 .. 1
      BY <1>2
    <3>. QED BY <2>2, <2>3, <3>1, <3>2, SpreadStep
  <2>5. CurrOk(R, curr')
    BY <2>1, <2>4 DEF CurrOk, EndsAt
  <2>. QED BY <1>1, <1>2, <1>4, <1>6, <2>4, <2>5, Added DEF pl
<1>. QED BY <1>7, <1>8

-----------------------------------------------------------------------------
(***************************************************************************)
(* The invariant.                                                          *)
(***************************************************************************)
LEMMA DataStep ==
  ASSUME ~ShrinkHuge, DataInv, [Next]_vars
  PROVE  DataInv'
<1>1. ASSUME NEW k \in Keys, NEW n \in Lens, NEW kept \in BOOLEAN, Add(k, n, kept)
      PROVE  DataInv'
  BY <1>1, AddStep
<1>2. ASSUME NEW k \in Keys, NEW n \in Lens, Replace(k, n)
      PROVE  DataInv'
  BY <1>2, ReplaceStep
<1>3. ASSUME NEW k \in Keys, MoveKey(k)
      PROVE  DataInv'
  BY <1>3, MoveKeyStep
<1>4. CASE NewLevel \/ \E p \in DOMAIN page : Reopen(p)
  BY <1>4, CurrStep
<1>5. CASE UNCHANGED vars
  BY <1>5, SameStep
<1>. QED BY <1>1, <1>2, <1>3, <1>4, <1>5 DEF Next

LEMMA DataInvariant ==
  ASSUME ~ShrinkHuge
  PROVE  Spec => []DataInv
<1>. QED BY DataInit, DataStep, PTL DEF Spec


-----------------------------------------------------------------------------
(***************************************************************************)
(* The walk along the headers of a page.                                   *)
(***************************************************************************)
NextHdr(H, nx, x) == IF x \in H THEN nx[x] ELSE 0

Walks(g, H, nx, first, m) ==
  /\ g = [j \in 1 .. m |-> g[j]]
  /\ \A j \in 1 .. m : g[j] = IF j = 1 THEN first ELSE NextHdr(H, nx, g[j - 1])

LEMMA WalksExist ==
  ASSUME NEW H, NEW nx, NEW first, NEW m \in Nat
  PROVE  \E g : Walks(g, H, nx, first, m)
<1>. DEFINE W(i) == \E g : Walks(g, H, nx, first, i)
            T == {i \in Nat : ~W(i)}
<1>1. ASSUME T # {} PROVE FALSE
  <2>1. T \in SUBSET Nat
    OBVIOUS
  <2>. HIDE DEF T
  <2>2. PICK i \in T : \A y \in T : i <= y
    BY <1>1, <2>1, LeastExists
  <2>3. i \in Nat /\ ~W(i)
    BY DEF T
  <2>4. i # 0
    <3>. DEFINE f == << >>
    <3>1. f = [j \in 1 .. 0 |-> f[j]] /\ 1 .. 0 = {}
      OBVIOUS
    <3>. HIDE DEF f
    <3>2. Walks(f, H, nx, first, 0)
      BY <3>1 DEF Walks
    <3>. QED BY <2>3, <3>2
  <2>. DEFINE l == i - 1
  <2>5. l \in Nat /\ i = l + 1 /\ ~(i <= l)
    BY <2>3, <2>4
  <2>. HIDE DEF l
  <2>6. W(l)
    BY <2>2, <2>5 DEF T
  <2>7. PICK g : Walks(g, H, nx, first, l)
    BY <2>6
  <2>. DEFINE x == IF i = 1 THEN first ELSE NextHdr(H, nx, g[l])
              f == [j \in 1 .. i |-> IF j = i THEN x ELSE g[j]]
  <2>8. f[i] = x /\ f = [j \in 1 .. i |-> f[j]] /\ \A j \in 1 .. l : f[j] = g[j]
    BY <2>5
  <2>. HIDE DEF f
  <2>9. ASSUME NEW j \in 1 .. i
        PROVE  f[j] = IF j = 1 THEN first ELSE NextHdr(H, nx, f[j - 1])
    <3>1. j # 1 => f[j - 1] = g[j - 1]
      <4>1. j # 1 => j - 1 \in 1 .. l
        BY <2>5
      <4>. QED BY <2>8, <4>1
    <3>2. CASE j = i
      <4>1. j - 1 = l
        BY <2>5, <3>2
      <4>. QED BY <2>8, <3>1, <3>2, <4>1
    <3>3. CASE j # i
      <4>1. j \in 1 .. l
        BY <2>5, <3>3
      <4>2. g[j] = IF j = 1 THEN first ELSE NextHdr(H, nx, g[j - 1])
        BY <2>7, <4>1 DEF Walks
      <4>. QED BY <2>8, <3>1, <4>1, <4>2
    <3>. QED BY <3>2, <3>3
  <2>10. Walks(f, H, nx, first, i)
    BY <2>8, <2>9 DEF Walks
  <2>. QED BY <2>3, <2>10
<1>. QED BY <1>1

\* How many headers lie before an offset tells the headers apart.
Before(H, x) == {h \in H : h < x}

LEMMA BeforeIs ==
  ASSUME NEW H \in SUBSET Nat, IsFiniteSet(H), NEW x \in H
  PROVE  /\ IsFiniteSet(Before(H, x)) /\ Cardinality(Before(H, x)) \in Nat
         /\ Cardinality(Before(H, x)) < Cardinality(H)
         /\ Cardinality(Before(H, x) \cup {x}) = Cardinality(Before(H, x)) + 1
         /\ \A y \in H : x < y => Cardinality(Before(H, x)) < Cardinality(Before(H, y))
<1>. DEFINE B == Before(H, x)
            C == B \cup {x}
<1>1. \A y \in H : IsFiniteSet(Before(H, y)) /\ Cardinality(Before(H, y)) \in Nat
  <2>. SUFFICES ASSUME NEW y \in H
                PROVE  IsFiniteSet(Before(H, y)) /\ Cardinality(Before(H, y)) \in Nat
    OBVIOUS
  <2>1. Before(H, y) \subseteq H
    BY DEF Before
  <2>. QED BY <2>1, FS_Subset, FS_CardinalityType
<1>2. x \notin B /\ C \subseteq H
  BY DEF Before
<1>3. IsFiniteSet(B) /\ Cardinality(B) \in Nat
  BY <1>1
<1>. HIDE DEF B
<1>4. IsFiniteSet(C) /\ Cardinality(C) = Cardinality(B) + 1
  BY <1>2, <1>3, FS_AddElement
<1>5. Cardinality(C) <= Cardinality(H) /\ Cardinality(H) \in Nat
  BY <1>2, FS_Subset, FS_CardinalityType
<1>6. ASSUME NEW y \in H, x < y PROVE Cardinality(B) < Cardinality(Before(H, y))
  <2>1. C \subseteq Before(H, y)
    <3>. SUFFICES ASSUME NEW z \in C PROVE z \in Before(H, y)
      OBVIOUS
    <3>1. z \in H /\ (z = x \/ z < x)
      BY DEF Before, B
    <3>2. z \in Nat /\ x \in Nat /\ y \in Nat
      BY <3>1
    <3>3. z < y
      BY <1>6, <3>1, <3>2
    <3>. QED BY <3>1, <3>3 DEF Before
  <2>2. IsFiniteSet(Before(H, y)) /\ Cardinality(Before(H, y)) \in Nat
    BY <1>1
  <2>3. Cardinality(C) <= Cardinality(Before(H, y))
    BY <2>1, <2>2, FS_Subset
  <2>. QED BY <1>3, <1>4, <2>2, <2>3
<1>. QED BY <1>3, <1>4, <1>5, <1>6 DEF B


\* NUM_ENT steps meet every header.
LEMMA WalkIs ==
  ASSUME NEW H, NEW nx, NEW first \in Nat, NEW free \in Nat, NEW num,
         Listed(H, nx, first, free, num),
         NEW g, Walks(g, H, nx, first, num)
  PROVE  {g[i] : i \in 1 .. num} = H
<1>1. /\ IsFiniteSet(H) /\ num = Cardinality(H) /\ num \in Nat /\ H \in SUBSET Nat
      /\ \A h \in H : nx[h] \in Nat
      /\ free # 0 => \A h \in H : h < free
      /\ \A h \in H : nx[h] # 0 => nx[h] > h /\ (nx[h] \in H \/ nx[h] = free)
      /\ \A h, y \in H : h < y => nx[h] # 0 /\ nx[h] <= y
      /\ H # {} => first \in H /\ \A h \in H : first <= h
  BY FS_CardinalityType DEF Listed
<1>. DEFINE At(i) == g[i] \in H /\ Cardinality(Before(H, g[i])) = i - 1
            T == {i \in Nat : i # 0 /\ i <= num /\ ~At(i)}
<1>2. ASSUME T # {} PROVE FALSE
  <2>1. T \in SUBSET Nat
    OBVIOUS
  <2>. HIDE DEF T
  <2>2. PICK i \in T : \A y \in T : i <= y
    BY <1>2, <2>1, LeastExists
  <2>3. i \in Nat /\ i # 0 /\ i <= num /\ ~At(i)
    BY DEF T
  <2>4. i \in 1 .. num
    BY <1>1, <2>3
  <2>5. g[i] = IF i = 1 THEN first ELSE NextHdr(H, nx, g[i - 1])
    BY <2>4 DEF Walks
  <2>6. CASE i = 1
    <3>1. H # {}
      BY <1>1, <2>3, FS_EmptySet
    <3>2. g[i] = first /\ first \in H
      BY <1>1, <2>5, <2>6, <3>1
    <3>3. Before(H, first) = {}
      <4>. SUFFICES ASSUME NEW h \in H, h < first PROVE FALSE
        BY DEF Before
      <4>1. first <= h /\ h \in Nat
        BY <1>1
      <4>. QED BY <4>1
    <3>4. Cardinality(Before(H, g[i])) = i - 1
      BY <2>6, <3>2, <3>3, FS_EmptySet
    <3>. QED BY <2>3, <3>2, <3>4
  <2>7. CASE i # 1
    <3>. DEFINE l == i - 1
                x == g[l]
                y == nx[x]
    <3>1. l \in Nat /\ l # 0 /\ i = l + 1 /\ ~(i <= l) /\ l <= num /\ l - 1 \in Nat
      BY <1>1, <2>3, <2>7
    <3>. HIDE DEF l
    <3>2. l \notin T
      BY <2>2, <3>1
    <3>3. x \in H /\ Cardinality(Before(H, x)) = l - 1
      BY <3>1, <3>2 DEF T
    <3>4. g[i] = y
      BY <2>5, <2>7, <3>1, <3>3 DEF NextHdr, l
    <3>. HIDE DEF x, y
    <3>5. x \in Nat /\ y \in Nat
      BY <1>1, <3>3 DEF y
    <3>6. Cardinality(Before(H, x) \cup {x}) = l
      BY <1>1, <3>1, <3>3, BeforeIs
    <3>7. PICK h \in H : h > x
      <4>1. SUFFICES ASSUME \A h \in H : ~(h > x) PROVE FALSE
        OBVIOUS
      <4>2. \A h \in H : h \in Before(H, x) \cup {x}
        <5>. SUFFICES ASSUME NEW h \in H PROVE h < x \/ h = x
          BY DEF Before
        <5>1. h \in Nat /\ ~(h > x)
          BY <1>1, <4>1
        <5>. QED BY <3>5, <5>1
      <4>3. Before(H, x) \cup {x} = H
        BY <3>3, <4>2 DEF Before
      <4>. QED BY <1>1, <2>3, <3>1, <3>6, <4>3
    <3>8. y # 0 /\ y <= h /\ y > x /\ (y \in H \/ y = free)
      BY <1>1, <3>3, <3>5, <3>7 DEF y
    <3>9. y \in H
      <4>1. CASE y = free
        <5>1. h < free /\ h \in Nat
          BY <1>1, <3>8, <4>1
        <5>. QED BY <3>5, <3>8, <4>1, <5>1
      <4>. QED BY <3>8, <4>1
    <3>10. Before(H, y) = Before(H, x) \cup {x}
      <4>1. ASSUME NEW z \in H PROVE z < y <=> z < x \/ z = x
        <5>1. z \in Nat
          BY <1>1
        <5>2. z > x => y <= z
          BY <1>1, <3>3, <3>5, <5>1 DEF y
        <5>. QED BY <3>5, <3>8, <5>1, <5>2
      <4>. QED BY <3>3, <4>1 DEF Before
    <3>11. At(i)
      BY <3>1, <3>4, <3>6, <3>9, <3>10
    <3>. QED BY <2>3, <3>11
  <2>. QED BY <2>6, <2>7
<1>3. \A i \in 1 .. num : At(i)
  <2>. SUFFICES ASSUME NEW i \in 1 .. num PROVE At(i)
    OBVIOUS
  <2>1. i \in Nat /\ i # 0 /\ i <= num
    BY <1>1
  <2>2. i \notin T
    BY <1>2
  <2>. QED BY <2>1, <2>2
<1>4. ASSUME NEW h \in H PROVE \E i \in 1 .. num : g[i] = h
  <2>. DEFINE b == Cardinality(Before(H, h))
              i == b + 1
  <2>1. b \in Nat /\ b < num /\ \A y \in H : h < y => b < Cardinality(Before(H, y))
    BY <1>1, BeforeIs
  <2>2. i \in 1 .. num /\ i - 1 = b
    <3>. HIDE DEF b
    <3>. QED BY <1>1, <2>1
  <2>3. g[i] \in H /\ Cardinality(Before(H, g[i])) = b
    BY <1>3, <2>2
  <2>. HIDE DEF b, i
  <2>4. \A y \in H : g[i] < y => Cardinality(Before(H, g[i])) < Cardinality(Before(H, y))
    BY <1>1, <2>3, BeforeIs
  <2>5. ~(h < g[i]) /\ ~(g[i] < h)
    BY <2>1, <2>3, <2>4 DEF b
  <2>6. h \in Nat /\ g[i] \in Nat
    BY <1>1, <2>3
  <2>7. g[i] = h
    BY <2>5, <2>6
  <2>. QED BY <2>2, <2>7
<1>. HIDE DEF T
<1>. QED BY <1>3, <1>4


LEMMA WalkMeets == DataInv => WalkMeetsHeaders
<1>. SUFFICES ASSUME DataInv, NEW p \in DOMAIN page
              PROVE  LET walk[i \in 1 .. page[p].num] ==
                           IF i = 1 THEN page[p].firstpos
                           ELSE IF walk[i - 1] \in DOMAIN page[p].hdr
                                THEN HeaderAt(p, walk[i - 1]).next ELSE 0
                     IN  /\ {walk[i] : i \in 1 .. page[p].num} = DOMAIN page[p].hdr
                         /\ page[p].num = Cardinality(DOMAIN page[p].hdr)
  BY DEF WalkMeetsHeaders
<1>. DEFINE pg == page[p]
            H == DOMAIN pg.hdr
            nx == NextOf(pg)
            Is(f) == f = [i \in 1 .. pg.num |->
                            IF i = 1 THEN pg.firstpos
                            ELSE IF f[i - 1] \in DOMAIN pg.hdr
                                 THEN HeaderAt(p, f[i - 1]).next ELSE 0]
            w == CHOOSE f : Is(f)
<1>1. PagesOk(page) /\ p \in 1 .. Len(page)
  BY LenProperties DEF DataInv, PagesOk
<1>2. PageOk(pg) /\ pg \in PageT
  BY <1>1, PageIs
<1>3. /\ Listed(H, nx, pg.firstpos, pg.free, pg.num) /\ pg.firstpos \in Nat
      /\ pg.free \in Nat /\ pg.num \in Nat
  BY <1>2 DEF PageOk, ListOk, PageT
<1>4. \A x : NextHdr(H, nx, x) = IF x \in DOMAIN pg.hdr THEN HeaderAt(p, x).next ELSE 0
  BY DEF NextHdr, NextOf, HeaderAt
<1>5. PICK g : Walks(g, H, nx, pg.firstpos, pg.num)
  BY <1>3, WalksExist
<1>6. Is(g)
  <2>1. g = [j \in 1 .. pg.num |-> g[j]]
    BY <1>5 DEF Walks
  <2>2. \A j \in 1 .. pg.num :
          g[j] = IF j = 1 THEN pg.firstpos
                 ELSE IF g[j - 1] \in DOMAIN pg.hdr THEN HeaderAt(p, g[j - 1]).next ELSE 0
    BY <1>4, <1>5 DEF Walks
  <2>. QED BY <2>1, <2>2, Zenon
<1>7. Is(w)
  BY <1>6
<1>. HIDE DEF w
<1>8. Walks(w, H, nx, pg.firstpos, pg.num)
  <2>1. w = [j \in 1 .. pg.num |-> w[j]]
    BY <1>7
  <2>2. \A j \in 1 .. pg.num :
          w[j] = IF j = 1 THEN pg.firstpos
                 ELSE IF w[j - 1] \in DOMAIN pg.hdr THEN HeaderAt(p, w[j - 1]).next ELSE 0
    BY <1>7
  <2>3. \A j \in 1 .. pg.num :
          w[j] = IF j = 1 THEN pg.firstpos ELSE NextHdr(H, nx, w[j - 1])
    BY <1>4, <2>2
  <2>. QED BY <2>1, <2>3 DEF Walks
<1>9. {w[i] : i \in 1 .. pg.num} = H
  <2>. HIDE DEF H, nx, pg
  <2>. QED BY <1>3, <1>8, WalkIs
<1>10. pg.num = Cardinality(H)
  BY <1>3 DEF Listed
<1>. QED BY <1>9, <1>10 DEF w

LEMMA RoomIsThere == DataInv => RoomForHeader
<1>. SUFFICES ASSUME DataInv, NEW p \in DOMAIN page, page[p].free # 0
              PROVE  /\ BSize - page[p].free >= DataHdr
                     /\ page[p].free % Align = 0
                     /\ \A i \in page[p].free .. BSize - 1 : page[p].cell[i] = Junk
  BY DEF RoomForHeader
<1>1. p \in 1 .. Len(page)
  BY LenProperties DEF DataInv, PagesOk
<1>2. PageOk(page[p])
  BY <1>1 DEF DataInv, PagesOk
<1>. QED BY <1>2 DEF PageOk, RoomOk


-----------------------------------------------------------------------------
(***************************************************************************)
(* Reading a datum.                                                        *)
(***************************************************************************)
LEMMA AssertsHold ==
  ASSUME DataInv, NEW k \in Stored
  PROVE  GetAsserts(k)
<1>. DEFINE d == datap[k]
            n == given[k].len
            pg == page[d.first]
<1>1. /\ Lies(page, d.first, d.off, n) /\ n \in Nat /\ HeaderOk(pg, d.off, n, place[k])
      /\ PagesOk(page)
  BY KeyLies DEF DataInv
<1>2. d.first \in 1 .. Len(page) /\ d.off \in DOMAIN pg.hdr
  BY <1>1 DEF Lies
<1>3. PageOk(pg) /\ pg \in PageT
  BY <1>1, <1>2, PageIs
<1>4. pg.num >= 1
  <2>1. IsFiniteSet(DOMAIN pg.hdr) /\ pg.num = Cardinality(DOMAIN pg.hdr)
    BY <1>3 DEF PageOk, ListOk, Listed
  <2>2. pg.num # 0 /\ pg.num \in Nat
    BY <1>2, <2>1, FS_EmptySet, FS_CardinalityType
  <2>. QED BY <2>2
<1>5. HeaderWhole(d.first, d.off)
  BY <1>1 DEF HeaderOk, HeaderWhole
<1>6. RealLen(HeaderAt(d.first, d.off).len, HeaderAt(d.first, d.off).high) = StoredLen(k)
  <2>1. HeaderAt(d.first, d.off).len = Low(n) /\ HeaderAt(d.first, d.off).high = High(n)
    BY <1>1 DEF HeaderOk, HeaderAt
  <2>. QED BY <1>1, <2>1, LengthIs, StoredLenIs
<1>7. HeaderAt(d.first, d.off).place = place[k]
  BY <1>1 DEF HeaderOk, HeaderAt
<1>. QED BY <1>4, <1>5, <1>6, <1>7 DEF GetAsserts

\* Where a byte of the rest is: on page i behind the first one, at place r.
LEMMA RestIs ==
  ASSUME NEW n \in Nat, NEW off \in Nat, off + DataHdr <= BSize,
         NEW j \in 1 .. n, ~(j <= Inner(off)), NEW q, q = j - Inner(off) - 1
  PROVE  \E i \in Nat \ {0}, r \in 0 .. Cap - 1 :
           /\ q \div Cap + 1 = i /\ q % Cap = r
           /\ Left(n, off, i) > 0 /\ r < Left(n, off, i)
           /\ Inner(off) + (i - 1) * Cap + r + 1 = j
<1>. DEFINE e == Inner(off)
            C == Cap
            a == q \div C
            r == q % C
            i == a + 1
<1>1. e \in Nat /\ C \in Nat \ {0} /\ C = Cap
  BY Sizes DEF Inner
<1>. HIDE DEF e, C
<1>2. q = j - e - 1
  BY DEF e
<1>3. q \in Nat /\ q < n - e
  BY <1>1, <1>2 DEF e
<1>4. a \in Nat /\ r \in 0 .. C - 1 /\ q = C * a + r
  BY <1>1, <1>3, Quotient
<1>. HIDE DEF a, r
<1>5. i \in Nat \ {0} /\ i - 1 = a
  BY <1>4
<1>. DEFINE z == a * C
<1>6. z = C * a /\ z \in Nat
  BY <1>1, <1>4
<1>. HIDE DEF z
<1>7. Left(n, off, i) = n - e - z
  BY <1>1, <1>5 DEF Left, e, z
<1>8. r < n - e - z /\ n - e - z > 0 /\ e + z + r + 1 = j
  BY <1>1, <1>2, <1>3, <1>4, <1>6
<1>9. Inner(off) + (i - 1) * Cap + r + 1 = j
  BY <1>1, <1>5, <1>8 DEF e, z
<1>10. q \div Cap + 1 = i /\ q % Cap = r
  BY <1>1 DEF a, r
<1>. HIDE DEF i
<1>. QED BY <1>1, <1>4, <1>5, <1>7, <1>8, <1>9, <1>10

LEMMA BytesAreRead ==
  ASSUME DataInv, NEW k \in Stored, NEW j \in 1 .. given[k].len
  PROVE  GetByte(k, j) = Byte(given[k], j)
<1>. DEFINE v == given[k]
            n == v.len
            p == datap[k].first
            off == datap[k].off
            q == j - Inner(off) - 1
<1>1. /\ Lies(page, p, off, n) /\ n \in Nat /\ BytesOk(page, p, off, v)
  BY KeyLies DEF DataInv
<1>2. off \in Nat /\ off + DataHdr <= BSize
  BY <1>1, LiesIn
<1>3. GetByte(k, j) =
        IF j <= Inner(off) THEN page[p].cell[off + DataHdr + j - 1]
        ELSE IF Chain(p, q \div Cap + 1) = 0 THEN Junk
        ELSE page[Chain(p, q \div Cap + 1)].cell[PageHdr + (q % Cap)]
  BY DEF GetByte, Inner
<1>4. CASE j <= Inner(off)
  BY <1>1, <1>3, <1>4 DEF BytesOk
<1>5. CASE ~(j <= Inner(off))
  <2>. HIDE DEF p, off, q, n, v
  <2>1. j \in 1 .. n /\ q = j - Inner(off) - 1
    BY DEF n, v, q
  <2>2. PICK i \in Nat \ {0}, r \in 0 .. Cap - 1 :
          /\ q \div Cap + 1 = i /\ q % Cap = r
          /\ Left(n, off, i) > 0 /\ r < Left(n, off, i)
          /\ Inner(off) + (i - 1) * Cap + r + 1 = j
    BY <1>1, <1>2, <1>5, <2>1, RestIs
  <2>3. Chain(p, i) = Base(page, p) + i
    BY <1>1, <2>2, ChainIs
  <2>4. Chain(p, i) # 0
    <3>1. Base(page, p) + i \in 1 .. Len(page)
      BY <1>1, <2>2, LiesIn
    <3>. QED BY <2>3, <3>1
  <2>5. page[Base(page, p) + i].cell[PageHdr + r]
          = Byte(v, Inner(off) + (i - 1) * Cap + r + 1)
    BY <1>1, <2>2 DEF BytesOk, n
  <2>6. GetByte(k, j) = page[Chain(p, i)].cell[PageHdr + r]
    BY <1>3, <1>5, <2>2, <2>4
  <2>7. GetByte(k, j) = Byte(v, j)
    BY <2>2, <2>3, <2>5, <2>6
  <2>. QED BY <2>7 DEF v
<1>. QED BY <1>4, <1>5

LEMMA ReadBack == DataInv => DataReadBack
<1>. SUFFICES ASSUME DataInv, NEW k \in Stored
              PROVE  /\ GetAsserts(k) /\ StoredLen(k) = given[k].len
                     /\ GetSucceeds(k) /\ datap[k].chksum = given[k]
  BY DEF DataReadBack
<1>1. datap[k].chksum = given[k]
  <2>1. datap[k] = Pointer(datap[k].first, datap[k].off, given[k])
    BY KeyLies DEF DataInv
  <2>. QED BY <2>1 DEF Pointer
<1>2. StoredLen(k) = given[k].len
  BY StoredLenIs
<1>3. GetSucceeds(k)
  BY <1>1, <1>2, BytesAreRead DEF GetSucceeds
<1>. QED BY <1>1, <1>2, <1>3, AssertsHold

-----------------------------------------------------------------------------
(***************************************************************************)
(* The theorems, while huge data are replaced by huge data only: a header  *)
(* gets the high bits of the new length, a data pointer that of a datum    *)
(* that is not huge keeps the old ones.                                    *)
(***************************************************************************)
\* What was stored is read: _ffdb_get_data passes its assertions and its
\* checksum agrees, whatever _ffdb_add_data and _ffdb_replace_data did to the
\* pages since, after splits, new levels and new sessions, for data, pages and
\* headers of every size.
THEOREM DataReadsBack ==
  ASSUME ~ShrinkHuge
  PROVE  Spec => []DataReadBack
<1>. QED BY DataInvariant, ReadBack, PTL

\* A page that takes data has room for a header, aligned and on unused bytes:
\* what _ffdb_add_data and _ffdb_replace_data assert of HIGHEST_FREE.
THEOREM PagesHaveRoom ==
  ASSUME ~ShrinkHuge
  PROVE  Spec => []RoomForHeader
<1>. QED BY DataInvariant, RoomIsThere, PTL

\* From FIRST_DATA_POS along header->next, NUM_ENT steps meet exactly the
\* headers of a page: the page filters and the moving of pages on close rely
\* on it.
THEOREM WalksMeetHeaders ==
  ASSUME ~ShrinkHuge
  PROVE  Spec => []WalkMeetsHeaders
<1>. QED BY DataInvariant, WalkMeets, PTL
=============================================================================
