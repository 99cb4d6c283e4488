--------------------------- MODULE PagePoolProofs ---------------------------
(***************************************************************************)
(* Proofs about PagePool, for any number of threads, pages, bkts and any   *)
(* cache limit.                                                            *)
(***************************************************************************)
EXTENDS PagePool, ListLemmas, FiniteSetTheorems

\* A page in use stays in the pool.
BusyCached ==
  \A b \in Bkts : bkt[b].pinned \/ bkt[b].wqh # << >> => b \in Cached

\* What the pool's lists are, whatever the clients do.
PoolInv == TypeOK /\ LruIsPool /\ BusyCached

-----------------------------------------------------------------------------
(***************************************************************************)
(* The helpers keep to their types.                                        *)
(***************************************************************************)
\* The page filters return pages.
LEMMA FilterType ==
  ASSUME NEW c \in Content
  PROVE  PgOut(c) \in Content /\ PgIn(c) \in Content /\ CleanPage \in Content
<1>1. CleanPage \in Content
  BY PoolAssumption DEF CleanPage, Content
<1>2. ByteSwap(c) \in Content
  BY DEF ByteSwap, Content
<1>. QED BY <1>1, <1>2 DEF PgOut, PgIn

\* A bkt not in use is a bkt.
LEMMA FreeBktType == FreeBkt \in Bkt
<1>1. CleanPage \in Content
  BY PoolAssumption DEF CleanPage, Content
<1>2. << >> \in Seq(Threads)
  OBVIOUS
<1>. QED BY <1>1, <1>2 DEF FreeBkt, Bkt

\* Every cached bkt has one place in the LRU list.
LEMMA PosType ==
  ASSUME PoolInv, NEW b \in Cached
  PROVE  Pos(b) \in 1 .. Len(lru) /\ lru[Pos(b)] = b
<1>1. DOMAIN lru = 1 .. Len(lru)
  BY LenProperties DEF PoolInv, TypeOK
<1>2. \E i \in DOMAIN lru : lru[i] = b
  BY DEF PoolInv, LruIsPool, Range
<1>. QED BY <1>1, <1>2 DEF Pos

\* Of some cached bkts one is the oldest.
LEMMA OldestType ==
  ASSUME PoolInv, NEW S \in SUBSET Cached, S # {}
  PROVE  Oldest(S) \in S
<1> DEFINE P == {Pos(b) : b \in S}
<1>1. P \in SUBSET Nat /\ P # {}
  BY PosType, LenProperties DEF PoolInv, TypeOK
<1>2. PICK i \in P : \A j \in P : i <= j
  BY <1>1, LeastExists
<1>3. PICK b \in S : i = Pos(b)
  BY <1>2
<1>4. \A c \in S \ {b} : Pos(b) < Pos(c)
  <2> TAKE c \in S \ {b}
  <2>1. Pos(b) <= Pos(c)
    BY <1>2, <1>3
  <2>2. Pos(b) # Pos(c)
    BY PosType
  <2>. QED BY <2>1, <2>2, <1>1, <1>3
<1>. QED BY <1>3, <1>4, Zenon DEF Oldest

\* The lookup of a cached page finds its most recent bkt.
LEMMA FindType ==
  ASSUME PoolInv, NEW p \in Pages, CachedAs(p) # {}
  PROVE  /\ Find(p) \in CachedAs(p)
         /\ Find(p) \in Cached
         /\ \A c \in CachedAs(p) \ {Find(p)} : Pos(c) < Pos(Find(p))
<1>0. CachedAs(p) \in SUBSET Cached
  BY PoolAssumption DEF CachedAs, Cached, Pages, NoPage
<1> DEFINE P == {Pos(b) : b \in CachedAs(p)}
<1>1. P \in SUBSET Nat /\ P # {} /\ \A i \in P : i <= Len(lru)
  BY <1>0, PosType, LenProperties DEF PoolInv, TypeOK
<1>2. Max(P) \in P /\ \A j \in P : j <= Max(P)
  BY <1>1, MaxExists, LenProperties DEF PoolInv, TypeOK
<1>3. PICK b \in CachedAs(p) : Max(P) = Pos(b)
  BY <1>2
<1>4. \A c \in CachedAs(p) \ {b} : Pos(c) < Pos(b)
  <2> TAKE c \in CachedAs(p) \ {b}
  <2>1. Pos(c) <= Pos(b)
    BY <1>2, <1>3
  <2>2. Pos(b) # Pos(c)
    BY <1>0, PosType
  <2>3. Pos(b) \in Nat /\ Pos(c) \in Nat
    BY <1>0, PosType
  <2>. QED BY <2>1, <2>2, <2>3
<1>5. /\ Find(p) \in CachedAs(p)
      /\ \A c \in CachedAs(p) \ {Find(p)} : Pos(c) < Pos(Find(p))
  BY <1>3, <1>4, Zenon DEF Find
<1>. QED BY <1>0, <1>5

\* Writing cached bkts back leaves a file of pages.
LEMMA DiskAfterType ==
  ASSUME PoolInv, NEW d \in [Pages -> Content], NEW W \in SUBSET Cached
  PROVE  DiskAfter(d, W) \in [Pages -> Content]
<1> SUFFICES ASSUME NEW p \in Pages
             PROVE  LET S == {b \in W : bkt[b].pgno = p}
                    IN  (IF S = {} THEN d[p] ELSE PgOut(bkt[Oldest(S)].page))
                          \in Content
  BY DEF DiskAfter
<1> DEFINE S == {b \in W : bkt[b].pgno = p}
<1>1. ASSUME S # {} PROVE PgOut(bkt[Oldest(S)].page) \in Content
  <2>1. Oldest(S) \in Bkts
    BY <1>1, OldestType DEF Cached
  <2>2. bkt[Oldest(S)].page \in Content
    BY <2>1 DEF PoolInv, TypeOK, Bkt
  <2>. QED BY <2>2, FilterType
<1>. QED BY <1>1

\* Writing bkts back changes nothing of them but the flag and the content.
LEMMA BktAfterType ==
  ASSUME PoolInv, NEW W, NEW T
  PROVE  /\ BktAfter(W, T) \in [Bkts -> Bkt]
         /\ \A b \in Bkts :
              /\ BktAfter(W, T)[b].pgno = bkt[b].pgno
              /\ BktAfter(W, T)[b].ref = bkt[b].ref
              /\ BktAfter(W, T)[b].pinned = bkt[b].pinned
              /\ BktAfter(W, T)[b].locked = bkt[b].locked
              /\ BktAfter(W, T)[b].owner = bkt[b].owner
              /\ BktAfter(W, T)[b].wqh = bkt[b].wqh
<1> DEFINE N(b) == IF b \in T
                   THEN [bkt[b] EXCEPT !.dirty = @ /\ b \notin W, !.page = PgOut(@)]
                   ELSE bkt[b]
<1>1. ASSUME NEW b \in Bkts
      PROVE  /\ N(b) \in Bkt
             /\ N(b).pgno = bkt[b].pgno
             /\ N(b).ref = bkt[b].ref
             /\ N(b).pinned = bkt[b].pinned
             /\ N(b).locked = bkt[b].locked
             /\ N(b).owner = bkt[b].owner
             /\ N(b).wqh = bkt[b].wqh
  <2>1. bkt[b] \in Bkt
    BY DEF PoolInv, TypeOK
  <2>2. PgOut(bkt[b].page) \in Content
    BY <2>1, FilterType DEF Bkt
  <2>3. (bkt[b].dirty /\ b \notin W) \in BOOLEAN
    OBVIOUS
  <2>. QED BY <2>1, <2>2, <2>3 DEF Bkt
<1>2. BktAfter(W, T) = [b \in Bkts |-> N(b)]
  BY DEF BktAfter
<1> HIDE DEF N
<1>. QED BY <1>1, <1>2

\* The extent of the file stays a count.
LEMMA ExtentType ==
  ASSUME PoolInv, NEW n \in Nat, NEW S \in SUBSET Bkts
  PROVE  Extent(n, S) \in Nat
<1> DEFINE X == {n} \cup {bkt[b].pgno + 1 : b \in S}
<1>1. \A b \in S : bkt[b].pgno \in Pages \cup {NoPage}
  BY DEF PoolInv, TypeOK, Bkt
<1>2. LastPage \in Nat
  BY PoolAssumption
<1>3. X \in SUBSET Nat /\ X # {} /\ \A x \in X : x <= n + LastPage + 1
  BY <1>1, <1>2 DEF Pages, NoPage
<1>4. n + LastPage + 1 \in Nat
  BY <1>2
<1>5. Max(X) \in X
  BY <1>3, <1>4, MaxExists
<1>. QED BY <1>3, <1>5 DEF Extent

\* Where the bkts are after one of them moved to the tail of the LRU list.
LEMMA TouchCached ==
  ASSUME PoolInv, NEW b \in Cached
  PROVE  /\ Touch(b) \in Seq(Bkts)
         /\ Len(Touch(b)) = Len(lru)
         /\ Touch(b)[Len(lru)] = b
         /\ \A i \in 1 .. Len(lru) - 1 :
              Touch(b)[i] = IF i < Pos(b) THEN lru[i] ELSE lru[i + 1]
<1> DEFINE k == Pos(b)
           s == RemoveAt(lru, k)
<1>0. lru \in Seq(Bkts) /\ Len(lru) \in Nat /\ b \in Bkts
  BY LenProperties DEF PoolInv, TypeOK, Cached
<1>1. k \in 1 .. Len(lru) /\ lru[k] = b
  BY PosType
<1>2. RemoveFirst(lru, lru[k]) = s
  BY <1>0, <1>1, RemoveFirstProperties DEF PoolInv, LruIsPool
<1>3. /\ s \in Seq(Bkts)
      /\ Len(s) = Len(lru) - 1
      /\ \A i \in 1 .. Len(lru) - 1 : s[i] = IF i < k THEN lru[i] ELSE lru[i + 1]
  BY <1>0, <1>1, RemoveAtProperties
<1>4. Touch(b) = Append(s, b)
  BY <1>1, <1>2 DEF Touch
<1> HIDE DEF s
<1>5. /\ Append(s, b) \in Seq(Bkts)
      /\ Len(Append(s, b)) = Len(s) + 1
      /\ \A i \in 1 .. Len(s) : Append(s, b)[i] = s[i]
      /\ Append(s, b)[Len(s) + 1] = b
  BY <1>0, <1>3, AppendProperties
<1>. QED BY <1>0, <1>3, <1>4, <1>5

\* Where the bkts are after a new one joined the LRU list.
LEMMA TouchNew ==
  ASSUME PoolInv, NEW b \in Bkts \ Cached
  PROVE  /\ Touch(b) \in Seq(Bkts)
         /\ Len(Touch(b)) = Len(lru) + 1
         /\ Touch(b)[Len(lru) + 1] = b
         /\ \A i \in 1 .. Len(lru) : Touch(b)[i] = lru[i]
<1>0. lru \in Seq(Bkts)
  BY DEF PoolInv, TypeOK
<1>1. RemoveFirst(lru, b) = lru
  BY <1>0, RemoveFirstAbsent DEF PoolInv, LruIsPool
<1>. QED BY <1>0, <1>1, AppendProperties DEF Touch

\* The LRU list after a touch holds every bkt once.
LEMMA TouchType ==
  ASSUME PoolInv, NEW b \in Bkts
  PROVE  /\ Touch(b) \in Seq(Bkts)
         /\ IsInjective(Touch(b))
         /\ Range(Touch(b)) = Cached \cup {b}
         /\ Len(Touch(b)) = Len(lru) + (IF b \in Cached THEN 0 ELSE 1)
<1>0. /\ lru \in Seq(Bkts) /\ Len(lru) \in Nat
      /\ DOMAIN lru = 1 .. Len(lru)
      /\ Range(lru) = Cached
      /\ \A i, j \in 1 .. Len(lru) : lru[i] = lru[j] => i = j
  BY LenProperties DEF PoolInv, TypeOK, LruIsPool, IsInjective
<1>1. CASE b \in Cached
  <2> DEFINE s == Touch(b)
             k == Pos(b)
  <2>1. /\ s \in Seq(Bkts) /\ Len(s) = Len(lru) /\ s[Len(lru)] = b
        /\ \A i \in 1 .. Len(lru) - 1 : s[i] = IF i < k THEN lru[i] ELSE lru[i + 1]
    BY <1>1, TouchCached
  <2>2. k \in 1 .. Len(lru) /\ lru[k] = b
    BY <1>1, PosType
  <2>3. DOMAIN s = 1 .. Len(lru)
    BY <2>1, LenProperties
  <2> HIDE DEF s, k
  <2>4. IsInjective(s)
    BY <1>0, <2>1, <2>2, <2>3 DEF IsInjective
  <2>5. \A i \in 1 .. Len(lru) : \E j \in 1 .. Len(lru) : s[i] = lru[j]
    BY <1>0, <2>1, <2>2
  <2>6. ASSUME NEW i \in 1 .. Len(lru)
        PROVE  \E j \in 1 .. Len(lru) : lru[i] = s[j]
    <3>1. CASE i < k
      BY <1>0, <2>1, <2>2, <3>1
    <3>2. CASE i = k
      BY <1>0, <2>1, <2>2, <3>2
    <3>3. CASE i > k
      <4>1. i - 1 \in 1 .. Len(lru) - 1 /\ ~(i - 1 < k) /\ (i - 1) + 1 = i
        BY <1>0, <2>2, <3>3
      <4>. QED BY <1>0, <2>1, <4>1
    <3>. QED BY <1>0, <2>2, <3>1, <3>2, <3>3
  <2>7. Range(s) = Range(lru)
    <3>1. Range(s) = {s[i] : i \in 1 .. Len(lru)}
      BY <2>3 DEF Range
    <3>2. Range(lru) = {lru[i] : i \in 1 .. Len(lru)}
      BY <1>0 DEF Range
    <3>3. {s[i] : i \in 1 .. Len(lru)} \subseteq {lru[i] : i \in 1 .. Len(lru)}
      BY <2>5
    <3>4. {lru[i] : i \in 1 .. Len(lru)} \subseteq {s[i] : i \in 1 .. Len(lru)}
      BY <2>6
    <3>. QED BY <3>1, <3>2, <3>3, <3>4
  <2>8. Range(s) = Cached \cup {b}
    BY <1>0, <1>1, <2>7
  <2>. QED BY <1>0, <1>1, <2>1, <2>4, <2>8 DEF s
<1>2. CASE b \notin Cached
  <2> DEFINE s == Touch(b)
  <2>1. /\ s \in Seq(Bkts) /\ Len(s) = Len(lru) + 1 /\ s[Len(lru) + 1] = b
        /\ \A i \in 1 .. Len(lru) : s[i] = lru[i]
    BY <1>2, TouchNew
  <2>2. DOMAIN s = 1 .. Len(lru) + 1
    BY <2>1, LenProperties
  <2>3. \A i \in 1 .. Len(lru) : lru[i] # b
    BY <1>0, <1>2 DEF Range
  <2> HIDE DEF s
  <2>4. IsInjective(s)
    BY <1>0, <2>1, <2>2, <2>3 DEF IsInjective
  <2>5. Range(s) = Range(lru) \cup {b}
    BY <1>0, <2>1, <2>2 DEF Range
  <2>. QED BY <1>0, <1>2, <2>1, <2>4, <2>5 DEF s
<1>. QED BY <1>1, <1>2

\* What a flush of bkts B tries and writes is among them.
LEMMA FlushesType ==
  ASSUME NEW B, NEW o \in Flushes(B)
  PROVE  o.wrote \in SUBSET B /\ o.tried \in SUBSET B
<1>1. CASE o = [wrote |-> B, tried |-> B]
  BY <1>1
<1>2. CASE \E c \in B : o = [wrote |-> {b \in B : bkt[b].pgno < bkt[c].pgno},
                             tried |-> {b \in B : bkt[b].pgno < bkt[c].pgno} \cup {c}]
  BY <1>2
<1>. QED BY <1>1, <1>2 DEF Flushes

\* Flushed and skipped bkts are cached.
LEMMA ListedAreCached ==
  ASSUME PoolInv
  PROVE  /\ \A n, skip : FlushSet(n, skip) \in SUBSET Cached
         /\ \A i \in 1 .. Len(lru) + 1 : Skipped(i) \in SUBSET Cached
         /\ \A i \in DOMAIN lru : lru[i] \in Cached
<1>1. /\ DOMAIN lru = 1 .. Len(lru) /\ Len(lru) \in Nat
      /\ \A i \in DOMAIN lru : lru[i] \in Cached
  BY LenProperties DEF PoolInv, TypeOK, LruIsPool, Range
<1>2. \A n, skip : FlushSet(n, skip) \in SUBSET Cached
  BY <1>1 DEF FlushSet
<1>3. ASSUME NEW i \in 1 .. Len(lru) + 1
      PROVE  Skipped(i) \in SUBSET Cached
  BY <1>1 DEF Skipped
<1>. QED BY <1>1, <1>2, <1>3

\* Room is made in a bkt that is not in the pool, or in one nobody uses, and
\* only cached bkts are written for it.
LEMMA RoomType ==
  ASSUME PoolInv, NEW r \in Rooms
  PROVE  /\ r.bp \in Bkts
         /\ r.new = IF r.bp \in Cached THEN 0 ELSE 1
         /\ r.bp \in Cached => Evictable(r.bp)
         /\ r.first \in SUBSET Cached
         /\ r.wrote \in SUBSET Cached
         /\ r.tried \in SUBSET Cached
<1>0. DOMAIN lru = 1 .. Len(lru) /\ Len(lru) \in Nat
  BY LenProperties DEF PoolInv, TypeOK
<1>1. \A b \in CachedAs(NoPage) : b \in Bkts /\ b \notin Cached
  BY DEF CachedAs, Cached
<1>2. CASE r \in NewBkt({})
  <2>1. PICK b \in CachedAs(NoPage) :
          r = [bp |-> b, new |-> 1, first |-> {}, wrote |-> {}, tried |-> {}]
    BY <1>2 DEF NewBkt
  <2>. QED BY <1>1, <2>1
<1>3. CASE r \in NewBkt(Skipped(Len(lru) + 1))
  <2>1. PICK b \in CachedAs(NoPage) :
          r = [bp |-> b, new |-> 1, first |-> {}, wrote |-> {},
               tried |-> Skipped(Len(lru) + 1)]
    BY <1>3 DEF NewBkt
  <2>2. Skipped(Len(lru) + 1) \in SUBSET Cached
    BY <1>0, ListedAreCached
  <2>. QED BY <1>1, <2>1, <2>2
<1>4. CASE r \in ReuseBkt
  <2>1. PICK i \in DOMAIN lru :
          /\ Evictable(lru[i])
          /\ LET b == lru[i]
                 D == IF bkt[b].dirty THEN {b} ELSE {}
                 F == IF D = {} THEN {} ELSE FlushSet(MaxCache \div WriteFrac, {b})
             IN  r \in {[bp |-> b, new |-> 0, first |-> D, wrote |-> o.wrote,
                         tried |-> Skipped(i) \cup D \cup o.tried] : o \in Flushes(F)}
    BY <1>4 DEF ReuseBkt
  <2> DEFINE b == lru[i]
             D == IF bkt[b].dirty THEN {b} ELSE {}
             F == IF D = {} THEN {} ELSE FlushSet(MaxCache \div WriteFrac, {b})
  <2>2. PICK o \in Flushes(F) :
          r = [bp |-> b, new |-> 0, first |-> D, wrote |-> o.wrote,
               tried |-> Skipped(i) \cup D \cup o.tried]
    BY <2>1
  <2>3. b \in Cached /\ D \in SUBSET Cached /\ F \in SUBSET Cached
    BY ListedAreCached
  <2>4. o.wrote \in SUBSET Cached /\ o.tried \in SUBSET Cached
    BY <2>3, FlushesType
  <2>5. Skipped(i) \in SUBSET Cached
    BY <1>0, ListedAreCached
  <2>6. b \in Bkts
    BY <2>3 DEF Cached
  <2> HIDE DEF D, F
  <2>. QED BY <2>1, <2>2, <2>3, <2>4, <2>5, <2>6
<1>. QED BY <1>2, <1>3, <1>4 DEF Rooms

\* The file stays a file of pages while room is made.
LEMMA RoomDiskType ==
  ASSUME PoolInv, NEW r \in Rooms
  PROVE  RoomDisk(r) \in [Pages -> Content]
<1>1. DiskAfter(disk, r.first) \in [Pages -> Content]
  BY RoomType, DiskAfterType DEF PoolInv, TypeOK
<1>. QED BY <1>1, RoomType, DiskAfterType DEF RoomDisk

-----------------------------------------------------------------------------
(***************************************************************************)
(* PoolInv is inductive.                                                   *)
(***************************************************************************)
\* The lists stay right when no bkt enters or leaves the pool.
LEMMA SameMembers ==
  ASSUME PoolInv,
         bkt' \in [Bkts -> Bkt],
         \A b \in Bkts : bkt'[b].pgno = NoPage <=> bkt[b].pgno = NoPage,
         lru' = lru \/ \E b \in Cached : lru' = Touch(b),
         curcache' = curcache
  PROVE  LruIsPool' /\ lru' \in Seq(Bkts)
<1>1. Cached' = Cached
  BY DEF Cached
<1>2. Cached \subseteq Bkts
  BY DEF Cached
<1>3. CASE lru' = lru
  BY <1>1, <1>3 DEF PoolInv, TypeOK, LruIsPool
<1>4. ASSUME NEW b \in Cached, lru' = Touch(b)
      PROVE  LruIsPool' /\ lru' \in Seq(Bkts)
  <2>1. /\ Touch(b) \in Seq(Bkts) /\ IsInjective(Touch(b))
        /\ Range(Touch(b)) = Cached \cup {b}
        /\ Len(Touch(b)) = Len(lru) + 0
    BY <1>2, TouchType
  <2>2. Len(lru) \in Nat /\ curcache = Len(lru)
    BY LenProperties DEF PoolInv, TypeOK, LruIsPool
  <2>. QED BY <1>1, <1>4, <2>1, <2>2 DEF LruIsPool
<1>. QED BY <1>3, <1>4

\* A page brought into the pool.
LEMMA InstallPool ==
  ASSUME PoolInv, NEW t \in Threads, NEW p \in Pages, NEW f \in Flags,
         NEW r \in Rooms, NEW c \in Content, NEW changed \in BOOLEAN,
         Install(t, p, f, r, c, changed)
  PROVE  PoolInv'
<1>1. /\ r.bp \in Bkts
      /\ r.new = IF r.bp \in Cached THEN 0 ELSE 1
      /\ r.tried \in SUBSET Cached
  BY RoomType
<1>2. Loaded(t, p, f, c) \in Bkt /\ Loaded(t, p, f, c).pgno = p
  <2>1. << >> \in Seq(Threads)
    OBVIOUS
  <2>. QED BY <2>1 DEF Loaded, Bkt
<1>3. /\ BktAfter(r.wrote, r.tried) \in [Bkts -> Bkt]
      /\ \A b \in Bkts : BktAfter(r.wrote, r.tried)[b].pgno = bkt[b].pgno
  BY BktAfterType
<1>4. bkt' = [BktAfter(r.wrote, r.tried) EXCEPT ![r.bp] = Loaded(t, p, f, c)]
  BY DEF Install
<1>5. bkt' \in [Bkts -> Bkt]
  BY <1>1, <1>2, <1>3, <1>4
<1>6. p # NoPage
  BY PoolAssumption DEF Pages, NoPage
<1>7. Cached' = Cached \cup {r.bp}
  BY <1>1, <1>2, <1>3, <1>4, <1>6 DEF Cached
<1>8. /\ lru' \in Seq(Bkts) /\ IsInjective(lru')
      /\ Range(lru') = Cached \cup {r.bp}
      /\ Len(lru') = Len(lru) + (IF r.bp \in Cached THEN 0 ELSE 1)
  BY <1>1, TouchType DEF Install
<1>9. curcache' = curcache + r.new /\ curcache = Len(lru) /\ Len(lru) \in Nat
  BY LenProperties DEF Install, PoolInv, TypeOK, LruIsPool
<1>10. LruIsPool'
  BY <1>1, <1>7, <1>8, <1>9 DEF LruIsPool
<1>11. r.tried \in SUBSET Bkts
  BY <1>1 DEF Cached
<1>12. npages' \in Nat
  BY <1>11, ExtentType DEF Install, PoolInv, TypeOK
<1>13. disk' \in [Pages -> Content]
  BY RoomDiskType DEF Install
<1>14. holds' \in [Threads -> [Bkts -> Int]] /\ mod' \in SUBSET Bkts
  BY <1>1 DEF Install, PoolInv, TypeOK
<1>15. curcache' \in Int
  BY <1>1, <1>9
<1>16. UNCHANGED <<status, want, wake, sleeper>>
  BY DEF Install, sync
<1>17. BusyCached'
  BY <1>1, <1>4, <1>7, BktAfterType DEF BusyCached, PoolInv
<1>. QED BY <1>5, <1>8, <1>10, <1>12, <1>13, <1>14, <1>15, <1>16, <1>17
         DEF PoolInv, TypeOK

\* The bkt of a page that is claimed.
LEMMA ClaimBkt ==
  ASSUME PoolInv, NEW t \in Threads, NEW b \in Bkts, NEW f \in Flags,
         NEW q \in Seq(Threads), Claim(t, b, f, q)
  PROVE  /\ bkt' \in [Bkts -> Bkt]
         /\ \A d \in Bkts \ {b} : bkt'[d] = bkt[d]
         /\ bkt'[b].pgno = bkt[b].pgno
         /\ bkt'[b].pinned = TRUE
         /\ bkt'[b].owner = t
         /\ bkt'[b].wqh = q
<1>0. bkt[b] \in Bkt
  BY DEF PoolInv, TypeOK
<1> DEFINE d == bkt[b].dirty \/ f # "read"
           l == bkt[b].locked \/ f = "lock"
           n == [bkt[b] EXCEPT !.ref = @ + 1, !.owner = t, !.pinned = TRUE,
                               !.dirty = d, !.locked = l, !.wqh = q]
<1>1. /\ n \in Bkt /\ n.pgno = bkt[b].pgno /\ n.pinned = TRUE
      /\ n.owner = t /\ n.wqh = q
  <2>1. d \in BOOLEAN /\ l \in BOOLEAN
    OBVIOUS
  <2>2. bkt[b].ref + 1 \in Int
    BY <1>0 DEF Bkt
  <2> HIDE DEF d, l
  <2>. QED BY <1>0, <2>1, <2>2, Zenon DEF Bkt
<1>2. bkt' = [bkt EXCEPT ![b] = n]
  BY DEF Claim
<1> HIDE DEF n
<1>. QED BY <1>0, <1>1, <1>2 DEF PoolInv, TypeOK

\* A cached page claimed.
LEMMA ClaimPool ==
  ASSUME PoolInv, NEW t \in Threads, NEW b \in Cached, NEW f \in Flags,
         NEW q \in Seq(Threads), Claim(t, b, f, q),
         want' \in [Threads -> Bkts \cup {NoBkt}],
         wake' \in [Threads -> {"no", "set", "signalled"}]
  PROVE  PoolInv'
<1>0. b \in Bkts
  BY DEF Cached
<1>3. /\ bkt' \in [Bkts -> Bkt]
      /\ \A d \in Bkts : bkt'[d].pgno = bkt[d].pgno
  BY <1>0, ClaimBkt
<1>4. lru' = Touch(b) /\ curcache' = curcache
  BY DEF Claim
<1>5. LruIsPool' /\ lru' \in Seq(Bkts)
  BY <1>3, <1>4, SameMembers
<1>6. holds' \in [Threads -> [Bkts -> Int]]
  BY <1>0 DEF Claim, PoolInv, TypeOK
<1>7. UNCHANGED <<curcache, npages, disk, status, sleeper, mod>>
  BY DEF Claim
<1>8. BusyCached'
  <2>1. Cached' = Cached
    BY <1>3 DEF Cached
  <2>2. \A d \in Bkts \ {b} : bkt'[d] = bkt[d]
    BY <1>0, ClaimBkt
  <2>. QED BY <2>1, <2>2 DEF BusyCached, PoolInv
<1>. QED BY <1>3, <1>5, <1>6, <1>7, <1>8 DEF PoolInv, TypeOK

\* The bkt of a page that is given back.
LEMMA ReleaseBkt ==
  ASSUME PoolInv, NEW t \in Threads, NEW b \in Bkts, NEW dirty \in BOOLEAN,
         Release(t, b, dirty)
  PROVE  /\ bkt' \in [Bkts -> Bkt]
         /\ \A d \in Bkts \ {b} : bkt'[d] = bkt[d]
         /\ bkt'[b].pgno = bkt[b].pgno
         /\ bkt'[b].pinned = FALSE
         /\ bkt'[b].owner = NoThread
         /\ bkt'[b].wqh = bkt[b].wqh
<1>0. bkt[b] \in Bkt
  BY DEF PoolInv, TypeOK
<1> DEFINE d == bkt[b].dirty \/ dirty
           n == [bkt[b] EXCEPT !.ref = @ - 1, !.owner = NoThread,
                               !.pinned = FALSE, !.dirty = d]
<1>1. /\ n \in Bkt /\ n.pgno = bkt[b].pgno /\ n.pinned = FALSE
      /\ n.owner = NoThread /\ n.wqh = bkt[b].wqh
  <2>1. d \in BOOLEAN
    OBVIOUS
  <2>2. bkt[b].ref - 1 \in Int
    BY <1>0 DEF Bkt
  <2> HIDE DEF d
  <2>. QED BY <1>0, <2>1, <2>2, Zenon DEF Bkt
<1>2. bkt' = [bkt EXCEPT ![b] = n]
  BY DEF Release, HandOver
<1> HIDE DEF n
<1>. QED BY <1>0, <1>1, <1>2 DEF PoolInv, TypeOK

\* A page given back.
LEMMA ReleasePool ==
  ASSUME PoolInv, NEW t \in Threads, NEW b \in Bkts, NEW dirty \in BOOLEAN,
         Release(t, b, dirty)
  PROVE  PoolInv'
<1>1. /\ bkt' \in [Bkts -> Bkt]
      /\ \A d \in Bkts : bkt'[d].pgno = bkt[d].pgno
  BY ReleaseBkt
<1>2. UNCHANGED <<lru, curcache, npages, disk, status, want>>
  BY DEF Release, HandOver
<1>3. LruIsPool' /\ lru' \in Seq(Bkts)
  BY <1>1, <1>2, SameMembers
<1>4. holds' \in [Threads -> [Bkts -> Int]] /\ mod' \in SUBSET Bkts
  BY DEF Release, HandOver, PoolInv, TypeOK
<1>5. /\ wake' \in [Threads -> {"no", "set", "signalled"}]
      /\ sleeper' \in [Threads -> Threads \cup {NoThread}]
  <2>1. CASE bkt[b].wqh = << >>
    BY <2>1 DEF Release, HandOver, PoolInv, TypeOK
  <2>2. CASE bkt[b].wqh # << >>
    <3>1. bkt[b].wqh \in Seq(Threads)
      BY DEF PoolInv, TypeOK, Bkt
    <3>2. Head(bkt[b].wqh) \in Threads
      BY <2>2, <3>1, HeadTailProperties
    <3>. QED BY <2>2, <3>2 DEF Release, HandOver, PoolInv, TypeOK
  <2>. QED BY <2>1, <2>2
<1>6. BusyCached'
  BY ReleaseBkt DEF BusyCached, PoolInv, Cached
<1>. QED BY <1>1, <1>2, <1>3, <1>4, <1>5, <1>6 DEF PoolInv, TypeOK

\* The bkt of a page that is moved to another number.
LEMMA MovedType ==
  ASSUME PoolInv, NEW b \in Bkts, NEW q \in Pages
  PROVE  /\ Moved(b, q) \in Bkt /\ Moved(b, q).pgno = q
         /\ Moved(b, q).pinned = FALSE /\ Moved(b, q).owner = NoThread
         /\ Moved(b, q).wqh = bkt[b].wqh
<1>1. bkt[b] \in Bkt
  BY DEF PoolInv, TypeOK
<1>2. bkt[b].ref - 1 \in Int
  BY <1>1 DEF Bkt
<1>. QED BY <1>1, <1>2, Zenon DEF Moved, Bkt

\* The pool starts empty.
LEMMA PoolInvInit == Init => PoolInv
<1> SUFFICES ASSUME Init PROVE PoolInv
  OBVIOUS
<1>1. bkt \in [Bkts -> Bkt]
  BY FreeBktType DEF Init
<1>2. CleanPage \in Content
  BY PoolAssumption DEF CleanPage, Content
<1>3. \A v \in Values : [val |-> v, swapped |-> ForeignOrder] \in Content
  BY PoolAssumption DEF Content
<1>4. disk \in [Pages -> Content]
  BY <1>2, <1>3 DEF Init
<1>5. npages \in Nat
  BY PoolAssumption DEF Init, Lengths
<1>6. TypeOK
  <2>1. << >> \in Seq(Bkts)
    OBVIOUS
  <2>. QED BY <1>1, <1>4, <1>5, <2>1 DEF Init, TypeOK
<1>7. Cached = {}
  BY DEF Init, Cached, FreeBkt
<1>8. LruIsPool
  BY <1>7 DEF Init, LruIsPool, Range, IsInjective
<1>9. BusyCached
  BY DEF Init, BusyCached, FreeBkt
<1>. QED BY <1>6, <1>8, <1>9 DEF PoolInv

\* A page moved to another number.
LEMMA ChangePool ==
  ASSUME PoolInv, NEW t \in Threads, NEW b \in Bkts, NEW q \in Pages,
         Change(t, b, q)
  PROVE  PoolInv'
<1>1. CASE Abort
  BY <1>1, SameMembers
     DEF Abort, pool, sync, client, PoolInv, TypeOK, BusyCached, Cached
<1>2. CASE Release(t, b, FALSE)
  BY <1>2, ReleasePool
<1>3. CASE /\ bkt[b].pinned
           /\ bkt' = [bkt EXCEPT ![b] = Moved(b, q)]
           /\ lru' = Touch(b)
           /\ npages' = Max({npages, q + 1})
           /\ disk' = [disk EXCEPT ![bkt[b].pgno] = CleanPage]
           /\ holds' = [holds EXCEPT ![t][b] = @ - 1]
           /\ mod' = mod \ {b}
           /\ UNCHANGED <<curcache, status, sync>>
  <2>1. b \in Cached
    BY <1>3 DEF PoolInv, BusyCached
  <2>2. Moved(b, q) \in Bkt /\ Moved(b, q).pgno = q
    BY MovedType
  <2>3. q # NoPage /\ q \in Nat /\ LastPage \in Nat
    BY PoolAssumption DEF Pages, NoPage
  <2>4. /\ bkt' \in [Bkts -> Bkt]
        /\ \A d \in Bkts : bkt'[d].pgno = NoPage <=> bkt[d].pgno = NoPage
    BY <1>3, <2>1, <2>2, <2>3 DEF PoolInv, TypeOK, Cached
  <2>5. LruIsPool' /\ lru' \in Seq(Bkts)
    BY <1>3, <2>1, <2>4, SameMembers
  <2>6. npages' \in Nat
    <3>1. npages \in Nat
      BY DEF PoolInv, TypeOK
    <3>2. Max({npages, q + 1}) \in {npages, q + 1}
      <4>1. {npages, q + 1} \in SUBSET Nat /\ npages + q + 1 \in Nat
        BY <2>3, <3>1
      <4>2. \A x \in {npages, q + 1} : x <= npages + q + 1
        BY <2>3, <3>1
      <4>. QED BY <4>1, <4>2, MaxExists
    <3>. QED BY <1>3, <2>3, <3>1, <3>2
  <2>7. disk' \in [Pages -> Content]
    BY <1>3, PoolAssumption DEF PoolInv, TypeOK, CleanPage, Content
  <2>8. holds' \in [Threads -> [Bkts -> Int]] /\ mod' \in SUBSET Bkts
    BY <1>3 DEF PoolInv, TypeOK
  <2>9. BusyCached'
    <3>1. Cached' = Cached
      BY <2>4 DEF Cached
    <3>2. \A d \in Bkts \ {b} : bkt'[d] = bkt[d]
      BY <1>3 DEF PoolInv, TypeOK
    <3>. QED BY <2>1, <3>1, <3>2 DEF BusyCached, PoolInv
  <2>. QED BY <1>3, <2>4, <2>5, <2>6, <2>7, <2>8, <2>9
           DEF PoolInv, TypeOK, sync
<1>. QED BY <1>1, <1>2, <1>3 DEF Change

\* A page dropped from the cache.
LEMMA DeletePool ==
  ASSUME PoolInv, NEW t \in Threads, NEW b \in Bkts, Delete(t, b)
  PROVE  PoolInv'
<1>1. CASE ~bkt[b].pinned
  <2>1. Abort
    BY <1>1 DEF Delete
  <2>. QED BY <2>1, SameMembers
           DEF Abort, pool, sync, client, PoolInv, TypeOK, BusyCached, Cached
<1>2. CASE bkt[b].pinned
  <2> DEFINE D == IF bkt[b].dirty THEN {b} ELSE {}
             k == Pos(b)
             s == RemoveAt(lru, k)
  <2>1. b \in Cached
    BY <1>2 DEF PoolInv, BusyCached
  <2>2. /\ disk' = DiskAfter(disk, D) /\ npages' = Extent(npages, D)
        /\ bkt' = [bkt EXCEPT ![b] = FreeBkt]
        /\ lru' = RemoveFirst(lru, b)
        /\ curcache' = curcache - 1
        /\ holds' = [holds EXCEPT ![t][b] = 0]
        /\ mod' = mod \ {b}
        /\ UNCHANGED <<status, want, wake, sleeper>>
    BY <1>2 DEF Delete, sync
  <2>3. D \in SUBSET Cached /\ D \in SUBSET Bkts
    BY <2>1
  <2>4. disk' \in [Pages -> Content] /\ npages' \in Nat
    BY <2>2, <2>3, DiskAfterType, ExtentType DEF PoolInv, TypeOK
  <2>5. bkt' \in [Bkts -> Bkt]
    BY <2>2, FreeBktType DEF PoolInv, TypeOK
  <2>6. FreeBkt.pgno = NoPage /\ FreeBkt.pinned = FALSE /\ FreeBkt.wqh = << >>
    BY DEF FreeBkt
  <2>7. Cached' = Cached \ {b}
    BY <2>2, <2>6 DEF Cached, PoolInv, TypeOK
  <2>8. BusyCached'
    <3>1. \A d \in Bkts \ {b} : bkt'[d] = bkt[d]
      BY <2>2 DEF PoolInv, TypeOK
    <3>2. bkt'[b] = FreeBkt
      BY <2>2 DEF PoolInv, TypeOK
    <3>. QED BY <2>6, <2>7, <3>1, <3>2 DEF BusyCached, PoolInv
  <2>9. k \in 1 .. Len(lru) /\ lru[k] = b
    BY <2>1, PosType
  <2>10. /\ lru \in Seq(Bkts) /\ Len(lru) \in Nat /\ DOMAIN lru = 1 .. Len(lru)
         /\ IsInjective(lru) /\ curcache = Len(lru)
         /\ Range(lru) = Cached
    BY LenProperties DEF PoolInv, TypeOK, LruIsPool
  <2>11. lru' = s
    BY <2>2, <2>9, <2>10, RemoveFirstProperties
  <2>12. /\ s \in Seq(Bkts)
         /\ Len(s) = Len(lru) - 1
         /\ \A i \in 1 .. Len(lru) - 1 : s[i] = IF i < k THEN lru[i] ELSE lru[i + 1]
    BY <2>9, <2>10, RemoveAtProperties
  <2>13. DOMAIN s = 1 .. Len(lru) - 1
    BY <2>12, LenProperties
  <2> HIDE DEF s, k, D
  <2>14. IsInjective(s)
    <3>1. \A i, j \in 1 .. Len(lru) : lru[i] = lru[j] => i = j
      BY <2>10 DEF IsInjective
    <3>2. ASSUME NEW i \in 1 .. Len(lru) - 1, NEW j \in 1 .. Len(lru) - 1, s[i] = s[j]
          PROVE  i = j
      <4>1. i + 1 \in 1 .. Len(lru) /\ j + 1 \in 1 .. Len(lru)
             /\ i \in 1 .. Len(lru) /\ j \in 1 .. Len(lru)
        BY <2>10
      <4>. QED BY <2>9, <2>12, <3>1, <3>2, <4>1
    <3>. QED BY <2>13, <3>2 DEF IsInjective
  <2>15. Range(s) = Cached \ {b}
    <3>1. \A i \in 1 .. Len(lru) - 1 : s[i] \in Cached /\ s[i] # b
      <4> TAKE i \in 1 .. Len(lru) - 1
      <4>1. PICK j \in 1 .. Len(lru) : s[i] = lru[j] /\ j # k
        <5>1. CASE i < k
          BY <2>9, <2>10, <2>12, <5>1, SMTT(30)
        <5>2. CASE ~(i < k)
          <6>1. i + 1 \in 1 .. Len(lru) /\ i + 1 # k
            BY <2>9, <2>10, <5>2
          <6>. QED BY <2>12, <5>2, <6>1
        <5>. QED BY <5>1, <5>2
      <4>. QED BY <2>9, <2>10, <4>1 DEF IsInjective, Range
    <3>2. ASSUME NEW c \in Cached \ {b}
          PROVE  \E i \in 1 .. Len(lru) - 1 : s[i] = c
      <4>1. PICK j \in 1 .. Len(lru) : lru[j] = c
        BY <2>10 DEF Range
      <4>2. CASE j < k
        BY <2>9, <2>10, <2>12, <4>1, <4>2
      <4>3. CASE j > k
        <5>1. j - 1 \in 1 .. Len(lru) - 1 /\ ~(j - 1 < k) /\ (j - 1) + 1 = j
          BY <2>9, <2>10, <4>3
        <5>. QED BY <2>12, <4>1, <5>1
      <4>4. j # k
        BY <2>9, <4>1
      <4>. QED BY <2>9, <2>10, <4>2, <4>3, <4>4
    <3>3. Range(s) = {s[i] : i \in 1 .. Len(lru) - 1}
      BY <2>13 DEF Range
    <3>4. {s[i] : i \in 1 .. Len(lru) - 1} \subseteq Cached \ {b}
      BY <3>1
    <3>5. Cached \ {b} \subseteq {s[i] : i \in 1 .. Len(lru) - 1}
      BY <3>2
    <3>. QED BY <3>3, <3>4, <3>5
  <2>16. LruIsPool'
    BY <2>2, <2>7, <2>10, <2>11, <2>12, <2>14, <2>15 DEF LruIsPool
  <2>17. holds' \in [Threads -> [Bkts -> Int]] /\ mod' \in SUBSET Bkts
    BY <2>2 DEF PoolInv, TypeOK
  <2>18. curcache' \in Int
    BY <2>2, <2>10
  <2>. QED BY <2>2, <2>4, <2>5, <2>8, <2>11, <2>12, <2>16, <2>17, <2>18
           DEF PoolInv, TypeOK
<1>. QED BY <1>1, <1>2

\* Steps of a thread in get_page.
LEMMA GetPool ==
  ASSUME PoolInv, NEW t \in Threads, NEW p \in Pages, Get(t, p)
  PROVE  PoolInv'
<1>1. ASSUME NEW f \in Flags, GetHit(t, p, f)
      PROVE  PoolInv'
  <2>1. Find(p) \in Cached /\ Find(p) \in Bkts
    BY <1>1, FindType DEF GetHit, Cached
  <2>2. bkt[Find(p)].wqh \in Seq(Threads)
    BY <2>1 DEF PoolInv, TypeOK, Bkt
  <2>3. Claim(t, Find(p), f, bkt[Find(p)].wqh) /\ UNCHANGED <<want, wake>>
    BY <1>1 DEF GetHit
  <2>4. want' = want /\ wake' = wake
    BY <2>3
  <2>5. /\ want' \in [Threads -> Bkts \cup {NoBkt}]
        /\ wake' \in [Threads -> {"no", "set", "signalled"}]
    BY <2>4 DEF PoolInv, TypeOK
  <2>. QED BY <2>1, <2>2, <2>3, <2>5, ClaimPool
<1>2. ASSUME GetWait(t, p)
      PROVE  PoolInv'
  <2> DEFINE b == Find(p)
             q == Append(bkt[b].wqh, t)
  <2>1. b \in Cached /\ b \in Bkts
    BY <1>2, FindType DEF GetWait, Cached
  <2>2. bkt[b] \in Bkt /\ bkt[b].wqh \in Seq(Threads)
    BY <2>1 DEF PoolInv, TypeOK, Bkt
  <2>3. q \in Seq(Threads)
    BY <2>2, AppendProperties
  <2>4. bkt' = [bkt EXCEPT ![b] = [bkt[b] EXCEPT !.wqh = q]]
    BY <1>2 DEF GetWait
  <2>5. [bkt[b] EXCEPT !.wqh = q] \in Bkt /\ [bkt[b] EXCEPT !.wqh = q].pgno = bkt[b].pgno
    BY <2>2, <2>3, Zenon DEF Bkt
  <2>6. /\ bkt' \in [Bkts -> Bkt]
        /\ \A d \in Bkts : bkt'[d].pgno = bkt[d].pgno
        /\ \A d \in Bkts \ {b} : bkt'[d] = bkt[d]
    BY <2>1, <2>4, <2>5 DEF PoolInv, TypeOK
  <2>7. /\ want' = [want EXCEPT ![t] = b]
        /\ wake' = [wake EXCEPT ![t] = "no"]
        /\ UNCHANGED <<lru, curcache, npages, disk, status, sleeper, holds, mod>>
    BY <1>2 DEF GetWait, client
  <2> HIDE DEF b, q
  <2>8. LruIsPool' /\ lru' \in Seq(Bkts)
    BY <2>6, <2>7, SameMembers
  <2>9. BusyCached'
    <3>1. Cached' = Cached
      BY <2>6 DEF Cached
    <3>. QED BY <2>1, <2>6, <3>1 DEF BusyCached, PoolInv
  <2>. QED BY <2>1, <2>6, <2>7, <2>8, <2>9 DEF PoolInv, TypeOK
<1>3. ASSUME NEW f \in Flags, NEW create \in BOOLEAN, GetMiss(t, p, f, create)
      PROVE  PoolInv'
  <2>1. PICK r \in Rooms :
          Install(t, p, f, r, IF create /\ p >= npages THEN CleanPage
                              ELSE PgIn(RoomDisk(r)[p]), FALSE)
    BY <1>3 DEF GetMiss
  <2>2. CleanPage \in Content
    BY PoolAssumption DEF CleanPage, Content
  <2>3. PgIn(RoomDisk(r)[p]) \in Content
    BY RoomDiskType, FilterType
  <2>. QED BY <2>1, <2>2, <2>3, InstallPool
<1>. QED BY <1>1, <1>2, <1>3 DEF Get

\* A sleeping thread runs again.
LEMMA ResumePool ==
  ASSUME PoolInv, NEW t \in Threads, NEW f \in Flags, Resume(t, f)
  PROVE  PoolInv'
<1> DEFINE b == want[t]
<1>1. b \in Bkts
  BY DEF Resume, PoolInv, TypeOK
<1>2. CASE bkt[b].wqh # << >> /\ Head(bkt[b].wqh) = t
  <2>1. b \in Cached
    BY <1>1, <1>2 DEF PoolInv, BusyCached
  <2>2. Tail(bkt[b].wqh) \in Seq(Threads)
    BY <1>1, <1>2, HeadTailProperties DEF PoolInv, TypeOK, Bkt
  <2>3. /\ Claim(t, b, f, Tail(bkt[b].wqh))
        /\ want' = [want EXCEPT ![t] = NoBkt]
        /\ wake' = [wake EXCEPT ![t] = "no"]
    BY <1>2 DEF Resume
  <2>4. /\ want' \in [Threads -> Bkts \cup {NoBkt}]
        /\ wake' \in [Threads -> {"no", "set", "signalled"}]
    BY <2>3 DEF PoolInv, TypeOK
  <2>. QED BY <2>1, <2>2, <2>3, <2>4, ClaimPool
<1>3. CASE ~(bkt[b].wqh # << >> /\ Head(bkt[b].wqh) = t)
  <2>1. status' = "aborted" /\ UNCHANGED <<pool, disk, sync, client>>
    BY <1>3 DEF Resume
  <2>. QED BY <2>1, SameMembers
           DEF pool, sync, client, PoolInv, TypeOK, BusyCached, Cached
<1>. QED BY <1>2, <1>3

\* Steps that write pages back or change their content.
LEMMA ContentPool ==
  ASSUME PoolInv,
         bkt' \in [Bkts -> Bkt], npages' \in Nat, disk' \in [Pages -> Content],
         \A b \in Bkts : /\ bkt'[b].pgno = bkt[b].pgno
                         /\ bkt'[b].pinned = bkt[b].pinned
                         /\ bkt'[b].wqh = bkt[b].wqh,
         mod' \in SUBSET Bkts,
         UNCHANGED <<lru, curcache, status, want, wake, sleeper, holds>>
  PROVE  PoolInv'
<1>1. LruIsPool'
  BY SameMembers
<1>2. BusyCached'
  BY DEF BusyCached, PoolInv, Cached
<1>. QED BY <1>1, <1>2 DEF PoolInv, TypeOK

\* Every step keeps the lists of the pool.
LEMMA PoolInvNext == PoolInv /\ [Next]_vars => PoolInv'
<1> SUFFICES ASSUME PoolInv, [Next]_vars PROVE PoolInv'
  OBVIOUS
<1>1. ASSUME NEW t \in Threads, NEW p \in Pages, Get(t, p)
      PROVE  PoolInv'
  BY <1>1, GetPool
<1>2. ASSUME NEW t \in Threads, NEW f \in Flags, Resume(t, f)
      PROVE  PoolInv'
  BY <1>2, ResumePool
<1>3. ASSUME NEW t \in Threads, NEW p \in Pages, NewPage(t, p)
      PROVE  PoolInv'
  <2>1. CleanPage \in Content /\ "read" \in Flags
    BY PoolAssumption DEF CleanPage, Content, Flags
  <2>. QED BY <1>3, <2>1, InstallPool DEF NewPage
<1>4. ASSUME NEW t \in Threads, NEW b \in Bkts, NEW v \in Values, Modify(t, b, v)
      PROVE  PoolInv'
  <2> DEFINE c == [val |-> v, swapped |-> FALSE]
             n == [bkt[b] EXCEPT !.page = c]
  <2>1. bkt[b] \in Bkt /\ c \in Content
    BY DEF PoolInv, TypeOK, Content
  <2>2. n \in Bkt /\ n.pgno = bkt[b].pgno /\ n.pinned = bkt[b].pinned /\ n.wqh = bkt[b].wqh
    BY <2>1, Zenon DEF Bkt
  <2>3. bkt' = [bkt EXCEPT ![b] = n]
    BY <1>4 DEF Modify
  <2> HIDE DEF n
  <2>4. /\ bkt' \in [Bkts -> Bkt]
        /\ \A d \in Bkts : /\ bkt'[d].pgno = bkt[d].pgno
                           /\ bkt'[d].pinned = bkt[d].pinned
                           /\ bkt'[d].wqh = bkt[d].wqh
    BY <2>1, <2>2, <2>3 DEF PoolInv, TypeOK
  <2>5. /\ mod' \in SUBSET Bkts /\ npages' \in Nat /\ disk' \in [Pages -> Content]
        /\ UNCHANGED <<lru, curcache, status, want, wake, sleeper, holds>>
    BY <1>4 DEF Modify, sync, PoolInv, TypeOK
  <2>. QED BY <2>4, <2>5, ContentPool
<1>5. ASSUME NEW t \in Threads, NEW b \in Bkts, NEW dirty \in BOOLEAN, Put(t, b, dirty)
      PROVE  PoolInv'
  <2>1. CASE bkt[b].pinned
    BY <1>5, <2>1, ReleasePool DEF Put
  <2>2. CASE ~bkt[b].pinned
    BY <1>5, <2>2, SameMembers
       DEF Put, Abort, pool, sync, client, PoolInv, TypeOK, BusyCached, Cached
  <2>. QED BY <2>1, <2>2
<1>6. ASSUME NEW t \in Threads, Signal(t)
      PROVE  PoolInv'
  <2>1. Signalled(wake[sleeper[t]]) \in {"no", "set", "signalled"}
    BY <1>6 DEF Signal, Signalled, PoolInv, TypeOK
  <2>2. wake' \in [Threads -> {"no", "set", "signalled"}]
    BY <1>6, <2>1 DEF Signal, PoolInv, TypeOK
  <2>3. sleeper' \in [Threads -> Threads \cup {NoThread}]
    BY <1>6 DEF Signal, PoolInv, TypeOK
  <2>4. UNCHANGED <<bkt, lru, curcache, npages, disk, status, want, holds, mod>>
    BY <1>6 DEF Signal, pool, client
  <2>5. LruIsPool'
    BY <2>4, SameMembers DEF PoolInv, TypeOK
  <2>6. BusyCached'
    BY <2>4 DEF PoolInv, BusyCached, Cached
  <2>. QED BY <2>2, <2>3, <2>4, <2>5, <2>6 DEF PoolInv, TypeOK
<1>7. ASSUME NEW t \in Threads, NEW b \in Bkts, NEW q \in Pages, Change(t, b, q)
      PROVE  PoolInv'
  BY <1>7, ChangePool
<1>8. ASSUME NEW t \in Threads, NEW b \in Bkts, Delete(t, b)
      PROVE  PoolInv'
  BY <1>8, DeletePool
<1>9. ASSUME NEW t \in Threads, NEW b \in Bkts, DeleteFails(t, b)
      PROVE  PoolInv'
  <2>1. bkt' = BktAfter({}, {b}) /\ npages' = Extent(npages, {b})
    BY <1>9 DEF DeleteFails
  <2>2. npages' \in Nat
    BY <2>1, ExtentType DEF PoolInv, TypeOK
  <2>3. /\ disk' \in [Pages -> Content] /\ mod' \in SUBSET Bkts
        /\ UNCHANGED <<lru, curcache, status, want, wake, sleeper, holds>>
    BY <1>9 DEF DeleteFails, sync, client, PoolInv, TypeOK
  <2>. QED BY <2>1, <2>2, <2>3, BktAfterType, ContentPool
<1>10. ASSUME NEW t \in Threads, Sync(t)
       PROVE  PoolInv'
  <2>1. PICK o \in Flushes(FlushSet(0, {})) :
           Flush(o) /\ bkt' = BktAfter(o.wrote, o.tried)
    BY <1>10 DEF Sync
  <2>2. /\ o.wrote \in SUBSET Cached /\ o.tried \in SUBSET Bkts
    BY FlushesType, ListedAreCached DEF Cached
  <2>3. disk' \in [Pages -> Content] /\ npages' \in Nat
    BY <2>1, <2>2, DiskAfterType, ExtentType DEF Flush, PoolInv, TypeOK
  <2>4. /\ mod' \in SUBSET Bkts
        /\ UNCHANGED <<lru, curcache, status, want, wake, sleeper, holds>>
    BY <1>10 DEF Sync, sync, client, PoolInv, TypeOK
  <2>. QED BY <2>1, <2>3, <2>4, BktAfterType, ContentPool
<1>11. ASSUME NEW t \in Threads, Close(t)
       PROVE  PoolInv'
  <2>1. PICK o \in Flushes(FlushSet(0, {})) : Flush(o)
    BY <1>11 DEF Close
  <2>2. /\ o.wrote \in SUBSET Cached /\ o.tried \in SUBSET Bkts
    BY FlushesType, ListedAreCached DEF Cached
  <2>3. disk' \in [Pages -> Content] /\ npages' \in Nat
    BY <2>1, <2>2, DiskAfterType, ExtentType DEF Flush, PoolInv, TypeOK
  <2>4. bkt' = [b \in Bkts |-> FreeBkt] /\ lru' = << >> /\ curcache' = 0
    BY <1>11 DEF Close
  <2>5. bkt' \in [Bkts -> Bkt] /\ lru' \in Seq(Bkts)
    BY <2>4, FreeBktType
  <2>6. Cached' = {}
    BY <2>4 DEF Cached, FreeBkt
  <2>7. LruIsPool'
    BY <2>4, <2>6 DEF LruIsPool, Range, IsInjective
  <2>8. BusyCached'
    BY <2>4 DEF BusyCached, FreeBkt
  <2>9. /\ status' = "closed" /\ mod' = {}
        /\ holds' = [u \in Threads |-> [b \in Bkts |-> 0]]
        /\ want' = [u \in Threads |-> NoBkt]
        /\ wake' = [u \in Threads |-> "no"]
        /\ sleeper' = [u \in Threads |-> NoThread]
    BY <1>11 DEF Close
  <2>. QED BY <2>3, <2>4, <2>5, <2>7, <2>8, <2>9 DEF PoolInv, TypeOK
<1>12. ASSUME Open
       PROVE  PoolInv'
  <2>1. npages' \in Nat
    BY <1>12, PoolAssumption DEF Open, Lengths
  <2>2. LruIsPool'
    BY <1>12, SameMembers DEF Open, PoolInv, TypeOK
  <2>3. BusyCached'
    BY <1>12 DEF Open, PoolInv, BusyCached, Cached
  <2>. QED BY <1>12, <2>1, <2>2, <2>3 DEF Open, sync, client, PoolInv, TypeOK
<1>13. CASE UNCHANGED vars
  <2>1. LruIsPool'
    BY <1>13, SameMembers DEF vars, pool, PoolInv, TypeOK
  <2>. QED BY <1>13, <2>1
           DEF vars, pool, sync, client, PoolInv, TypeOK, BusyCached, Cached
<1>. QED BY <1>1, <1>2, <1>3, <1>4, <1>5, <1>6, <1>7, <1>8, <1>9, <1>10,
            <1>11, <1>12, <1>13 DEF Next

\* Every variable has its type and the LRU list is the list of the cached
\* pages, in every state the pool can reach, for all constants: whatever
\* clients do, nested claims, spurious wakeups and failing writes included.
THEOREM PoolListsCorrect == Spec => [](TypeOK /\ LruIsPool)
<1>1. Init => PoolInv
  BY PoolInvInit
<1>2. PoolInv /\ [Next]_vars => PoolInv'
  BY PoolInvNext
<1>3. PoolInv => TypeOK /\ LruIsPool
  BY DEF PoolInv
<1>. QED BY <1>1, <1>2, <1>3, PTL DEF Spec

-----------------------------------------------------------------------------
(***************************************************************************)
(* The latch.  A thread claims a page at most once at a time (MaxNest = 1).*)
(* Exclusive and NoLostWakeup follow from an invariant that says who pins  *)
(* a page, who waits for it and how far its first waiter has been woken.   *)
(***************************************************************************)
\* A thread holds what is pinned for it, once.
HoldsPin ==
  \A t \in Threads, b \in Bkts :
    /\ holds[t][b] \in {0, 1}
    /\ holds[t][b] = 1 <=> bkt[b].pinned /\ bkt[b].owner = t

OwnedPinned == \A b \in Bkts : bkt[b].owner # NoThread => bkt[b].pinned

\* A thread is in the queue it sleeps in, once.
Queued ==
  \A b \in Bkts :
    /\ \A i \in DOMAIN bkt[b].wqh : want[bkt[b].wqh[i]] = b
    /\ IsInjective(bkt[b].wqh)

\* A thread is woken when it is the first for a page that was given back.
WokenFirst ==
  \A t \in Threads :
    wake[t] # "no" =>
      /\ want[t] \in Bkts
      /\ ~bkt[want[t]].pinned
      /\ bkt[want[t]].wqh # << >>
      /\ Head(bkt[want[t]].wqh) = t

Busy(b) == bkt[b].pinned \/ bkt[b].wqh # << >>

\* A page in use is the one a lookup finds.
BusyLatest ==
  \A b \in Bkts : Busy(b) => \A c \in CachedAs(bkt[b].pgno) \ {b} : Pos(c) < Pos(b)

LatchInv ==
  /\ HoldsPin /\ OwnedPinned /\ Queued /\ WokenFirst /\ NoLostWakeup
  /\ BusyLatest /\ NoAbort

\* The place of the k-th element of a list without duplicates.
LEMMA PlaceOf ==
  ASSUME NEW S, NEW l \in Seq(S), IsInjective(l), NEW k \in 1 .. Len(l)
  PROVE  (CHOOSE i \in DOMAIN l : l[i] = l[k]) = k
<1>1. DOMAIN l = 1 .. Len(l)
  BY LenProperties
<1>. QED BY <1>1 DEF IsInjective

\* A touched bkt becomes the most recent; the others keep their order.
LEMMA TouchOrder ==
  ASSUME PoolInv, PoolInv', NEW b \in Bkts, lru' = Touch(b)
  PROVE  /\ \A c, d \in Cached \ {b} : Pos(c) < Pos(d) => Pos(c)' < Pos(d)'
         /\ \A c \in Cached \ {b} : Pos(c)' < Pos(b)'
<1>0. /\ lru \in Seq(Bkts) /\ lru' \in Seq(Bkts)
      /\ IsInjective(lru) /\ IsInjective(lru')
      /\ Len(lru) \in Nat /\ Len(lru') \in Nat
  BY LenProperties DEF PoolInv, TypeOK, LruIsPool
<1>1. \A i \in 1 .. Len(lru') : \A c : c = lru'[i] => Pos(c)' = i
  BY <1>0, PlaceOf DEF Pos
<1>2. CASE b \in Cached
  <2>1. /\ Len(lru') = Len(lru) /\ lru'[Len(lru)] = b
        /\ \A i \in 1 .. Len(lru) - 1 : lru'[i] = IF i < Pos(b) THEN lru[i] ELSE lru[i + 1]
    BY <1>2, TouchCached
  <2>2. Pos(b) \in 1 .. Len(lru) /\ lru[Pos(b)] = b
    BY <1>2, PosType
  <2>3. Pos(b)' = Len(lru)
    BY <1>0, <1>1, <2>1, <2>2
  <2>4. ASSUME NEW c \in Cached \ {b}
        PROVE  /\ Pos(c) \in 1 .. Len(lru) /\ Pos(c) # Pos(b)
               /\ Pos(c)' = IF Pos(c) < Pos(b) THEN Pos(c) ELSE Pos(c) - 1
    <3>1. Pos(c) \in 1 .. Len(lru) /\ lru[Pos(c)] = c
      BY PosType
    <3>2. Pos(c) # Pos(b)
      BY <2>2, <3>1
    <3>3. CASE Pos(c) < Pos(b)
      <4>1. Pos(c) \in 1 .. Len(lru) - 1 /\ Pos(c) \in 1 .. Len(lru')
        BY <1>0, <2>1, <2>2, <3>1, <3>3
      <4>2. lru'[Pos(c)] = c
        BY <2>1, <3>1, <3>3, <4>1
      <4>. QED BY <1>1, <3>1, <3>2, <3>3, <4>1, <4>2
    <3>4. CASE Pos(c) > Pos(b)
      <4>1. /\ Pos(c) - 1 \in 1 .. Len(lru) - 1 /\ Pos(c) - 1 \in 1 .. Len(lru')
            /\ ~(Pos(c) - 1 < Pos(b)) /\ (Pos(c) - 1) + 1 = Pos(c)
            /\ ~(Pos(c) < Pos(b))
        BY <1>0, <2>1, <2>2, <3>1, <3>4
      <4>2. lru'[Pos(c) - 1] = c
        BY <2>1, <3>1, <4>1
      <4>. QED BY <1>1, <3>1, <3>2, <4>1, <4>2
    <3>. QED BY <2>2, <3>1, <3>2, <3>3, <3>4
  <2>5. ASSUME NEW c \in Cached \ {b}, NEW d \in Cached \ {b}, Pos(c) < Pos(d)
        PROVE  Pos(c)' < Pos(d)'
    BY <1>0, <2>2, <2>4, <2>5
  <2>6. ASSUME NEW c \in Cached \ {b}
        PROVE  Pos(c)' < Pos(b)'
    BY <1>0, <2>2, <2>3, <2>4
  <2>. QED BY <2>5, <2>6
<1>3. CASE b \notin Cached
  <2>1. /\ Len(lru') = Len(lru) + 1 /\ lru'[Len(lru) + 1] = b
        /\ \A i \in 1 .. Len(lru) : lru'[i] = lru[i]
    BY <1>3, TouchNew
  <2>2. Pos(b)' = Len(lru) + 1
    BY <1>0, <1>1, <2>1
  <2>3. ASSUME NEW c \in Cached
        PROVE  Pos(c) \in 1 .. Len(lru) /\ Pos(c)' = Pos(c)
    <3>1. Pos(c) \in 1 .. Len(lru) /\ lru[Pos(c)] = c
      BY PosType
    <3>2. lru'[Pos(c)] = c /\ Pos(c) \in 1 .. Len(lru')
      BY <1>0, <2>1, <3>1
    <3>. QED BY <1>1, <3>1, <3>2
  <2>. QED BY <1>0, <2>2, <2>3
<1>. QED BY <1>2, <1>3

\* Steps that leave the latches alone.
LEMMA QuietLatch ==
  ASSUME PoolInv, PoolInv', LatchInv,
         \A b \in Bkts : /\ bkt'[b].pgno = bkt[b].pgno
                         /\ bkt'[b].pinned = bkt[b].pinned
                         /\ bkt'[b].owner = bkt[b].owner
                         /\ bkt'[b].wqh = bkt[b].wqh,
         UNCHANGED <<lru, want, wake, sleeper, holds>>,
         status' # "aborted"
  PROVE  LatchInv'
<1>1. HoldsPin' /\ OwnedPinned' /\ NoAbort'
  BY DEF LatchInv, HoldsPin, OwnedPinned, NoAbort
<1>2. Queued'
  BY DEF LatchInv, Queued
<1>3. WokenFirst'
  BY DEF LatchInv, WokenFirst
<1>4. NoLostWakeup'
  BY DEF LatchInv, NoLostWakeup
<1>5. BusyLatest'
  BY DEF LatchInv, BusyLatest, Busy, CachedAs, Pos
<1>. QED BY <1>1, <1>2, <1>3, <1>4, <1>5 DEF LatchInv

\* A page that is pinned for a thread that did not hold it.
LEMMA PinnedFor ==
  ASSUME PoolInv, PoolInv', LatchInv, NEW t \in Threads, NEW b \in Bkts,
         ~bkt[b].pinned,
         bkt'[b].pinned = TRUE, bkt'[b].owner = t,
         \A d \in Bkts \ {b} : /\ bkt'[d].pinned = bkt[d].pinned
                               /\ bkt'[d].owner = bkt[d].owner,
         holds' = [holds EXCEPT ![t][b] = @ + 1]
  PROVE  HoldsPin' /\ OwnedPinned'
<1>1. OwnedPinned'
  BY DEF LatchInv, OwnedPinned
<1>2. \A u \in Threads : holds[u][b] = 0
  BY DEF LatchInv, HoldsPin
<1>3. \A u \in Threads, d \in Bkts :
        holds'[u][d] = IF u = t /\ d = b THEN 1 ELSE holds[u][d]
  BY <1>2 DEF PoolInv, TypeOK
<1>4. HoldsPin'
  BY <1>2, <1>3 DEF LatchInv, HoldsPin
<1>. QED BY <1>1, <1>4

\* A bkt that is touched while no other bkt of its page is in use.
LEMMA TouchedLatest ==
  ASSUME PoolInv, PoolInv', LatchInv, NEW b \in Bkts, lru' = Touch(b),
         \A d \in Bkts \ {b} : /\ bkt'[d].pgno = bkt[d].pgno
                               /\ bkt'[d].pinned = bkt[d].pinned
                               /\ bkt'[d].wqh = bkt[d].wqh,
         \A d \in Bkts \ {b} : Busy(d) => bkt'[b].pgno # bkt[d].pgno
  PROVE  BusyLatest'
<1> SUFFICES ASSUME NEW d \in Bkts, Busy(d)', NEW c \in Bkts \ {d},
                    bkt'[c].pgno = bkt'[d].pgno
             PROVE  Pos(c)' < Pos(d)'
  BY DEF BusyLatest, CachedAs
<1>1. d \in Cached' /\ c \in Cached'
  BY DEF PoolInv, BusyCached, Busy, Cached
<1>2. CASE d = b
  <2>1. c \in Cached \ {b}
    BY <1>1, <1>2 DEF Cached
  <2>. QED BY <1>2, <2>1, TouchOrder
<1>3. CASE d # b
  <2>1. Busy(d)
    BY <1>3 DEF Busy
  <2>2. c # b
    BY <1>3, <2>1
  <2>3. c \in CachedAs(bkt[d].pgno) \ {d}
    BY <1>3, <2>2 DEF CachedAs
  <2>4. Pos(c) < Pos(d)
    BY <2>1, <2>3 DEF LatchInv, BusyLatest
  <2>5. c \in Cached \ {b} /\ d \in Cached \ {b}
    BY <1>1, <1>3, <2>2 DEF Cached
  <2>. QED BY <2>4, <2>5, TouchOrder
<1>. QED BY <1>2, <1>3

\* A page that is brought in: no one uses the bkt it is put in.
LEMMA InstallLatch ==
  ASSUME PoolInv, PoolInv', LatchInv, NEW t \in Threads, NEW p \in Pages,
         NEW f \in Flags, NEW r \in Rooms, NEW c \in Content,
         NEW changed \in BOOLEAN, Install(t, p, f, r, c, changed),
         \A b \in CachedAs(p) : Evictable(b)
  PROVE  LatchInv'
<1> DEFINE b == r.bp
<1>1. b \in Bkts /\ (b \in Cached => Evictable(b))
  BY RoomType
<1>2. ~bkt[b].pinned /\ bkt[b].wqh = << >>
  BY <1>1 DEF Evictable, PoolInv, BusyCached
<1>3. /\ bkt' = [BktAfter(r.wrote, r.tried) EXCEPT ![b] = Loaded(t, p, f, c)]
      /\ lru' = Touch(b)
      /\ holds' = [holds EXCEPT ![t][b] = @ + 1]
      /\ UNCHANGED <<status, want, wake, sleeper>>
  BY DEF Install, sync
<1>4. /\ bkt'[b] = Loaded(t, p, f, c)
      /\ \A d \in Bkts \ {b} : /\ bkt'[d].pgno = bkt[d].pgno
                               /\ bkt'[d].pinned = bkt[d].pinned
                               /\ bkt'[d].owner = bkt[d].owner
                               /\ bkt'[d].wqh = bkt[d].wqh
  BY <1>1, <1>3, BktAfterType
<1>5. /\ bkt'[b].pgno = p /\ bkt'[b].pinned = TRUE /\ bkt'[b].owner = t
      /\ bkt'[b].wqh = << >>
  BY <1>4 DEF Loaded
<1> HIDE DEF b
<1>6. HoldsPin' /\ OwnedPinned'
  BY <1>1, <1>2, <1>3, <1>4, <1>5, PinnedFor
<1>7. Queued'
  BY <1>1, <1>3, <1>4, <1>5 DEF LatchInv, Queued, IsInjective
<1>8. WokenFirst'
  BY <1>1, <1>2, <1>3, <1>4 DEF LatchInv, WokenFirst
<1>9. NoLostWakeup'
  BY <1>1, <1>3, <1>4, <1>5 DEF LatchInv, NoLostWakeup
<1>10. \A d \in Bkts \ {b} : Busy(d) => bkt'[b].pgno # bkt[d].pgno
  BY <1>5 DEF Busy, CachedAs, Evictable
<1>11. BusyLatest'
  BY <1>1, <1>3, <1>4, <1>10, TouchedLatest
<1>12. NoAbort'
  BY <1>3 DEF LatchInv, NoAbort
<1>. QED BY <1>6, <1>7, <1>8, <1>9, <1>11, <1>12 DEF LatchInv

\* A hit finds the page free: its owner may not claim it again.
LEMMA HitIsFree ==
  ASSUME MaxNest = 1, PoolInv, LatchInv,
         NEW t \in Threads, NEW p \in Pages, NEW f \in Flags, GetHit(t, p, f)
  PROVE  ~bkt[Find(p)].pinned /\ bkt[Find(p)].wqh = << >>
<1> DEFINE b == Find(p)
<1>1. b \in Bkts /\ bkt[b].pgno = p
  BY FindType DEF GetHit, CachedAs
<1>2. MayClaim(t, p) /\ Available(t, b)
  BY DEF GetHit
<1> HIDE DEF b
<1>3. bkt[b].owner # t
  <2> SUFFICES ASSUME bkt[b].owner = t PROVE FALSE
    OBVIOUS
  <2>1. bkt[b].pinned
    BY <1>1, PoolAssumption DEF LatchInv, OwnedPinned
  <2>2. holds[t][b] = 1
    BY <1>1, <2>1 DEF LatchInv, HoldsPin
  <2>3. b \in Held(t)
    BY <1>1, <2>2 DEF Held
  <2>. QED BY <1>1, <1>2, <2>2, <2>3 DEF MayClaim
<1>. QED BY <1>2, <1>3 DEF Available, b

\* A page that is free is claimed.
LEMMA GetHitLatch ==
  ASSUME MaxNest = 1, PoolInv, PoolInv', LatchInv,
         NEW t \in Threads, NEW p \in Pages, NEW f \in Flags, GetHit(t, p, f)
  PROVE  LatchInv'
<1> DEFINE b == Find(p)
<1>1. /\ b \in CachedAs(p) /\ b \in Cached /\ b \in Bkts /\ bkt[b].pgno = p
      /\ \A c \in CachedAs(p) \ {b} : Pos(c) < Pos(b)
  BY FindType DEF GetHit, Cached, CachedAs
<1>2. /\ Claim(t, b, f, bkt[b].wqh)
      /\ want' = want /\ wake' = wake
  BY DEF GetHit
<1>4. ~bkt[b].pinned /\ bkt[b].wqh = << >>
  BY HitIsFree
<1> HIDE DEF b
<1>5. bkt[b].wqh \in Seq(Threads)
  BY <1>1 DEF PoolInv, TypeOK, Bkt
<1>6. /\ \A d \in Bkts \ {b} : bkt'[d] = bkt[d]
      /\ bkt'[b].pgno = p /\ bkt'[b].pinned = TRUE
      /\ bkt'[b].owner = t /\ bkt'[b].wqh = << >>
  <2> DEFINE w == bkt[b].wqh
  <2>1. w \in Seq(Threads) /\ Claim(t, b, f, w)
    BY <1>2, <1>5
  <2> HIDE DEF w
  <2>2. /\ \A d \in Bkts \ {b} : bkt'[d] = bkt[d]
        /\ bkt'[b].pgno = bkt[b].pgno /\ bkt'[b].pinned = TRUE
        /\ bkt'[b].owner = t /\ bkt'[b].wqh = w
    BY <1>1, <2>1, ClaimBkt
  <2>. QED BY <1>1, <1>4, <2>2 DEF w
<1>7. /\ lru' = Touch(b)
      /\ holds' = [holds EXCEPT ![t][b] = @ + 1]
      /\ UNCHANGED <<status, sleeper>>
  BY <1>2 DEF Claim
<1>8. HoldsPin' /\ OwnedPinned'
  BY <1>1, <1>4, <1>6, <1>7, PinnedFor
<1>9. Queued'
  BY <1>1, <1>2, <1>6 DEF LatchInv, Queued, IsInjective
<1>10. WokenFirst'
  <2>1. \A u \in Threads : wake[u] # "no" => want[u] \in Bkts \ {b}
    BY <1>4 DEF LatchInv, WokenFirst
  <2>. QED BY <1>2, <1>6, <2>1 DEF LatchInv, WokenFirst
<1>11. NoLostWakeup'
  BY <1>1, <1>2, <1>6, <1>7 DEF LatchInv, NoLostWakeup
<1>12. \A d \in Bkts \ {b} : Busy(d) => bkt'[b].pgno # bkt[d].pgno
  <2> SUFFICES ASSUME NEW d \in Bkts \ {b}, Busy(d), bkt[d].pgno = p PROVE FALSE
    BY <1>6
  <2>1. Pos(d) < Pos(b)
    BY <1>1 DEF CachedAs
  <2>2. Pos(b) < Pos(d)
    BY <1>1 DEF LatchInv, BusyLatest, CachedAs
  <2>3. Pos(b) \in Int /\ Pos(d) \in Int
    <3>1. d \in Cached
      BY DEF PoolInv, BusyCached, Busy
    <3>. QED BY <1>1, <3>1, PosType
  <2>. QED BY <2>1, <2>2, <2>3
<1>13. BusyLatest'
  BY <1>1, <1>6, <1>7, <1>12, TouchedLatest
<1>14. NoAbort'
  BY <1>7 DEF LatchInv, NoAbort
<1>. QED BY <1>8, <1>9, <1>10, <1>11, <1>13, <1>14 DEF LatchInv

\* A thread joins the queue of a page that is in use.
LEMMA GetWaitLatch ==
  ASSUME PoolInv, PoolInv', LatchInv,
         NEW t \in Threads, NEW p \in Pages, GetWait(t, p)
  PROVE  LatchInv'
<1> DEFINE b == Find(p)
           w == bkt[b].wqh
<1>1. /\ b \in Bkts /\ bkt[b].pgno = p
      /\ \A c \in CachedAs(p) \ {b} : Pos(c) < Pos(b)
  BY FindType DEF GetWait, CachedAs
<1>2. bkt[b] \in Bkt /\ w \in Seq(Threads)
  BY <1>1 DEF PoolInv, TypeOK, Bkt
<1>3. /\ bkt' = [bkt EXCEPT ![b].wqh = Append(@, t)]
      /\ want' = [want EXCEPT ![t] = b]
      /\ wake' = [wake EXCEPT ![t] = "no"]
      /\ want[t] = NoBkt
      /\ bkt[b].pinned \/ w # << >>
      /\ UNCHANGED <<lru, status, sleeper, holds>>
  BY DEF GetWait, MayClaim, Idle, Available, client
<1>4. /\ \A d \in Bkts \ {b} : bkt'[d] = bkt[d]
      /\ bkt'[b].wqh = Append(w, t)
      /\ bkt'[b].pgno = p
      /\ bkt'[b].pinned = bkt[b].pinned
      /\ bkt'[b].owner = bkt[b].owner
  <2>1. bkt' = [bkt EXCEPT ![b] = [bkt[b] EXCEPT !.wqh = Append(w, t)]]
    BY <1>3
  <2> DEFINE n == [bkt[b] EXCEPT !.wqh = Append(w, t)]
  <2>2. /\ n.wqh = Append(w, t) /\ n.pgno = bkt[b].pgno
        /\ n.pinned = bkt[b].pinned /\ n.owner = bkt[b].owner
    BY <1>2, Zenon DEF Bkt
  <2> HIDE DEF n
  <2>3. bkt' = [bkt EXCEPT ![b] = n]
    BY <2>1 DEF n
  <2>. QED BY <1>1, <2>2, <2>3 DEF PoolInv, TypeOK
<1>5. wake[t] = "no"
  BY <1>3, PoolAssumption DEF LatchInv, WokenFirst
<1>6. wake' = wake
  BY <1>3, <1>5 DEF PoolInv, TypeOK
<1> HIDE DEF b, w
<1>7. /\ Append(w, t) # << >> /\ Len(Append(w, t)) = Len(w) + 1
      /\ \A i \in 1 .. Len(w) : Append(w, t)[i] = w[i]
      /\ Append(w, t)[Len(w) + 1] = t
      /\ DOMAIN w = 1 .. Len(w) /\ DOMAIN Append(w, t) = 1 .. Len(w) + 1
      /\ Len(w) \in Nat
  BY <1>2, AppendProperties, LenProperties
<1>8. w # << >> => Head(Append(w, t)) = Head(w)
  BY <1>2, HeadTailAppend
<1>9. \A i \in DOMAIN w : want[w[i]] = b /\ w[i] # t
  BY <1>1, <1>3, PoolAssumption DEF LatchInv, Queued, w
<1>10. \A d \in Bkts : \A i \in DOMAIN bkt[d].wqh :
          /\ bkt[d].wqh[i] \in Threads /\ want[bkt[d].wqh[i]] = d
          /\ bkt[d].wqh[i] # t
  <2> TAKE d \in Bkts
  <2> TAKE i \in DOMAIN bkt[d].wqh
  <2>1. bkt[d].wqh \in Seq(Threads)
    BY DEF PoolInv, TypeOK, Bkt
  <2>2. bkt[d].wqh[i] \in Threads
    BY <2>1, ElementOfSeq, LenProperties
  <2>. QED BY <1>3, <2>2, PoolAssumption DEF LatchInv, Queued
<1>11. HoldsPin' /\ OwnedPinned' /\ NoAbort'
  BY <1>1, <1>3, <1>4 DEF LatchInv, HoldsPin, OwnedPinned, NoAbort
<1>12. \A u \in Threads : want'[u] = IF u = t THEN b ELSE want[u]
  BY <1>3 DEF PoolInv, TypeOK
<1>13. Queued'
  <2>1. ASSUME NEW d \in Bkts \ {b}
        PROVE  /\ \A i \in DOMAIN bkt'[d].wqh : want'[bkt'[d].wqh[i]] = d
               /\ IsInjective(bkt'[d].wqh)
    BY <1>4, <1>10, <1>12 DEF LatchInv, Queued
  <2>2. /\ \A i \in DOMAIN bkt'[b].wqh : want'[bkt'[b].wqh[i]] = b
        /\ IsInjective(bkt'[b].wqh)
    <3>1. \A i \in 1 .. Len(w) : w[i] \in Threads /\ want'[w[i]] = b /\ w[i] # t
      BY <1>1, <1>7, <1>10, <1>12 DEF w
    <3>2. \A i \in 1 .. Len(w) + 1 : want'[Append(w, t)[i]] = b
      BY <1>7, <1>12, <3>1
    <3>3. \A i, j \in 1 .. Len(w) : w[i] = w[j] => i = j
      BY <1>1, <1>7 DEF LatchInv, Queued, IsInjective, w
    <3>4. \A i, j \in 1 .. Len(w) + 1 : Append(w, t)[i] = Append(w, t)[j] => i = j
      BY <1>7, <3>1, <3>3
    <3>. QED BY <1>4, <1>7, <3>2, <3>4 DEF IsInjective
  <2>. QED BY <2>1, <2>2 DEF Queued
<1>14. WokenFirst'
  <2>1. \A u \in Threads : wake[u] # "no" => u # t
    BY <1>5
  <2>. QED BY <1>1, <1>4, <1>6, <1>7, <1>8, <1>12, <2>1
           DEF LatchInv, WokenFirst, w
<1>15. NoLostWakeup'
  BY <1>1, <1>3, <1>4, <1>6, <1>8 DEF LatchInv, NoLostWakeup, w
<1>16. BusyLatest'
  <2>1. \A d \in Bkts : Busy(d)' => d = b \/ Busy(d)
    BY <1>4 DEF Busy
  <2>. QED BY <1>1, <1>3, <1>4, <2>1 DEF LatchInv, BusyLatest, CachedAs, Pos
<1>. QED BY <1>11, <1>13, <1>14, <1>15, <1>16 DEF LatchInv

\* The threads of a queue, and what is left when the first one leaves.
LEMMA QueueLeft ==
  ASSUME PoolInv, LatchInv, NEW b \in Bkts, bkt[b].wqh # << >>
  PROVE  /\ Head(bkt[b].wqh) \in Threads
         /\ want[Head(bkt[b].wqh)] = b
         /\ IsInjective(Tail(bkt[b].wqh))
         /\ \A i \in DOMAIN Tail(bkt[b].wqh) :
              /\ Tail(bkt[b].wqh)[i] # Head(bkt[b].wqh)
              /\ want[Tail(bkt[b].wqh)[i]] = b
<1> DEFINE w == bkt[b].wqh
<1>1. w \in Seq(Threads) /\ w # << >>
  BY DEF PoolInv, TypeOK, Bkt
<1>2. /\ DOMAIN w = 1 .. Len(w)
      /\ \A i \in DOMAIN w : want[w[i]] = b
      /\ \A i, j \in DOMAIN w : w[i] = w[j] => i = j
  BY <1>1, LenProperties DEF LatchInv, Queued, IsInjective
<1> HIDE DEF w
<1>3. /\ Head(w) \in Threads /\ Tail(w) \in Seq(Threads)
      /\ Len(Tail(w)) = Len(w) - 1
      /\ \A i \in 1 .. Len(Tail(w)) : Tail(w)[i] = w[i + 1]
  BY <1>1, HeadTailProperties
<1>4. Head(w) = w[1] /\ Len(w) \in Nat /\ Len(w) # 0
  BY <1>1, LenProperties, EmptySeq
<1>5. DOMAIN Tail(w) = 1 .. Len(w) - 1
  BY <1>3, LenProperties
<1>6. \A i \in 1 .. Len(w) - 1 : i + 1 \in DOMAIN w /\ i + 1 # 1
  BY <1>2, <1>4
<1>7. 1 \in DOMAIN w
  BY <1>2, <1>4
<1>8. IsInjective(Tail(w))
  BY <1>2, <1>3, <1>5, <1>6 DEF IsInjective
<1>9. \A i \in DOMAIN Tail(w) : Tail(w)[i] # Head(w) /\ want[Tail(w)[i]] = b
  BY <1>2, <1>3, <1>4, <1>5, <1>6, <1>7
<1>. QED BY <1>2, <1>3, <1>4, <1>7, <1>8, <1>9 DEF w

\* The members of a queue are threads that sleep for its page.
LEMMA QueueMembers ==
  ASSUME PoolInv, LatchInv, NEW b \in Bkts, NEW i \in DOMAIN bkt[b].wqh
  PROVE  bkt[b].wqh[i] \in Threads /\ want[bkt[b].wqh[i]] = b
<1>1. bkt[b].wqh \in Seq(Threads)
  BY DEF PoolInv, TypeOK, Bkt
<1>2. bkt[b].wqh[i] \in Threads
  BY <1>1, ElementOfSeq, LenProperties
<1>. QED BY <1>2 DEF LatchInv, Queued

\* The first waiter gets the page.
LEMMA ResumeLatch ==
  ASSUME PoolInv, PoolInv', LatchInv,
         NEW t \in Threads, NEW f \in Flags, Resume(t, f)
  PROVE  LatchInv'
<1> DEFINE b == want[t]
           w == bkt[b].wqh
<1>1. wake[t] # "no"
  BY DEF Resume, Woken
<1>2. b \in Bkts /\ ~bkt[b].pinned /\ w # << >> /\ Head(w) = t
  BY <1>1 DEF LatchInv, WokenFirst
<1>3. /\ Claim(t, b, f, Tail(w))
      /\ want' = [want EXCEPT ![t] = NoBkt]
      /\ wake' = [wake EXCEPT ![t] = "no"]
  BY <1>2 DEF Resume
<1>4. w \in Seq(Threads) /\ Tail(w) \in Seq(Threads)
  BY <1>2, HeadTailProperties DEF PoolInv, TypeOK, Bkt
<1>5. /\ IsInjective(Tail(w))
      /\ \A i \in DOMAIN Tail(w) : Tail(w)[i] # t /\ want[Tail(w)[i]] = b
  BY <1>2, QueueLeft
<1>6. \A i \in DOMAIN Tail(w) : Tail(w)[i] \in Threads
  BY <1>4, ElementOfSeq, LenProperties
<1> HIDE DEF b, w
<1>7. /\ \A d \in Bkts \ {b} : bkt'[d] = bkt[d]
      /\ bkt'[b].pgno = bkt[b].pgno /\ bkt'[b].pinned = TRUE
      /\ bkt'[b].owner = t /\ bkt'[b].wqh = Tail(w)
  <2> DEFINE q == Tail(w)
  <2>1. q \in Seq(Threads) /\ Claim(t, b, f, q)
    BY <1>3, <1>4
  <2> HIDE DEF q
  <2>2. /\ \A d \in Bkts \ {b} : bkt'[d] = bkt[d]
        /\ bkt'[b].pgno = bkt[b].pgno /\ bkt'[b].pinned = TRUE
        /\ bkt'[b].owner = t /\ bkt'[b].wqh = q
    BY <1>2, <2>1, ClaimBkt, ZenonT(40)
  <2>. QED BY <2>2 DEF q
<1>8. /\ lru' = Touch(b)
      /\ holds' = [holds EXCEPT ![t][b] = @ + 1]
      /\ UNCHANGED <<status, sleeper>>
  BY <1>3 DEF Claim
<1>9. /\ \A u \in Threads : want'[u] = IF u = t THEN NoBkt ELSE want[u]
      /\ \A u \in Threads : wake'[u] = IF u = t THEN "no" ELSE wake[u]
      /\ want[t] = b
  BY <1>3 DEF PoolInv, TypeOK, b
<1>10. HoldsPin' /\ OwnedPinned'
  BY <1>2, <1>7, <1>8, PinnedFor
<1>11. Queued'
  <2>1. ASSUME NEW d \in Bkts \ {b}
        PROVE  /\ \A i \in DOMAIN bkt'[d].wqh : want'[bkt'[d].wqh[i]] = d
               /\ IsInjective(bkt'[d].wqh)
    <3>1. \A i \in DOMAIN bkt[d].wqh : bkt[d].wqh[i] \in Threads /\ want[bkt[d].wqh[i]] = d
      BY QueueMembers
    <3>2. IsInjective(bkt[d].wqh)
      BY DEF LatchInv, Queued
    <3>. QED BY <1>7, <1>9, <3>1, <3>2
  <2>2. /\ \A i \in DOMAIN bkt'[b].wqh : want'[bkt'[b].wqh[i]] = b
        /\ IsInjective(bkt'[b].wqh)
    BY <1>5, <1>6, <1>7, <1>9
  <2>. QED BY <2>1, <2>2 DEF Queued
<1>12. WokenFirst'
  <2> SUFFICES ASSUME NEW u \in Threads, wake'[u] # "no"
               PROVE  /\ want'[u] \in Bkts
                      /\ ~bkt'[want'[u]].pinned
                      /\ bkt'[want'[u]].wqh # << >>
                      /\ Head(bkt'[want'[u]].wqh) = u
    BY DEF WokenFirst
  <2>1. u # t /\ wake[u] # "no" /\ want'[u] = want[u]
    BY <1>9
  <2>2. /\ want[u] \in Bkts /\ ~bkt[want[u]].pinned
        /\ bkt[want[u]].wqh # << >> /\ Head(bkt[want[u]].wqh) = u
    BY <2>1 DEF LatchInv, WokenFirst
  <2>3. want[u] # b
    BY <1>2, <2>1, <2>2 DEF w
  <2>. QED BY <1>7, <2>1, <2>2, <2>3
<1>13. NoLostWakeup'
  <2> SUFFICES ASSUME NEW d \in Bkts, bkt'[d].wqh # << >>, ~bkt'[d].pinned
               PROVE  LET h == Head(bkt'[d].wqh)
                      IN  \/ wake'[h] = "signalled"
                          \/ wake'[h] = "set" /\ \E u \in Threads : sleeper'[u] = h
    BY DEF NoLostWakeup
  <2>1. d # b /\ bkt'[d] = bkt[d]
    BY <1>7
  <2>2. Head(bkt[d].wqh) \in Threads /\ want[Head(bkt[d].wqh)] = d
    BY <2>1, QueueLeft
  <2>3. Head(bkt[d].wqh) # t
    BY <1>9, <2>1, <2>2
  <2>. QED BY <1>8, <1>9, <2>1, <2>2, <2>3 DEF LatchInv, NoLostWakeup
<1>14. \A d \in Bkts \ {b} : Busy(d) => bkt'[b].pgno # bkt[d].pgno
  <2> SUFFICES ASSUME NEW d \in Bkts \ {b}, Busy(d), bkt[d].pgno = bkt[b].pgno
               PROVE  FALSE
    BY <1>7
  <2>1. Busy(b)
    BY <1>2 DEF Busy, w
  <2>2. Pos(d) < Pos(b) /\ Pos(b) < Pos(d)
    BY <1>2, <2>1 DEF LatchInv, BusyLatest, CachedAs
  <2>3. Pos(b) \in Int /\ Pos(d) \in Int
    <3>1. d \in Cached /\ b \in Cached
      BY <1>2, <2>1 DEF PoolInv, BusyCached, Busy
    <3>. QED BY <3>1, PosType
  <2>. QED BY <2>2, <2>3
<1>15. BusyLatest'
  BY <1>2, <1>7, <1>8, <1>14, TouchedLatest
<1>16. NoAbort'
  BY <1>8 DEF LatchInv, NoAbort
<1>. QED BY <1>10, <1>11, <1>12, <1>13, <1>15, <1>16 DEF LatchInv

\* The holder of a page has it pinned.
LEMMA HeldPinned ==
  ASSUME PoolInv, LatchInv, NEW t \in Threads, NEW b \in Held(t)
  PROVE  /\ b \in Bkts /\ bkt[b].pinned /\ bkt[b].owner = t /\ holds[t][b] = 1
         /\ b \in Cached
<1>1. b \in Bkts /\ holds[t][b] = 1
  BY DEF Held, LatchInv, HoldsPin
<1>2. bkt[b].pinned /\ bkt[b].owner = t
  BY <1>1 DEF LatchInv, HoldsPin
<1>. QED BY <1>1, <1>2 DEF PoolInv, BusyCached

\* A page no longer pinned for its holder.
LEMMA UnpinnedFor ==
  ASSUME PoolInv, PoolInv', LatchInv, NEW t \in Threads, NEW b \in Held(t),
         bkt'[b].pinned = FALSE, bkt'[b].owner = NoThread,
         \A d \in Bkts \ {b} : /\ bkt'[d].pinned = bkt[d].pinned
                               /\ bkt'[d].owner = bkt[d].owner,
         \A u \in Threads, d \in Bkts :
           holds'[u][d] = IF u = t /\ d = b THEN 0 ELSE holds[u][d]
  PROVE  HoldsPin' /\ OwnedPinned'
<1>1. b \in Bkts /\ bkt[b].pinned /\ bkt[b].owner = t /\ holds[t][b] = 1
  BY HeldPinned
<1>2. OwnedPinned'
  BY <1>1 DEF LatchInv, OwnedPinned
<1>3. \A u \in Threads \ {t} : holds[u][b] = 0
  BY <1>1 DEF LatchInv, HoldsPin
<1>4. HoldsPin'
  BY <1>1, <1>3 DEF LatchInv, HoldsPin
<1>. QED BY <1>2, <1>4

\* A page is given back and its first waiter is chosen.
LEMMA ReleaseLatch ==
  ASSUME PoolInv, PoolInv', LatchInv, NEW t \in Threads, NEW b \in Held(t),
         NEW dirty \in BOOLEAN, Release(t, b, dirty), sleeper[t] = NoThread
  PROVE  LatchInv'
<1>1. b \in Bkts /\ bkt[b].pinned /\ bkt[b].owner = t /\ holds[t][b] = 1
  BY HeldPinned
<1>2. /\ \A d \in Bkts \ {b} : bkt'[d] = bkt[d]
      /\ bkt'[b].pgno = bkt[b].pgno /\ bkt'[b].pinned = FALSE
      /\ bkt'[b].owner = NoThread /\ bkt'[b].wqh = bkt[b].wqh
  BY <1>1, ReleaseBkt
<1>3. /\ holds' = [holds EXCEPT ![t][b] = @ - 1]
      /\ UNCHANGED <<lru, status, want>>
  BY DEF Release, HandOver
<1>4. \A u \in Threads, d \in Bkts :
        holds'[u][d] = IF u = t /\ d = b THEN 0 ELSE holds[u][d]
  BY <1>1, <1>3 DEF PoolInv, TypeOK
<1>5. HoldsPin' /\ OwnedPinned'
  BY <1>2, <1>4, UnpinnedFor
<1>6. \A d \in Bkts : bkt'[d].wqh = bkt[d].wqh /\ bkt'[d].pgno = bkt[d].pgno
  BY <1>2
<1>7. Queued'
  BY <1>3, <1>6 DEF LatchInv, Queued
<1>8. BusyLatest'
  <2>1. \A d \in Bkts : Busy(d)' => Busy(d)
    BY <1>1, <1>2 DEF Busy
  <2>. QED BY <1>3, <1>6, <2>1 DEF LatchInv, BusyLatest, CachedAs, Pos
<1>9. NoAbort'
  BY <1>3 DEF LatchInv, NoAbort
<1>10. CASE bkt[b].wqh = << >>
  <2>1. wake' = wake /\ sleeper' = sleeper
    BY <1>10 DEF Release, HandOver
  <2>2. \A u \in Threads : wake[u] # "no" => want[u] \in Bkts \ {b}
    BY <1>1 DEF LatchInv, WokenFirst
  <2>3. WokenFirst'
    BY <1>2, <1>3, <2>1, <2>2 DEF LatchInv, WokenFirst
  <2>4. NoLostWakeup'
    BY <1>2, <1>10, <2>1 DEF LatchInv, NoLostWakeup
  <2>. QED BY <1>5, <1>7, <1>8, <1>9, <2>3, <2>4 DEF LatchInv
<1>11. CASE bkt[b].wqh # << >>
  <2> DEFINE h == Head(bkt[b].wqh)
  <2>1. wake' = [wake EXCEPT ![h] = "set"] /\ sleeper' = [sleeper EXCEPT ![t] = h]
    BY <1>11 DEF Release, HandOver
  <2>2. h \in Threads /\ want[h] = b
    BY <1>1, <1>11, QueueLeft
  <2> HIDE DEF h
  <2>3. /\ \A u \in Threads : wake'[u] = IF u = h THEN "set" ELSE wake[u]
        /\ \A u \in Threads : sleeper'[u] = IF u = t THEN h ELSE sleeper[u]
    BY <2>1, <2>2 DEF PoolInv, TypeOK
  <2>4. WokenFirst'
    <3> SUFFICES ASSUME NEW u \in Threads, wake'[u] # "no"
                 PROVE  /\ want'[u] \in Bkts
                        /\ ~bkt'[want'[u]].pinned
                        /\ bkt'[want'[u]].wqh # << >>
                        /\ Head(bkt'[want'[u]].wqh) = u
      BY DEF WokenFirst
    <3>1. CASE u = h
      BY <1>1, <1>2, <1>3, <1>11, <2>2, <3>1 DEF h
    <3>2. CASE u # h
      <4>1. wake[u] # "no"
        BY <2>3, <3>2
      <4>2. want[u] \in Bkts \ {b}
        BY <1>1, <4>1 DEF LatchInv, WokenFirst
      <4>. QED BY <1>2, <1>3, <4>1, <4>2 DEF LatchInv, WokenFirst
    <3>. QED BY <3>1, <3>2
  <2>5. NoLostWakeup'
    <3> SUFFICES ASSUME NEW d \in Bkts, bkt'[d].wqh # << >>, ~bkt'[d].pinned
                 PROVE  LET g == Head(bkt'[d].wqh)
                        IN  \/ wake'[g] = "signalled"
                            \/ wake'[g] = "set" /\ \E u \in Threads : sleeper'[u] = g
      BY DEF NoLostWakeup
    <3>1. CASE d = b
      <4>1. Head(bkt'[d].wqh) = h
        BY <1>2, <3>1 DEF h
      <4>2. wake'[h] = "set" /\ sleeper'[t] = h
        BY <2>2, <2>3
      <4>. QED BY <4>1, <4>2
    <3>2. CASE d # b
      <4>1. bkt'[d] = bkt[d]
        BY <1>2, <3>2
      <4> DEFINE g == Head(bkt[d].wqh)
      <4>2. g \in Threads /\ want[g] = d
        BY <4>1, QueueLeft
      <4>3. \/ wake[g] = "signalled"
            \/ wake[g] = "set" /\ \E u \in Threads : sleeper[u] = g
        BY <4>1 DEF LatchInv, NoLostWakeup
      <4> HIDE DEF g
      <4>4. g # h /\ g # NoThread
        BY <2>2, <3>2, <4>2, PoolAssumption
      <4>5. wake'[g] = wake[g]
        BY <2>3, <4>2, <4>4
      <4>6. ASSUME NEW u \in Threads, sleeper[u] = g
            PROVE  sleeper'[u] = g
        BY <2>3, <4>4, <4>6
      <4>7. \/ wake'[g] = "signalled"
            \/ wake'[g] = "set" /\ \E u \in Threads : sleeper'[u] = g
        BY <4>3, <4>5, <4>6
      <4>. QED BY <4>1, <4>7 DEF g
    <3>. QED BY <3>1, <3>2
  <2>. QED BY <1>5, <1>7, <1>8, <1>9, <2>4, <2>5 DEF LatchInv
<1>. QED BY <1>10, <1>11

\* The chosen waiter is signalled.
LEMMA SignalLatch ==
  ASSUME PoolInv, PoolInv', LatchInv, NEW t \in Threads, Signal(t)
  PROVE  LatchInv'
<1> DEFINE h == sleeper[t]
<1>1. h \in Threads
  BY DEF Signal, PoolInv, TypeOK
<1>2. /\ wake' = [wake EXCEPT ![h] = Signalled(@)]
      /\ sleeper' = [sleeper EXCEPT ![t] = NoThread]
      /\ UNCHANGED <<bkt, lru, status, want, holds>>
  BY DEF Signal, pool, client
<1> HIDE DEF h
<1>3. /\ wake'[h] = Signalled(wake[h])
      /\ \A u \in Threads \ {h} : wake'[u] = wake[u]
      /\ \A u \in Threads \ {t} : sleeper'[u] = sleeper[u]
  BY <1>1, <1>2 DEF PoolInv, TypeOK
<1>4. HoldsPin' /\ OwnedPinned' /\ Queued' /\ NoAbort'
  BY <1>2 DEF LatchInv, HoldsPin, OwnedPinned, Queued, NoAbort
<1>5. BusyLatest'
  BY <1>2 DEF LatchInv, BusyLatest, Busy, CachedAs, Pos
<1>6. WokenFirst'
  BY <1>1, <1>2, <1>3 DEF LatchInv, WokenFirst, Signalled
<1>7. NoLostWakeup'
  <2> SUFFICES ASSUME NEW d \in Bkts, bkt[d].wqh # << >>, ~bkt[d].pinned
               PROVE  LET g == Head(bkt[d].wqh)
                      IN  \/ wake'[g] = "signalled"
                          \/ wake'[g] = "set" /\ \E u \in Threads : sleeper'[u] = g
    BY <1>2 DEF NoLostWakeup
  <2> DEFINE g == Head(bkt[d].wqh)
  <2>1. g \in Threads
    BY QueueLeft
  <2>2. \/ wake[g] = "signalled"
        \/ wake[g] = "set" /\ \E u \in Threads : sleeper[u] = g
    BY DEF LatchInv, NoLostWakeup
  <2> HIDE DEF g
  <2>3. CASE g = h
    BY <1>3, <2>2, <2>3 DEF Signalled, g
  <2>4. CASE g # h
    <3>1. wake'[g] = wake[g]
      BY <1>3, <2>1, <2>4
    <3>2. ASSUME NEW u \in Threads, sleeper[u] = g
          PROVE  sleeper'[u] = g
      BY <1>3, <2>4, <3>2 DEF h
    <3>. QED BY <2>2, <3>1, <3>2 DEF g
  <2>. QED BY <2>3, <2>4 DEF g
<1>. QED BY <1>4, <1>5, <1>6, <1>7 DEF LatchInv

\* A page moves to a number nobody uses, or is given back.
LEMMA ChangeLatch ==
  ASSUME PoolInv, PoolInv', LatchInv, NEW t \in Threads, NEW b \in Bkts,
         NEW q \in Pages, Change(t, b, q)
  PROVE  LatchInv'
<1>1. b \in Held(t) /\ sleeper[t] = NoThread /\ CachedAs(q) = {}
  BY DEF Change, Idle
<1>2. bkt[b].pinned /\ bkt[b].owner = t /\ holds[t][b] = 1 /\ b \in Cached
  BY <1>1, HeldPinned
<1>3. CASE ~Movable(b)
  BY <1>1, <1>2, <1>3, ReleaseLatch DEF Change
<1>4. CASE Movable(b)
  <2>1. /\ bkt' = [bkt EXCEPT ![b] = Moved(b, q)]
        /\ lru' = Touch(b)
        /\ holds' = [holds EXCEPT ![t][b] = @ - 1]
        /\ UNCHANGED <<status, want, wake, sleeper>>
    BY <1>2, <1>4 DEF Change, sync
  <2>2. bkt[b].wqh = << >>
    BY <1>4 DEF Movable
  <2>3. /\ \A d \in Bkts \ {b} : bkt'[d] = bkt[d]
        /\ bkt'[b].pgno = q /\ bkt'[b].pinned = FALSE
        /\ bkt'[b].owner = NoThread /\ bkt'[b].wqh = << >>
    BY <2>1, <2>2, MovedType, ZenonT(40) DEF PoolInv, TypeOK
  <2>4. \A u \in Threads, d \in Bkts :
          holds'[u][d] = IF u = t /\ d = b THEN 0 ELSE holds[u][d]
    BY <1>2, <2>1 DEF PoolInv, TypeOK
  <2>5. HoldsPin' /\ OwnedPinned'
    BY <1>1, <2>3, <2>4, UnpinnedFor
  <2>6. Queued'
    BY <2>1, <2>3 DEF LatchInv, Queued, IsInjective
  <2>7. WokenFirst'
    <3>1. \A u \in Threads : wake[u] # "no" => want[u] \in Bkts \ {b}
      BY <1>2 DEF LatchInv, WokenFirst
    <3>. QED BY <2>1, <2>3, <3>1 DEF LatchInv, WokenFirst
  <2>8. NoLostWakeup'
    <3>1. \A d \in Bkts : bkt'[d].wqh # << >> => bkt'[d] = bkt[d]
      BY <2>3
    <3>2. wake' = wake /\ sleeper' = sleeper
      BY <2>1
    <3>. QED BY <3>1, <3>2 DEF LatchInv, NoLostWakeup
  <2>9. \A d \in Bkts \ {b} : Busy(d) => bkt'[b].pgno # bkt[d].pgno
    BY <1>1, <2>3 DEF CachedAs
  <2>10. BusyLatest'
    BY <2>1, <2>3, <2>9, TouchedLatest
  <2>11. NoAbort'
    BY <2>1 DEF LatchInv, NoAbort
  <2>. QED BY <2>5, <2>6, <2>7, <2>8, <2>10, <2>11 DEF LatchInv
<1>. QED BY <1>3, <1>4

\* The bkts that stay keep their order when one is taken off the list.
LEMMA RemoveOrder ==
  ASSUME PoolInv, PoolInv', NEW b \in Cached, lru' = RemoveFirst(lru, b)
  PROVE  \A c, d \in Cached \ {b} : Pos(c) < Pos(d) => Pos(c)' < Pos(d)'
<1> DEFINE k == Pos(b)
<1>0. /\ lru \in Seq(Bkts) /\ lru' \in Seq(Bkts)
      /\ IsInjective(lru) /\ IsInjective(lru')
      /\ Len(lru) \in Nat /\ Len(lru') \in Nat
  BY LenProperties DEF PoolInv, TypeOK, LruIsPool
<1>1. \A i \in 1 .. Len(lru') : \A c : c = lru'[i] => Pos(c)' = i
  BY <1>0, PlaceOf DEF Pos
<1>2. k \in 1 .. Len(lru) /\ lru[k] = b
  BY PosType
<1>3. RemoveFirst(lru, b) = RemoveAt(lru, k)
  BY <1>0, <1>2, RemoveFirstProperties
<1> HIDE DEF k
<1>4. /\ Len(lru') = Len(lru) - 1
      /\ \A i \in 1 .. Len(lru) - 1 : lru'[i] = IF i < k THEN lru[i] ELSE lru[i + 1]
  BY <1>0, <1>2, <1>3, RemoveAtProperties
<1>5. ASSUME NEW c \in Cached \ {b}
      PROVE  /\ Pos(c) \in 1 .. Len(lru) /\ Pos(c) # k
             /\ Pos(c)' = IF Pos(c) < k THEN Pos(c) ELSE Pos(c) - 1
  <2>1. Pos(c) \in 1 .. Len(lru) /\ lru[Pos(c)] = c
    BY PosType
  <2>2. Pos(c) # k
    BY <1>2, <2>1
  <2>3. CASE Pos(c) < k
    <3>1. Pos(c) \in 1 .. Len(lru) - 1
      BY <1>0, <1>2, <2>1, <2>3
    <3>2. lru'[Pos(c)] = c
      BY <1>4, <2>1, <2>3, <3>1
    <3>. QED BY <1>1, <1>4, <2>1, <2>2, <2>3, <3>1, <3>2
  <2>4. CASE Pos(c) > k
    <3>1. /\ Pos(c) - 1 \in 1 .. Len(lru) - 1
          /\ ~(Pos(c) - 1 < k) /\ (Pos(c) - 1) + 1 = Pos(c) /\ ~(Pos(c) < k)
      BY <1>0, <1>2, <2>1, <2>4
    <3>2. lru'[Pos(c) - 1] = c
      BY <1>4, <2>1, <3>1
    <3>. QED BY <1>1, <1>4, <2>1, <2>2, <3>1, <3>2
  <2>. QED BY <1>2, <2>1, <2>2, <2>3, <2>4
<1>. QED BY <1>0, <1>2, <1>5

\* A page nobody else refers to is dropped.
LEMMA DeleteLatch ==
  ASSUME PoolInv, PoolInv', LatchInv, NEW t \in Threads, NEW b \in Bkts,
         Delete(t, b)
  PROVE  LatchInv'
<1>1. b \in Held(t)
  BY DEF Delete
<1>2. bkt[b].pinned /\ bkt[b].owner = t /\ holds[t][b] = 1 /\ b \in Cached
  BY <1>1, HeldPinned
<1>3. /\ bkt' = [bkt EXCEPT ![b] = FreeBkt]
      /\ lru' = RemoveFirst(lru, b)
      /\ holds' = [holds EXCEPT ![t][b] = 0]
      /\ UNCHANGED <<status, want, wake, sleeper>>
  BY <1>2 DEF Delete, sync
<1>4. /\ \A d \in Bkts \ {b} : bkt'[d] = bkt[d]
      /\ bkt'[b].pgno = NoPage /\ bkt'[b].pinned = FALSE
      /\ bkt'[b].owner = NoThread /\ bkt'[b].wqh = << >>
  BY <1>3 DEF PoolInv, TypeOK, FreeBkt
<1>5. \A u \in Threads, d \in Bkts :
        holds'[u][d] = IF u = t /\ d = b THEN 0 ELSE holds[u][d]
  BY <1>3 DEF PoolInv, TypeOK
<1>6. HoldsPin' /\ OwnedPinned'
  BY <1>1, <1>4, <1>5, UnpinnedFor
<1>7. Queued'
  BY <1>3, <1>4 DEF LatchInv, Queued, IsInjective
<1>8. WokenFirst'
  <2>1. \A u \in Threads : wake[u] # "no" => want[u] \in Bkts \ {b}
    BY <1>2 DEF LatchInv, WokenFirst
  <2>. QED BY <1>3, <1>4, <2>1 DEF LatchInv, WokenFirst
<1>9. NoLostWakeup'
  <2>1. \A d \in Bkts : bkt'[d].wqh # << >> => bkt'[d] = bkt[d]
    BY <1>4
  <2>2. wake' = wake /\ sleeper' = sleeper
    BY <1>3
  <2>. QED BY <2>1, <2>2 DEF LatchInv, NoLostWakeup
<1>10. BusyLatest'
  <2> SUFFICES ASSUME NEW d \in Bkts, Busy(d)', NEW c \in Bkts \ {d},
                      bkt'[c].pgno = bkt'[d].pgno
               PROVE  Pos(c)' < Pos(d)'
    BY DEF BusyLatest, CachedAs
  <2>1. d # b /\ Busy(d)
    BY <1>4 DEF Busy
  <2>2. d \in Cached /\ bkt'[d] = bkt[d]
    BY <1>4, <2>1 DEF PoolInv, BusyCached, Busy
  <2>3. c # b /\ c \in Cached
    BY <1>4, <2>2 DEF Cached
  <2>4. Pos(c) < Pos(d)
    BY <1>4, <2>1, <2>2, <2>3 DEF LatchInv, BusyLatest, CachedAs
  <2>. QED BY <1>2, <1>3, <2>1, <2>2, <2>3, <2>4, RemoveOrder
<1>11. NoAbort'
  BY <1>3 DEF LatchInv, NoAbort
<1>. QED BY <1>6, <1>7, <1>8, <1>9, <1>10, <1>11 DEF LatchInv

\* A pool in which nothing is claimed.
LEMMA EmptyLatch ==
  ASSUME bkt = [b \in Bkts |-> FreeBkt], status # "aborted",
         wake = [u \in Threads |-> "no"],
         holds = [u \in Threads |-> [b \in Bkts |-> 0]]
  PROVE  LatchInv
<1>1. \A b \in Bkts : /\ bkt[b].pinned = FALSE /\ bkt[b].wqh = << >>
                      /\ bkt[b].owner = NoThread
  BY DEF FreeBkt
<1>2. HoldsPin /\ OwnedPinned /\ NoAbort
  BY <1>1 DEF HoldsPin, OwnedPinned, NoAbort
<1>3. Queued /\ NoLostWakeup /\ BusyLatest
  BY <1>1 DEF Queued, IsInjective, NoLostWakeup, BusyLatest, Busy
<1>4. WokenFirst
  BY DEF WokenFirst
<1>. QED BY <1>2, <1>3, <1>4 DEF LatchInv

\* A closed pool.
LEMMA CloseLatch ==
  ASSUME NEW t \in Threads, Close(t)
  PROVE  LatchInv'
<1>0. /\ bkt' = [b \in Bkts |-> FreeBkt] /\ status' = "closed"
      /\ wake' = [u \in Threads |-> "no"]
      /\ holds' = [u \in Threads |-> [b \in Bkts |-> 0]]
  BY DEF Close
<1>1. \A b \in Bkts : /\ bkt'[b].pinned = FALSE /\ bkt'[b].wqh = << >>
                      /\ bkt'[b].owner = NoThread
  BY <1>0 DEF FreeBkt
<1>2. HoldsPin' /\ OwnedPinned' /\ NoAbort'
  BY <1>0, <1>1 DEF HoldsPin, OwnedPinned, NoAbort
<1>3. Queued' /\ NoLostWakeup' /\ BusyLatest'
  BY <1>1 DEF Queued, IsInjective, NoLostWakeup, BusyLatest, Busy
<1>4. WokenFirst'
  BY <1>0 DEF WokenFirst
<1>. QED BY <1>2, <1>3, <1>4 DEF LatchInv

\* Every step keeps the latches right.
LEMMA LatchInvNext ==
  ASSUME MaxNest = 1
  PROVE  PoolInv /\ LatchInv /\ [Next]_vars => LatchInv'
<1> SUFFICES ASSUME PoolInv, LatchInv, [Next]_vars PROVE LatchInv'
  OBVIOUS
<1>0. PoolInv'
  BY PoolInvNext
<1>a. status # "aborted"
  BY DEF LatchInv, NoAbort
<1>1. ASSUME NEW t \in Threads, NEW p \in Pages, Get(t, p)
      PROVE  LatchInv'
  <2>1. ASSUME NEW f \in Flags, GetHit(t, p, f) PROVE LatchInv'
    BY <1>0, <2>1, GetHitLatch
  <2>2. ASSUME GetWait(t, p) PROVE LatchInv'
    BY <1>0, <2>2, GetWaitLatch
  <2>3. ASSUME NEW f \in Flags, NEW create \in BOOLEAN, GetMiss(t, p, f, create)
        PROVE  LatchInv'
    <3>1. PICK r \in Rooms :
            Install(t, p, f, r, IF create /\ p >= npages THEN CleanPage
                                ELSE PgIn(RoomDisk(r)[p]), FALSE)
      BY <2>3 DEF GetMiss
    <3>2. CleanPage \in Content
      BY PoolAssumption DEF CleanPage, Content
    <3>3. PgIn(RoomDisk(r)[p]) \in Content
      BY RoomDiskType, FilterType
    <3>4. CachedAs(p) = {}
      BY <2>3 DEF GetMiss
    <3>. QED BY <1>0, <3>1, <3>2, <3>3, <3>4, InstallLatch
  <2>. QED BY <1>1, <2>1, <2>2, <2>3 DEF Get
<1>2. ASSUME NEW t \in Threads, NEW f \in Flags, Resume(t, f)
      PROVE  LatchInv'
  BY <1>0, <1>2, ResumeLatch
<1>3. ASSUME NEW t \in Threads, NEW p \in Pages, NewPage(t, p)
      PROVE  LatchInv'
  <2>1. CleanPage \in Content /\ "read" \in Flags
    BY PoolAssumption DEF CleanPage, Content, Flags
  <2>2. \A b \in CachedAs(p) : Evictable(b)
    BY <1>3 DEF NewPage
  <2>. QED BY <1>0, <1>3, <2>1, <2>2, InstallLatch DEF NewPage
<1>4. ASSUME NEW t \in Threads, NEW b \in Bkts, NEW v \in Values, Modify(t, b, v)
      PROVE  LatchInv'
  <2> DEFINE n == [bkt[b] EXCEPT !.page = [val |-> v, swapped |-> FALSE]]
  <2>1. bkt[b] \in Bkt
    BY DEF PoolInv, TypeOK
  <2>2. /\ n.pgno = bkt[b].pgno /\ n.pinned = bkt[b].pinned
        /\ n.owner = bkt[b].owner /\ n.wqh = bkt[b].wqh
    BY <2>1, Zenon DEF Bkt
  <2>3. bkt' = [bkt EXCEPT ![b] = n]
    BY <1>4 DEF Modify
  <2> HIDE DEF n
  <2>4. \A d \in Bkts : /\ bkt'[d].pgno = bkt[d].pgno
                        /\ bkt'[d].pinned = bkt[d].pinned
                        /\ bkt'[d].owner = bkt[d].owner
                        /\ bkt'[d].wqh = bkt[d].wqh
    BY <2>2, <2>3 DEF PoolInv, TypeOK
  <2>5. UNCHANGED <<lru, want, wake, sleeper, holds, status>>
    BY <1>4 DEF Modify, sync
  <2>. QED BY <1>0, <1>a, <2>4, <2>5, QuietLatch
<1>5. ASSUME NEW t \in Threads, NEW b \in Bkts, NEW dirty \in BOOLEAN, Put(t, b, dirty)
      PROVE  LatchInv'
  <2>1. b \in Held(t) /\ sleeper[t] = NoThread
    BY <1>5 DEF Put, Idle
  <2>2. bkt[b].pinned
    BY <2>1, HeldPinned
  <2>. QED BY <1>0, <1>5, <2>1, <2>2, ReleaseLatch DEF Put
<1>6. ASSUME NEW t \in Threads, Signal(t)
      PROVE  LatchInv'
  BY <1>0, <1>6, SignalLatch
<1>7. ASSUME NEW t \in Threads, NEW b \in Bkts, NEW q \in Pages, Change(t, b, q)
      PROVE  LatchInv'
  BY <1>0, <1>7, ChangeLatch
<1>8. ASSUME NEW t \in Threads, NEW b \in Bkts, Delete(t, b)
      PROVE  LatchInv'
  BY <1>0, <1>8, DeleteLatch
<1>9. ASSUME NEW t \in Threads, NEW b \in Bkts, DeleteFails(t, b)
      PROVE  LatchInv'
  <2>1. bkt' = BktAfter({}, {b})
        /\ UNCHANGED <<lru, want, wake, sleeper, holds, status>>
    BY <1>9 DEF DeleteFails, sync, client
  <2>. QED BY <1>0, <1>a, <2>1, BktAfterType, QuietLatch
<1>10. ASSUME NEW t \in Threads, Sync(t)
       PROVE  LatchInv'
  <2>1. \E W, T : bkt' = BktAfter(W, T)
    BY <1>10 DEF Sync
  <2>2. UNCHANGED <<lru, want, wake, sleeper, holds, status>>
    BY <1>10 DEF Sync, sync, client
  <2>. QED BY <1>0, <1>a, <2>1, <2>2, BktAfterType, QuietLatch
<1>11. ASSUME NEW t \in Threads, Close(t)
       PROVE  LatchInv'
  BY <1>11, CloseLatch
<1>12. ASSUME Open
       PROVE  LatchInv'
  BY <1>0, <1>12, QuietLatch DEF Open, sync, client
<1>13. CASE UNCHANGED vars
  BY <1>0, <1>a, <1>13, QuietLatch DEF vars, pool, sync, client
<1>. QED BY <1>1, <1>2, <1>3, <1>4, <1>5, <1>6, <1>7, <1>8, <1>9, <1>10,
            <1>11, <1>12, <1>13 DEF Next

\* The invariant of the latch.
LEMMA LatchInvariant ==
  ASSUME MaxNest = 1
  PROVE  Spec => [](PoolInv /\ LatchInv)
<1>1. Init => PoolInv /\ LatchInv
  BY PoolInvInit, EmptyLatch DEF Init
<1>2. PoolInv /\ LatchInv /\ [Next]_vars => (PoolInv /\ LatchInv)'
  BY PoolInvNext, LatchInvNext
<1>. QED BY <1>1, <1>2, PTL DEF Spec

\* Two threads never hold the same page, for any number of threads and
\* pages, whatever is evicted, moved, dropped or fails to be written, as long
\* as no thread claims a page twice.
THEOREM PagesAreExclusive ==
  ASSUME MaxNest = 1
  PROVE  Spec => []Exclusive
<1>1. PoolInv /\ LatchInv => Exclusive
  <2> SUFFICES ASSUME PoolInv, LatchInv, NEW t \in Threads, NEW u \in Threads,
                      NEW b \in Held(t), NEW c \in Held(u),
                      bkt[b].pgno = bkt[c].pgno
               PROVE  t = u /\ b = c
    BY DEF Exclusive
  <2>1. b \in Bkts /\ bkt[b].pinned /\ bkt[b].owner = t /\ b \in Cached
    BY HeldPinned
  <2>2. c \in Bkts /\ bkt[c].pinned /\ bkt[c].owner = u /\ c \in Cached
    BY HeldPinned
  <2>3. ASSUME b # c PROVE FALSE
    <3>1. Pos(b) < Pos(c) /\ Pos(c) < Pos(b)
      BY <2>1, <2>2, <2>3 DEF LatchInv, BusyLatest, Busy, CachedAs
    <3>2. Pos(b) \in Int /\ Pos(c) \in Int
      BY <2>1, <2>2, PosType
    <3>. QED BY <3>1, <3>2
  <2>. QED BY <2>1, <2>2, <2>3
<1>. QED BY <1>1, LatchInvariant, PTL

\* When a page is free and threads queue for it, the first of them has been
\* woken or is about to be: spurious wakeups included.
THEOREM WakeupsAreNotLost ==
  ASSUME MaxNest = 1
  PROVE  Spec => []NoLostWakeup
<1>1. LatchInv => NoLostWakeup
  BY DEF LatchInv
<1>. QED BY <1>1, LatchInvariant, PTL

\* None of the abort() calls of the pool is reached.
THEOREM PoolDoesNotAbort ==
  ASSUME MaxNest = 1
  PROVE  Spec => []NoAbort
<1>1. LatchInv => NoAbort
  BY DEF LatchInv
<1>. QED BY <1>1, LatchInvariant, PTL

\* While threads wait for a page, only the first of them can claim it.
THEOREM QueuesAreFair ==
  ASSUME MaxNest = 1
  PROVE  Spec => NoBarging
<1> DEFINE A == \A b \in Bkts, t \in Threads :
                  bkt[b].wqh # << >> /\ holds'[t][b] > holds[t][b]
                    => t = Head(bkt[b].wqh)
<1>1. PoolInv /\ LatchInv /\ [Next]_vars => [A]_vars
  <2> SUFFICES ASSUME PoolInv, LatchInv, Next,
                      NEW b \in Bkts, NEW t \in Threads,
                      bkt[b].wqh # << >>, holds'[t][b] > holds[t][b]
               PROVE  t = Head(bkt[b].wqh)
    OBVIOUS
  <2>0. holds \in [Threads -> [Bkts -> Int]]
    BY DEF PoolInv, TypeOK
  <2>1. ASSUME NEW u \in Threads, NEW c \in Bkts,
               holds' = [holds EXCEPT ![u][c] = @ + 1]
        PROVE  u = t /\ c = b
    BY <2>0, <2>1
  <2>2. ASSUME NEW u \in Threads, NEW c \in Bkts, NEW n \in Int,
               n <= holds[u][c], holds' = [holds EXCEPT ![u][c] = n]
        PROVE  FALSE
    BY <2>0, <2>2
  <2>3. ASSUME holds' = holds PROVE FALSE
    BY <2>0, <2>3
  <2>4. ASSUME NEW u \in Threads, NEW p \in Pages, NEW f \in Flags, NEW r \in Rooms,
               NEW c, NEW changed, Install(u, p, f, r, c, changed)
        PROVE  FALSE
    <3>1. r.bp \in Bkts /\ (r.bp \in Cached => Evictable(r.bp))
      BY RoomType
    <3>2. bkt[r.bp].wqh = << >>
      BY <3>1 DEF Evictable, PoolInv, BusyCached
    <3>3. r.bp = b
      BY <2>1, <2>4, <3>1 DEF Install
    <3>. QED BY <3>2, <3>3
  <2>5. ASSUME NEW u \in Threads, NEW c \in Bkts, NEW dirty, Release(u, c, dirty)
        PROVE  FALSE
    <3>1. holds[u][c] - 1 \in Int /\ holds[u][c] - 1 <= holds[u][c]
      BY <2>0
    <3>2. holds' = [holds EXCEPT ![u][c] = holds[u][c] - 1]
      BY <2>5 DEF Release, HandOver
    <3>. QED BY <2>2, <3>1, <3>2
  <2>6. ASSUME NEW u \in Threads, NEW p \in Pages, Get(u, p)
        PROVE  FALSE
    <3>1. ASSUME NEW f \in Flags, GetHit(u, p, f) PROVE FALSE
      <4>1. Find(p) \in Bkts
        BY <3>1, FindType DEF GetHit, CachedAs
      <4>2. Find(p) = b
        BY <2>1, <3>1, <4>1 DEF GetHit, Claim
      <4>. QED BY <3>1, <4>2, HitIsFree
    <3>2. ASSUME GetWait(u, p) PROVE FALSE
      BY <2>3, <3>2 DEF GetWait, client
    <3>3. ASSUME NEW f \in Flags, NEW create \in BOOLEAN, GetMiss(u, p, f, create)
          PROVE FALSE
      BY <2>4, <3>3 DEF GetMiss
    <3>. QED BY <2>6, <3>1, <3>2, <3>3 DEF Get
  <2>7. ASSUME NEW u \in Threads, NEW f \in Flags, Resume(u, f)
        PROVE  t = Head(bkt[b].wqh)
    <3>1. want[u] \in Bkts /\ bkt[want[u]].wqh # << >> /\ Head(bkt[want[u]].wqh) = u
      BY <2>7 DEF Resume, Woken, LatchInv, WokenFirst
    <3>2. u = t /\ want[u] = b
      BY <2>1, <2>7, <3>1 DEF Resume, Claim
    <3>. QED BY <3>1, <3>2
  <2>8. ASSUME NEW u \in Threads, NEW p \in Pages, NewPage(u, p)
        PROVE  FALSE
    <3>1. "read" \in Flags
      BY DEF Flags
    <3>. QED BY <2>4, <2>8, <3>1 DEF NewPage
  <2>9. ASSUME NEW u \in Threads, NEW c \in Bkts, NEW q \in Pages, Change(u, c, q)
        PROVE  FALSE
    <3>1. CASE Abort
      BY <2>3, <3>1 DEF Abort, client
    <3>2. CASE Release(u, c, FALSE)
      BY <2>5, <3>2
    <3>3. CASE holds' = [holds EXCEPT ![u][c] = holds[u][c] - 1]
      <4>1. holds[u][c] - 1 \in Int /\ holds[u][c] - 1 <= holds[u][c]
        BY <2>0
      <4>. QED BY <2>2, <3>3, <4>1
    <3>. QED BY <2>9, <3>1, <3>2, <3>3 DEF Change
  <2>10. ASSUME NEW u \in Threads, NEW c \in Bkts, Delete(u, c)
         PROVE  FALSE
    <3>1. c \in Held(u)
      BY <2>10 DEF Delete
    <3>2. bkt[c].pinned /\ holds[u][c] = 1
      BY <3>1, HeldPinned
    <3>3. holds' = [holds EXCEPT ![u][c] = 0]
      BY <2>10, <3>2 DEF Delete
    <3>4. 0 \in Int /\ 0 <= holds[u][c]
      BY <3>2
    <3>. QED BY <2>2, <3>3, <3>4
  <2>11. ASSUME NEW u \in Threads, Close(u)
         PROVE  FALSE
    <3>1. holds' = [x \in Threads |-> [c \in Bkts |-> 0]]
      BY <2>11 DEF Close
    <3>2. holds[t][b] \in {0, 1}
      BY DEF LatchInv, HoldsPin
    <3>. QED BY <3>1, <3>2
  <2>12. ASSUME NEW u \in Threads, NEW c \in Bkts, NEW dirty \in BOOLEAN, Put(u, c, dirty)
         PROVE  FALSE
    BY <2>3, <2>5, <2>12 DEF Put, Abort, client
  <2>13. CASE \/ \E u \in Threads, c \in Bkts, v \in Values : Modify(u, c, v)
              \/ \E u \in Threads : Signal(u) \/ Sync(u)
              \/ \E u \in Threads, c \in Bkts : DeleteFails(u, c)
              \/ Open
    BY <2>3, <2>13 DEF Modify, Signal, Sync, DeleteFails, Open, client
  <2>. QED BY <2>6, <2>7, <2>8, <2>9, <2>10, <2>11, <2>12, <2>13 DEF Next
<1>. QED BY <1>1, LatchInvariant, PTL DEF Spec, NoBarging

-----------------------------------------------------------------------------
(***************************************************************************)
(* The size of the cache.  A bkt is allocated beyond the limit only when   *)
(* the LRU list has none to reuse, so every cached page is locked or in    *)
(* use by a thread; a thread uses at most MaxHeld pages, those it holds    *)
(* and the one it sleeps for.                                              *)
(***************************************************************************)
\* A failing write may keep a page in the cache that nobody uses.
BoundSetting == MaxNest = 1 /\ ~WriteFaults /\ IsFiniteSet(Threads)

\* A page is pinned for a thread.
PinnedOwned == \A b \in Bkts : bkt[b].pinned => bkt[b].owner \in Threads

\* The pages a thread holds and the one it sleeps for.
Uses(t) == Held(t) \cup ({want[t]} \ {NoBkt})

UsesBound == \A t \in Threads : Cardinality(Uses(t)) <= MaxHeld

Locked == {b \in Cached : bkt[b].locked}

\* Most pages that can be cached beyond the limit.
Needed == Cardinality(Threads) * MaxHeld + Cardinality(Locked)

BoundInv == PinnedOwned /\ UsesBound /\ CacheBound

\* The cached pages as numbers.
Counts ==
  /\ IsFiniteSet(Cached) /\ Cardinality(Cached) = curcache
  /\ IsFiniteSet(Locked) /\ Cardinality(Locked) \in Nat
  /\ curcache \in Nat

\* CacheBound without Max.
BoundParts ==
  /\ CacheBound <=> curcache <= MaxCache + 1 \/ curcache <= Needed
  /\ Needed \in Nat

\* The pages a thread uses are cached.
UsesFew ==
  \A t \in Threads : /\ Held(t) \in SUBSET Cached
                     /\ IsFiniteSet(Uses(t)) /\ Cardinality(Uses(t)) \in Nat

\* The LRU list counts the cached pages.
LEMMA CachedCount == PoolInv => Counts
<1> SUFFICES ASSUME PoolInv PROVE Counts
  OBVIOUS
<1>0. /\ lru \in Seq(Bkts) /\ IsInjective(lru) /\ Range(lru) = Cached
      /\ curcache = Len(lru) /\ Len(lru) \in Nat /\ DOMAIN lru = 1 .. Len(lru)
  BY LenProperties DEF PoolInv, TypeOK, LruIsPool
<1>1. lru \in [1 .. Len(lru) -> Cached]
  BY <1>0 DEF Range
<1>2. lru \in Bijection(1 .. Len(lru), Cached)
  BY <1>0, <1>1 DEF Bijection, Injection, Surjection, Range
<1>3. ExistsBijection(1 .. Len(lru), Cached)
  BY <1>2 DEF ExistsBijection
<1>4. IsFiniteSet(Cached) /\ Cardinality(Cached) = Len(lru)
  BY <1>0, <1>3, FS_NatBijection, FS_CountingElements
<1>5. IsFiniteSet(Locked) /\ Cardinality(Locked) \in Nat
  <2>1. Locked \in SUBSET Cached
    BY DEF Locked
  <2>. QED BY <1>4, <2>1, FS_Subset, FS_CardinalityType
<1>. QED BY <1>0, <1>4, <1>5 DEF Counts

\* The bound is the greater of two.
LEMMA BoundIs ==
  ASSUME BoundSetting
  PROVE  PoolInv => BoundParts
<1> SUFFICES ASSUME PoolInv PROVE BoundParts
  OBVIOUS
<1>1. Cardinality(Threads) \in Nat /\ MaxHeld \in Nat /\ MaxCache \in Nat
  BY FS_CardinalityType, PoolAssumption DEF BoundSetting
<1>2. Cardinality(Locked) \in Nat /\ curcache \in Nat
  BY CachedCount DEF Counts
<1>3. Cardinality(Threads) * MaxHeld \in Nat
  BY <1>1
<1>4. Needed \in Nat
  BY <1>2, <1>3 DEF Needed
<1> DEFINE S == {MaxCache + 1, Needed}
<1>5. S \in SUBSET Nat /\ S # {} /\ \A x \in S : x <= MaxCache + 1 + Needed
  BY <1>1, <1>4
<1>6. MaxCache + 1 + Needed \in Nat
  BY <1>1, <1>4
<1>7. Max(S) \in S /\ \A x \in S : x <= Max(S)
  BY <1>5, <1>6, MaxExists
<1>8. CacheBound <=> curcache <= Max(S)
  BY DEF CacheBound, Needed, Locked
<1>. QED BY <1>1, <1>2, <1>4, <1>7, <1>8 DEF BoundParts

\* What a thread holds is pinned, hence cached.
LEMMA UsesCached == PoolInv /\ LatchInv => UsesFew
<1> SUFFICES ASSUME PoolInv, LatchInv, NEW t \in Threads
             PROVE  /\ Held(t) \in SUBSET Cached
                    /\ IsFiniteSet(Uses(t)) /\ Cardinality(Uses(t)) \in Nat
  BY DEF UsesFew
<1>1. Held(t) \in SUBSET Cached
  BY DEF Held, LatchInv, HoldsPin, PoolInv, BusyCached
<1>2. IsFiniteSet(Held(t))
  BY <1>1, CachedCount, FS_Subset DEF Counts
<1>3. IsFiniteSet({want[t]} \ {NoBkt})
  BY FS_Singleton, FS_Difference
<1>. QED BY <1>1, <1>2, <1>3, FS_Union, FS_CardinalityType DEF Uses

\* A thread that may claim another page has room for it.
LEMMA MayClaimUses ==
  ASSUME MaxNest = 1, PoolInv, LatchInv, NEW t \in Threads, NEW p, MayClaim(t, p)
  PROVE  Uses(t) = Held(t) /\ Cardinality(Uses(t)) < MaxHeld
<1>1. Uses(t) = Held(t)
  BY DEF MayClaim, Idle, Uses
<1>2. CASE Held(t) = {}
  BY <1>1, <1>2, FS_EmptySet, PoolAssumption
<1>3. CASE Held(t) # {}
  <2>1. PICK b \in Bkts : b \in Held(t)
    BY <1>3 DEF Held
  <2>2. holds[t][b] = 1
    BY <2>1 DEF Held, LatchInv, HoldsPin
  <2>3. Cardinality(Held(t)) < MaxHeld
    BY <2>1, <2>2 DEF MayClaim
  <2>. QED BY <1>1, <2>3
<1>. QED BY <1>2, <1>3

\* Every page in use is used by a thread.
LEMMA BusyIsUsed ==
  ASSUME PoolInv, LatchInv, PinnedOwned, NEW b \in Bkts, Busy(b)
  PROVE  \E t \in Threads : b \in Uses(t)
<1>1. CASE bkt[b].pinned
  <2>1. bkt[b].owner \in Threads /\ holds[bkt[b].owner][b] = 1
    BY <1>1 DEF PinnedOwned, LatchInv, HoldsPin
  <2>. QED BY <2>1 DEF Uses, Held
<1>2. CASE bkt[b].wqh # << >>
  <2>1. bkt[b].wqh \in Seq(Threads)
    BY DEF PoolInv, TypeOK, Bkt
  <2>2. 1 \in DOMAIN bkt[b].wqh /\ bkt[b].wqh[1] \in Threads
    BY <1>2, <2>1, LenProperties, ElementOfSeq, EmptySeq
  <2>3. want[bkt[b].wqh[1]] = b
    BY <2>2 DEF LatchInv, Queued
  <2>4. b # NoBkt
    BY PoolAssumption
  <2>. QED BY <2>2, <2>3, <2>4 DEF Uses
<1>. QED BY <1>1, <1>2 DEF Busy

\* When every element of B belongs to one of the members of T, none of which
\* has more than m and one of which has fewer, B has less than m for each.
LEMMA SharedOut ==
  ASSUME NEW T, IsFiniteSet(T), NEW m \in Nat, NEW U, NEW B,
         \A t \in T : IsFiniteSet(U[t]) /\ Cardinality(U[t]) <= m,
         \A b \in B : \E t \in T : b \in U[t],
         NEW e \in T, Cardinality(U[e]) < m
  PROVE  Cardinality(B) <= Cardinality(T) * m - 1
<1> DEFINE H(t) == CHOOSE h : h \in Bijection(1 .. Cardinality(U[t]), U[t])
           R(b) == CHOOSE t \in T : b \in U[t]
           K(b) == CHOOSE k \in 1 .. Cardinality(U[R(b)]) : H(R(b))[k] = b
           P    == (T \X (1 .. m)) \ {<<e, m>>}
           g    == [b \in B |-> <<R(b), K(b)>>]
<1>1. ASSUME NEW t \in T
      PROVE  /\ H(t) \in Bijection(1 .. Cardinality(U[t]), U[t])
             /\ Cardinality(U[t]) \in Nat
  <2>1. ExistsBijection(1 .. Cardinality(U[t]), U[t]) /\ Cardinality(U[t]) \in Nat
    BY FS_CardinalityType
  <2>. QED BY <2>1, Zenon DEF ExistsBijection
<1>2. ASSUME NEW b \in B
      PROVE  R(b) \in T /\ b \in U[R(b)]
  OBVIOUS
<1> HIDE DEF H, R
<1>3. ASSUME NEW b \in B
      PROVE  K(b) \in 1 .. Cardinality(U[R(b)]) /\ H(R(b))[K(b)] = b
  <2>1. \E k \in 1 .. Cardinality(U[R(b)]) : H(R(b))[k] = b
    BY <1>1, <1>2 DEF Bijection, Surjection
  <2>. QED BY <2>1
<1> HIDE DEF K
<1>4. ASSUME NEW b \in B
      PROVE  g[b] = <<R(b), K(b)>> /\ g[b] \in P
  <2>1. R(b) \in T /\ K(b) \in 1 .. m
    BY <1>1, <1>2, <1>3
  <2>2. ASSUME R(b) = e PROVE K(b) # m
    BY <1>1, <1>2, <1>3, <2>2
  <2>. QED BY <2>1, <2>2
<1>5. ASSUME NEW b \in B, NEW c \in B, g[b] = g[c]
      PROVE  b = c
  <2>1. R(b) = R(c) /\ K(b) = K(c)
    BY <1>4, <1>5
  <2>. QED BY <1>3, <2>1
<1>6. g \in Injection(B, P)
  <2>1. g \in [B -> P]
    BY <1>4
  <2>2. IsInjective(g)
    BY <1>5 DEF IsInjective
  <2>. QED BY <2>1, <2>2 DEF Injection
<1> HIDE DEF g
<1>7. IsFiniteSet(P) /\ Cardinality(P) = Cardinality(T) * m - 1
  <2>1. IsFiniteSet(1 .. m) /\ Cardinality(1 .. m) = m
    BY FS_Interval
  <2>2. IsFiniteSet(T \X (1 .. m)) /\ Cardinality(T \X (1 .. m)) = Cardinality(T) * m
    BY <2>1, FS_Product
  <2>3. <<e, m>> \in T \X (1 .. m)
    BY <1>1
  <2> DEFINE Q == T \X (1 .. m)
             x == <<e, m>>
  <2>4. x \in Q /\ IsFiniteSet(Q) /\ Cardinality(Q) = Cardinality(T) * m
    BY <2>2, <2>3
  <2>5. P = Q \ {x}
    OBVIOUS
  <2> HIDE DEF P, Q, x
  <2>. QED BY <2>4, <2>5, FS_RemoveElement
<1> HIDE DEF P
<1>. QED BY <1>6, <1>7, FS_Injection

\* The cached pages, when none of them can be reused and a thread that may
\* claim another page does.
LEMMA NoneToReuse ==
  ASSUME BoundSetting, PoolInv, LatchInv, BoundInv, NEW t \in Threads,
         Cardinality(Uses(t)) < MaxHeld,
         \A b \in Cached : ~Evictable(b)
  PROVE  curcache + 1 <= Needed
<1> DEFINE B == {b \in Cached : Busy(b)}
           U == [u \in Threads |-> Uses(u)]
<1>1. Cached = B \cup Locked
  BY DEF Evictable, Busy, Locked
<1>2. IsFiniteSet(Cached) /\ Cardinality(Cached) = curcache /\ curcache \in Nat
      /\ IsFiniteSet(Locked) /\ Cardinality(Locked) \in Nat
  BY CachedCount DEF Counts
<1>3. IsFiniteSet(B)
  BY <1>1, <1>2, FS_Subset
<1>4. Cardinality(B) \in Nat /\ Cardinality(B \cap Locked) \in Nat
  <2>1. IsFiniteSet(B \cap Locked)
    BY <1>3, FS_Intersection
  <2> HIDE DEF B
  <2>. QED BY <1>3, <2>1, FS_CardinalityType
<1>5. curcache <= Cardinality(B) + Cardinality(Locked)
  <2> HIDE DEF B
  <2>1. Cardinality(B \cup Locked)
          = Cardinality(B) + Cardinality(Locked) - Cardinality(B \cap Locked)
    BY <1>2, <1>3, FS_Union
  <2>2. curcache = Cardinality(B \cup Locked)
    BY <1>1, <1>2
  <2>. QED BY <1>2, <1>4, <2>1, <2>2
<1>6. Cardinality(B) <= Cardinality(Threads) * MaxHeld - 1
  <2>1. \A u \in Threads : U[u] = Uses(u)
    OBVIOUS
  <2>2. \A u \in Threads : IsFiniteSet(U[u]) /\ Cardinality(U[u]) <= MaxHeld
    BY <2>1, UsesCached DEF BoundInv, UsesBound, UsesFew
  <2>3. \A b \in B : \E u \in Threads : b \in U[u]
    BY <2>1, BusyIsUsed DEF BoundInv, Cached
  <2>4. IsFiniteSet(Threads) /\ MaxHeld \in Nat
    BY PoolAssumption DEF BoundSetting
  <2> HIDE DEF U, B
  <2>. QED BY <2>1, <2>2, <2>3, <2>4, SharedOut
<1>7. Cardinality(Threads) * MaxHeld \in Nat
  BY FS_CardinalityType, PoolAssumption DEF BoundSetting
<1> HIDE DEF B
<1>. QED BY <1>2, <1>4, <1>5, <1>6, <1>7 DEF Needed

\* A bkt is allocated below the limit, or when no cached one can be reused.
LEMMA RoomBound ==
  ASSUME BoundSetting, PoolInv, NEW r \in Rooms
  PROVE  r.new = 0 \/ curcache <= MaxCache \/ \A b \in Cached : ~Evictable(b)
<1> SUFFICES ASSUME ~(curcache <= MaxCache), r.new # 0, NEW b \in Cached, Evictable(b)
             PROVE  FALSE
  OBVIOUS
<1>1. r \notin ReuseBkt
  <2> SUFFICES ASSUME r \in ReuseBkt PROVE r.new = 0
    OBVIOUS
  <2>1. PICK i \in DOMAIN lru :
          LET a == lru[i]
              D == IF bkt[a].dirty THEN {a} ELSE {}
              F == IF D = {} THEN {} ELSE FlushSet(MaxCache \div WriteFrac, {a})
          IN  r \in {[bp |-> a, new |-> 0, first |-> D, wrote |-> o.wrote,
                      tried |-> Skipped(i) \cup D \cup o.tried] : o \in Flushes(F)}
    BY DEF ReuseBkt
  <2>. QED BY <2>1
<1>2. MayFail(Skipped(Len(lru) + 1))
  BY <1>1 DEF Rooms
<1>3. Len(lru) \in Nat /\ Pos(b) \in 1 .. Len(lru) /\ lru[Pos(b)] = b
  BY PosType, LenProperties DEF PoolInv, TypeOK
<1>4. b \in Skipped(Len(lru) + 1)
  BY <1>3 DEF Skipped
<1>. QED BY <1>2, <1>4 DEF MayFail, BoundSetting

\* The bound stays when no page is added and none that is locked leaves.
LEMMA StillBounded ==
  ASSUME BoundSetting, PoolInv, PoolInv', CacheBound,
         curcache' <= curcache, Locked \subseteq Locked'
  PROVE  CacheBound'
<1>1. IsFiniteSet(Threads)
  BY DEF BoundSetting
<1>2. BoundParts /\ BoundParts'
  BY BoundIs, PTL
<1>3. Counts /\ Counts'
  BY CachedCount, PTL
<1>4. /\ Cardinality(Locked) \in Nat /\ Cardinality(Locked') \in Nat
      /\ curcache \in Nat /\ curcache' \in Nat /\ IsFiniteSet(Locked')
  BY <1>3 DEF Counts
<1>5. Cardinality(Locked) <= Cardinality(Locked')
  BY <1>4, FS_Subset
<1>6. Cardinality(Threads) * MaxHeld \in Nat /\ MaxCache \in Nat
  BY <1>1, FS_CardinalityType, PoolAssumption
<1>7. Needed <= Needed'
  BY <1>4, <1>5, <1>6 DEF Needed
<1>. QED BY <1>2, <1>4, <1>6, <1>7 DEF BoundParts

\* No thread comes to use more pages than it may claim.
LEMMA UsesStep ==
  ASSUME PoolInv, PoolInv', LatchInv, LatchInv', UsesBound,
         \A u \in Threads :
           \/ Uses(u)' \subseteq Uses(u)
           \/ Cardinality(Uses(u)) < MaxHeld /\ \E b : Uses(u)' \subseteq Uses(u) \cup {b}
  PROVE  UsesBound'
<1> SUFFICES ASSUME NEW u \in Threads PROVE Cardinality(Uses(u)') <= MaxHeld
  BY DEF UsesBound
<1>1. /\ IsFiniteSet(Uses(u)) /\ Cardinality(Uses(u)) \in Nat
      /\ Cardinality(Uses(u)') \in Nat /\ MaxHeld \in Nat
      /\ Cardinality(Uses(u)) <= MaxHeld
  <2>1. UsesFew /\ UsesFew'
    BY UsesCached, PTL
  <2>. QED BY <2>1, PoolAssumption DEF UsesBound, UsesFew
<1>2. CASE Uses(u)' \subseteq Uses(u)
  BY <1>1, <1>2, FS_Subset
<1>3. ASSUME Cardinality(Uses(u)) < MaxHeld, NEW b, Uses(u)' \subseteq Uses(u) \cup {b}
      PROVE  Cardinality(Uses(u)') <= MaxHeld
  <2>1. /\ IsFiniteSet(Uses(u) \cup {b})
        /\ \/ Cardinality(Uses(u) \cup {b}) = Cardinality(Uses(u))
           \/ Cardinality(Uses(u) \cup {b}) = Cardinality(Uses(u)) + 1
    BY <1>1, FS_AddElement
  <2>2. Cardinality(Uses(u)') <= Cardinality(Uses(u) \cup {b})
    BY <1>3, <2>1, FS_Subset
  <2>. QED BY <1>1, <1>3, <2>1, <2>2
<1>. QED BY <1>2, <1>3

\* Steps that leave claims and the cache alone.
LEMMA QuietBound ==
  ASSUME BoundSetting, PoolInv, PoolInv', LatchInv, LatchInv', BoundInv,
         \A b \in Bkts : /\ bkt'[b].pgno = bkt[b].pgno
                         /\ bkt'[b].pinned = bkt[b].pinned
                         /\ bkt'[b].owner = bkt[b].owner
                         /\ bkt'[b].locked = bkt[b].locked,
         UNCHANGED <<want, holds, curcache>>
  PROVE  BoundInv'
<1>1. PinnedOwned'
  BY DEF BoundInv, PinnedOwned
<1>2. \A u \in Threads : Uses(u)' = Uses(u)
  BY DEF Uses, Held
<1>3. UsesBound'
  BY <1>2, UsesStep DEF BoundInv
<1>4. Locked \subseteq Locked' /\ curcache \in Nat
  BY CachedCount DEF Counts, Locked, Cached
<1>5. CacheBound'
  BY <1>4, StillBounded DEF BoundInv
<1>. QED BY <1>1, <1>3, <1>5 DEF BoundInv

\* A page brought in.
LEMMA InstallBound ==
  ASSUME BoundSetting, PoolInv, PoolInv', LatchInv, LatchInv', BoundInv,
         NEW t \in Threads, NEW p \in Pages, NEW f, NEW r \in Rooms, NEW c,
         NEW changed, Install(t, p, f, r, c, changed), MayClaim(t, p)
  PROVE  BoundInv'
<1> DEFINE b == r.bp
<1>1. /\ b \in Bkts /\ (b \in Cached => Evictable(b))
      /\ r.new = IF b \in Cached THEN 0 ELSE 1
  BY RoomType
<1>2. /\ bkt' = [BktAfter(r.wrote, r.tried) EXCEPT ![b] = Loaded(t, p, f, c)]
      /\ curcache' = curcache + r.new
      /\ holds' = [holds EXCEPT ![t][b] = @ + 1]
      /\ want' = want
  BY DEF Install, sync
<1>3. /\ bkt'[b] = Loaded(t, p, f, c)
      /\ \A d \in Bkts \ {b} : /\ bkt'[d].pgno = bkt[d].pgno
                               /\ bkt'[d].pinned = bkt[d].pinned
                               /\ bkt'[d].owner = bkt[d].owner
                               /\ bkt'[d].locked = bkt[d].locked
  BY <1>1, <1>2, BktAfterType
<1>4. bkt'[b].owner = t /\ bkt'[b].pgno = p /\ bkt'[b].pinned = TRUE
  BY <1>3 DEF Loaded
<1> HIDE DEF b
<1>5. PinnedOwned'
  BY <1>3, <1>4 DEF BoundInv, PinnedOwned
<1>6. \A u \in Threads, d \in Bkts :
        holds'[u][d] = IF u = t /\ d = b THEN holds[t][b] + 1 ELSE holds[u][d]
  BY <1>1, <1>2 DEF PoolInv, TypeOK
<1>7. Uses(t)' \subseteq Uses(t) \cup {b}
  BY <1>1, <1>2, <1>6 DEF Uses, Held
<1>8. \A u \in Threads \ {t} : Uses(u)' \subseteq Uses(u)
  BY <1>2, <1>6 DEF Uses, Held
<1>9. Cardinality(Uses(t)) < MaxHeld
  BY MayClaimUses DEF BoundSetting
<1>10. UsesBound'
  BY <1>7, <1>8, <1>9, UsesStep DEF BoundInv
<1>11. Locked \subseteq Locked'
  <2>1. b \notin Locked
    BY <1>1 DEF Locked, Evictable
  <2>. QED BY <1>3, <2>1 DEF Locked, Cached
<1>12. curcache \in Nat
  BY CachedCount DEF Counts
<1>13. CacheBound'
  <2>1. CASE b \in Cached
    BY <1>1, <1>2, <1>11, <1>12, <2>1, StillBounded DEF BoundInv
  <2>2. CASE b \notin Cached
    <3>1. curcache' = curcache + 1
      BY <1>1, <1>2, <2>2
    <3>2. IsFiniteSet(Threads)
      BY DEF BoundSetting
    <3>3. CacheBound' <=> curcache' <= MaxCache + 1 \/ curcache' <= Needed'
      <4>1. BoundParts'
        BY BoundIs, PTL
      <4>. QED BY <4>1 DEF BoundParts
    <3>4. CASE curcache <= MaxCache
      BY <1>12, <3>1, <3>3, <3>4, PoolAssumption
    <3>5. CASE \A d \in Cached : ~Evictable(d)
      <4>1. curcache + 1 <= Needed
        BY <1>9, <3>5, NoneToReuse
      <4>2. Cardinality(Locked) \in Nat /\ Cardinality(Locked') \in Nat /\ IsFiniteSet(Locked')
        <5>1. Counts /\ Counts'
          BY CachedCount, PTL
        <5>. QED BY <5>1 DEF Counts
      <4>3. Cardinality(Locked) <= Cardinality(Locked')
        BY <1>11, <4>2, FS_Subset
      <4>4. Cardinality(Threads) * MaxHeld \in Nat
        BY <3>2, FS_CardinalityType, PoolAssumption
      <4>. QED BY <1>12, <3>1, <3>3, <4>1, <4>2, <4>3, <4>4 DEF Needed
    <3>. QED BY <1>1, <2>2, <3>4, <3>5, RoomBound
  <2>. QED BY <2>1, <2>2
<1>. QED BY <1>5, <1>10, <1>13 DEF BoundInv

\* A thread uses no other pages than before, or one it may claim.
UsesGrow(t) ==
  \/ Uses(t)' \subseteq Uses(t)
  \/ Cardinality(Uses(t)) < MaxHeld /\ \E b : Uses(t)' \subseteq Uses(t) \cup {b}

\* Steps that change one cached page and keep it, locked if it was.
LEMMA BktBound ==
  ASSUME BoundSetting, PoolInv, PoolInv', LatchInv, LatchInv', BoundInv,
         NEW b \in Bkts,
         \A d \in Bkts \ {b} : bkt'[d] = bkt[d],
         bkt'[b].pinned => bkt'[b].owner \in Threads,
         b \in Locked => b \in Locked',
         curcache' = curcache,
         \A u \in Threads : UsesGrow(u)
  PROVE  BoundInv'
<1>1. PinnedOwned'
  BY DEF BoundInv, PinnedOwned
<1>2. UsesBound'
  BY UsesStep DEF BoundInv, UsesGrow
<1>3. Locked \subseteq Locked'
  BY DEF Locked, Cached
<1>4. curcache' <= curcache
  BY CachedCount DEF Counts
<1>5. CacheBound'
  BY <1>3, <1>4, StillBounded DEF BoundInv
<1>. QED BY <1>1, <1>2, <1>5 DEF BoundInv

\* A cached page claimed by a thread that may, or that slept for it.
LEMMA ClaimBound ==
  ASSUME BoundSetting, PoolInv, PoolInv', LatchInv, LatchInv', BoundInv,
         NEW t \in Threads, NEW b \in Bkts, NEW f \in Flags, NEW q \in Seq(Threads),
         Claim(t, b, f, q),
         \/ want' = want /\ Cardinality(Uses(t)) < MaxHeld
         \/ want[t] = b /\ want' = [want EXCEPT ![t] = NoBkt]
  PROVE  BoundInv'
<1>1. /\ \A d \in Bkts \ {b} : bkt'[d] = bkt[d]
      /\ bkt'[b].pgno = bkt[b].pgno /\ bkt'[b].owner = t
  BY ClaimBkt
<1>2. bkt[b].locked => bkt'[b].locked
  BY DEF Claim, PoolInv, TypeOK, Bkt
<1>3. holds' = [holds EXCEPT ![t][b] = @ + 1] /\ curcache' = curcache
  BY DEF Claim
<1>4. \A u \in Threads, d \in Bkts :
        holds'[u][d] = IF u = t /\ d = b THEN holds[t][b] + 1 ELSE holds[u][d]
  BY <1>3 DEF PoolInv, TypeOK
<1>5. \A u \in Threads \ {t} : want'[u] = want[u]
  BY DEF PoolInv, TypeOK
<1>6. ASSUME NEW u \in Threads \ {t} PROVE UsesGrow(u)
  BY <1>4, <1>5 DEF UsesGrow, Uses, Held
<1>7. UsesGrow(t)
  <2>1. Held(t)' \subseteq Held(t) \cup {b}
    BY <1>4 DEF Held
  <2>2. CASE want' = want /\ Cardinality(Uses(t)) < MaxHeld
    BY <2>1, <2>2 DEF UsesGrow, Uses
  <2>3. CASE want[t] = b /\ want' = [want EXCEPT ![t] = NoBkt]
    <3>1. want'[t] = NoBkt /\ b # NoBkt
      BY <2>3, PoolAssumption DEF PoolInv, TypeOK
    <3>. QED BY <2>1, <2>3, <3>1 DEF UsesGrow, Uses
  <2>. QED BY <2>2, <2>3
<1>8. b \in Locked => b \in Locked'
  BY <1>1, <1>2 DEF Locked, Cached
<1>. QED BY <1>1, <1>3, <1>6, <1>7, <1>8, BktBound

\* A thread that waits for a page.
LEMMA WaitBound ==
  ASSUME BoundSetting, PoolInv, PoolInv', LatchInv, LatchInv', BoundInv,
         NEW t \in Threads, NEW p \in Pages, GetWait(t, p)
  PROVE  BoundInv'
<1> DEFINE b == Find(p)
           n == [bkt[b] EXCEPT !.wqh = Append(@, t)]
<1>1. b \in Bkts /\ bkt[b] \in Bkt
  BY FindType DEF GetWait, CachedAs, PoolInv, TypeOK
<1>2. /\ n.pgno = bkt[b].pgno /\ n.pinned = bkt[b].pinned
      /\ n.owner = bkt[b].owner /\ n.locked = bkt[b].locked
  BY <1>1, Zenon DEF Bkt
<1>3. /\ bkt' = [bkt EXCEPT ![b] = n] /\ curcache' = curcache
      /\ holds' = holds /\ want' = [want EXCEPT ![t] = b]
  BY DEF GetWait, client
<1>4. Cardinality(Uses(t)) < MaxHeld /\ Uses(t) = Held(t)
  BY MayClaimUses DEF GetWait, BoundSetting
<1> HIDE DEF b, n
<1>5. /\ bkt'[b] = n /\ \A d \in Bkts \ {b} : bkt'[d] = bkt[d]
      /\ want'[t] = b /\ \A u \in Threads \ {t} : want'[u] = want[u]
  BY <1>1, <1>3 DEF PoolInv, TypeOK
<1>6. UsesGrow(t)
  BY <1>3, <1>4, <1>5 DEF UsesGrow, Uses, Held
<1>7. ASSUME NEW u \in Threads \ {t} PROVE UsesGrow(u)
  BY <1>3, <1>5 DEF UsesGrow, Uses, Held
<1>8. bkt'[b].pinned => bkt'[b].owner \in Threads
  BY <1>1, <1>2, <1>5 DEF BoundInv, PinnedOwned
<1>9. b \in Locked => b \in Locked'
  BY <1>2, <1>5 DEF Locked, Cached
<1>. QED BY <1>1, <1>3, <1>5, <1>6, <1>7, <1>8, <1>9, BktBound

\* A page given back, in its place or under another number.
LEMMA GivenBackBound ==
  ASSUME BoundSetting, PoolInv, PoolInv', LatchInv, LatchInv', BoundInv,
         NEW t \in Threads, NEW b \in Cached, NEW n,
         bkt' = [bkt EXCEPT ![b] = n],
         n.pgno # NoPage, n.pinned = FALSE, n.locked = bkt[b].locked,
         holds' = [holds EXCEPT ![t][b] = @ - 1],
         curcache' = curcache, want' = want
  PROVE  BoundInv'
<1>1. b \in Bkts
  BY DEF Cached
<1>2. bkt'[b] = n /\ \A d \in Bkts \ {b} : bkt'[d] = bkt[d]
  BY <1>1 DEF PoolInv, TypeOK
<1>3. \A u \in Threads, d \in Bkts :
        holds'[u][d] = IF u = t /\ d = b THEN holds[t][b] - 1 ELSE holds[u][d]
  BY <1>1 DEF PoolInv, TypeOK
<1>4. \A u \in Threads, d \in Bkts : holds'[u][d] > 0 => holds[u][d] > 0
  <2>1. \A u \in Threads, d \in Bkts : holds[u][d] \in Int
    BY DEF PoolInv, TypeOK
  <2>. QED BY <1>1, <1>3, <2>1
<1>5. \A u \in Threads : UsesGrow(u)
  BY <1>4 DEF UsesGrow, Uses, Held
<1>6. b \in Locked => b \in Locked'
  BY <1>1, <1>2 DEF Locked, Cached
<1>. QED BY <1>1, <1>2, <1>5, <1>6, BktBound

\* put_page.
LEMMA ReleaseBound ==
  ASSUME BoundSetting, PoolInv, PoolInv', LatchInv, LatchInv', BoundInv,
         NEW t \in Threads, NEW b \in Bkts, NEW dirty \in BOOLEAN, b \in Held(t),
         Release(t, b, dirty)
  PROVE  BoundInv'
<1> DEFINE d == bkt[b].dirty \/ dirty
           n == [bkt[b] EXCEPT !.ref = @ - 1, !.owner = NoThread,
                               !.pinned = FALSE, !.dirty = d]
<1>1. b \in Cached /\ bkt[b].pgno # NoPage /\ bkt[b] \in Bkt
  BY HeldPinned DEF Cached, PoolInv, TypeOK
<1>2. n.pgno = bkt[b].pgno /\ n.pinned = FALSE /\ n.locked = bkt[b].locked
  <2> HIDE DEF d
  <2>. QED BY <1>1, Zenon DEF Bkt
<1>3. /\ bkt' = [bkt EXCEPT ![b] = n]
      /\ holds' = [holds EXCEPT ![t][b] = @ - 1]
      /\ curcache' = curcache /\ want' = want
  BY DEF Release, HandOver
<1> HIDE DEF n
<1>. QED BY <1>1, <1>2, <1>3, GivenBackBound

\* change_page.
LEMMA ChangeBound ==
  ASSUME BoundSetting, PoolInv, PoolInv', LatchInv, LatchInv', BoundInv,
         NEW t \in Threads, NEW b \in Bkts, NEW q \in Pages, Change(t, b, q)
  PROVE  BoundInv'
<1>1. b \in Held(t) /\ bkt[b].pinned /\ b \in Cached /\ bkt[b] \in Bkt
  BY HeldPinned DEF Change, PoolInv, TypeOK
<1>2. CASE ~Movable(b)
  BY <1>1, <1>2, ReleaseBound DEF Change
<1>3. CASE Movable(b)
  <2>1. /\ bkt' = [bkt EXCEPT ![b] = Moved(b, q)]
        /\ holds' = [holds EXCEPT ![t][b] = @ - 1]
        /\ curcache' = curcache /\ want' = want
    BY <1>1, <1>3 DEF Change, sync
  <2>2. Moved(b, q).pgno = q /\ Moved(b, q).pinned = FALSE
    BY MovedType
  <2>4. q # NoPage
    BY PoolAssumption DEF Pages, NoPage
  <2>3. Moved(b, q).locked = bkt[b].locked
    BY <1>1, Zenon DEF Moved, Bkt
  <2>. QED BY <1>1, <2>1, <2>2, <2>3, <2>4, GivenBackBound
<1>. QED BY <1>2, <1>3

\* delete: the page that goes may have been locked.
LEMMA DeleteBound ==
  ASSUME BoundSetting, PoolInv, PoolInv', LatchInv, LatchInv', BoundInv,
         NEW t \in Threads, NEW b \in Bkts, Delete(t, b)
  PROVE  BoundInv'
<1>1. b \in Held(t) /\ bkt[b].pinned /\ b \in Cached
  BY HeldPinned DEF Delete
<1>2. /\ bkt' = [bkt EXCEPT ![b] = FreeBkt] /\ curcache' = curcache - 1
      /\ holds' = [holds EXCEPT ![t][b] = 0] /\ want' = want
  BY <1>1 DEF Delete, sync
<1>3. /\ bkt'[b] = FreeBkt /\ FreeBkt.pinned = FALSE
      /\ \A d \in Bkts \ {b} : bkt'[d] = bkt[d]
  BY <1>2 DEF PoolInv, TypeOK, FreeBkt
<1>4. PinnedOwned'
  BY <1>3 DEF BoundInv, PinnedOwned
<1>5. \A u \in Threads, d \in Bkts : holds'[u][d] > 0 => holds[u][d] > 0
  BY <1>2 DEF PoolInv, TypeOK
<1>6. \A u \in Threads : UsesGrow(u)
  BY <1>2, <1>5 DEF UsesGrow, Uses, Held
<1>7. UsesBound'
  BY <1>6, UsesStep DEF BoundInv, UsesGrow
<1>8. Counts /\ Counts' /\ BoundParts /\ BoundParts'
  BY CachedCount, BoundIs, PTL
<1>9. Cardinality(Locked) - 1 <= Cardinality(Locked')
  <2>1. Locked \ {b} \subseteq Locked'
    BY <1>3 DEF Locked, Cached
  <2>2. /\ Cardinality(Locked) \in Nat /\ IsFiniteSet(Locked)
        /\ Cardinality(Locked') \in Nat /\ IsFiniteSet(Locked')
    BY <1>8 DEF Counts
  <2>3. Cardinality(Locked \ {b}) <= Cardinality(Locked')
    BY <2>1, <2>2, FS_Subset
  <2>4. \/ Cardinality(Locked \ {b}) = Cardinality(Locked)
        \/ Cardinality(Locked \ {b}) = Cardinality(Locked) - 1
    BY <2>2, FS_RemoveElement
  <2>. QED BY <2>2, <2>3, <2>4
<1>10. Cardinality(Threads) * MaxHeld \in Nat /\ MaxCache \in Nat
  BY FS_CardinalityType, PoolAssumption DEF BoundSetting
<1>11. /\ Cardinality(Locked) \in Nat /\ Cardinality(Locked') \in Nat
       /\ curcache \in Nat /\ curcache' \in Nat
  BY <1>8 DEF Counts
<1>12. CacheBound'
  BY <1>2, <1>8, <1>9, <1>10, <1>11 DEF BoundInv, BoundParts, Needed
<1>. QED BY <1>4, <1>7, <1>12 DEF BoundInv

\* A pool that nobody uses and that caches nothing.
NothingUsed ==
  /\ bkt = [b \in Bkts |-> FreeBkt] /\ curcache = 0
  /\ want = [u \in Threads |-> NoBkt]
  /\ holds = [u \in Threads |-> [b \in Bkts |-> 0]]

\* The pool before the first and after the last call.
LEMMA EmptyBound ==
  ASSUME BoundSetting
  PROVE  PoolInv /\ NothingUsed => BoundInv
<1> SUFFICES ASSUME PoolInv, NothingUsed PROVE BoundInv
  OBVIOUS
<1>1. PinnedOwned
  BY DEF NothingUsed, PinnedOwned, FreeBkt
<1>2. \A u \in Threads : Uses(u) = {}
  BY DEF NothingUsed, Uses, Held
<1>3. UsesBound
  BY <1>2, FS_EmptySet, PoolAssumption DEF UsesBound
<1>4. CacheBound
  BY BoundIs, PoolAssumption DEF NothingUsed, BoundParts
<1>. QED BY <1>1, <1>3, <1>4 DEF BoundInv

\* Every step keeps the bound.
LEMMA BoundInvNext ==
  ASSUME BoundSetting
  PROVE  PoolInv /\ LatchInv /\ BoundInv /\ [Next]_vars => BoundInv'
<1> SUFFICES ASSUME PoolInv, LatchInv, BoundInv, [Next]_vars PROVE BoundInv'
  OBVIOUS
<1>0. PoolInv' /\ LatchInv'
  BY PoolInvNext, LatchInvNext DEF BoundSetting
<1>1. ASSUME NEW t \in Threads, NEW p \in Pages, Get(t, p)
      PROVE  BoundInv'
  <2>1. ASSUME NEW f \in Flags, GetHit(t, p, f) PROVE BoundInv'
    <3> DEFINE b == Find(p)
               q == bkt[b].wqh
    <3>1. b \in Bkts /\ q \in Seq(Threads)
      BY <2>1, FindType DEF GetHit, CachedAs, PoolInv, TypeOK, Bkt
    <3>2. Claim(t, b, f, q) /\ want' = want
      BY <2>1 DEF GetHit
    <3>3. Cardinality(Uses(t)) < MaxHeld
      BY <2>1, MayClaimUses DEF GetHit, BoundSetting
    <3> HIDE DEF b, q
    <3>. QED BY <1>0, <3>1, <3>2, <3>3, ClaimBound
  <2>2. ASSUME GetWait(t, p) PROVE BoundInv'
    BY <1>0, <2>2, WaitBound
  <2>3. ASSUME NEW f \in Flags, NEW create \in BOOLEAN, GetMiss(t, p, f, create)
        PROVE  BoundInv'
    <3>1. PICK r \in Rooms :
            Install(t, p, f, r, IF create /\ p >= npages THEN CleanPage
                                ELSE PgIn(RoomDisk(r)[p]), FALSE)
      BY <2>3 DEF GetMiss
    <3>2. MayClaim(t, p)
      BY <2>3 DEF GetMiss
    <3>. QED BY <1>0, <3>1, <3>2, InstallBound
  <2>. QED BY <1>1, <2>1, <2>2, <2>3 DEF Get
<1>2. ASSUME NEW t \in Threads, NEW f \in Flags, Resume(t, f)
      PROVE  BoundInv'
  <2> DEFINE b == want[t]
             q == Tail(bkt[b].wqh)
  <2>1. b \in Bkts /\ bkt[b].wqh # << >> /\ Head(bkt[b].wqh) = t
    BY <1>2 DEF Resume, Woken, LatchInv, WokenFirst
  <2>2. q \in Seq(Threads)
    BY <2>1, HeadTailProperties DEF PoolInv, TypeOK, Bkt
  <2>3. Claim(t, b, f, q) /\ want' = [want EXCEPT ![t] = NoBkt]
    BY <1>2, <2>1 DEF Resume
  <2>4. want[t] = b
    OBVIOUS
  <2> HIDE DEF b, q
  <2>. QED BY <1>0, <2>1, <2>2, <2>3, <2>4, ClaimBound
<1>3. ASSUME NEW t \in Threads, NEW p \in Pages, NewPage(t, p)
      PROVE  BoundInv'
  <2>1. PICK r \in Rooms : Install(t, p, "read", r, CleanPage, TRUE)
    BY <1>3 DEF NewPage
  <2>2. MayClaim(t, p)
    BY <1>3 DEF NewPage
  <2>. QED BY <1>0, <2>1, <2>2, InstallBound
<1>4. ASSUME NEW t \in Threads, NEW b \in Bkts, NEW v \in Values, Modify(t, b, v)
      PROVE  BoundInv'
  <2> DEFINE n == [bkt[b] EXCEPT !.page = [val |-> v, swapped |-> FALSE]]
  <2>1. bkt[b] \in Bkt
    BY DEF PoolInv, TypeOK
  <2>2. /\ n.pgno = bkt[b].pgno /\ n.pinned = bkt[b].pinned
        /\ n.owner = bkt[b].owner /\ n.locked = bkt[b].locked
    BY <2>1, Zenon DEF Bkt
  <2>3. bkt' = [bkt EXCEPT ![b] = n] /\ UNCHANGED <<want, holds, curcache>>
    BY <1>4 DEF Modify, sync
  <2> HIDE DEF n
  <2>4. \A d \in Bkts : /\ bkt'[d].pgno = bkt[d].pgno
                        /\ bkt'[d].pinned = bkt[d].pinned
                        /\ bkt'[d].owner = bkt[d].owner
                        /\ bkt'[d].locked = bkt[d].locked
    BY <2>2, <2>3 DEF PoolInv, TypeOK
  <2>. QED BY <1>0, <2>3, <2>4, QuietBound
<1>5. ASSUME NEW t \in Threads, NEW b \in Bkts, NEW dirty \in BOOLEAN, Put(t, b, dirty)
      PROVE  BoundInv'
  <2>1. b \in Held(t)
    BY <1>5 DEF Put
  <2>2. bkt[b].pinned
    BY <2>1, HeldPinned
  <2>. QED BY <1>0, <1>5, <2>1, <2>2, ReleaseBound DEF Put
<1>6. ASSUME NEW t \in Threads, Signal(t)
      PROVE  BoundInv'
  BY <1>0, <1>6, QuietBound DEF Signal, pool, client
<1>7. ASSUME NEW t \in Threads, NEW b \in Bkts, NEW q \in Pages, Change(t, b, q)
      PROVE  BoundInv'
  BY <1>0, <1>7, ChangeBound
<1>8. ASSUME NEW t \in Threads, NEW b \in Bkts, Delete(t, b)
      PROVE  BoundInv'
  BY <1>0, <1>8, DeleteBound
<1>9. ASSUME NEW t \in Threads, NEW b \in Bkts, DeleteFails(t, b)
      PROVE  BoundInv'
  BY <1>9 DEF DeleteFails, BoundSetting
<1>10. ASSUME NEW t \in Threads, Sync(t)
       PROVE  BoundInv'
  <2>1. \E W, T : bkt' = BktAfter(W, T)
    BY <1>10 DEF Sync
  <2>2. UNCHANGED <<want, holds, curcache>>
    BY <1>10 DEF Sync, sync, client
  <2>. QED BY <1>0, <2>1, <2>2, BktAfterType, QuietBound
<1>11. ASSUME NEW t \in Threads, Close(t)
       PROVE  BoundInv'
  <2>1. NothingUsed'
    BY <1>11 DEF Close, NothingUsed
  <2>. QED BY <1>0, <2>1, EmptyBound, PTL
<1>12. ASSUME Open
       PROVE  BoundInv'
  BY <1>0, <1>12, QuietBound DEF Open, sync, client
<1>13. CASE UNCHANGED vars
  BY <1>0, <1>13, QuietBound DEF vars, pool, sync, client
<1>. QED BY <1>1, <1>2, <1>3, <1>4, <1>5, <1>6, <1>7, <1>8, <1>9, <1>10,
            <1>11, <1>12, <1>13 DEF Next

\* Without failing writes the pool never has more bkts than the limit and
\* one, or than the threads can use together with the locked pages: for any
\* number of threads, any limit and any number of pages per thread.
THEOREM CacheIsBounded ==
  ASSUME BoundSetting
  PROVE  Spec => []CacheBound
<1>1. Init => PoolInv /\ LatchInv /\ BoundInv
  BY PoolInvInit, EmptyLatch, EmptyBound DEF Init, NothingUsed
<1>2. PoolInv /\ LatchInv /\ BoundInv /\ [Next]_vars => (PoolInv /\ LatchInv /\ BoundInv)'
  BY PoolInvNext, LatchInvNext, BoundInvNext DEF BoundSetting
<1>3. BoundInv => CacheBound
  BY DEF BoundInv
<1>. QED BY <1>1, <1>2, <1>3, PTL DEF Spec


\* The variables of the pool keep their types: the LRU list is a list of
\* bkts, and a thread that waits has a bkt it waits for.
THEOREM VariablesKeepTypes == Spec => []TypeOK
<1>1. TypeOK /\ LruIsPool => TypeOK
  OBVIOUS
<1>. QED BY <1>1, PoolListsCorrect, PTL
=============================================================================
