-------------------------- MODULE PoolStoreProofs --------------------------
(***************************************************************************)
(* The pool implements PageStore: caching, eviction, write-back, duplicate *)
(* copies, failing writes and the hand-over to waiters are invisible to    *)
(* the threads that claim pages.                                           *)
(***************************************************************************)
EXTENDS PagePoolProofs

\* The clients and files this is about: a thread does not get a page it
\* holds again; the file has this machine's byte order; pages are moved only
\* by a thread that is alone (close and open); and a pool is not closed when
\* writes may fail, as close drops what it could not write.
Setting ==
  MaxNest = 1 /\ ~ForeignOrder /\ Moves # "any" /\ ~(Closes /\ WriteFaults)

\* The bkt that a lookup of its page finds.
Latest(b) ==
  b \in Cached /\ \A c \in CachedAs(bkt[b].pgno) \ {b} : Pos(c) < Pos(b)

\* A page is being changed only while it is claimed.
ModPinned == \A b \in mod : b \in Bkts /\ bkt[b].pinned

\* An older copy of a page, which new_page left behind: nobody uses it and
\* there is nothing to write, so eviction takes it before the latest one.
OldIdle ==
  \A b \in Cached :
    ~Latest(b) => bkt[b].pgno \in DupPages /\ Evictable(b) /\ ~bkt[b].dirty

\* Pages are in this machine's byte order, in memory and in the file.
Unswapped ==
  /\ \A b \in Bkts : bkt[b].page.swapped = FALSE
  /\ \A p \in Pages : disk[p].swapped = FALSE

\* The latest copy is the file's unless it is dirty or being changed.
CleanLatest ==
  \A b \in Bkts :
    Latest(b) /\ ~bkt[b].dirty /\ b \notin mod => bkt[b].page = disk[bkt[b].pgno]

StoreInv ==
  /\ PinnedOwned /\ ModPinned /\ OldIdle /\ Unswapped
  /\ CleanLatest /\ NothingBeyondEnd

----------------------------------------------------------------------------
(***************************************************************************)
(* What the page store sees.                                               *)
(***************************************************************************)
FindsLatest == \A b \in Bkts : Latest(b) => Find(bkt[b].pgno) = b

\* The lookup of a page finds its latest bkt.
LEMMA FindLatest == PoolInv => FindsLatest
<1> SUFFICES ASSUME PoolInv, NEW b \in Bkts, Latest(b)
             PROVE  Find(bkt[b].pgno) = b
  BY DEF FindsLatest
<1> DEFINE p == bkt[b].pgno
<1>1. p \in Pages /\ b \in CachedAs(p)
  BY DEF Latest, Cached, CachedAs, PoolInv, TypeOK, Bkt
<1>2. Find(p) \in CachedAs(p) /\ \A c \in CachedAs(p) \ {Find(p)} : Pos(c) < Pos(Find(p))
  BY <1>1, FindType
<1>3. Find(p) \in Cached
  BY <1>1, FindType
<1>4. Pos(b) \in Nat /\ Pos(Find(p)) \in Nat
  BY <1>3, PosType, LenProperties DEF Latest, PoolInv, TypeOK
<1>. QED BY <1>1, <1>2, <1>4 DEF Latest

\* With the machine's byte order the filters change nothing.
LEMMA FiltersIdle ==
  ASSUME ~ForeignOrder, NEW c \in Content, c.swapped = FALSE
  PROVE  PgIn(c) = c /\ PgOut(c) = c
<1>1. ASSUME c.val = Clean PROVE c = CleanPage
  BY <1>1 DEF Content, CleanPage
<1>. QED BY <1>1 DEF PgIn, PgOut

ViewFacts ==
  /\ \A b \in Bkts : Latest(b) => bkt[b].pgno \in Pages /\ View(bkt[b].pgno) = bkt[b].page
  /\ \A p \in Pages : CachedAs(p) = {} => View(p) = disk[p]
  /\ \A p \in Pages : CachedAs(p) = {} \/ \E b \in Bkts : Latest(b) /\ bkt[b].pgno = p

\* What the store holds for a page: the latest copy, or what the file has.
LEMMA ViewIs ==
  ASSUME Setting
  PROVE  PoolInv /\ StoreInv => ViewFacts
<1> SUFFICES ASSUME PoolInv, StoreInv PROVE ViewFacts
  OBVIOUS
<1>1. ASSUME NEW b \in Bkts, Latest(b)
      PROVE  bkt[b].pgno \in Pages /\ View(bkt[b].pgno) = bkt[b].page
  <2>1. Find(bkt[b].pgno) = b
    BY <1>1, FindLatest DEF FindsLatest
  <2>2. bkt[b].pgno \in Pages /\ b \in CachedAs(bkt[b].pgno)
    BY <1>1 DEF Latest, Cached, CachedAs, PoolInv, TypeOK, Bkt
  <2>. QED BY <2>1, <2>2 DEF View
<1>2. ASSUME NEW p \in Pages, CachedAs(p) = {}
      PROVE  View(p) = disk[p]
  <2>1. disk[p] \in Content /\ disk[p].swapped = FALSE
    BY DEF PoolInv, TypeOK, StoreInv, Unswapped
  <2>. QED BY <1>2, <2>1, FiltersIdle DEF View, Setting
<1>3. ASSUME NEW p \in Pages, CachedAs(p) # {}
      PROVE  \E b \in Bkts : Latest(b) /\ bkt[b].pgno = p
  <2>1. /\ Find(p) \in CachedAs(p) /\ Find(p) \in Cached
        /\ \A c \in CachedAs(p) \ {Find(p)} : Pos(c) < Pos(Find(p))
    BY <1>3, FindType
  <2>2. Find(p) \in Bkts /\ bkt[Find(p)].pgno = p
    BY <2>1 DEF CachedAs
  <2>. QED BY <2>1, <2>2 DEF Latest
<1>. QED BY <1>1, <1>2, <1>3 DEF ViewFacts

HolderFacts ==
  /\ \A b \in Bkts : bkt[b].pinned => HolderOf(bkt[b].pgno) = bkt[b].owner
  /\ \A p \in Pages :
       (\A b \in Bkts : bkt[b].pgno = p => ~bkt[b].pinned) => HolderOf(p) = NoThread

\* Who holds a page: the thread its bkt is pinned for.
LEMMA HolderIs == PoolInv /\ LatchInv /\ StoreInv => HolderFacts
<1> SUFFICES ASSUME PoolInv, LatchInv, StoreInv PROVE HolderFacts
  OBVIOUS
<1>0. \A t \in Threads, b \in Bkts :
        b \in Held(t) <=> bkt[b].pinned /\ bkt[b].owner = t
  BY DEF LatchInv, HoldsPin, Held
<1>1. ASSUME NEW b \in Bkts, bkt[b].pinned
      PROVE  HolderOf(bkt[b].pgno) = bkt[b].owner
  <2> DEFINE p == bkt[b].pgno
  <2>1. bkt[b].owner \in Threads /\ b \in Held(bkt[b].owner)
    BY <1>0, <1>1 DEF StoreInv, PinnedOwned
  <2>2. ASSUME NEW t \in Threads, NEW c \in Held(t), bkt[c].pgno = p
        PROVE  t = bkt[b].owner
    <3>1. c \in Bkts /\ bkt[c].pinned /\ bkt[c].owner = t
      BY <1>0, <2>2 DEF Held
    <3>2. CASE c # b
      <4>1. b \in Cached /\ c \in Cached /\ c \in CachedAs(p) /\ b \in CachedAs(p)
        BY <1>1, <2>2, <3>1 DEF PoolInv, BusyCached, CachedAs
      <4>2. Pos(b) < Pos(c) /\ Pos(c) < Pos(b)
        BY <1>1, <2>2, <3>1, <3>2, <4>1 DEF LatchInv, BusyLatest, Busy
      <4>3. Pos(b) \in Nat /\ Pos(c) \in Nat
        BY <4>1, PosType, LenProperties DEF PoolInv, TypeOK
      <4>. QED BY <4>2, <4>3
    <3>. QED BY <3>1, <3>2
  <2>. QED BY <2>1, <2>2, Zenon DEF HolderOf
<1>2. ASSUME NEW p \in Pages, \A b \in Bkts : bkt[b].pgno = p => ~bkt[b].pinned
      PROVE  HolderOf(p) = NoThread
  BY <1>0, <1>2 DEF HolderOf, Held
<1>. QED BY <1>1, <1>2 DEF HolderFacts

----------------------------------------------------------------------------
(***************************************************************************)
(* What writing bkts back does to the file.                                *)
(***************************************************************************)
PlaceFacts ==
  /\ \A c \in Cached : c \in Bkts /\ Pos(c) \in Nat /\ bkt[c].pgno \in Pages
  /\ \A c, d \in Cached : Pos(c) < Pos(d) \/ Pos(d) < Pos(c) \/ c = d
  /\ \A c, d \in Cached : Pos(c) < Pos(d) => ~(Pos(d) < Pos(c)) /\ c # d

\* The LRU list orders the cached bkts.
LEMMA Places == PoolInv => PlaceFacts
<1> SUFFICES ASSUME PoolInv PROVE PlaceFacts
  OBVIOUS
<1>1. \A c \in Cached : /\ Pos(c) \in Nat /\ lru[Pos(c)] = c
                        /\ c \in Bkts /\ bkt[c].pgno \in Pages
  BY PosType, LenProperties DEF PoolInv, TypeOK, Cached, Bkt
<1>2. \A c, d \in Cached : Pos(c) = Pos(d) => c = d
  BY <1>1
<1>3. \A c, d \in Cached : Pos(c) < Pos(d) \/ Pos(d) < Pos(c) \/ c = d
  BY <1>1, <1>2
<1>. QED BY <1>1, <1>3 DEF PlaceFacts

\* A page has one latest bkt.
LEMMA OneLatest ==
  ASSUME PoolInv, NEW b, NEW c, Latest(b), Latest(c), bkt[b].pgno = bkt[c].pgno
  PROVE  b = c
<1>1. b \in Cached /\ c \in Cached /\ b \in CachedAs(bkt[b].pgno) /\ c \in CachedAs(bkt[b].pgno)
  BY DEF Latest, Cached, CachedAs
<1>. QED BY <1>1, Places DEF Latest, PlaceFacts

\* A bkt somebody uses, and one with something to write, is its page's latest.
LEMMA BusyIsLatest ==
  ASSUME PoolInv, LatchInv, StoreInv, NEW b \in Bkts,
         Busy(b) \/ (b \in Cached /\ bkt[b].dirty)
  PROVE  Latest(b)
<1>1. CASE Busy(b)
  BY <1>1 DEF PoolInv, BusyCached, LatchInv, BusyLatest, Busy, Latest
<1>2. CASE b \in Cached /\ bkt[b].dirty
  BY <1>2 DEF StoreInv, OldIdle
<1>. QED BY <1>1, <1>2

\* A page written back is what the file has; the other pages are as before.
LEMMA WrittenBack ==
  ASSUME Setting, PoolInv, StoreInv, NEW d \in [Pages -> Content],
         NEW W \in SUBSET Cached, \A b \in W : bkt[b].dirty
  PROVE  /\ \A b \in W : Latest(b) /\ DiskAfter(d, W)[bkt[b].pgno] = bkt[b].page
         /\ \A p \in Pages : (\A b \in W : bkt[b].pgno # p) => DiskAfter(d, W)[p] = d[p]
<1>1. ASSUME NEW b \in W
      PROVE  Latest(b) /\ DiskAfter(d, W)[bkt[b].pgno] = bkt[b].page
  <2> DEFINE p == bkt[b].pgno
             S == {c \in W : bkt[c].pgno = p}
  <2>1. Latest(b)
    BY DEF StoreInv, OldIdle
  <2>2. S = {b}
    <3>1. \A c \in S : Latest(c) /\ bkt[c].pgno = bkt[b].pgno
      BY DEF StoreInv, OldIdle
    <3>2. \A c \in S : c = b
      BY <2>1, <3>1, OneLatest
    <3>. QED BY <3>2
  <2>3. Oldest(S) = b
    BY <2>2, OldestType
  <2>4. b \in Bkts /\ p \in Pages /\ bkt[b].page \in Content
    BY DEF Cached, PoolInv, TypeOK, Bkt
  <2>5. bkt[b].page.swapped = FALSE
    BY <2>4 DEF StoreInv, Unswapped
  <2>6. PgOut(bkt[b].page) = bkt[b].page
    BY <2>4, <2>5, FiltersIdle DEF Setting
  <2>7. DiskAfter(d, W)[p] = IF S = {} THEN d[p] ELSE PgOut(bkt[Oldest(S)].page)
    BY <2>4 DEF DiskAfter
  <2>. QED BY <2>1, <2>2, <2>3, <2>6, <2>7
<1>2. ASSUME NEW p \in Pages, \A b \in W : bkt[b].pgno # p
      PROVE  DiskAfter(d, W)[p] = d[p]
  BY <1>2 DEF DiskAfter
<1>. QED BY <1>1, <1>2

\* Pages written back keep what they hold and are clean.
LEMMA CleanedBkts ==
  ASSUME Setting, PoolInv, StoreInv, NEW W, NEW T, W \subseteq T
  PROVE  \A b \in Bkts :
           /\ BktAfter(W, T)[b].page = bkt[b].page
           /\ BktAfter(W, T)[b].dirty = (bkt[b].dirty /\ b \notin W)
<1> TAKE b \in Bkts
<1>1. bkt[b] \in Bkt /\ bkt[b].page \in Content /\ bkt[b].page.swapped = FALSE
  BY DEF PoolInv, TypeOK, Bkt, StoreInv, Unswapped
<1>2. PgOut(bkt[b].page) = bkt[b].page
  BY <1>1, FiltersIdle DEF Setting
<1>3. (bkt[b].dirty /\ b \notin W) \in BOOLEAN /\ bkt[b].dirty \in BOOLEAN
  BY <1>1 DEF Bkt
<1>4. CASE b \in T
  <2> DEFINE n == [bkt[b] EXCEPT !.dirty = @ /\ b \notin W, !.page = PgOut(@)]
  <2>1. BktAfter(W, T)[b] = n
    BY <1>4 DEF BktAfter
  <2>2. n.page = PgOut(bkt[b].page) /\ n.dirty = (bkt[b].dirty /\ b \notin W)
    BY <1>1, Zenon DEF Bkt
  <2>. QED BY <1>2, <2>1, <2>2
<1>5. CASE b \notin T
  <2>1. BktAfter(W, T)[b] = bkt[b]
    BY <1>5 DEF BktAfter
  <2>. QED BY <1>3, <1>5, <2>1
<1>. QED BY <1>4, <1>5

\* The extent covers what it was and the pages written.
LEMMA ExtentCovers ==
  ASSUME PoolInv, NEW n \in Nat, NEW S \in SUBSET Cached
  PROVE  /\ Extent(n, S) \in Nat /\ n <= Extent(n, S)
         /\ \A b \in S : bkt[b].pgno < Extent(n, S)
<1> DEFINE X == {n} \cup {bkt[b].pgno + 1 : b \in S}
<1>1. \A b \in S : bkt[b].pgno \in Pages
  BY Places DEF PlaceFacts
<1>2. LastPage \in Nat
  BY PoolAssumption
<1>3. X \in SUBSET Nat /\ X # {} /\ \A x \in X : x <= n + LastPage + 1
  BY <1>1, <1>2 DEF Pages
<1>4. n + LastPage + 1 \in Nat
  BY <1>2
<1>5. Max(X) \in X /\ \A y \in X : y <= Max(X)
  BY <1>3, <1>4, MaxExists
<1>6. \A b \in S : bkt[b].pgno + 1 \in X
  OBVIOUS
<1>7. Extent(n, S) = Max(X)
  BY DEF Extent
<1>8. n \in X
  OBVIOUS
<1>9. \A b \in S : bkt[b].pgno \in Nat
  BY <1>1, <1>2 DEF Pages
<1> HIDE DEF X
<1>10. Extent(n, S) \in Nat /\ n <= Extent(n, S)
  BY <1>3, <1>5, <1>7, <1>8
<1>11. ASSUME NEW b \in S PROVE bkt[b].pgno < Extent(n, S)
  <2>1. bkt[b].pgno + 1 <= Extent(n, S)
    BY <1>5, <1>6, <1>7
  <2>. QED BY <1>9, <1>10, <2>1
<1>. QED BY <1>10, <1>11

----------------------------------------------------------------------------
(***************************************************************************)
(* The shape of a step.  Every call but close works on one bkt x (or none) *)
(* and writes some bkts W back on the way.                                 *)
(***************************************************************************)
On(x, p) == x \in Cached /\ bkt[x].pgno = p

\* The other bkts keep all but a dirty flag, and their order.
OthersKept(x, W) ==
  /\ \A d \in Bkts \ {x} :
       /\ bkt'[d].pgno = bkt[d].pgno
       /\ bkt'[d].page = bkt[d].page
       /\ bkt'[d].pinned = bkt[d].pinned
       /\ bkt'[d].owner = bkt[d].owner
       /\ bkt'[d].wqh = bkt[d].wqh
       /\ bkt'[d].locked = bkt[d].locked
       /\ bkt'[d].dirty = (bkt[d].dirty /\ d \notin W)
       /\ d \in mod' <=> d \in mod
  /\ \A c, d \in Cached \ {x} : Pos(c) < Pos(d) => Pos(c)' < Pos(d)'

\* x leaves no copy behind that would become the latest one, and is the
\* latest of the page where it is then.
ComesAndGoes(x) ==
  /\ \A p \in Pages : On(x, p) /\ ~On(x, p)' => ~Latest(x) \/ CachedAs(p) = {x}
  /\ \A d \in Cached \ {x} :
       On(x, bkt[d].pgno)' => /\ Pos(d)' < Pos(x)'
                              /\ bkt[d].pgno \in DupPages
                              /\ Evictable(d) /\ ~bkt[d].dirty

\* The file has the pages that were written, and no others change but x's.
FileFollows(x, W) ==
  /\ \A d \in Bkts \ {x} :
       Latest(d) => disk'[bkt[d].pgno] = IF d \in W THEN bkt[d].page
                                                     ELSE disk[bkt[d].pgno]
  /\ \A p \in Pages : CachedAs(p) = {} => disk'[p] = disk[p]
  /\ \A p \in Pages : disk'[p].swapped = FALSE

\* What StoreInv says of one bkt.
Sound(x) ==
  x \in Bkts =>
    /\ bkt[x].pinned => bkt[x].owner \in Threads
    /\ x \in mod => bkt[x].pinned
    /\ bkt[x].page.swapped = FALSE
    /\ x \in Cached /\ ~bkt[x].dirty /\ x \notin mod => bkt[x].page = disk[bkt[x].pgno]

StoreStep(x, W) ==
  /\ OthersKept(x, W) /\ ComesAndGoes(x) /\ FileFollows(x, W)
  /\ Sound(x)' /\ NothingBeyondEnd'

\* The latest bkts after a step: x, and the others where x is not.
LEMMA LatestAfter ==
  ASSUME PoolInv, PoolInv', NEW x \in Bkts \cup {NoBkt}, NEW W, StoreStep(x, W)
  PROVE  /\ x \in Cached' => Latest(x)'
         /\ \A d \in Bkts \ {x} : Latest(d)' <=> Latest(d) /\ ~On(x, bkt[d].pgno)'
<1> USE DEF StoreStep
<1>0. PlaceFacts /\ PlaceFacts'
  BY Places, PTL
<1>1. \A d \in Bkts \ {x} : bkt'[d].pgno = bkt[d].pgno /\ (d \in Cached' <=> d \in Cached)
  BY DEF OthersKept, Cached
<1>2. ASSUME x \in Cached' PROVE Latest(x)'
  <2> SUFFICES ASSUME NEW c \in CachedAs(bkt[x].pgno)', c # x
               PROVE  Pos(c)' < Pos(x)'
    BY <1>2 DEF Latest
  <2>1. c \in Bkts \ {x} /\ bkt'[c].pgno = bkt'[x].pgno /\ c \in Cached'
    BY <1>2 DEF CachedAs, Cached
  <2>2. c \in Cached \ {x} /\ On(x, bkt[c].pgno)'
    BY <1>1, <1>2, <2>1 DEF On
  <2>. QED BY <2>2 DEF ComesAndGoes
<1>3. ASSUME NEW d \in Bkts \ {x}, Latest(d), ~On(x, bkt[d].pgno)'
      PROVE  Latest(d)'
  <2>1. d \in Cached /\ d \in Cached'
    BY <1>1, <1>3 DEF Latest
  <2> SUFFICES ASSUME NEW c \in CachedAs(bkt[d].pgno)', c # d
               PROVE  Pos(c)' < Pos(d)'
    BY <2>1 DEF Latest
  <2>2. c \in Bkts /\ bkt'[c].pgno = bkt[d].pgno /\ c \in Cached'
    BY <1>1, <2>1 DEF CachedAs, Cached
  <2>3. c # x
    BY <1>1, <1>3, <2>2 DEF On
  <2>4. c \in CachedAs(bkt[d].pgno) /\ c \in Cached
    BY <1>1, <2>2, <2>3 DEF CachedAs
  <2>5. Pos(c) < Pos(d)
    BY <1>3, <2>4 DEF Latest
  <2>. QED BY <2>1, <2>3, <2>4, <2>5 DEF OthersKept
<1>4. ASSUME NEW d \in Bkts \ {x}, Latest(d)', On(x, bkt[d].pgno)'
      PROVE  FALSE
  <2>1. d \in Cached \ {x} /\ d \in Cached'
    BY <1>1, <1>4 DEF Latest
  <2>2. Pos(d)' < Pos(x)' /\ x \in Cached' /\ bkt'[x].pgno = bkt'[d].pgno
    BY <1>1, <1>4, <2>1 DEF ComesAndGoes, On
  <2>3. x \in CachedAs(bkt[d].pgno)'
    BY <2>2 DEF CachedAs, Cached
  <2>4. Pos(x)' < Pos(d)'
    BY <1>4, <2>3 DEF Latest
  <2>. QED BY <1>0, <2>1, <2>2, <2>4 DEF PlaceFacts
<1>5. ASSUME NEW d \in Bkts \ {x}, Latest(d)', ~On(x, bkt[d].pgno)', ~Latest(d)
      PROVE  FALSE
  <2>1. d \in Cached \ {x} /\ d \in Cached'
    BY <1>1, <1>5 DEF Latest
  <2>2. PICK c \in CachedAs(bkt[d].pgno) \ {d} : ~(Pos(c) < Pos(d))
    BY <1>5, <2>1 DEF Latest
  <2>3. c \in Cached /\ bkt[c].pgno = bkt[d].pgno
    BY <2>1, <2>2 DEF CachedAs, Cached
  <2>4. Pos(d) < Pos(c)
    BY <1>0, <2>1, <2>2, <2>3 DEF PlaceFacts
  <2>5. ASSUME NEW e \in Cached \ {x}, bkt[e].pgno = bkt[d].pgno, Pos(d) < Pos(e)
        PROVE  FALSE
    <3>1. e \in CachedAs(bkt[d].pgno)' /\ e \in Cached' /\ e # d
      BY <1>0, <1>1, <2>1, <2>5 DEF CachedAs, PlaceFacts
    <3>2. Pos(e)' < Pos(d)'
      BY <1>5, <3>1 DEF Latest
    <3>3. Pos(d)' < Pos(e)'
      BY <2>1, <2>5 DEF OthersKept
    <3>. QED BY <1>0, <2>1, <3>1, <3>2, <3>3 DEF PlaceFacts
  <2>6. CASE c = x
    <3>0. PICK p \in Pages : p = bkt[d].pgno
      BY <1>0, <2>1 DEF PlaceFacts
    <3>1. On(x, p) /\ ~On(x, p)'
      BY <1>1, <1>5, <2>1, <2>3, <2>6, <3>0 DEF On
    <3>2. CachedAs(p) # {x}
      BY <1>0, <2>1, <3>0 DEF CachedAs, PlaceFacts
    <3>3. ~Latest(x)
      BY <3>1, <3>2 DEF ComesAndGoes
    <3>4. PICK e \in CachedAs(p) \ {x} : ~(Pos(e) < Pos(x))
      BY <2>3, <2>6, <3>0, <3>3 DEF Latest
    <3>5. e \in Cached \ {x} /\ bkt[e].pgno = p
      BY <2>1, <3>0, <3>4 DEF CachedAs, Cached
    <3>6. Pos(x) < Pos(e)
      BY <1>0, <2>3, <2>6, <3>4, <3>5 DEF PlaceFacts
    <3>7. Pos(d) \in Nat /\ Pos(x) \in Nat /\ Pos(e) \in Nat
      BY <1>0, <2>1, <2>3, <2>6, <3>5 DEF PlaceFacts
    <3>8. Pos(d) < Pos(e)
      BY <2>4, <2>6, <3>6, <3>7
    <3>. QED BY <2>5, <3>0, <3>5, <3>8
  <2>. QED BY <2>3, <2>4, <2>5, <2>6
<1>. QED BY <1>2, <1>3, <1>4, <1>5

\* Such a step keeps what the proof of the page store rests on.
LEMMA StoreInvStep ==
  ASSUME PoolInv, PoolInv', StoreInv, NEW x \in Bkts \cup {NoBkt}, NEW W,
         StoreStep(x, W)
  PROVE  StoreInv'
<1> USE DEF StoreStep
<1>0. /\ x \in Cached' => Latest(x)'
      /\ \A d \in Bkts \ {x} : Latest(d)' <=> Latest(d) /\ ~On(x, bkt[d].pgno)'
  BY LatestAfter
<1>1. PinnedOwned'
  BY DEF OthersKept, Sound, StoreInv, PinnedOwned
<1>2. ModPinned'
  <2>1. mod' \subseteq Bkts
    BY DEF PoolInv, TypeOK
  <2>. QED BY <2>1 DEF OthersKept, Sound, StoreInv, ModPinned
<1>3. OldIdle'
  <2> SUFFICES ASSUME NEW d \in Cached', ~Latest(d)'
               PROVE  (bkt[d].pgno \in DupPages /\ Evictable(d) /\ ~bkt[d].dirty)'
    BY DEF OldIdle
  <2>1. d \in Bkts \ {x}
    BY <1>0 DEF Cached
  <2>2. bkt'[d].pgno = bkt[d].pgno /\ d \in Cached
    BY <2>1 DEF OthersKept, Cached
  <2>3. bkt[d].pgno \in DupPages /\ Evictable(d) /\ ~bkt[d].dirty
    <3>1. CASE Latest(d)
      <4>1. On(x, bkt[d].pgno)'
        BY <1>0, <2>1, <3>1
      <4>. QED BY <2>1, <2>2, <4>1 DEF ComesAndGoes
    <3>2. CASE ~Latest(d)
      BY <2>2, <3>2 DEF StoreInv, OldIdle
    <3>. QED BY <3>1, <3>2
  <2>. QED BY <2>1, <2>2, <2>3 DEF OthersKept, Evictable
<1>4. Unswapped'
  BY DEF OthersKept, Sound, StoreInv, Unswapped, FileFollows
<1>5. CleanLatest'
  <2> SUFFICES ASSUME NEW d \in Bkts, Latest(d)', ~bkt'[d].dirty, d \notin mod'
               PROVE  bkt'[d].page = disk'[bkt'[d].pgno]
    BY DEF CleanLatest
  <2>1. CASE d = x
    BY <2>1 DEF Sound, Latest
  <2>2. CASE d # x
    <3>1. Latest(d)
      BY <1>0, <2>2
    <3>2. /\ bkt'[d].page = bkt[d].page /\ bkt'[d].pgno = bkt[d].pgno
          /\ d \in W \/ ~bkt[d].dirty
          /\ d \notin mod
      BY <2>2 DEF OthersKept
    <3>3. d \notin W => bkt[d].page = disk[bkt[d].pgno]
      BY <3>1, <3>2 DEF StoreInv, CleanLatest
    <3>4. disk'[bkt[d].pgno] = IF d \in W THEN bkt[d].page ELSE disk[bkt[d].pgno]
      BY <2>2, <3>1 DEF FileFollows
    <3>. QED BY <3>2, <3>3, <3>4
  <2>. QED BY <2>1, <2>2
<1>. QED BY <1>1, <1>2, <1>3, <1>4, <1>5 DEF StoreInv

----------------------------------------------------------------------------
(***************************************************************************)
(* The calls are such steps.                                               *)
(***************************************************************************)
\* A call that works on the latest bkt of a page where it is.
LEMMA OneBktStep ==
  ASSUME PoolInv, PoolInv', StoreInv, NEW b \in Bkts, Latest(b),
         \A d \in Bkts \ {b} : bkt'[d] = bkt[d] /\ (d \in mod' <=> d \in mod),
         bkt'[b].pgno = bkt[b].pgno,
         lru' = lru \/ lru' = Touch(b), UNCHANGED <<disk, npages>>,
         Sound(b)'
  PROVE  StoreStep(b, {})
<1>0. PlaceFacts /\ PlaceFacts'
  BY Places, PTL
<1>1. Cached' = Cached /\ b \in Cached
  BY DEF Cached, Latest
<1>2. \A c, d \in Cached \ {b} : Pos(c) < Pos(d) => Pos(c)' < Pos(d)'
  <2>1. CASE lru' = lru
    BY <2>1 DEF Pos
  <2>2. CASE lru' = Touch(b)
    BY <2>2, TouchOrder
  <2>. QED BY <2>1, <2>2
<1>3. OthersKept(b, {})
  <2>1. \A d \in Bkts : bkt[d].dirty \in BOOLEAN
    BY DEF PoolInv, TypeOK, Bkt
  <2>. QED BY <1>2, <2>1 DEF OthersKept
<1>4. ComesAndGoes(b)
  <2>1. ASSUME NEW d \in Cached \ {b}, On(b, bkt[d].pgno)'
        PROVE  /\ Pos(d)' < Pos(b)' /\ bkt[d].pgno \in DupPages
               /\ Evictable(d) /\ ~bkt[d].dirty
    <3>1. d \in Bkts \ {b} /\ bkt[d].pgno = bkt[b].pgno
      BY <1>0, <2>1 DEF On, PlaceFacts
    <3>2. Pos(d) < Pos(b)
      BY <3>1 DEF Latest, CachedAs
    <3>3. b \in CachedAs(bkt[d].pgno) \ {d}
      BY <3>1 DEF CachedAs
    <3>4. ~Latest(d)
      BY <1>0, <1>1, <2>1, <3>2, <3>3 DEF Latest, PlaceFacts
    <3>5. bkt[d].pgno \in DupPages /\ Evictable(d) /\ ~bkt[d].dirty
      BY <2>1, <3>4 DEF StoreInv, OldIdle
    <3>6. Pos(d)' < Pos(b)'
      <4>1. CASE lru' = lru
        BY <3>2, <4>1 DEF Pos
      <4>2. CASE lru' = Touch(b)
        BY <2>1, <4>2, TouchOrder
      <4>. QED BY <4>1, <4>2
    <3>. QED BY <3>5, <3>6
  <2>2. \A p \in Pages : On(b, p) => On(b, p)'
    BY <1>1 DEF On
  <2>. QED BY <2>1, <2>2 DEF ComesAndGoes
<1>5. FileFollows(b, {})
  BY DEF FileFollows, StoreInv, Unswapped
<1>6. NothingBeyondEnd'
  BY DEF StoreInv, NothingBeyondEnd
<1>. QED BY <1>3, <1>4, <1>5, <1>6 DEF StoreStep

\* A claim of the latest bkt of a page.
LEMMA ClaimStep ==
  ASSUME PoolInv, PoolInv', StoreInv, NEW t \in Threads, NEW b \in Bkts,
         Latest(b), NEW f \in Flags, NEW q \in Seq(Threads), Claim(t, b, f, q)
  PROVE  /\ StoreStep(b, {})
         /\ bkt'[b].pgno = bkt[b].pgno /\ bkt'[b].page = bkt[b].page
         /\ bkt'[b].pinned = TRUE /\ bkt'[b].owner = t
<1>1. /\ \A d \in Bkts \ {b} : bkt'[d] = bkt[d]
      /\ bkt'[b].pgno = bkt[b].pgno /\ bkt'[b].pinned = TRUE /\ bkt'[b].owner = t
  BY ClaimBkt
<1>2. bkt[b] \in Bkt
  BY DEF PoolInv, TypeOK
<1>3. bkt'[b].page = bkt[b].page /\ (bkt[b].dirty => bkt'[b].dirty)
  <2> DEFINE d == bkt[b].dirty \/ f # "read"
             n == [bkt[b] EXCEPT !.ref = @ + 1, !.owner = t, !.pinned = TRUE,
                                 !.dirty = d, !.locked = @ \/ f = "lock", !.wqh = q]
  <2>1. n.page = bkt[b].page /\ n.dirty = d
    BY <1>2, Zenon DEF Bkt
  <2>2. bkt' = [bkt EXCEPT ![b] = n]
    BY DEF Claim
  <2> HIDE DEF n
  <2>3. bkt'[b] = n
    BY <2>2 DEF PoolInv, TypeOK
  <2>. QED BY <2>1, <2>3
<1>4. UNCHANGED <<disk, npages, mod>> /\ lru' = Touch(b)
  BY DEF Claim
<1>5. Sound(b)'
  BY <1>1, <1>3, <1>4 DEF Sound, StoreInv, Unswapped, CleanLatest
<1>. QED BY <1>1, <1>3, <1>4, <1>5, OneBktStep

\* A thread joins the queue of a page.
LEMMA WaitStep ==
  ASSUME PoolInv, PoolInv', StoreInv, NEW t \in Threads, NEW b \in Bkts,
         Latest(b), bkt' = [bkt EXCEPT ![b].wqh = Append(@, t)],
         UNCHANGED <<lru, disk, npages, mod>>
  PROVE  /\ StoreStep(b, {})
         /\ bkt'[b].pgno = bkt[b].pgno /\ bkt'[b].page = bkt[b].page
         /\ bkt'[b].pinned = bkt[b].pinned /\ bkt'[b].owner = bkt[b].owner
<1> DEFINE n == [bkt[b] EXCEPT !.wqh = Append(@, t)]
<1>1. bkt[b] \in Bkt
  BY DEF PoolInv, TypeOK
<1>2. /\ n.pgno = bkt[b].pgno /\ n.page = bkt[b].page /\ n.pinned = bkt[b].pinned
      /\ n.owner = bkt[b].owner /\ n.dirty = bkt[b].dirty
  BY <1>1, Zenon DEF Bkt
<1>3. bkt' = [bkt EXCEPT ![b] = n]
  OBVIOUS
<1> HIDE DEF n
<1>4. bkt'[b] = n /\ \A d \in Bkts \ {b} : bkt'[d] = bkt[d]
  BY <1>3 DEF PoolInv, TypeOK
<1>5. Sound(b)'
  BY <1>2, <1>4 DEF Sound, StoreInv, PinnedOwned, ModPinned, Unswapped, CleanLatest
<1>. QED BY <1>2, <1>4, <1>5, OneBktStep

\* A client changes the page it holds.
LEMMA ModifyStep ==
  ASSUME PoolInv, PoolInv', LatchInv, StoreInv, NEW t \in Threads,
         NEW b \in Bkts, NEW v \in Values, Modify(t, b, v)
  PROVE  /\ StoreStep(b, {}) /\ Latest(b)
         /\ bkt'[b].pgno = bkt[b].pgno /\ bkt'[b].page.val = v
         /\ bkt[b].pinned /\ bkt[b].owner = t
         /\ bkt'[b].pinned = bkt[b].pinned /\ bkt'[b].owner = bkt[b].owner
<1> DEFINE c == [val |-> v, swapped |-> FALSE]
           n == [bkt[b] EXCEPT !.page = c]
<1>0. bkt[b].pinned /\ bkt[b].owner = t
  BY HeldPinned DEF Modify
<1>1. bkt[b] \in Bkt /\ Latest(b)
  BY <1>0, BusyIsLatest DEF PoolInv, TypeOK, Busy
<1>2. /\ n.pgno = bkt[b].pgno /\ n.page = c /\ n.pinned = bkt[b].pinned
      /\ n.owner = bkt[b].owner
  BY <1>1, Zenon DEF Bkt
<1>3. c.val = v /\ c.swapped = FALSE
  OBVIOUS
<1>4. bkt' = [bkt EXCEPT ![b] = n] /\ mod' = mod \cup {b} /\ UNCHANGED <<lru, disk, npages>>
  BY DEF Modify
<1> HIDE DEF n, c
<1>5. bkt'[b] = n /\ \A d \in Bkts \ {b} : bkt'[d] = bkt[d]
  BY <1>4 DEF PoolInv, TypeOK
<1>6. Sound(b)'
  BY <1>0, <1>2, <1>3, <1>4, <1>5 DEF Sound
<1>7. StoreStep(b, {})
  BY <1>1, <1>2, <1>4, <1>5, <1>6, OneBktStep
<1>. QED BY <1>0, <1>1, <1>2, <1>3, <1>5, <1>7

\* A page given back.
LEMMA ReleaseStep ==
  ASSUME PoolInv, PoolInv', LatchInv, StoreInv, NEW t \in Threads,
         NEW b \in Held(t), NEW dirty \in BOOLEAN, Release(t, b, dirty),
         b \in mod /\ ~bkt[b].dirty => dirty
  PROVE  /\ StoreStep(b, {}) /\ Latest(b)
         /\ bkt'[b].pgno = bkt[b].pgno /\ bkt'[b].page = bkt[b].page
         /\ bkt'[b].pinned = FALSE
<1>0. b \in Bkts /\ bkt[b].pinned /\ Latest(b)
  BY HeldPinned, BusyIsLatest DEF Busy
<1>1. /\ \A d \in Bkts \ {b} : bkt'[d] = bkt[d]
      /\ bkt'[b].pgno = bkt[b].pgno /\ bkt'[b].pinned = FALSE
  BY <1>0, ReleaseBkt
<1>2. bkt[b] \in Bkt
  BY <1>0 DEF PoolInv, TypeOK
<1>3. bkt'[b].page = bkt[b].page /\ bkt'[b].dirty = (bkt[b].dirty \/ dirty)
  <2> DEFINE d == bkt[b].dirty \/ dirty
             n == [bkt[b] EXCEPT !.ref = @ - 1, !.owner = NoThread,
                                 !.pinned = FALSE, !.dirty = d]
  <2>1. n.page = bkt[b].page /\ n.dirty = d
    BY <1>2, Zenon DEF Bkt
  <2>2. bkt' = [bkt EXCEPT ![b] = n]
    BY DEF Release, HandOver
  <2> HIDE DEF n
  <2>3. bkt'[b] = n
    BY <1>0, <2>2 DEF PoolInv, TypeOK
  <2>. QED BY <2>1, <2>3
<1>4. UNCHANGED <<disk, npages, lru>> /\ mod' = mod \ {b}
  BY DEF Release, HandOver
<1>5. Sound(b)'
  BY <1>0, <1>1, <1>3, <1>4 DEF Sound, StoreInv, Unswapped, CleanLatest
<1>. QED BY <1>0, <1>1, <1>3, <1>4, <1>5, OneBktStep

\* The bkts W, each with something to write, are in the file.
FileWritten(W) ==
  /\ W \subseteq Cached
  /\ \A b \in W : Latest(b) /\ bkt[b].dirty /\ disk'[bkt[b].pgno] = bkt[b].page
  /\ \A p \in Pages : (\A b \in W : bkt[b].pgno # p) => disk'[p] = disk[p]

\* Writing bkts back is what the file follows.
LEMMA WrittenFollows ==
  ASSUME PoolInv, StoreInv, NEW x \in Bkts \cup {NoBkt}, NEW W, FileWritten(W)
  PROVE  FileFollows(x, W)
<1>1. ASSUME NEW d \in Bkts \ {x}, Latest(d), d \notin W
      PROVE  disk'[bkt[d].pgno] = disk[bkt[d].pgno]
  <2>1. \A b \in W : bkt[b].pgno # bkt[d].pgno
    BY <1>1, OneLatest DEF FileWritten
  <2>2. bkt[d].pgno \in Pages
    BY <1>1, Places DEF Latest, PlaceFacts
  <2>. QED BY <2>1, <2>2 DEF FileWritten
<1>2. ASSUME NEW p \in Pages, CachedAs(p) = {} PROVE disk'[p] = disk[p]
  <2>1. \A b \in W : bkt[b].pgno # p
    BY <1>2 DEF FileWritten, CachedAs, Cached
  <2>. QED BY <2>1 DEF FileWritten
<1>3. ASSUME NEW p \in Pages PROVE disk'[p].swapped = FALSE
  <2>1. CASE \A b \in W : bkt[b].pgno # p
    BY <2>1 DEF FileWritten, StoreInv, Unswapped
  <2>2. CASE \E b \in W : bkt[b].pgno = p
    BY <2>2 DEF FileWritten, StoreInv, Unswapped, Cached
  <2>. QED BY <2>1, <2>2
<1>. QED BY <1>1, <1>2, <1>3 DEF FileFollows, FileWritten

\* The file ends after the pages written.
LEMMA WrittenWithin ==
  ASSUME PoolInv, PoolInv', StoreInv, NEW W, FileWritten(W),
         npages <= npages', \A b \in W : bkt[b].pgno < npages'
  PROVE  NothingBeyondEnd'
<1> SUFFICES ASSUME NEW p \in Pages, disk'[p] # CleanPage
             PROVE  p < npages'
  BY DEF NothingBeyondEnd
<1>1. CASE \A b \in W : bkt[b].pgno # p
  <2>1. disk[p] # CleanPage
    BY <1>1 DEF FileWritten
  <2>2. p < npages
    BY <2>1 DEF StoreInv, NothingBeyondEnd
  <2>3. p \in Nat /\ npages \in Nat /\ npages' \in Nat
    BY PoolAssumption DEF Pages, PoolInv, TypeOK
  <2>. QED BY <2>2, <2>3
<1>2. CASE \E b \in W : bkt[b].pgno = p
  BY <1>2
<1>. QED BY <1>1, <1>2

\* What sync collects is cached, idle and dirty, and all of that is collected
\* when there is no limit.
LEMMA FlushSetIs ==
  ASSUME PoolInv
  PROVE  /\ \A n, skip : \A b \in FlushSet(n, skip) :
              b \in Cached /\ Flushable(b) /\ b \notin skip
         /\ \A b \in Cached : Flushable(b) => b \in FlushSet(0, {})
<1>1. \A i \in DOMAIN lru : lru[i] \in Cached
  BY ListedAreCached
<1>2. \A n, skip : \A b \in FlushSet(n, skip) :
        b \in Cached /\ Flushable(b) /\ b \notin skip
  BY <1>1 DEF FlushSet
<1>3. ASSUME NEW b \in Cached, Flushable(b) PROVE b \in FlushSet(0, {})
  <2>1. Pos(b) \in DOMAIN lru /\ lru[Pos(b)] = b
    BY PosType, LenProperties DEF PoolInv, TypeOK
  <2>. QED BY <1>3, <2>1 DEF FlushSet
<1>. QED BY <1>2, <1>3

\* What is written was tried, and all of it when writes do not fail.
LEMMA FlushesAre ==
  ASSUME NEW B, NEW o \in Flushes(B)
  PROVE  /\ o.wrote \subseteq o.tried /\ o.tried \subseteq B
         /\ ~WriteFaults => o.wrote = B
<1>1. CASE o = [wrote |-> B, tried |-> B]
  BY <1>1
<1>2. CASE \E c \in {c \in B : WriteFaults} :
             o = [wrote |-> {b \in B : bkt[b].pgno < bkt[c].pgno},
                  tried |-> {b \in B : bkt[b].pgno < bkt[c].pgno} \cup {c}]
  BY <1>2
<1>. QED BY <1>1, <1>2 DEF Flushes

\* A call that only writes bkts back.
LEMMA FlushStep ==
  ASSUME Setting, PoolInv, PoolInv', StoreInv, NEW W, NEW T \in SUBSET Cached,
         W \subseteq T, FileWritten(W), bkt' = BktAfter(W, T),
         npages' = Extent(npages, T), UNCHANGED <<lru, mod>>
  PROVE  StoreStep(NoBkt, W)
<1>0. NoBkt \notin Bkts
  BY PoolAssumption
<1>1. \A d \in Bkts :
        /\ bkt'[d].pgno = bkt[d].pgno /\ bkt'[d].pinned = bkt[d].pinned
        /\ bkt'[d].owner = bkt[d].owner /\ bkt'[d].wqh = bkt[d].wqh
        /\ bkt'[d].locked = bkt[d].locked
        /\ bkt'[d].page = bkt[d].page
        /\ bkt'[d].dirty = (bkt[d].dirty /\ d \notin W)
  BY BktAfterType, CleanedBkts
<1>2. OthersKept(NoBkt, W)
  BY <1>1 DEF OthersKept, Pos
<1>3. ComesAndGoes(NoBkt)
  BY <1>0 DEF ComesAndGoes, On, Cached
<1>4. FileFollows(NoBkt, W)
  BY WrittenFollows
<1>5. Sound(NoBkt)'
  BY <1>0 DEF Sound
<1>6. NothingBeyondEnd'
  <2>1. npages <= npages' /\ \A b \in T : bkt[b].pgno < npages'
    BY ExtentCovers DEF PoolInv, TypeOK
  <2>. QED BY <2>1, WrittenWithin
<1>. QED BY <1>2, <1>3, <1>4, <1>5, <1>6 DEF StoreStep

\* Sync is invisible.
LEMMA SyncStep ==
  ASSUME Setting, PoolInv, PoolInv', StoreInv, NEW t \in Threads, Sync(t)
  PROVE  \E W : StoreStep(NoBkt, W)
<1>1. PICK o \in Flushes(FlushSet(0, {})) : Flush(o) /\ bkt' = BktAfter(o.wrote, o.tried)
  BY DEF Sync
<1>2. \A b \in FlushSet(0, {}) : b \in Cached /\ bkt[b].dirty
  BY FlushSetIs DEF Flushable
<1>3. o.wrote \subseteq o.tried /\ o.tried \in SUBSET Cached /\ \A b \in o.wrote : bkt[b].dirty
  BY <1>2, FlushesAre
<1>4. disk' = DiskAfter(disk, o.wrote) /\ npages' = Extent(npages, o.tried)
  BY <1>1 DEF Flush
<1>5. FileWritten(o.wrote)
  <2>1. disk \in [Pages -> Content] /\ o.wrote \in SUBSET Cached
    BY <1>3 DEF PoolInv, TypeOK
  <2>2. /\ \A b \in o.wrote : /\ Latest(b)
                             /\ DiskAfter(disk, o.wrote)[bkt[b].pgno] = bkt[b].page
        /\ \A p \in Pages : (\A b \in o.wrote : bkt[b].pgno # p) =>
                              DiskAfter(disk, o.wrote)[p] = disk[p]
    BY <1>3, <2>1, WrittenBack
  <2>. QED BY <1>3, <1>4, <2>1, <2>2 DEF FileWritten
<1>6. UNCHANGED <<lru, mod>>
  BY DEF Sync, client
<1>. QED BY <1>1, <1>3, <1>4, <1>5, <1>6, FlushStep

\* A delete that fails is invisible.
LEMMA DeleteFailsStep ==
  ASSUME Setting, PoolInv, PoolInv', LatchInv, StoreInv, NEW t \in Threads,
         NEW b \in Bkts, DeleteFails(t, b)
  PROVE  StoreStep(NoBkt, {})
<1>1. {b} \in SUBSET Cached
  BY HeldPinned DEF DeleteFails
<1>2. FileWritten({})
  BY DEF DeleteFails, FileWritten
<1>. QED BY <1>1, <1>2, FlushStep DEF DeleteFails, client

\* How room is made: what is written was tried and dirty, the bkt taken over
\* is written when it is dirty, and what was passed over for it is dirty.
LEMMA RoomIs ==
  ASSUME PoolInv, NEW r \in Rooms
  PROVE  /\ r.first \subseteq {r.bp} /\ r.first \cup r.wrote \subseteq r.tried
         /\ \A b \in r.first \cup r.wrote : bkt[b].dirty
         /\ r.bp \in Cached /\ bkt[r.bp].dirty => r.bp \in r.first
         /\ r.bp \in Cached =>
              \A c \in Cached : Pos(c) < Pos(r.bp) /\ Evictable(c) => bkt[c].dirty
<1>0. DOMAIN lru = 1 .. Len(lru) /\ Len(lru) \in Nat
  BY LenProperties DEF PoolInv, TypeOK
<1>1. CASE r \in NewBkt({}) \/ r \in NewBkt(Skipped(Len(lru) + 1))
  <2>1. PICK b \in CachedAs(NoPage) : \E T :
          r = [bp |-> b, new |-> 1, first |-> {}, wrote |-> {}, tried |-> T]
    BY <1>1 DEF NewBkt
  <2>2. b \notin Cached
    BY DEF CachedAs, Cached
  <2>. QED BY <2>1, <2>2
<1>2. CASE r \in ReuseBkt
  <2>1. PICK i \in DOMAIN lru :
          /\ Evictable(lru[i]) /\ MayFail(Skipped(i))
          /\ LET b == lru[i]
                 D == IF bkt[b].dirty THEN {b} ELSE {}
                 F == IF D = {} THEN {} ELSE FlushSet(MaxCache \div WriteFrac, {b})
             IN  r \in {[bp |-> b, new |-> 0, first |-> D, wrote |-> o.wrote,
                         tried |-> Skipped(i) \cup D \cup o.tried] : o \in Flushes(F)}
    BY <1>2 DEF ReuseBkt
  <2> DEFINE b == lru[i]
             D == IF bkt[b].dirty THEN {b} ELSE {}
             F == IF D = {} THEN {} ELSE FlushSet(MaxCache \div WriteFrac, {b})
  <2>2. PICK o \in Flushes(F) :
          r = [bp |-> b, new |-> 0, first |-> D, wrote |-> o.wrote,
               tried |-> Skipped(i) \cup D \cup o.tried]
    BY <2>1
  <2>3. b \in Cached
    BY ListedAreCached
  <2>4. \A c \in F : bkt[c].dirty
    BY FlushSetIs DEF Flushable
  <2>5. \A c \in D : bkt[c].dirty
    OBVIOUS
  <2>6. bkt[b].dirty => b \in D
    OBVIOUS
  <2>7. D \subseteq {b}
    OBVIOUS
  <2> HIDE DEF D, F
  <2>8. o.wrote \subseteq o.tried /\ o.wrote \subseteq F
    BY FlushesAre
  <2>9. ASSUME NEW c \in Cached, Pos(c) < Pos(b), Evictable(c) PROVE bkt[c].dirty
    <3>1. Pos(b) = i
      <4>1. i \in 1 .. Len(lru) /\ lru \in Seq(Bkts) /\ IsInjective(lru)
        BY <1>0 DEF PoolInv, TypeOK, LruIsPool
      <4>. QED BY <4>1, PlaceOf DEF Pos
    <3>2. Pos(c) \in 1 .. Len(lru) /\ lru[Pos(c)] = c
      BY PosType
    <3>3. Pos(c) \in 1 .. i - 1
      BY <1>0, <2>9, <3>1, <3>2
    <3>4. c \in Skipped(i)
      BY <2>9, <3>2, <3>3 DEF Skipped
    <3>. QED BY <2>1, <3>4 DEF MayFail
  <2>10. r.bp = b /\ r.first = D /\ r.wrote = o.wrote /\ r.tried = Skipped(i) \cup D \cup o.tried
    BY <2>2
  <2> HIDE DEF b
  <2>11. r.first \subseteq {r.bp} /\ r.first \cup r.wrote \subseteq r.tried
    BY <2>7, <2>8, <2>10
  <2>12. \A c \in r.first \cup r.wrote : bkt[c].dirty
    BY <2>4, <2>5, <2>8, <2>10
  <2>. QED BY <2>6, <2>9, <2>10, <2>11, <2>12
<1>. QED BY <1>1, <1>2 DEF Rooms

\* The file once room is made has what was written for it.
LEMMA RoomWritten ==
  ASSUME Setting, PoolInv, StoreInv, NEW r \in Rooms, disk' = RoomDisk(r)
  PROVE  FileWritten(r.first \cup r.wrote)
<1> DEFINE A == r.first
           B == r.wrote
           d == DiskAfter(disk, A)
<1>1. A \in SUBSET Cached /\ B \in SUBSET Cached /\ disk \in [Pages -> Content]
  BY RoomType DEF PoolInv, TypeOK
<1>2. (\A b \in A : bkt[b].dirty) /\ (\A b \in B : bkt[b].dirty)
  BY RoomIs
<1>3. d \in [Pages -> Content]
  BY <1>1, DiskAfterType
<1> HIDE DEF A, B
<1>4. /\ \A b \in A : Latest(b) /\ d[bkt[b].pgno] = bkt[b].page
      /\ \A p \in Pages : (\A b \in A : bkt[b].pgno # p) => d[p] = disk[p]
  BY <1>1, <1>2, WrittenBack
<1> HIDE DEF d
<1>5. /\ \A b \in B : Latest(b) /\ DiskAfter(d, B)[bkt[b].pgno] = bkt[b].page
      /\ \A p \in Pages : (\A b \in B : bkt[b].pgno # p) => DiskAfter(d, B)[p] = d[p]
  BY <1>1, <1>2, <1>3, WrittenBack
<1>6. disk' = DiskAfter(d, B)
  BY DEF RoomDisk, A, B, d
<1>7. ASSUME NEW b \in A PROVE disk'[bkt[b].pgno] = bkt[b].page
  <2>1. CASE \E c \in B : bkt[c].pgno = bkt[b].pgno
    <3>1. PICK c \in B : bkt[c].pgno = bkt[b].pgno
      BY <2>1
    <3>2. c = b
      BY <1>4, <1>5, <3>1, OneLatest
    <3>. QED BY <1>5, <1>6, <3>2
  <2>2. CASE \A c \in B : bkt[c].pgno # bkt[b].pgno
    <3>1. bkt[b].pgno \in Pages
      BY <1>1, Places DEF PlaceFacts
    <3>. QED BY <1>4, <1>5, <1>6, <2>2, <3>1
  <2>. QED BY <2>1, <2>2
<1>8. ASSUME NEW p \in Pages, \A b \in A \cup B : bkt[b].pgno # p
      PROVE  disk'[p] = disk[p]
  BY <1>4, <1>5, <1>6, <1>8
<1>9. FileWritten(A \cup B)
  BY <1>1, <1>2, <1>4, <1>5, <1>6, <1>7, <1>8 DEF FileWritten
<1>. QED BY <1>9 DEF A, B

\* Page p is brought into the pool with the content of the file, or as one
\* that will be marked dirty; other copies of it are idle and clean.
Brings(t, p, f, r, c, changed) ==
  /\ Install(t, p, f, r, c, changed)
  /\ c.swapped = FALSE
  /\ changed \/ c = disk'[p]
  /\ \A b \in CachedAs(p) : p \in DupPages /\ Evictable(b) /\ ~bkt[b].dirty

\* Bkt x has page p then; it was of a page that the file has now.
Brought(t, p, x, c) ==
  /\ bkt'[x].pgno = p /\ bkt'[x].page = c
  /\ bkt'[x].pinned = TRUE /\ bkt'[x].owner = t
  /\ ~bkt[x].pinned
  /\ \A q \in Pages : Latest(x) /\ On(x, q) => disk'[q] = bkt[x].page

\* A page brought into the pool.
LEMMA InstallStep ==
  ASSUME Setting, PoolInv, PoolInv', StoreInv,
         NEW t \in Threads, NEW p \in Pages, NEW f \in Flags, NEW r \in Rooms,
         NEW c \in Content, NEW changed,
         Brings(t, p, f, r, c, changed)
  PROVE  /\ StoreStep(r.bp, r.first \cup r.wrote)
         /\ Brought(t, p, r.bp, c)
<1>0. /\ Install(t, p, f, r, c, changed) /\ c.swapped = FALSE
      /\ changed \/ c = disk'[p]
      /\ \A b \in CachedAs(p) : p \in DupPages /\ Evictable(b) /\ ~bkt[b].dirty
  BY DEF Brings
<1> DEFINE x == r.bp
           W == r.first \cup r.wrote
<1>1. /\ x \in Bkts /\ r.tried \in SUBSET Cached
      /\ x \in Cached => Evictable(x)
  BY RoomType
<1>2. /\ W \subseteq r.tried
      /\ r.first \subseteq {x}
      /\ x \in Cached /\ bkt[x].dirty => x \in W
      /\ x \in Cached => \A d \in Cached : Pos(d) < Pos(x) /\ Evictable(d) => bkt[d].dirty
  BY RoomIs
<1>3. FileWritten(W)
  BY <1>0, RoomWritten DEF Install
<1>4. /\ bkt'[x] = Loaded(t, p, f, c)
      /\ \A d \in Bkts \ {x} : bkt'[d] = BktAfter(r.wrote, r.tried)[d]
  BY <1>0, <1>1, BktAfterType DEF Install
<1>5. /\ bkt'[x].pgno = p /\ bkt'[x].page = c
      /\ bkt'[x].pinned = TRUE /\ bkt'[x].owner = t
  BY <1>4 DEF Loaded
<1>6. \A d \in Bkts \ {x} : d \in W <=> d \in r.wrote
  BY <1>2
<1>7. lru' = Touch(x) /\ npages' = Extent(npages, r.tried)
  BY <1>0 DEF Install
<1>8. ~bkt[x].pinned
  BY <1>1 DEF Evictable, PoolInv, BusyCached
<1>9. x \in mod' <=> changed
  BY <1>0 DEF Install
<1>10. \A d \in Bkts \ {x} : d \in mod' <=> d \in mod
  BY <1>0 DEF Install
<1>11. r.wrote \subseteq r.tried
  BY <1>2
<1> HIDE DEF x, W
<1>12. OthersKept(x, W)
  <2>1. \A d \in Bkts \ {x} :
          /\ bkt'[d].pgno = bkt[d].pgno /\ bkt'[d].pinned = bkt[d].pinned
          /\ bkt'[d].owner = bkt[d].owner /\ bkt'[d].wqh = bkt[d].wqh
          /\ bkt'[d].locked = bkt[d].locked
    BY <1>4, BktAfterType
  <2>2. \A d \in Bkts \ {x} :
          /\ bkt'[d].page = bkt[d].page
          /\ bkt'[d].dirty = (bkt[d].dirty /\ d \notin r.wrote)
    BY <1>4, <1>11, CleanedBkts
  <2>3. \A b, d \in Cached \ {x} : Pos(b) < Pos(d) => Pos(b)' < Pos(d)'
    BY <1>1, <1>7, TouchOrder
  <2>. QED BY <1>6, <1>10, <2>1, <2>2, <2>3 DEF OthersKept
<1>13. ComesAndGoes(x)
  <2>1. ASSUME NEW q \in Pages, On(x, q), Latest(x), NEW b \in CachedAs(q), b # x
        PROVE  FALSE
    <3>1. x \in Cached /\ bkt[x].pgno = q /\ b \in Bkts /\ bkt[b].pgno = q
      BY <2>1 DEF On, CachedAs
    <3>2. Pos(b) < Pos(x) /\ b \in Cached
      BY <2>1, <3>1 DEF Latest, Cached
    <3>3. ~Latest(b)
      BY <2>1, <3>1, OneLatest
    <3>4. Evictable(b) /\ ~bkt[b].dirty
      BY <3>2, <3>3 DEF StoreInv, OldIdle
    <3>. QED BY <1>2, <3>1, <3>2, <3>4
  <2>2. ASSUME NEW q \in Pages, On(x, q)
        PROVE  ~Latest(x) \/ CachedAs(q) = {x}
    <3>1. x \in CachedAs(q)
      BY <1>1, <2>2 DEF On, CachedAs
    <3>. QED BY <2>1, <2>2, <3>1
  <2>3. ASSUME NEW d \in Cached \ {x}, On(x, bkt[d].pgno)'
        PROVE  /\ Pos(d)' < Pos(x)' /\ bkt[d].pgno \in DupPages
               /\ Evictable(d) /\ ~bkt[d].dirty
    <3>1. d \in Bkts \ {x} /\ bkt[d].pgno = p
      BY <1>5, <1>12, <2>3 DEF On, OthersKept, Cached
    <3>2. d \in CachedAs(p)
      BY <3>1 DEF CachedAs
    <3>3. Pos(d)' < Pos(x)'
      BY <1>1, <1>7, <2>3, TouchOrder
    <3>. QED BY <1>0, <3>1, <3>2, <3>3
  <2>. QED BY <2>2, <2>3 DEF ComesAndGoes
<1>14. FileFollows(x, W)
  BY <1>1, <1>3, WrittenFollows
<1>15. Sound(x)'
  BY <1>0, <1>5, <1>9 DEF Sound
<1>16. NothingBeyondEnd'
  <2>1. npages <= npages' /\ \A b \in r.tried : bkt[b].pgno < npages'
    BY <1>1, <1>7, ExtentCovers DEF PoolInv, TypeOK
  <2>2. \A b \in W : bkt[b].pgno < npages'
    BY <1>2, <2>1 DEF W
  <2>. QED BY <1>3, <2>1, <2>2, WrittenWithin
<1>17. ASSUME NEW q \in Pages, Latest(x), On(x, q)
       PROVE  disk'[q] = bkt[x].page
  <2>1. x \in Cached /\ bkt[x].pgno = q
    BY <1>17 DEF On
  <2>2. CASE bkt[x].dirty
    <3>1. x \in W
      BY <1>2, <2>1, <2>2 DEF W
    <3>. QED BY <1>3, <2>1, <3>1 DEF FileWritten
  <2>3. CASE ~bkt[x].dirty
    <3>1. x \notin mod
      BY <1>8 DEF StoreInv, ModPinned
    <3>2. bkt[x].page = disk[q]
      BY <1>1, <1>17, <2>1, <2>3, <3>1 DEF StoreInv, CleanLatest
    <3>3. \A b \in W : bkt[b].pgno # q
      BY <1>3, <1>17, <2>1, <2>3, OneLatest DEF FileWritten
    <3>. QED BY <1>3, <3>2, <3>3 DEF FileWritten
  <2>. QED BY <2>2, <2>3
<1>18. StoreStep(x, W)
  BY <1>12, <1>13, <1>14, <1>15, <1>16 DEF StoreStep
<1>19. Brought(t, p, x, c)
  BY <1>5, <1>8, <1>17 DEF Brought
<1>. QED BY <1>18, <1>19 DEF x, W

\* A page that has no duplicates has one bkt, the one in use.
LEMMA OnlyCopy ==
  ASSUME PoolInv, LatchInv, StoreInv, NEW b \in Bkts, bkt[b].pinned,
         bkt[b].pgno \notin DupPages
  PROVE  b \in Cached /\ Latest(b) /\ CachedAs(bkt[b].pgno) = {b}
<1>1. Latest(b) /\ b \in Cached
  BY BusyIsLatest DEF Busy, Latest
<1>2. ASSUME NEW c \in CachedAs(bkt[b].pgno) PROVE c = b
  <2>1. c \in Cached /\ bkt[c].pgno = bkt[b].pgno
    BY <1>1, <1>2 DEF CachedAs, Cached
  <2>2. Latest(c)
    BY <2>1 DEF StoreInv, OldIdle
  <2>. QED BY <1>1, <2>1, <2>2, OneLatest
<1>3. b \in CachedAs(bkt[b].pgno)
  BY DEF CachedAs
<1>. QED BY <1>1, <1>2, <1>3

\* A page under its new number; its old place in the file is clean.
LEMMA MoveStep ==
  ASSUME PoolInv, PoolInv', LatchInv, StoreInv, NEW b \in Bkts, NEW q \in Pages,
         bkt[b].pinned, bkt[b].pgno \notin DupPages, CachedAs(q) = {},
         bkt' = [bkt EXCEPT ![b] = Moved(b, q)], lru' = Touch(b),
         npages' = Max({npages, q + 1}),
         disk' = [disk EXCEPT ![bkt[b].pgno] = CleanPage], mod' = mod \ {b}
  PROVE  /\ StoreStep(b, {}) /\ Latest(b)
         /\ bkt'[b].pgno = q /\ bkt'[b].page = bkt[b].page /\ bkt'[b].pinned = FALSE
<1>0. b \in Cached /\ Latest(b) /\ CachedAs(bkt[b].pgno) = {b} /\ bkt[b].pgno \in Pages
  BY OnlyCopy, Places DEF PlaceFacts
<1>1. /\ bkt'[b].pgno = q /\ bkt'[b].pinned = FALSE
      /\ bkt'[b].dirty = TRUE /\ bkt'[b].page = bkt[b].page
  <2>1. bkt[b] \in Bkt
    BY DEF PoolInv, TypeOK
  <2>2. /\ Moved(b, q).pgno = q /\ Moved(b, q).pinned = FALSE
        /\ Moved(b, q).dirty = TRUE /\ Moved(b, q).page = bkt[b].page
    BY <2>1, Zenon DEF Moved, Bkt
  <2>3. bkt'[b] = Moved(b, q)
    BY DEF PoolInv, TypeOK
  <2>. QED BY <2>2, <2>3
<1>2. \A d \in Bkts \ {b} : bkt'[d] = bkt[d] /\ bkt[d].dirty \in BOOLEAN
  BY DEF PoolInv, TypeOK, Bkt
<1>3. OthersKept(b, {})
  <2>1. \A c, d \in Cached \ {b} : Pos(c) < Pos(d) => Pos(c)' < Pos(d)'
    BY TouchOrder
  <2>. QED BY <1>2, <2>1 DEF OthersKept
<1>4. ComesAndGoes(b)
  <2>1. \A p \in Pages : On(b, p) => CachedAs(p) = {b}
    BY <1>0 DEF On
  <2>2. ASSUME NEW d \in Cached \ {b}, On(b, bkt[d].pgno)' PROVE FALSE
    <3>1. d \in Bkts \ {b} /\ bkt[d].pgno = q
      BY <1>1, <1>2, <2>2 DEF On, Cached
    <3>. QED BY <3>1 DEF CachedAs
  <2>. QED BY <2>1, <2>2 DEF ComesAndGoes
<1>5. CleanPage.swapped = FALSE /\ disk \in [Pages -> Content]
  BY DEF CleanPage, PoolInv, TypeOK
<1>6. FileFollows(b, {})
  <2>1. ASSUME NEW d \in Bkts \ {b}, Latest(d)
        PROVE  disk'[bkt[d].pgno] = disk[bkt[d].pgno]
    <3>1. bkt[d].pgno # bkt[b].pgno /\ bkt[d].pgno \in Pages
      BY <1>0, <2>1, Places DEF CachedAs, Latest, PlaceFacts
    <3>. QED BY <1>5, <3>1
  <2>2. ASSUME NEW p \in Pages, CachedAs(p) = {} PROVE disk'[p] = disk[p]
    BY <1>0, <1>5, <2>2
  <2>3. \A p \in Pages : disk'[p].swapped = FALSE
    BY <1>5 DEF StoreInv, Unswapped
  <2>. QED BY <2>1, <2>2, <2>3 DEF FileFollows
<1>7. Sound(b)'
  BY <1>1 DEF Sound, StoreInv, Unswapped
<1>8. NothingBeyondEnd'
  <2>1. npages \in Nat /\ npages' \in Nat /\ q \in Nat
    BY PoolAssumption DEF PoolInv, TypeOK, Pages
  <2>2. npages <= npages'
    <3>1. {npages, q + 1} \in SUBSET Nat /\ npages + q + 1 \in Nat
      BY <2>1
    <3>2. \A y \in {npages, q + 1} : y <= npages + q + 1
      BY <2>1
    <3>. QED BY <3>1, <3>2, MaxExists
  <2>3. ASSUME NEW p \in Pages, disk'[p] # CleanPage PROVE p < npages'
    <3>1. disk[p] # CleanPage
      BY <1>0, <1>5, <2>3
    <3>2. p < npages /\ p \in Nat
      BY <3>1, PoolAssumption DEF StoreInv, NothingBeyondEnd, Pages
    <3>. QED BY <2>1, <2>2, <3>2
  <2>. QED BY <2>3 DEF NothingBeyondEnd
<1>. QED BY <1>0, <1>1, <1>3, <1>4, <1>6, <1>7, <1>8 DEF StoreStep

\* A page dropped from the cache, written first when it is dirty.
LEMMA DropStep ==
  ASSUME Setting, PoolInv, PoolInv', LatchInv, StoreInv, NEW t \in Threads,
         NEW b \in Bkts, Delete(t, b)
  PROVE  /\ StoreStep(b, IF bkt[b].dirty THEN {b} ELSE {}) /\ Latest(b)
         /\ b \notin Cached' /\ bkt[b].pinned /\ bkt[b].owner = t
<1> DEFINE D == IF bkt[b].dirty THEN {b} ELSE {}
<1>0. /\ bkt[b].pinned /\ bkt[b].owner = t /\ b \in Cached
      /\ Latest(b) /\ CachedAs(bkt[b].pgno) = {b} /\ bkt[b].pgno \in Pages
  BY HeldPinned, OnlyCopy, Places DEF Delete, PlaceFacts
<1>1. /\ disk' = DiskAfter(disk, D) /\ npages' = Extent(npages, D)
      /\ bkt' = [bkt EXCEPT ![b] = FreeBkt] /\ lru' = RemoveFirst(lru, b)
      /\ mod' = mod \ {b}
  BY <1>0 DEF Delete
<1>2. D \in SUBSET Cached /\ D \subseteq {b} /\ \A d \in D : bkt[d].dirty
  BY <1>0
<1> HIDE DEF D
<1>3. FileWritten(D)
  <2>1. disk \in [Pages -> Content]
    BY DEF PoolInv, TypeOK
  <2>2. /\ \A d \in D : Latest(d) /\ DiskAfter(disk, D)[bkt[d].pgno] = bkt[d].page
        /\ \A p \in Pages : (\A d \in D : bkt[d].pgno # p) => DiskAfter(disk, D)[p] = disk[p]
    BY <1>2, <2>1, WrittenBack
  <2>. QED BY <1>1, <1>2, <2>2 DEF FileWritten
<1>4. /\ bkt'[b] = FreeBkt
      /\ \A d \in Bkts \ {b} : bkt'[d] = bkt[d] /\ bkt[d].dirty \in BOOLEAN
  BY <1>1 DEF PoolInv, TypeOK, Bkt
<1>5. /\ FreeBkt.pgno = NoPage /\ FreeBkt.pinned = FALSE
      /\ FreeBkt.page.swapped = FALSE
  BY DEF FreeBkt, CleanPage
<1>6. b \notin Cached'
  BY <1>4, <1>5 DEF Cached
<1>7. OthersKept(b, D)
  <2>1. \A c, d \in Cached \ {b} : Pos(c) < Pos(d) => Pos(c)' < Pos(d)'
    BY <1>0, <1>1, RemoveOrder
  <2>. QED BY <1>1, <1>2, <1>4, <2>1 DEF OthersKept
<1>8. ComesAndGoes(b)
  BY <1>0, <1>6 DEF ComesAndGoes, On
<1>9. FileFollows(b, D)
  BY <1>3, WrittenFollows
<1>10. Sound(b)'
  BY <1>1, <1>4, <1>5, <1>6 DEF Sound
<1>11. NothingBeyondEnd'
  <2>1. npages <= npages' /\ \A d \in D : bkt[d].pgno < npages'
    BY <1>1, <1>2, ExtentCovers DEF PoolInv, TypeOK
  <2>. QED BY <1>3, <2>1, WrittenWithin
<1>12. StoreStep(b, D)
  BY <1>7, <1>8, <1>9, <1>10, <1>11 DEF StoreStep
<1>. QED BY <1>0, <1>6, <1>12 DEF D

\* At a close nobody uses a page, and every dirty one is written: what the
\* file has then is what the callers saw.
LEMMA CloseIs ==
  ASSUME Setting, PoolInv, PoolInv', LatchInv, StoreInv, NEW t \in Threads, Close(t)
  PROVE  /\ StoreInv' /\ \A b \in Bkts : ~bkt[b].pinned
         /\ \A p \in Pages : CachedAs(p)' = {} /\ disk'[p] = View(p)
<1>1. ASSUME NEW b \in Bkts
      PROVE  ~bkt[b].pinned /\ bkt[b].wqh = << >> /\ b \notin mod
  <2>1. ASSUME bkt[b].pinned PROVE FALSE
    <3>1. bkt[b].owner \in Threads /\ holds[bkt[b].owner][b] = 1
      BY <2>1 DEF StoreInv, PinnedOwned, LatchInv, HoldsPin
    <3>2. b \in Held(bkt[b].owner)
      BY <3>1 DEF Held
    <3>. QED BY <3>1, <3>2 DEF Close, Alone
  <2>2. ASSUME bkt[b].wqh # << >> PROVE FALSE
    <3>1. bkt[b].wqh \in Seq(Threads)
      BY DEF PoolInv, TypeOK, Bkt
    <3>2. 1 \in DOMAIN bkt[b].wqh
      BY <2>2, <3>1, EmptySeq, LenProperties
    <3>3. bkt[b].wqh[1] \in Threads /\ want[bkt[b].wqh[1]] = b
      BY <3>2, QueueMembers
    <3>4. b # NoBkt
      BY PoolAssumption
    <3>. QED BY <3>3, <3>4 DEF Close, Alone, Idle
  <2>3. b \notin mod
    BY <2>1 DEF StoreInv, ModPinned
  <2>. QED BY <2>1, <2>2, <2>3
<1>2. PICK o \in Flushes(FlushSet(0, {})) : Flush(o)
  BY DEF Close
<1>3. ~WriteFaults
  BY DEF Setting, Close
<1> DEFINE W == FlushSet(0, {})
<1>4. W = {b \in Cached : bkt[b].dirty}
  BY <1>1, FlushSetIs DEF Flushable, Cached
<1>5. o.wrote = W /\ o.tried = W
  <2>1. o.wrote \subseteq o.tried /\ o.tried \subseteq W /\ o.wrote = W
    BY <1>3, FlushesAre, Zenon
  <2>. QED BY <2>1
<1>6. disk' = DiskAfter(disk, W) /\ npages' = Extent(npages, W)
  BY <1>2, <1>5 DEF Flush
<1> HIDE DEF W
<1>7. FileWritten(W)
  <2>1. disk \in [Pages -> Content] /\ W \in SUBSET Cached /\ \A b \in W : bkt[b].dirty
    BY <1>4 DEF PoolInv, TypeOK
  <2>2. /\ \A d \in W : Latest(d) /\ DiskAfter(disk, W)[bkt[d].pgno] = bkt[d].page
        /\ \A p \in Pages : (\A d \in W : bkt[d].pgno # p) => DiskAfter(disk, W)[p] = disk[p]
    BY <2>1, WrittenBack
  <2>. QED BY <1>6, <2>1, <2>2 DEF FileWritten
<1>8. Cached' = {} /\ \A b \in Bkts : bkt'[b] = FreeBkt
  BY DEF Close, Cached, FreeBkt
<1>9. NothingBeyondEnd'
  <2>1. npages <= npages' /\ \A b \in W : bkt[b].pgno < npages'
    BY <1>4, <1>6, ExtentCovers DEF PoolInv, TypeOK
  <2>. QED BY <1>7, <2>1, WrittenWithin
<1>10. Unswapped'
  <2>1. \A p \in Pages : disk'[p].swapped = FALSE
    BY <1>7, WrittenFollows DEF FileFollows
  <2>. QED BY <1>8, <2>1 DEF Unswapped, FreeBkt, CleanPage
<1>11. StoreInv'
  <2>1. PinnedOwned' /\ ModPinned'
    BY <1>8 DEF Close, PinnedOwned, ModPinned, FreeBkt
  <2>2. OldIdle' /\ CleanLatest'
    BY <1>8 DEF OldIdle, CleanLatest, Latest
  <2>. QED BY <1>9, <1>10, <2>1, <2>2 DEF StoreInv
<1>12. ASSUME NEW p \in Pages PROVE CachedAs(p)' = {} /\ disk'[p] = View(p)
  <2>1. CachedAs(p)' = {}
    <3>1. p # NoPage
      BY PoolAssumption DEF Pages, NoPage
    <3>. QED BY <1>8, <3>1 DEF CachedAs, FreeBkt
  <2>2. CASE CachedAs(p) = {}
    <3>1. \A b \in W : bkt[b].pgno # p
      BY <1>4, <2>2 DEF CachedAs, Cached
    <3>2. View(p) = disk[p]
      BY <2>2, ViewIs DEF ViewFacts
    <3>. QED BY <1>7, <2>1, <3>1, <3>2 DEF FileWritten
  <2>3. CASE CachedAs(p) # {}
    <3>1. PICK b \in Bkts : Latest(b) /\ bkt[b].pgno = p
      BY <2>3, ViewIs DEF ViewFacts
    <3>2. View(p) = bkt[b].page
      BY <3>1, ViewIs DEF ViewFacts
    <3>3. CASE b \in W
      BY <1>7, <2>1, <3>1, <3>2, <3>3 DEF FileWritten
    <3>4. CASE b \notin W
      <4>1. ~bkt[b].dirty /\ b \notin mod
        BY <1>1, <1>4, <3>1, <3>4 DEF Latest
      <4>2. bkt[b].page = disk[p]
        BY <3>1, <4>1 DEF StoreInv, CleanLatest
      <4>3. \A c \in W : bkt[c].pgno # p
        BY <1>7, <3>1, <3>4, OneLatest DEF FileWritten
      <4>. QED BY <1>7, <2>1, <3>2, <4>2, <4>3 DEF FileWritten
    <3>. QED BY <3>3, <3>4
  <2>. QED BY <2>2, <2>3
<1>. QED BY <1>1, <1>11, <1>12

----------------------------------------------------------------------------
(***************************************************************************)
(* What the page store sees of a step.                                     *)
(***************************************************************************)
\* What the store holds after a step.
LEMMA ViewAfter ==
  ASSUME Setting, PoolInv, PoolInv', StoreInv, StoreInv',
         NEW x \in Bkts \cup {NoBkt}, NEW W, StoreStep(x, W), NEW p \in Pages
  PROVE  /\ On(x, p)' => View(p)' = bkt'[x].page
         /\ ~On(x, p)' /\ ~(Latest(x) /\ On(x, p)) => View(p)' = View(p)
         /\ ~On(x, p)' /\ Latest(x) /\ On(x, p) => View(p)' = disk'[p]
<1>0. ViewFacts
  BY ViewIs
<1>1. ViewFacts'
  BY ViewIs, PTL
<1>2. /\ x \in Cached' => Latest(x)'
      /\ \A d \in Bkts \ {x} : Latest(d)' <=> Latest(d) /\ ~On(x, bkt[d].pgno)'
  BY LatestAfter
<1>3. \A d \in Bkts \ {x} : bkt'[d].pgno = bkt[d].pgno /\ bkt'[d].page = bkt[d].page
  BY DEF StoreStep, OthersKept
<1>4. ASSUME On(x, p)' PROVE View(p)' = bkt'[x].page
  <2>1. x \in Bkts /\ Latest(x)' /\ bkt'[x].pgno = p
    BY <1>2, <1>4 DEF On, Cached
  <2>. QED BY <1>1, <2>1 DEF ViewFacts
<1>5. ASSUME ~On(x, p)', NEW d \in Bkts \ {x}, Latest(d), bkt[d].pgno = p
      PROVE  View(p)' = View(p)
  <2>1. Latest(d)' /\ bkt'[d].pgno = p /\ bkt'[d].page = bkt[d].page
    BY <1>2, <1>3, <1>5 DEF On
  <2>2. View(p)' = bkt'[d].page
    BY <1>1, <2>1 DEF ViewFacts
  <2>3. View(p) = bkt[d].page
    BY <1>0, <1>5 DEF ViewFacts
  <2>. QED BY <2>1, <2>2, <2>3
<1>6. p # NoPage
  BY PoolAssumption DEF Pages, NoPage
<1>7. ASSUME ~On(x, p)', CachedAs(p) \subseteq {x} PROVE View(p)' = disk'[p]
  <2>1. CachedAs(p)' = {}
    BY <1>3, <1>6, <1>7 DEF CachedAs, On, Cached
  <2>. QED BY <1>1, <2>1 DEF ViewFacts
<1>8. ASSUME ~On(x, p)', ~(Latest(x) /\ On(x, p)) PROVE View(p)' = View(p)
  <2>1. CASE CachedAs(p) = {}
    <3>1. View(p)' = disk'[p]
      BY <1>7, <1>8, <2>1
    <3>2. disk'[p] = disk[p]
      BY <2>1 DEF StoreStep, FileFollows
    <3>. QED BY <1>0, <2>1, <3>1, <3>2 DEF ViewFacts
  <2>2. CASE CachedAs(p) # {}
    <3>1. PICK d \in Bkts : Latest(d) /\ bkt[d].pgno = p
      BY <1>0, <2>2 DEF ViewFacts
    <3>2. d # x
      BY <1>8, <3>1 DEF On, Latest
    <3>. QED BY <1>5, <1>8, <3>1, <3>2
  <2>. QED BY <2>1, <2>2
<1>9. ASSUME ~On(x, p)', Latest(x), On(x, p) PROVE View(p)' = disk'[p]
  <2>1. CachedAs(p) = {x}
    BY <1>9 DEF StoreStep, ComesAndGoes
  <2>. QED BY <1>7, <1>9, <2>1
<1>. QED BY <1>4, <1>8, <1>9

\* Who holds a page after a step.
LEMMA HolderAfter ==
  ASSUME PoolInv, PoolInv', LatchInv, LatchInv', StoreInv, StoreInv',
         NEW x \in Bkts \cup {NoBkt}, NEW W, StoreStep(x, W), NEW p \in Pages
  PROVE  /\ On(x, p)' /\ bkt'[x].pinned => HolderOf(p)' = bkt'[x].owner
         /\ ~(On(x, p)' /\ bkt'[x].pinned) /\ On(x, p) /\ bkt[x].pinned =>
              HolderOf(p)' = NoThread
         /\ ~(On(x, p)' /\ bkt'[x].pinned) /\ ~(On(x, p) /\ bkt[x].pinned) =>
              HolderOf(p)' = HolderOf(p)
<1>0. HolderFacts
  BY HolderIs
<1>1. HolderFacts'
  BY HolderIs, PTL
<1>2. \A d \in Bkts \ {x} : /\ bkt'[d].pgno = bkt[d].pgno
                            /\ bkt'[d].pinned = bkt[d].pinned
                            /\ bkt'[d].owner = bkt[d].owner
  BY DEF StoreStep, OthersKept
<1>3. ASSUME On(x, p)', bkt'[x].pinned PROVE HolderOf(p)' = bkt'[x].owner
  <2>1. x \in Bkts /\ bkt'[x].pgno = p
    BY <1>3 DEF On, Cached
  <2>. QED BY <1>1, <1>3, <2>1 DEF HolderFacts
<1>4. p # NoPage
  BY PoolAssumption DEF Pages, NoPage
<1>5. x \in Bkts /\ bkt'[x].pgno = p => On(x, p)'
  BY <1>4 DEF On, Cached
<1>6. x \in Bkts /\ bkt[x].pgno = p => On(x, p)
  BY <1>4 DEF On, Cached
<1>7. ASSUME ~(On(x, p)' /\ bkt'[x].pinned), On(x, p), bkt[x].pinned
      PROVE  HolderOf(p)' = NoThread
  <2>1. ASSUME NEW d \in Bkts, bkt'[d].pgno = p, bkt'[d].pinned PROVE FALSE
    <3>1. d # x
      BY <1>5, <1>7, <2>1
    <3>2. bkt[d].pgno = p /\ bkt[d].pinned
      BY <1>2, <2>1, <3>1
    <3>3. x \in Bkts /\ bkt[x].pgno = p
      BY <1>7 DEF On, Cached
    <3>4. Latest(d) /\ Latest(x)
      BY <1>7, <3>2, <3>3, BusyIsLatest DEF Busy
    <3>. QED BY <3>1, <3>2, <3>3, <3>4, OneLatest
  <2>. QED BY <1>1, <2>1 DEF HolderFacts
<1>8. ASSUME ~(On(x, p)' /\ bkt'[x].pinned), ~(On(x, p) /\ bkt[x].pinned)
      PROVE  HolderOf(p)' = HolderOf(p)
  <2>1. CASE \E d \in Bkts : bkt[d].pgno = p /\ bkt[d].pinned
    <3>1. PICK d \in Bkts : bkt[d].pgno = p /\ bkt[d].pinned
      BY <2>1
    <3>2. d # x
      BY <1>6, <1>8, <3>1
    <3>3. bkt'[d].pgno = p /\ bkt'[d].pinned /\ bkt'[d].owner = bkt[d].owner
      BY <1>2, <3>1, <3>2
    <3>4. HolderOf(p) = bkt[d].owner
      BY <1>0, <3>1 DEF HolderFacts
    <3>5. HolderOf(p)' = bkt'[d].owner
      BY <1>1, <3>3 DEF HolderFacts
    <3>. QED BY <3>3, <3>4, <3>5
  <2>2. CASE \A d \in Bkts : bkt[d].pgno = p => ~bkt[d].pinned
    <3>1. \A d \in Bkts : bkt'[d].pgno = p => ~bkt'[d].pinned
      BY <1>2, <1>5, <1>8, <2>2
    <3>2. HolderOf(p) = NoThread
      BY <1>0, <2>2 DEF HolderFacts
    <3>3. HolderOf(p)' = NoThread
      BY <1>1, <3>1 DEF HolderFacts
    <3>. QED BY <3>2, <3>3
  <2>. QED BY <2>1, <2>2
<1>. QED BY <1>3, <1>7, <1>8

\* The state of the page store, and a step of it or none.
AbsStore  == [p \in Pages |-> View(p).val]
AbsHolder == [p \in Pages |-> HolderOf(p)]
Simulates == Store!Next \/ UNCHANGED <<AbsStore, AbsHolder>>

\* A step that changes neither a content nor a holder is invisible.
LEMMA AsStutter ==
  ASSUME \A p \in Pages : View(p)' = View(p) /\ HolderOf(p)' = HolderOf(p)
  PROVE  Simulates
<1>1. AbsStore' = AbsStore
  BY DEF AbsStore
<1>2. AbsHolder' = AbsHolder
  BY DEF AbsHolder
<1>. QED BY <1>1, <1>2 DEF Simulates

\* A step after which t has page p, with its content, is a claim.
LEMMA AsClaim ==
  ASSUME NEW t \in Threads, NEW p \in Pages,
         HolderOf(p) = NoThread, HolderOf(p)' = t, View(p)' = View(p),
         \A q \in Pages \ {p} : View(q)' = View(q) /\ HolderOf(q)' = HolderOf(q)
  PROVE  Simulates
<1>1. AbsStore' = AbsStore
  BY DEF AbsStore
<1>2. AbsHolder' = [AbsHolder EXCEPT ![p] = t] /\ AbsHolder[p] = NoThread
  BY DEF AbsHolder
<1>3. Store!Claim(t, p)
  BY <1>1, <1>2 DEF Store!Claim, AbsStore, AbsHolder
<1>. QED BY <1>3 DEF Simulates, Store!Next

\* A step after which t has page p as a clean one is a claim of a new page.
LEMMA AsClaimNew ==
  ASSUME NEW t \in Threads, NEW p \in Pages,
         HolderOf(p) = NoThread, HolderOf(p)' = t, View(p)' = CleanPage,
         \A q \in Pages \ {p} : View(q)' = View(q) /\ HolderOf(q)' = HolderOf(q)
  PROVE  Simulates
<1>0. CleanPage.val = Clean
  BY DEF CleanPage
<1>1. AbsStore' = [AbsStore EXCEPT ![p] = Clean]
  BY <1>0 DEF AbsStore
<1>2. AbsHolder' = [AbsHolder EXCEPT ![p] = t] /\ AbsHolder[p] = NoThread
  BY DEF AbsHolder
<1>3. Store!ClaimNew(t, p)
  BY <1>1, <1>2 DEF Store!ClaimNew, AbsStore, AbsHolder
<1>. QED BY <1>3 DEF Simulates, Store!Next

\* A step that changes only the content of a page t has is a write.
LEMMA AsWrite ==
  ASSUME NEW t \in Threads, NEW p \in Pages, NEW v \in Values,
         HolderOf(p) = t, HolderOf(p)' = t, View(p)'.val = v,
         \A q \in Pages \ {p} : View(q)' = View(q) /\ HolderOf(q)' = HolderOf(q)
  PROVE  Simulates
<1>1. AbsStore' = [AbsStore EXCEPT ![p] = v]
  BY DEF AbsStore
<1>2. AbsHolder' = AbsHolder /\ AbsHolder[p] = t
  BY DEF AbsHolder
<1>3. Store!Write(t, p, v)
  BY <1>1, <1>2 DEF Store!Write, AbsStore, AbsHolder
<1>. QED BY <1>3 DEF Simulates, Store!Next

\* A step after which a page is free, with its content, is a giving back.
LEMMA AsGiveBack ==
  ASSUME NEW t \in Threads, NEW p \in Pages,
         HolderOf(p) = t, HolderOf(p)' = NoThread, View(p)' = View(p),
         \A q \in Pages \ {p} : View(q)' = View(q) /\ HolderOf(q)' = HolderOf(q)
  PROVE  Simulates
<1>1. AbsStore' = AbsStore
  BY DEF AbsStore
<1>2. AbsHolder' = [AbsHolder EXCEPT ![p] = NoThread] /\ AbsHolder[p] = t
  BY DEF AbsHolder
<1>3. Store!GiveBack(t, p)
  BY <1>1, <1>2 DEF Store!GiveBack, AbsStore, AbsHolder
<1>. QED BY <1>3 DEF Simulates, Store!Next

\* A step after which a page is free and its content is another's, is a move.
LEMMA AsMove ==
  ASSUME NEW t \in Threads, NEW p \in Pages, NEW q \in Pages \ {p},
         HolderOf(p) = t, HolderOf(p)' = NoThread, HolderOf(q) = NoThread,
         HolderOf(q)' = NoThread, View(q)' = View(p), View(p)' = CleanPage,
         \A s \in Pages \ {p, q} : View(s)' = View(s) /\ HolderOf(s)' = HolderOf(s)
  PROVE  Simulates
<1>0. CleanPage.val = Clean
  BY DEF CleanPage
<1>1. AbsStore' = [AbsStore EXCEPT ![q] = AbsStore[p], ![p] = Clean]
  BY <1>0 DEF AbsStore
<1>2. /\ AbsHolder' = [AbsHolder EXCEPT ![p] = NoThread]
      /\ AbsHolder[p] = t /\ AbsHolder[q] = NoThread
  BY DEF AbsHolder
<1>3. Store!Move(t, p, q)
  BY <1>1, <1>2 DEF Store!Move, AbsStore, AbsHolder
<1>. QED BY <1>3 DEF Simulates, Store!Next

\* A step after which a page is free, with any content, is a discard.
LEMMA AsDiscard ==
  ASSUME NEW t \in Threads, NEW p \in Pages, View(p)'.val \in Values,
         HolderOf(p) = t, HolderOf(p)' = NoThread,
         \A q \in Pages \ {p} : View(q)' = View(q) /\ HolderOf(q)' = HolderOf(q)
  PROVE  Simulates
<1>0. PICK v \in Values : v = View(p)'.val
  OBVIOUS
<1>1. AbsStore' = [AbsStore EXCEPT ![p] = v]
  BY <1>0 DEF AbsStore
<1>2. AbsHolder' = [AbsHolder EXCEPT ![p] = NoThread] /\ AbsHolder[p] = t
  BY DEF AbsHolder
<1>3. Store!Discard(t, p, v)
  BY <1>1, <1>2 DEF Store!Discard, AbsStore, AbsHolder
<1>. QED BY <1>3 DEF Simulates, Store!Next

----------------------------------------------------------------------------
(***************************************************************************)
(* Every step keeps StoreInv and is a step of the page store or none.      *)
(***************************************************************************)
\* A page whose latest bkt is not pinned has no holder.
LEMMA Unheld ==
  ASSUME PoolInv, LatchInv, StoreInv, NEW b \in Bkts, Latest(b), ~bkt[b].pinned
  PROVE  HolderOf(bkt[b].pgno) = NoThread
<1>1. bkt[b].pgno \in Pages
  BY Places DEF Latest, PlaceFacts
<1>2. ASSUME NEW d \in Bkts, bkt[d].pgno = bkt[b].pgno, bkt[d].pinned PROVE FALSE
  <2>1. Latest(d)
    BY <1>2, BusyIsLatest DEF Busy
  <2>. QED BY <1>2, <2>1, OneLatest
<1>. QED BY <1>1, <1>2, HolderIs DEF HolderFacts

\* A step on the latest bkt of a page, where it is, leaves the others alone.
LEMMA OthersSeeNothing ==
  ASSUME Setting, PoolInv, PoolInv', LatchInv, LatchInv', StoreInv,
         NEW b \in Bkts, Latest(b), NEW W, StoreStep(b, W), NEW p \in Pages,
         bkt[b].pgno = p, bkt'[b].pgno = p
  PROVE  /\ StoreInv' /\ On(b, p) /\ On(b, p)'
         /\ View(p) = bkt[b].page /\ View(p)' = bkt'[b].page
         /\ \A q \in Pages \ {p} : View(q)' = View(q) /\ HolderOf(q)' = HolderOf(q)
<1>1. StoreInv'
  BY StoreInvStep
<1>2. p # NoPage
  BY PoolAssumption DEF Pages, NoPage
<1>3. On(b, p) /\ On(b, p)'
  BY <1>2 DEF On, Cached
<1>4. View(p) = bkt[b].page
  BY ViewIs DEF ViewFacts
<1>5. View(p)' = bkt'[b].page
  BY <1>1, <1>3, ViewAfter
<1>6. ASSUME NEW q \in Pages \ {p}
      PROVE  View(q)' = View(q) /\ HolderOf(q)' = HolderOf(q)
  <2>1. ~On(b, q) /\ ~On(b, q)'
    BY DEF On
  <2>2. View(q)' = View(q)
    BY <1>1, <2>1, ViewAfter
  <2>3. HolderOf(q)' = HolderOf(q)
    BY <1>1, <2>1, HolderAfter
  <2>. QED BY <2>2, <2>3
<1>. QED BY <1>1, <1>3, <1>4, <1>5, <1>6

\* The claim of a cached page is a claim.
LEMMA ClaimSimulates ==
  ASSUME Setting, PoolInv, PoolInv', LatchInv, LatchInv', StoreInv,
         NEW t \in Threads, NEW b \in Bkts, Latest(b), ~bkt[b].pinned,
         NEW f \in Flags, NEW q \in Seq(Threads), Claim(t, b, f, q)
  PROVE  StoreInv' /\ Simulates
<1>1. PICK p \in Pages : p = bkt[b].pgno
  BY Places DEF Latest, PlaceFacts
<1>2. /\ StoreStep(b, {}) /\ bkt'[b].pgno = p /\ bkt'[b].page = bkt[b].page
      /\ bkt'[b].pinned = TRUE /\ bkt'[b].owner = t
  BY <1>1, ClaimStep
<1>3. /\ StoreInv' /\ On(b, p)' /\ View(p)' = View(p)
      /\ \A s \in Pages \ {p} : View(s)' = View(s) /\ HolderOf(s)' = HolderOf(s)
  BY <1>1, <1>2, OthersSeeNothing
<1>4. HolderOf(p) = NoThread
  BY <1>1, Unheld
<1>5. HolderOf(p)' = t
  BY <1>2, <1>3, HolderAfter
<1>. QED BY <1>3, <1>4, <1>5, AsClaim

\* A thread that queues for a page changes nothing.
LEMMA WaitSimulates ==
  ASSUME Setting, PoolInv, PoolInv', LatchInv, LatchInv', StoreInv,
         NEW t \in Threads, NEW p \in Pages, GetWait(t, p)
  PROVE  StoreInv' /\ Simulates
<1> DEFINE b == Find(p)
<1>1. b \in Bkts /\ Latest(b) /\ bkt[b].pgno = p
  BY FindType DEF GetWait, CachedAs, Latest
<1>2. /\ bkt' = [bkt EXCEPT ![b].wqh = Append(@, t)]
      /\ UNCHANGED <<lru, disk, npages, mod>>
  BY DEF GetWait, client
<1>a. PICK x \in Bkts : x = b
  BY <1>1
<1> HIDE DEF b
<1>3. /\ StoreStep(x, {}) /\ bkt'[x].pgno = p /\ bkt'[x].page = bkt[x].page
      /\ bkt'[x].pinned = bkt[x].pinned /\ bkt'[x].owner = bkt[x].owner
  BY <1>1, <1>2, <1>a, WaitStep
<1>4. /\ StoreInv' /\ On(x, p)' /\ On(x, p) /\ View(p)' = View(p)
      /\ \A s \in Pages \ {p} : View(s)' = View(s) /\ HolderOf(s)' = HolderOf(s)
  BY <1>1, <1>3, <1>a, OthersSeeNothing
<1>5. HolderOf(p)' = HolderOf(p)
  <2>1. CASE bkt[x].pinned
    <3>1. HolderOf(p) = bkt[x].owner
      BY <1>1, <1>a, <2>1, HolderIs DEF HolderFacts
    <3>2. HolderOf(p)' = bkt'[x].owner
      BY <1>3, <1>4, <2>1, HolderAfter
    <3>. QED BY <1>3, <3>1, <3>2
  <2>2. CASE ~bkt[x].pinned
    BY <1>3, <1>4, <2>2, HolderAfter
  <2>. QED BY <2>1, <2>2
<1>. QED BY <1>4, <1>5, AsStutter

\* A change of a page is a write.
LEMMA ModifySimulates ==
  ASSUME Setting, PoolInv, PoolInv', LatchInv, LatchInv', StoreInv,
         NEW t \in Threads, NEW b \in Bkts, NEW v \in Values, Modify(t, b, v)
  PROVE  StoreInv' /\ Simulates
<1>1. /\ StoreStep(b, {}) /\ Latest(b)
      /\ bkt'[b].pgno = bkt[b].pgno /\ bkt'[b].page.val = v
      /\ bkt[b].pinned /\ bkt[b].owner = t
      /\ bkt'[b].pinned = bkt[b].pinned /\ bkt'[b].owner = bkt[b].owner
  BY ModifyStep
<1>2. PICK p \in Pages : p = bkt[b].pgno
  BY <1>1, Places DEF Latest, PlaceFacts
<1>3. /\ StoreInv' /\ On(b, p)' /\ View(p)' = bkt'[b].page
      /\ \A s \in Pages \ {p} : View(s)' = View(s) /\ HolderOf(s)' = HolderOf(s)
  BY <1>1, <1>2, OthersSeeNothing
<1>4. HolderOf(p) = t
  BY <1>1, <1>2, HolderIs DEF HolderFacts
<1>5. HolderOf(p)' = t
  BY <1>1, <1>3, HolderAfter
<1>. QED BY <1>1, <1>3, <1>4, <1>5, AsWrite

\* A put gives the page back.
LEMMA ReleaseSimulates ==
  ASSUME Setting, PoolInv, PoolInv', LatchInv, LatchInv', StoreInv,
         NEW t \in Threads, NEW b \in Held(t), NEW dirty \in BOOLEAN,
         Release(t, b, dirty), b \in mod /\ ~bkt[b].dirty => dirty
  PROVE  StoreInv' /\ Simulates
<1>1. /\ StoreStep(b, {}) /\ Latest(b)
      /\ bkt'[b].pgno = bkt[b].pgno /\ bkt'[b].page = bkt[b].page
      /\ bkt'[b].pinned = FALSE
  BY ReleaseStep
<1>2. b \in Bkts /\ bkt[b].pinned /\ bkt[b].owner = t
  BY HeldPinned
<1>3. PICK p \in Pages : p = bkt[b].pgno
  BY <1>1, Places DEF Latest, PlaceFacts
<1>4. /\ StoreInv' /\ On(b, p) /\ On(b, p)' /\ View(p)' = View(p)
      /\ \A s \in Pages \ {p} : View(s)' = View(s) /\ HolderOf(s)' = HolderOf(s)
  BY <1>1, <1>2, <1>3, OthersSeeNothing
<1>5. HolderOf(p) = t
  BY <1>2, <1>3, HolderIs DEF HolderFacts
<1>6. HolderOf(p)' = NoThread
  BY <1>1, <1>2, <1>4, HolderAfter
<1>. QED BY <1>4, <1>5, <1>6, AsGiveBack

\* A page brought into the pool is claimed: the page evicted for it, and the
\* pages written, hold what they held.
LEMMA InstallSimulates ==
  ASSUME Setting, PoolInv, PoolInv', LatchInv, LatchInv', StoreInv,
         NEW t \in Threads, NEW p \in Pages, NEW f \in Flags, NEW r \in Rooms,
         NEW c \in Content, NEW changed,
         Brings(t, p, f, r, c, changed),
         c = CleanPage \/ c = View(p)
  PROVE  StoreInv' /\ Simulates
<1> DEFINE x == r.bp
           W == r.first \cup r.wrote
<1>1. x \in Bkts
  BY RoomType
<1>2. StoreStep(x, W) /\ Brought(t, p, x, c)
  BY InstallStep
<1>3. /\ StoreStep(x, W)
      /\ bkt'[x].pgno = p /\ bkt'[x].page = c
      /\ bkt'[x].pinned = TRUE /\ bkt'[x].owner = t
      /\ ~bkt[x].pinned
      /\ \A q \in Pages : Latest(x) /\ On(x, q) => disk'[q] = bkt[x].page
  BY <1>2 DEF Brought
<1>4. StoreInv'
  BY <1>1, <1>3, StoreInvStep
<1>5. On(x, p)'
  <2>1. p # NoPage
    BY PoolAssumption DEF Pages, NoPage
  <2>. QED BY <1>1, <1>3, <2>1 DEF On, Cached
<1>6. View(p)' = c
  BY <1>1, <1>3, <1>4, <1>5, ViewAfter
<1>7. HolderOf(p)' = t
  BY <1>1, <1>3, <1>4, <1>5, HolderAfter
<1>8. HolderOf(p) = NoThread
  <2>1. \A b \in Bkts : bkt[b].pgno = p => ~bkt[b].pinned
    BY DEF Brings, CachedAs, Evictable
  <2>. QED BY <2>1, HolderIs DEF HolderFacts
<1>9. ASSUME NEW q \in Pages \ {p}
      PROVE  View(q)' = View(q) /\ HolderOf(q)' = HolderOf(q)
  <2>1. ~On(x, q)'
    BY <1>3 DEF On
  <2>2. HolderOf(q)' = HolderOf(q)
    BY <1>1, <1>3, <1>4, <2>1, HolderAfter
  <2>3. CASE Latest(x) /\ On(x, q)
    <3>1. View(q)' = disk'[q]
      BY <1>1, <1>3, <1>4, <2>1, <2>3, ViewAfter
    <3>2. View(q) = bkt[x].page
      BY <1>1, <2>3, ViewIs DEF ViewFacts, On
    <3>. QED BY <1>3, <2>2, <2>3, <3>1, <3>2
  <2>4. CASE ~(Latest(x) /\ On(x, q))
    <3>1. View(q)' = View(q)
      BY <1>1, <1>3, <1>4, <2>1, <2>4, ViewAfter
    <3>. QED BY <2>2, <3>1
  <2>. QED BY <2>3, <2>4
<1>10. CASE c = CleanPage
  BY <1>4, <1>6, <1>7, <1>8, <1>9, <1>10, AsClaimNew
<1>11. CASE c = View(p)
  BY <1>4, <1>6, <1>7, <1>8, <1>9, <1>11, AsClaim
<1>. QED BY <1>10, <1>11

\* A get of a page that is not cached is a claim: it finds what the file has,
\* and past the end of the file that is a clean page.
LEMMA MissSimulates ==
  ASSUME Setting, PoolInv, PoolInv', LatchInv, LatchInv', StoreInv,
         NEW t \in Threads, NEW p \in Pages, NEW f \in Flags,
         NEW create \in BOOLEAN, GetMiss(t, p, f, create)
  PROVE  StoreInv' /\ Simulates
<1>1. PICK r \in Rooms :
        Install(t, p, f, r, IF create /\ p >= npages THEN CleanPage
                            ELSE PgIn(RoomDisk(r)[p]), FALSE)
  BY DEF GetMiss
<1>2. CachedAs(p) = {} /\ disk' = RoomDisk(r)
  BY <1>1 DEF GetMiss, Install
<1>3. FileWritten(r.first \cup r.wrote)
  BY <1>2, RoomWritten
<1>4. FileFollows(NoBkt, r.first \cup r.wrote)
  BY <1>3, WrittenFollows
<1>5. disk'[p] = disk[p] /\ disk'[p].swapped = FALSE
  BY <1>2, <1>4 DEF FileFollows
<1>6. disk'[p] \in Content
  BY DEF PoolInv, TypeOK
<1>7. PgIn(RoomDisk(r)[p]) = disk'[p]
  BY <1>2, <1>5, <1>6, FiltersIdle DEF Setting
<1>8. ASSUME p >= npages PROVE disk'[p] = CleanPage
  <2>1. p \in Nat /\ npages \in Nat
    BY PoolAssumption DEF Pages, PoolInv, TypeOK
  <2>. QED BY <1>5, <1>8, <2>1 DEF StoreInv, NothingBeyondEnd
<1>9. (IF create /\ p >= npages THEN CleanPage ELSE PgIn(RoomDisk(r)[p])) = disk'[p]
  BY <1>7, <1>8
<1>10. PICK c \in Content : c = disk'[p]
  BY <1>6
<1>11. Brings(t, p, f, r, c, FALSE)
  BY <1>1, <1>2, <1>5, <1>9, <1>10 DEF Brings
<1>12. c = View(p)
  BY <1>2, <1>5, <1>10, ViewIs DEF ViewFacts
<1>. QED BY <1>11, <1>12, InstallSimulates

\* A new page is a claim of a new page.
LEMMA NewSimulates ==
  ASSUME Setting, PoolInv, PoolInv', LatchInv, LatchInv', StoreInv,
         NEW t \in Threads, NEW p \in Pages, NewPage(t, p)
  PROVE  StoreInv' /\ Simulates
<1>1. PICK r \in Rooms : Install(t, p, "read", r, CleanPage, TRUE)
  BY DEF NewPage
<1>2. CleanPage \in Content /\ CleanPage.swapped = FALSE /\ "read" \in Flags
  BY PoolAssumption DEF CleanPage, Content, Flags
<1>3. \A b \in CachedAs(p) : p \in DupPages /\ Evictable(b) /\ ~bkt[b].dirty
  BY DEF NewPage
<1>4. Brings(t, p, "read", r, CleanPage, TRUE)
  BY <1>1, <1>2, <1>3 DEF Brings
<1>. QED BY <1>2, <1>4, InstallSimulates

\* A step without a bkt of its own changes nothing.
LEMMA QuietSimulates ==
  ASSUME Setting, PoolInv, PoolInv', LatchInv, LatchInv', StoreInv,
         NEW W, StoreStep(NoBkt, W)
  PROVE  StoreInv' /\ Simulates
<1>1. StoreInv'
  BY StoreInvStep
<1>2. \A p \in Pages : ~On(NoBkt, p) /\ ~On(NoBkt, p)'
  BY PoolAssumption DEF On, Cached
<1>3. \A p \in Pages : View(p)' = View(p)
  BY <1>1, <1>2, ViewAfter
<1>4. \A p \in Pages : HolderOf(p)' = HolderOf(p)
  BY <1>1, <1>2, HolderAfter
<1>. QED BY <1>1, <1>3, <1>4, AsStutter

\* Thread t is alone, so nobody waits for a page.
LEMMA AloneNoWaiters ==
  ASSUME PoolInv, LatchInv, NEW t \in Threads, Idle(t), Alone(t), NEW b \in Bkts
  PROVE  bkt[b].wqh = << >>
<1> SUFFICES ASSUME bkt[b].wqh # << >> PROVE FALSE
  OBVIOUS
<1>1. bkt[b].wqh \in Seq(Threads)
  BY DEF PoolInv, TypeOK, Bkt
<1>2. 1 \in DOMAIN bkt[b].wqh
  BY <1>1, EmptySeq, LenProperties
<1>3. bkt[b].wqh[1] \in Threads /\ want[bkt[b].wqh[1]] = b
  BY <1>2, QueueMembers
<1>4. b # NoBkt
  BY PoolAssumption
<1>. QED BY <1>3, <1>4 DEF Alone, Idle

\* A change of number is a move.
LEMMA ChangeSimulates ==
  ASSUME Setting, PoolInv, PoolInv', LatchInv, LatchInv', StoreInv,
         NEW t \in Threads, NEW b \in Bkts, NEW q \in Pages, Change(t, b, q)
  PROVE  StoreInv' /\ Simulates
<1>1. bkt[b].pinned /\ bkt[b].owner = t
  BY HeldPinned DEF Change
<1>2. Movable(b)
  BY AloneNoWaiters DEF Change, Setting, Movable
<1>3. /\ bkt[b].pgno \notin DupPages /\ CachedAs(q) = {}
      /\ bkt' = [bkt EXCEPT ![b] = Moved(b, q)] /\ lru' = Touch(b)
      /\ npages' = Max({npages, q + 1})
      /\ disk' = [disk EXCEPT ![bkt[b].pgno] = CleanPage] /\ mod' = mod \ {b}
  BY <1>1, <1>2 DEF Change
<1>4. /\ StoreStep(b, {}) /\ Latest(b)
      /\ bkt'[b].pgno = q /\ bkt'[b].page = bkt[b].page /\ bkt'[b].pinned = FALSE
  BY <1>1, <1>3, MoveStep
<1>5. PICK p \in Pages : p = bkt[b].pgno
  BY <1>4, Places DEF Latest, PlaceFacts
<1>6. StoreInv'
  BY <1>4, StoreInvStep
<1>7. q # p /\ q # NoPage
  BY <1>3, <1>5, PoolAssumption DEF CachedAs, Pages, NoPage
<1>8. On(b, p) /\ ~On(b, p)' /\ On(b, q)' /\ ~On(b, q)
  BY <1>4, <1>5, <1>7 DEF On, Cached, Latest
<1>9. View(q)' = View(p)
  <2>1. View(q)' = bkt'[b].page
    BY <1>4, <1>6, <1>8, ViewAfter
  <2>2. View(p) = bkt[b].page
    BY <1>4, <1>5, ViewIs DEF ViewFacts
  <2>. QED BY <1>4, <2>1, <2>2
<1>10. View(p)' = CleanPage
  <2>1. View(p)' = disk'[p]
    BY <1>4, <1>6, <1>8, ViewAfter
  <2>. QED BY <1>3, <1>5, <2>1 DEF PoolInv, TypeOK
<1>11. HolderOf(p) = t
  BY <1>1, <1>5, HolderIs DEF HolderFacts
<1>12. HolderOf(p)' = NoThread
  BY <1>1, <1>4, <1>6, <1>8, HolderAfter
<1>13. HolderOf(q) = NoThread
  <2>1. \A d \in Bkts : bkt[d].pgno # q
    BY <1>3 DEF CachedAs
  <2>. QED BY <2>1, HolderIs DEF HolderFacts
<1>14. HolderOf(q)' = NoThread
  BY <1>4, <1>6, <1>8, <1>13, HolderAfter
<1>15. ASSUME NEW s \in Pages \ {p, q}
       PROVE  View(s)' = View(s) /\ HolderOf(s)' = HolderOf(s)
  <2>1. ~On(b, s) /\ ~On(b, s)'
    BY <1>4, <1>5 DEF On
  <2>2. View(s)' = View(s)
    BY <1>4, <1>6, <2>1, ViewAfter
  <2>3. HolderOf(s)' = HolderOf(s)
    BY <1>4, <1>6, <2>1, HolderAfter
  <2>. QED BY <2>2, <2>3
<1>. QED BY <1>6, <1>7, <1>9, <1>10, <1>11, <1>12, <1>13, <1>14, <1>15, AsMove

\* A delete discards the page.
LEMMA DeleteSimulates ==
  ASSUME Setting, PoolInv, PoolInv', LatchInv, LatchInv', StoreInv,
         NEW t \in Threads, NEW b \in Bkts, Delete(t, b)
  PROVE  StoreInv' /\ Simulates
<1>1. PICK W : StoreStep(b, W)
  BY DropStep
<1>2. Latest(b) /\ b \notin Cached' /\ bkt[b].pinned /\ bkt[b].owner = t
  BY DropStep
<1>3. StoreInv'
  BY <1>1, StoreInvStep
<1>4. PICK p \in Pages : p = bkt[b].pgno
  BY <1>2, Places DEF Latest, PlaceFacts
<1>5. On(b, p) /\ \A q \in Pages : ~On(b, q)'
  BY <1>2, <1>4 DEF On, Latest
<1>6. View(p)'.val \in Values
  <2>1. View(p)' = disk'[p]
    BY <1>1, <1>2, <1>3, <1>5, ViewAfter
  <2>2. disk'[p] \in Content
    BY DEF PoolInv, TypeOK
  <2>. QED BY <2>1, <2>2 DEF Content
<1>7. HolderOf(p) = t
  BY <1>2, <1>4, HolderIs DEF HolderFacts
<1>8. HolderOf(p)' = NoThread
  BY <1>1, <1>2, <1>3, <1>5, HolderAfter
<1>9. ASSUME NEW s \in Pages \ {p}
      PROVE  View(s)' = View(s) /\ HolderOf(s)' = HolderOf(s)
  <2>1. ~On(b, s) /\ ~On(b, s)'
    BY <1>4, <1>5 DEF On
  <2>2. View(s)' = View(s)
    BY <1>1, <1>3, <2>1, ViewAfter
  <2>3. HolderOf(s)' = HolderOf(s)
    BY <1>1, <1>3, <2>1, HolderAfter
  <2>. QED BY <2>2, <2>3
<1>. QED BY <1>3, <1>6, <1>7, <1>8, <1>9, AsDiscard

\* A step that changes no bkt and no page of the file changes nothing.
LEMMA FixedSimulates ==
  ASSUME Setting, PoolInv, PoolInv', LatchInv, LatchInv', StoreInv,
         UNCHANGED <<bkt, lru, disk, mod>>, NothingBeyondEnd'
  PROVE  StoreInv' /\ Simulates
<1>0. NoBkt \notin Bkts
  BY PoolAssumption
<1>1. OthersKept(NoBkt, {})
  <2>1. \A d \in Bkts : bkt[d].dirty \in BOOLEAN
    BY DEF PoolInv, TypeOK, Bkt
  <2>. QED BY <2>1 DEF OthersKept, Pos
<1>2. ComesAndGoes(NoBkt) /\ Sound(NoBkt)'
  BY <1>0 DEF ComesAndGoes, On, Cached, Sound
<1>3. FileFollows(NoBkt, {})
  BY DEF FileFollows, StoreInv, Unswapped
<1>4. StoreStep(NoBkt, {})
  BY <1>1, <1>2, <1>3 DEF StoreStep
<1>. QED BY <1>4, QuietSimulates

\* A close changes nothing that the next users of the file see.
LEMMA CloseSimulates ==
  ASSUME Setting, PoolInv, PoolInv', LatchInv, LatchInv', StoreInv,
         NEW t \in Threads, Close(t)
  PROVE  StoreInv' /\ Simulates
<1>1. /\ StoreInv' /\ \A b \in Bkts : ~bkt[b].pinned
      /\ \A p \in Pages : CachedAs(p)' = {} /\ disk'[p] = View(p)
  BY CloseIs
<1>2. ViewFacts'
  BY <1>1, ViewIs, PTL
<1>3. HolderFacts'
  BY <1>1, HolderIs, PTL
<1>4. \A b \in Bkts : ~bkt'[b].pinned
  BY DEF Close, FreeBkt
<1>5. \A p \in Pages : View(p)' = View(p)
  BY <1>1, <1>2 DEF ViewFacts
<1>6. \A p \in Pages : HolderOf(p) = NoThread
  BY <1>1, HolderIs DEF HolderFacts
<1>7. \A p \in Pages : HolderOf(p)' = NoThread
  BY <1>3, <1>4 DEF HolderFacts
<1>. QED BY <1>1, <1>5, <1>6, <1>7, AsStutter

\* Every step of the pool keeps StoreInv, and is a step of the page store or
\* invisible to it.
LEMMA StoreNext ==
  ASSUME Setting
  PROVE  PoolInv /\ LatchInv /\ StoreInv /\ [Next]_vars => StoreInv' /\ Simulates
<1> SUFFICES ASSUME PoolInv, LatchInv, StoreInv, [Next]_vars
             PROVE  StoreInv' /\ Simulates
  OBVIOUS
<1>0. PoolInv' /\ LatchInv'
  BY PoolInvNext, LatchInvNext DEF Setting
<1>a. status' # "aborted"
  BY <1>0 DEF LatchInv, NoAbort
<1>b. NothingBeyondEnd
  BY DEF StoreInv
<1>1. ASSUME NEW t \in Threads, NEW p \in Pages, Get(t, p)
      PROVE  StoreInv' /\ Simulates
  <2>1. ASSUME NEW f \in Flags, GetHit(t, p, f) PROVE StoreInv' /\ Simulates
    <3>1. Find(p) \in Bkts /\ Latest(Find(p))
      BY <2>1, FindType DEF GetHit, CachedAs, Latest
    <3>2. ~bkt[Find(p)].pinned
      BY <2>1, HitIsFree DEF Setting
    <3>3. Claim(t, Find(p), f, bkt[Find(p)].wqh)
      BY <2>1 DEF GetHit
    <3>4. bkt[Find(p)].wqh \in Seq(Threads)
      BY <3>1 DEF PoolInv, TypeOK, Bkt
    <3>. QED BY <1>0, <3>1, <3>2, <3>3, <3>4, ClaimSimulates
  <2>2. ASSUME GetWait(t, p) PROVE StoreInv' /\ Simulates
    BY <1>0, <2>2, WaitSimulates
  <2>3. ASSUME NEW f \in Flags, NEW create \in BOOLEAN, GetMiss(t, p, f, create)
        PROVE  StoreInv' /\ Simulates
    BY <1>0, <2>3, MissSimulates
  <2>. QED BY <1>1, <2>1, <2>2, <2>3 DEF Get
<1>2. ASSUME NEW t \in Threads, NEW f \in Flags, Resume(t, f)
      PROVE  StoreInv' /\ Simulates
  <2> DEFINE b == want[t]
  <2>1. b \in Bkts /\ ~bkt[b].pinned /\ bkt[b].wqh # << >>
    BY <1>2 DEF Resume, Woken, LatchInv, WokenFirst
  <2>2. Latest(b)
    BY <2>1, BusyIsLatest DEF Busy
  <2>3. Claim(t, b, f, Tail(bkt[b].wqh))
    BY <1>2, <1>a DEF Resume
  <2>4. Tail(bkt[b].wqh) \in Seq(Threads)
    <3>1. bkt[b].wqh \in Seq(Threads)
      BY <2>1 DEF PoolInv, TypeOK, Bkt
    <3>. QED BY <2>1, <3>1, HeadTailProperties
  <2>. QED BY <1>0, <2>1, <2>2, <2>3, <2>4, ClaimSimulates
<1>3. ASSUME NEW t \in Threads, NEW p \in Pages, NewPage(t, p)
      PROVE  StoreInv' /\ Simulates
  BY <1>0, <1>3, NewSimulates
<1>4. ASSUME NEW t \in Threads, NEW b \in Bkts, NEW v \in Values, Modify(t, b, v)
      PROVE  StoreInv' /\ Simulates
  BY <1>0, <1>4, ModifySimulates
<1>5. ASSUME NEW t \in Threads, NEW b \in Bkts, NEW dirty \in BOOLEAN, Put(t, b, dirty)
      PROVE  StoreInv' /\ Simulates
  <2>1. b \in Held(t) /\ (b \in mod /\ ~bkt[b].dirty => dirty)
    BY <1>5 DEF Put
  <2>2. Release(t, b, dirty)
    BY <1>5, <1>a DEF Put, Abort
  <2>. QED BY <1>0, <2>1, <2>2, ReleaseSimulates
<1>6. ASSUME NEW t \in Threads, Signal(t)
      PROVE  StoreInv' /\ Simulates
  <2>1. UNCHANGED <<bkt, lru, disk, mod>> /\ NothingBeyondEnd'
    BY <1>6, <1>b DEF Signal, pool, client, NothingBeyondEnd
  <2>. QED BY <1>0, <2>1, FixedSimulates
<1>7. ASSUME NEW t \in Threads, NEW b \in Bkts, NEW q \in Pages, Change(t, b, q)
      PROVE  StoreInv' /\ Simulates
  BY <1>0, <1>7, ChangeSimulates
<1>8. ASSUME NEW t \in Threads, NEW b \in Bkts, Delete(t, b)
      PROVE  StoreInv' /\ Simulates
  BY <1>0, <1>8, DeleteSimulates
<1>9. ASSUME NEW t \in Threads, NEW b \in Bkts, DeleteFails(t, b)
      PROVE  StoreInv' /\ Simulates
  BY <1>0, <1>9, DeleteFailsStep, QuietSimulates
<1>10. ASSUME NEW t \in Threads, Sync(t)
       PROVE  StoreInv' /\ Simulates
  <2>1. PICK W : StoreStep(NoBkt, W)
    BY <1>0, <1>10, SyncStep
  <2>. QED BY <1>0, <2>1, QuietSimulates
<1>11. ASSUME NEW t \in Threads, Close(t)
       PROVE  StoreInv' /\ Simulates
  BY <1>0, <1>11, CloseSimulates
<1>12. ASSUME Open
       PROVE  StoreInv' /\ Simulates
  <2>1. UNCHANGED <<bkt, lru, disk, mod>> /\ npages' \in Lengths(disk)
    BY <1>12 DEF Open, client
  <2>2. NothingBeyondEnd'
    <3>1. npages' \in Nat /\ \A p \in Pages : p \in Nat
      BY <1>0, PoolAssumption DEF PoolInv, TypeOK, Pages
    <3>2. \A p \in Pages : p >= npages' => disk[p] = CleanPage
      BY <2>1 DEF Lengths
    <3>. QED BY <2>1, <3>1, <3>2 DEF NothingBeyondEnd
  <2>. QED BY <1>0, <2>1, <2>2, FixedSimulates
<1>13. CASE UNCHANGED vars
  <2>1. UNCHANGED <<bkt, lru, disk, mod>> /\ NothingBeyondEnd'
    BY <1>13, <1>b DEF vars, pool, client, NothingBeyondEnd
  <2>. QED BY <1>0, <2>1, FixedSimulates
<1>. QED BY <1>1, <1>2, <1>3, <1>4, <1>5, <1>6, <1>7, <1>8, <1>9, <1>10,
            <1>11, <1>12, <1>13 DEF Next

\* StoreInv holds in the beginning.
LEMMA StoreInvInit ==
  ASSUME Setting
  PROVE  Init => StoreInv
<1> SUFFICES ASSUME Init PROVE StoreInv
  OBVIOUS
<1>1. Cached = {} /\ mod = {} /\ \A b \in Bkts : bkt[b] = FreeBkt
  BY DEF Init, Cached, FreeBkt
<1>2. PinnedOwned /\ ModPinned
  BY <1>1 DEF PinnedOwned, ModPinned, FreeBkt
<1>3. OldIdle /\ CleanLatest
  BY <1>1 DEF OldIdle, CleanLatest, Latest
<1>4. \A p \in Pages : disk[p].swapped = FALSE
  <2>1. ForeignOrder = FALSE
    BY PoolAssumption DEF Setting
  <2>. QED BY <2>1 DEF Init, CleanPage
<1>5. Unswapped
  BY <1>1, <1>4 DEF Unswapped, FreeBkt, CleanPage
<1>6. NothingBeyondEnd
  <2>1. npages \in Nat /\ \A p \in Pages : p \in Nat
    BY PoolInvInit, PoolAssumption DEF PoolInv, TypeOK, Pages
  <2>2. \A p \in Pages : p >= npages => disk[p] = CleanPage
    BY DEF Init, Lengths
  <2>. QED BY <2>1, <2>2 DEF NothingBeyondEnd
<1>. QED BY <1>2, <1>3, <1>5, <1>6 DEF StoreInv

\* The invariant of the store.
LEMMA StoreInvariant ==
  ASSUME Setting
  PROVE  Spec => [](PoolInv /\ LatchInv /\ StoreInv)
<1>0. Spec => [](PoolInv /\ LatchInv)
  BY LatchInvariant DEF Setting
<1>1. Init => StoreInv
  BY StoreInvInit
<1>2. PoolInv /\ LatchInv /\ StoreInv /\ [Next]_vars => StoreInv'
  BY StoreNext
<1>. QED BY <1>0, <1>1, <1>2, PTL DEF Spec

----------------------------------------------------------------------------
\* What eviction drops without writing is in the file: the copy a lookup
\* returns is the file's unless it is dirty or being changed.
THEOREM CleanCopiesMatchTheFile ==
  ASSUME Setting
  PROVE  Spec => []CleanCopyIsDisk
<1>1. PoolInv /\ StoreInv => CleanCopyIsDisk
  <2> SUFFICES ASSUME PoolInv, StoreInv, NEW b \in Cached, b = Find(bkt[b].pgno),
                      ~bkt[b].dirty, b \notin mod
               PROVE  bkt[b].page = PgIn(disk[bkt[b].pgno])
    BY DEF CleanCopyIsDisk
  <2>1. b \in Bkts /\ bkt[b].pgno \in Pages /\ b \in CachedAs(bkt[b].pgno)
    BY Places DEF PlaceFacts, CachedAs
  <2>2. Latest(b)
    BY <2>1, FindType DEF Latest
  <2>3. bkt[b].page = disk[bkt[b].pgno]
    BY <2>1, <2>2 DEF StoreInv, CleanLatest
  <2>4. disk[bkt[b].pgno] \in Content /\ disk[bkt[b].pgno].swapped = FALSE
    BY <2>1 DEF PoolInv, TypeOK, StoreInv, Unswapped
  <2>. QED BY <2>3, <2>4, FiltersIdle DEF Setting
<1>. QED BY <1>1, StoreInvariant, PTL

\* No page past the count of pages has content in the file, so that a page
\* that get_page creates there overwrites nothing.
THEOREM FileEndsAtCount ==
  ASSUME Setting
  PROVE  Spec => []NothingBeyondEnd
<1>1. StoreInv => NothingBeyondEnd
  BY DEF StoreInv
<1>. QED BY <1>1, StoreInvariant, PTL

\* What the callers saw in the pool before a close is in the file after it.
THEOREM CloseWritesAll ==
  ASSUME Setting
  PROVE  Spec => CloseFlushes
<1> DEFINE A == status = "open" /\ status' = "closed" =>
                  \A p \in Pages : PgIn(disk'[p]) = View(p)
<1>1. PoolInv /\ LatchInv /\ StoreInv /\ [Next]_vars => [A]_vars
  <2> SUFFICES ASSUME PoolInv, LatchInv, StoreInv, Next,
                      status = "open", status' = "closed", NEW p \in Pages
               PROVE  PgIn(disk'[p]) = View(p)
    OBVIOUS
  <2>0. PoolInv'
    BY PoolInvNext
  <2>1. PICK t \in Threads : Close(t)
    BY DEF Next, Get, GetHit, GetWait, GetMiss, Install, Claim, Resume, NewPage,
           Modify, Put, Release, HandOver, Abort, Signal, Change, Delete,
           DeleteFails, Sync, Open
  <2>2. StoreInv' /\ disk'[p] = View(p)
    BY <2>0, <2>1, CloseIs
  <2>3. disk'[p] \in Content /\ disk'[p].swapped = FALSE
    BY <2>0, <2>2 DEF PoolInv, TypeOK, StoreInv, Unswapped
  <2>. QED BY <2>2, <2>3, FiltersIdle DEF Setting
<1>. QED BY <1>1, StoreInvariant, PTL DEF Spec, CloseFlushes

\* The pool implements the page store: for any number of threads, pages, bkts
\* and any cache limit, each call is one step of PageStore or invisible.
THEOREM PoolImplementsStore ==
  ASSUME Setting
  PROVE  Spec => ImplementsStore
<1>1. Init => Store!Init
  <2> SUFFICES ASSUME Init PROVE Store!Init
    OBVIOUS
  <2>0. PoolInv /\ StoreInv
    BY PoolInvInit, StoreInvInit
  <2>1. \A p \in Pages : CachedAs(p) = {}
    BY PoolAssumption DEF Init, CachedAs, FreeBkt, Pages, NoPage
  <2>2. \A p \in Pages : View(p) = disk[p]
    BY <2>0, <2>1, ViewIs DEF ViewFacts
  <2>3. \A p \in Pages : View(p).val \in Values
    BY <2>0, <2>2 DEF PoolInv, TypeOK, Content
  <2>4. \A t \in Threads : Held(t) = {}
    BY DEF Init, Held
  <2>5. \A p \in Pages : HolderOf(p) = NoThread
    BY <2>4 DEF HolderOf
  <2>. QED BY <2>3, <2>5 DEF Store!Init
<1>2. PoolInv /\ LatchInv /\ StoreInv /\ [Next]_vars =>
        [Store!Next]_<<AbsStore, AbsHolder>>
  BY StoreNext DEF Simulates
<1>3. Spec => Store!Init /\ [][Store!Next]_<<AbsStore, AbsHolder>>
  BY <1>1, <1>2, StoreInvariant, PTL DEF Spec
<1>. QED BY <1>3, PTL DEF ImplementsStore, Store!Spec, AbsStore, AbsHolder
============================================================================
