------------------------------ MODULE PagePool ------------------------------
(***************************************************************************)
(* The cache of database pages of filehash/ffdb_pagepool.c.  The pool keeps*)
(* pages of one file in memory.  A thread claims a page with get_page or   *)
(* new_page, works on it in place and gives it back with put_page (or      *)
(* change_page, or delete); while it is claimed other threads queue for it *)
(* on a condition variable of their own.  Pages nobody uses are written    *)
(* back by sync and by the eviction that makes room for another page.      *)
(*                                                                         *)
(* Every entry point runs under pgp->lock from its first to its last       *)
(* access, so it is one action, with the two exceptions that matter:       *)
(* get_page gives the lock up in pthread_cond_wait (actions GetWait and    *)
(* Resume) and put_page signals the next waiter after unlocking (actions   *)
(* Put and Signal).                                                        *)
(*                                                                         *)
(* A thread's use of the pages is the client's: holds, mod and the guard   *)
(* MayClaim describe what the callers in ffdb_page.c and ffdb_hash.c do    *)
(* between two calls.                                                      *)
(***************************************************************************)
EXTENDS Integers, Sequences, FiniteSets, SequencesExt

CONSTANTS
  Threads,      \* the threads of the process
  NoThread,     \* FFDB_THREAD_NULL
  Bkts,         \* the ffdb_bkt_t objects malloc can return
  NoBkt,
  LastPage,     \* bound: pages 0 .. LastPage of the file are used
  Values,       \* what a page may hold
  Clean,        \* a page that was never filled: zeroed or just initialised
  MaxCache,     \* pgp->maxcache
  WriteFrac     \* FFDB_WRITE_FRAC, 5 in the code

CONSTANTS       \* what the clients and the environment do
  MaxHeld,      \* pages one thread claims at a time
  MaxNest,      \* times a thread may claim a page that it holds already
  Ordered,      \* a thread claims pages in increasing page number
  LockPages,    \* pages claimed with FFDB_PAGE_LOCKED (configuration pages)
  DupPages,     \* pages new_page may create while an idle copy is cached
  Moves,        \* "none", "alone", "any": when change_page is called
  Closes,       \* a thread that is alone may close the pool and open it again
  Spurious,     \* pthread_cond_wait may return without a signal
  WriteFaults,  \* write(2) may fail
  ForeignOrder  \* the file has the other byte order than this machine

Pages  == 0 .. LastPage
NoPage == -1

ASSUME PoolAssumption ==
  /\ NoThread \notin Threads
  /\ NoBkt \notin Bkts
  /\ LastPage \in Nat
  /\ Clean \in Values
  /\ MaxCache \in Nat
  /\ WriteFrac \in Nat \ {0}
  /\ MaxHeld \in Nat \ {0}
  /\ MaxNest \in Nat \ {0}
  /\ LockPages \subseteq Pages
  /\ DupPages \subseteq Pages
  /\ Moves \in {"none", "alone", "any"}
  /\ {Ordered, Closes, Spurious, WriteFaults, ForeignOrder} \subseteq BOOLEAN

VARIABLES
  bkt,       \* every ffdb_bkt_t; pgno = NoPage when it is not in the pool
  lru,       \* lqh, least recently used first; a hash chain is its reverse
  curcache, npages,  \* the counters of ffdb_pagepool_t
  disk,      \* the content of the file, page by page
  status,    \* "open", "closed", or "aborted" after abort()
  want,      \* the bkt whose waiter queue a thread sleeps in
  wake,      \* its waiter: "no", wakeup "set", or set and "signalled"
  sleeper,   \* the waiter put_page has still to signal
  holds,     \* how often a thread holds a bkt
  mod        \* bkts a client changed and did not mark dirty yet

pool   == <<bkt, lru, curcache, npages>>
sync   == <<want, wake, sleeper>>
client == <<holds, mod>>
vars   == <<pool, disk, status, sync, client>>

(***************************************************************************)
(* Pages and the page filters.  A page carries its value and whether its   *)
(* numbers are in the other byte order.  pgout_routine converts the page   *)
(* IN PLACE before it is written; pgin_routine converts what was read.     *)
(***************************************************************************)
Content   == [val : Values, swapped : BOOLEAN]
CleanPage == [val |-> Clean, swapped |-> FALSE]

ByteSwap(c) == [c EXCEPT !.swapped = ~@]

PgOut(c) == IF ForeignOrder THEN ByteSwap(c) ELSE c

PgIn(c) ==
  IF c.val = Clean THEN CleanPage
  ELSE IF ForeignOrder THEN ByteSwap(c) ELSE c

(***************************************************************************)
(* Buckets.                                                                *)
(***************************************************************************)
Bkt == [pgno : Pages \cup {NoPage}, ref : Int, pinned : BOOLEAN,
        dirty : BOOLEAN, locked : BOOLEAN, owner : Threads \cup {NoThread},
        wqh : Seq(Threads), page : Content]

FreeBkt == [pgno |-> NoPage, ref |-> 0, pinned |-> FALSE, dirty |-> FALSE,
            locked |-> FALSE, owner |-> NoThread, wqh |-> << >>,
            page |-> CleanPage]

Cached      == {b \in Bkts : bkt[b].pgno # NoPage}
CachedAs(p) == {b \in Bkts : bkt[b].pgno = p}

Pos(b) == CHOOSE i \in DOMAIN lru : lru[i] = b

\* Mutant of Find: bkts are added at the wrong end of their hash chain.
FindFirst(p) ==
  CHOOSE b \in CachedAs(p) : \A c \in CachedAs(p) \ {b} : Pos(b) < Pos(c)

\* The search of a hash chain from its head: the most recent bkt of page p.
Find(p) ==
  CHOOSE b \in CachedAs(p) : \A c \in CachedAs(p) \ {b} : Pos(c) < Pos(b)

\* Mutant of Touch: the bkt is not taken off the list first.
TouchTwice(b) == Append(lru, b)

\* The bkt moves to the tail of the LRU list and the head of its hash chain.
Touch(b) == Append(RemoveFirst(lru, b), b)

\* What page p holds for its next user: the cached copy, or the file's.
View(p) == IF CachedAs(p) # {} THEN bkt[Find(p)].page ELSE PgIn(disk[p])

Flags == {"read", "dirty", "lock"}  \* 0, PAGE_DIRTY, PAGE_DIRTY|PAGE_LOCKED

(***************************************************************************)
(* Writing pages back.  tried are the bkts _ffdb_pagepool_write was called *)
(* for, wrote the ones it succeeded on.  When two bkts of one page are     *)
(* written the later write is the one that stays: sync_i lists the bkts    *)
(* most recent first and sorts them with a stable merge sort.              *)
(***************************************************************************)
Oldest(S) == CHOOSE b \in S : \A c \in S \ {b} : Pos(b) < Pos(c)

DiskAfter(d, wrote) ==
  [p \in Pages |->
     LET S == {b \in wrote : bkt[b].pgno = p}
     IN  IF S = {} THEN d[p] ELSE PgOut(bkt[Oldest(S)].page)]

\* Mutant of BktAfter: the dirty flag is cleared although the write failed.
BktAfterError(wrote, tried) ==
  [b \in Bkts |->
     IF b \in tried
     THEN [bkt[b] EXCEPT !.dirty = FALSE, !.page = PgOut(@)]
     ELSE bkt[b]]

BktAfter(wrote, tried) ==
  [b \in Bkts |->
     IF b \in tried
     THEN [bkt[b] EXCEPT !.dirty = @ /\ b \notin wrote, !.page = PgOut(@)]
     ELSE bkt[b]]

\* Mutant of Extent: a write past the end does not count the new pages.
ExtentKept(n, S) == n

\* The least count of pages that is at least n and covers the bkts of S.
Extent(n, S) == Max({n} \cup {bkt[b].pgno + 1 : b \in S})

Flushable(b) == bkt[b].dirty /\ ~bkt[b].pinned /\ bkt[b].wqh = << >>

\* Mutant of FlushSet: 0 no longer stands for all of them.
FlushSetLimited(n, skip) ==
  LET S == {i \in DOMAIN lru : Flushable(lru[i]) /\ lru[i] \notin skip}
  IN  {lru[i] : i \in {j \in S : Cardinality({k \in S : k <= j}) <= Max({n, 1})}}

\* The bkts sync_i collects from the LRU list; all of them when n = 0.
FlushSet(n, skip) ==
  LET S == {i \in DOMAIN lru : Flushable(lru[i]) /\ lru[i] \notin skip}
  IN  {lru[i] : i \in {j \in S : n = 0 \/ Cardinality({k \in S : k <= j}) <= n}}

\* sync_i writes in the order of page numbers and stops at the first error.
Flushes(B) ==
  {[wrote |-> B, tried |-> B]} \cup
  {[wrote |-> {b \in B : bkt[b].pgno < bkt[c].pgno},
    tried |-> {b \in B : bkt[b].pgno < bkt[c].pgno} \cup {c}]
     : c \in {c \in B : WriteFaults}}

(***************************************************************************)
(* Room for one more page: _ffdb_pagepool_new_bkt below the limit, and at  *)
(* the limit _ffdb_pagepool_reuse_bkt, which takes the first bkt of the LRU*)
(* list nobody needs, skips it when it cannot be written back, and writes  *)
(* a fraction of the other pages when it wrote that one.                   *)
(***************************************************************************)
\* Mutant of Evictable: a dirty page is never reused.
EvictableClean(b) ==
  ~bkt[b].locked /\ ~bkt[b].pinned /\ bkt[b].wqh = << >> /\ ~bkt[b].dirty

Evictable(b) == ~bkt[b].locked /\ ~bkt[b].pinned /\ bkt[b].wqh = << >>

Skipped(i) == {lru[j] : j \in {k \in 1 .. i - 1 : Evictable(lru[k])}}

MayFail(S) == \A b \in S : bkt[b].dirty /\ WriteFaults

ReuseBkt ==
  UNION {LET b == lru[i]
             D == IF bkt[b].dirty THEN {b} ELSE {}
             F == IF D = {} THEN {} ELSE FlushSet(MaxCache \div WriteFrac, {b})
         IN  {[bp |-> b, new |-> 0, first |-> D, wrote |-> o.wrote,
               tried |-> Skipped(i) \cup D \cup o.tried] : o \in Flushes(F)}
         : i \in {k \in DOMAIN lru : Evictable(lru[k]) /\ MayFail(Skipped(k))}}

\* malloc returns some bkt that is not in use (none: the bound on Bkts).
NewBkt(tried) ==
  {[bp |-> b, new |-> 1, first |-> {}, wrote |-> {}, tried |-> tried]
     : b \in CachedAs(NoPage)}

Rooms ==
  LET unusable == Skipped(Len(lru) + 1)
  IN  IF curcache <= MaxCache THEN NewBkt({})
      ELSE ReuseBkt \cup (IF MayFail(unusable) THEN NewBkt(unusable) ELSE {})

\* The file once room r is made.
RoomDisk(r) == DiskAfter(DiskAfter(disk, r.first), r.wrote)

\* Mutant of Loaded: the bkt is filed under the next page number.
LoadedNext(t, p, f, c) ==
  [pgno |-> p + 1, ref |-> 1, pinned |-> TRUE, dirty |-> f # "read",
   locked |-> f = "lock", owner |-> t, wqh |-> << >>, page |-> c]

\* The bkt of a page thread t just brought in, with flags f.
Loaded(t, p, f, c) ==
  [pgno |-> p, ref |-> 1, pinned |-> TRUE, dirty |-> f # "read",
   locked |-> f = "lock", owner |-> t, wqh |-> << >>, page |-> c]

\* Install page p with content c, claimed by t with flags f, in room r.
\* changed: the content is not the file's, and t has to mark it dirty.
Install(t, p, f, r, c, changed) ==
  /\ bkt' = [BktAfter(r.wrote, r.tried) EXCEPT ![r.bp] = Loaded(t, p, f, c)]
  /\ lru' = Touch(r.bp)
  /\ curcache' = curcache + r.new
  /\ disk' = RoomDisk(r)
  /\ npages' = Extent(npages, r.tried)
  /\ holds' = [holds EXCEPT ![t][r.bp] = @ + 1]
  /\ mod' = IF changed THEN mod \cup {r.bp} ELSE mod \ {r.bp}
  /\ UNCHANGED <<status, sync>>

(***************************************************************************)
(* The clients.  A thread is inside a call while it sleeps in get_page or  *)
(* is about to signal in put_page.                                         *)
(***************************************************************************)
Idle(t) == want[t] = NoBkt /\ sleeper[t] = NoThread

Held(t) == {b \in Bkts : holds[t][b] > 0}

Alone(t) == \A u \in Threads \ {t} : Idle(u) /\ Held(u) = {}

MayClaim(t, p) ==
  /\ status = "open"
  /\ Idle(t)
  /\ \A b \in Held(t) :
        IF bkt[b].pgno = p
        THEN holds[t][b] < MaxNest
        ELSE Cardinality(Held(t)) < MaxHeld /\ (Ordered => bkt[b].pgno < p)

MayFlag(p, f) == f = "lock" => p \in LockPages

(***************************************************************************)
(* ffdb_pagepool_get_page.                                                 *)
(***************************************************************************)
\* Mutant of Available: the waiters of the page are not looked at.
AvailableBarging(t, b) == bkt[b].owner = t \/ ~bkt[b].pinned

\* Mutant of Available: the pin is not looked at.
AvailablePinned(t, b) == bkt[b].owner = t \/ bkt[b].wqh = << >>

\* The caller has the page already, or nobody uses it or waits for it.
Available(t, b) ==
  \/ bkt[b].owner = t
  \/ ~bkt[b].pinned /\ bkt[b].wqh = << >>

\* Thread t has the page of bkt b, with waiter queue q left behind.
Claim(t, b, f, q) ==
  /\ bkt' = [bkt EXCEPT ![b] =
               [bkt[b] EXCEPT !.ref = @ + 1, !.owner = t, !.pinned = TRUE,
                              !.dirty = @ \/ f # "read",
                              !.locked = @ \/ f = "lock", !.wqh = q]]
  /\ lru' = Touch(b)
  /\ holds' = [holds EXCEPT ![t][b] = @ + 1]
  /\ UNCHANGED <<curcache, npages, disk, status, sleeper, mod>>

\* The page is cached and available.
GetHit(t, p, f) ==
  /\ MayClaim(t, p) /\ MayFlag(p, f)
  /\ CachedAs(p) # {}
  /\ LET b == Find(p)
     IN  /\ Available(t, b)
         /\ Claim(t, b, f, bkt[b].wqh)
  /\ UNCHANGED <<want, wake>>

\* The page is cached and taken, or others wait for it: join the queue.
GetWait(t, p) ==
  /\ MayClaim(t, p)
  /\ CachedAs(p) # {}
  /\ LET b == Find(p)
     IN  /\ ~Available(t, b)
         /\ bkt' = [bkt EXCEPT ![b].wqh = Append(@, t)]
         /\ want' = [want EXCEPT ![t] = b]
  /\ wake' = [wake EXCEPT ![t] = "no"]
  /\ UNCHANGED <<lru, curcache, npages, disk, status, sleeper, client>>

\* pthread_cond_wait returned, for the signal or for no reason, and the wakeup
\* flag, which put_page sets before it signals, is set.
Woken(t) == wake[t] = "signalled" \/ (Spurious /\ wake[t] = "set")

\* The sleeper runs again, and expects to be the next in the queue.
Resume(t, f) ==
  /\ status = "open"
  /\ want[t] # NoBkt
  /\ Woken(t)
  /\ MayFlag(bkt[want[t]].pgno, f)
  /\ IF bkt[want[t]].wqh # << >> /\ Head(bkt[want[t]].wqh) = t
     THEN /\ Claim(t, want[t], f, Tail(bkt[want[t]].wqh))
          /\ want' = [want EXCEPT ![t] = NoBkt]
          /\ wake' = [wake EXCEPT ![t] = "no"]
     ELSE /\ status' = "aborted"
          /\ UNCHANGED <<pool, disk, sync, client>>

\* The page is not cached: load it, or create it past the end of the file.
GetMiss(t, p, f, create) ==
  /\ MayClaim(t, p) /\ MayFlag(p, f)
  /\ CachedAs(p) = {}
  /\ \E r \in Rooms :
        LET fresh == create /\ p >= npages
        IN  Install(t, p, f, r,
                    IF fresh THEN CleanPage ELSE PgIn(RoomDisk(r)[p]), FALSE)

(***************************************************************************)
(* ffdb_pagepool_new_page with FFDB_PAGE_REQUEST, its only use: page p is  *)
(* created without a look for it in the cache.  The caller, ffdb_new_page, *)
(* initialises the page and puts it back dirty.                            *)
(***************************************************************************)
NewPage(t, p) ==
  /\ MayClaim(t, p)
  /\ \A b \in CachedAs(p) :
        p \in DupPages /\ Evictable(b) /\ ~bkt[b].dirty /\ b \notin mod
  /\ \E r \in Rooms : Install(t, p, "read", r, CleanPage, TRUE)

\* The client changes a page in place.
Modify(t, b, v) ==
  /\ status = "open" /\ Idle(t) /\ b \in Held(t)
  /\ v # bkt[b].page.val
  /\ bkt' = [bkt EXCEPT ![b].page = [val |-> v, swapped |-> FALSE]]
  /\ mod' = mod \cup {b}
  /\ UNCHANGED <<lru, curcache, npages, disk, status, sync, holds>>

(***************************************************************************)
(* ffdb_pagepool_put_page: unpin the page whatever its reference count,    *)
(* choose the waiter to wake, and signal it after unlocking.               *)
(***************************************************************************)
\* Thread t gives b back, with its dirty flag set to d, to the waiter u.
HandOver(t, b, d, u) ==
  /\ bkt' = [bkt EXCEPT ![b] =
               [bkt[b] EXCEPT !.ref = @ - 1, !.owner = NoThread,
                              !.pinned = FALSE, !.dirty = d]]
  /\ holds' = [holds EXCEPT ![t][b] = @ - 1]
  /\ mod' = mod \ {b}
  /\ IF bkt[b].wqh = << >>
     THEN UNCHANGED <<wake, sleeper>>
     ELSE /\ wake' = [wake EXCEPT ![u] = "set"]
          /\ sleeper' = [sleeper EXCEPT ![t] = u]
  /\ UNCHANGED <<lru, curcache, npages, disk, status, want>>

\* Mutant of Release: put_page overwrites the dirty flag with its argument.
ReleaseForgets(t, b, dirty) == HandOver(t, b, dirty, Head(bkt[b].wqh))

\* Mutant of Release: the thread that came last is woken.
ReleaseToLast(t, b, dirty) ==
  HandOver(t, b, bkt[b].dirty \/ dirty, Last(bkt[b].wqh))

Release(t, b, dirty) ==
  HandOver(t, b, bkt[b].dirty \/ dirty, Head(bkt[b].wqh))

Abort == status' = "aborted" /\ UNCHANGED <<pool, disk, sync, client>>

Put(t, b, dirty) ==
  /\ status = "open" /\ Idle(t) /\ b \in Held(t)
  /\ b \in mod /\ ~bkt[b].dirty => dirty
  /\ IF bkt[b].pinned THEN Release(t, b, dirty) ELSE Abort

\* Mutant of Signalled: the signal gets lost.
SignalledNever(w) == w

\* pthread_cond_signal on the condition variable of a waiter in state w.  When
\* the waiter is gone (SignalFindsWaiter) the memory may be anything; of the
\* outcomes that leave the process running, the signal is lost or goes to a
\* waiter that reuses it, which is a wakeup for no reason.
Signalled(w) == IF w = "set" THEN "signalled" ELSE w

Signal(t) ==
  /\ status = "open"
  /\ sleeper[t] # NoThread
  /\ wake' = [wake EXCEPT ![sleeper[t]] = Signalled(@)]
  /\ sleeper' = [sleeper EXCEPT ![t] = NoThread]
  /\ UNCHANGED <<pool, disk, status, want, client>>

(***************************************************************************)
(* ffdb_pagepool_change_page: give the page back under another number and  *)
(* zero its old place in the file at once.  With waiters it is a put.      *)
(***************************************************************************)
\* Mutant of Movable: the page is moved under the feet of its waiters.
MovableAlways(b) == TRUE

\* change_page moves a page only if nobody waits for it.
Movable(b) == bkt[b].wqh = << >>

\* Bkt b under page number q, given back and dirty.
Moved(b, q) ==
  [bkt[b] EXCEPT !.pgno = q, !.ref = @ - 1, !.dirty = TRUE, !.pinned = FALSE,
                 !.owner = NoThread]

Change(t, b, q) ==
  LET p == bkt[b].pgno
  IN  /\ status = "open" /\ Idle(t) /\ b \in Held(t)
      /\ Moves = "any" \/ (Moves = "alone" /\ Alone(t))
      /\ CachedAs(q) = {} /\ p \notin DupPages /\ {p, q} \cap LockPages = {}
      /\ IF ~bkt[b].pinned THEN Abort
         ELSE IF ~Movable(b) THEN Release(t, b, FALSE)
         ELSE /\ bkt' = [bkt EXCEPT ![b] = Moved(b, q)]
              /\ lru' = Touch(b)
              /\ npages' = Max({npages, q + 1})
              /\ disk' = [disk EXCEPT ![p] = CleanPage]
              /\ holds' = [holds EXCEPT ![t][b] = @ - 1]
              /\ mod' = mod \ {b}
              /\ UNCHANGED <<curcache, status, sync>>

(***************************************************************************)
(* ffdb_pagepool_delete: write the page if it is dirty and drop it from the*)
(* cache.  It refuses, without effect, when others refer to the page or    *)
(* wait for it; when the write fails the caller keeps the page.            *)
(***************************************************************************)
DeleteFails(t, b) ==
  /\ status = "open" /\ Idle(t) /\ b \in Held(t)
  /\ bkt[b].ref = 1 /\ bkt[b].pinned /\ bkt[b].wqh = << >>
  /\ bkt[b].dirty /\ WriteFaults
  /\ bkt' = BktAfter({}, {b})
  /\ npages' = Extent(npages, {b})
  /\ UNCHANGED <<lru, curcache, disk, status, sync, client>>

Delete(t, b) ==
  /\ status = "open" /\ Idle(t) /\ b \in Held(t)
  /\ bkt[b].pgno \notin DupPages
  /\ bkt[b].ref = 1
  /\ IF ~bkt[b].pinned THEN Abort
     ELSE /\ bkt[b].wqh = << >>
          /\ LET D == IF bkt[b].dirty THEN {b} ELSE {}
             IN  /\ disk' = DiskAfter(disk, D)
                 /\ npages' = Extent(npages, D)
          /\ bkt' = [bkt EXCEPT ![b] = FreeBkt]
          /\ lru' = RemoveFirst(lru, b)
          /\ curcache' = curcache - 1
          /\ holds' = [holds EXCEPT ![t][b] = 0]
          /\ mod' = mod \ {b}
          /\ UNCHANGED <<status, sync>>

(***************************************************************************)
(* ffdb_pagepool_sync, and close: sync, then free every bkt.               *)
(***************************************************************************)
Flush(o) ==
  /\ disk' = DiskAfter(disk, o.wrote)
  /\ npages' = Extent(npages, o.tried)

Sync(t) ==
  /\ status = "open" /\ Idle(t)
  /\ \E o \in Flushes(FlushSet(0, {})) :
        /\ Flush(o)
        /\ bkt' = BktAfter(o.wrote, o.tried)
  /\ UNCHANGED <<lru, curcache, status, sync, client>>

Close(t) ==
  /\ status = "open" /\ Idle(t)
  /\ Closes /\ Held(t) = {} /\ Alone(t)
  /\ \E o \in Flushes(FlushSet(0, {})) : Flush(o)
  /\ status' = "closed"
  /\ bkt' = [b \in Bkts |-> FreeBkt]
  /\ lru' = << >>
  /\ curcache' = 0
  /\ holds' = [u \in Threads |-> [b \in Bkts |-> 0]]
  /\ mod' = {}
  /\ want' = [u \in Threads |-> NoBkt]
  /\ wake' = [u \in Threads |-> "no"]
  /\ sleeper' = [u \in Threads |-> NoThread]

\* The file is as long as some n pages: it reads as zeros from there on.
Lengths(d) == {n \in 0 .. LastPage + 1 : \A p \in Pages : p >= n => d[p] = CleanPage}

\* ffdb_pagepool_create and ffdb_pagepool_open on the file as it is.
Open ==
  /\ status = "closed"
  /\ status' = "open"
  /\ npages' \in Lengths(disk)
  /\ UNCHANGED <<bkt, lru, curcache, disk, sync, client>>

(***************************************************************************)
(* The specification.  The file starts with any length; its pages hold     *)
(* anything up to there and read as zeros after it.                        *)
(***************************************************************************)
Init ==
  /\ disk \in [Pages -> {[val |-> v, swapped |-> ForeignOrder] : v \in Values \ {Clean}}
                          \cup {CleanPage}]
  /\ npages \in Lengths(disk)
  /\ bkt = [b \in Bkts |-> FreeBkt]
  /\ lru = << >>
  /\ curcache = 0
  /\ status = "open"
  /\ want = [t \in Threads |-> NoBkt]
  /\ wake = [t \in Threads |-> "no"]
  /\ sleeper = [t \in Threads |-> NoThread]
  /\ holds = [t \in Threads |-> [b \in Bkts |-> 0]]
  /\ mod = {}

Get(t, p) ==
  \/ \E f \in Flags : GetHit(t, p, f)
  \/ GetWait(t, p)
  \/ \E f \in Flags, create \in BOOLEAN : GetMiss(t, p, f, create)

Next ==
  \/ \E t \in Threads :
       \/ \E p \in Pages : Get(t, p)
       \/ \E f \in Flags : Resume(t, f)
       \/ \E p \in Pages : NewPage(t, p)
       \/ \E b \in Bkts, v \in Values : Modify(t, b, v)
       \/ \E b \in Bkts, dirty \in BOOLEAN : Put(t, b, dirty)
       \/ Signal(t)
       \/ \E b \in Bkts, q \in Pages : Change(t, b, q)
       \/ \E b \in Bkts : Delete(t, b)
       \/ \E b \in Bkts : DeleteFails(t, b)
       \/ Sync(t)
       \/ Close(t)
  \/ Open

Spec == Init /\ [][Next]_vars

(***************************************************************************)
(* Fairness: the kernel schedules every thread, a signalled thread returns *)
(* from pthread_cond_wait (nothing makes a wakeup without a signal happen),*)
(* and a client gives back every page it claims (no client loop holds a    *)
(* page for ever; claims of other pages may come in between, hence strong  *)
(* fairness).                                                              *)
(***************************************************************************)
Fairness ==
  \A t \in Threads :
    /\ WF_vars(Signal(t))
    /\ WF_vars(wake[t] = "signalled" /\ \E f \in Flags : Resume(t, f))
    /\ \A b \in Bkts : SF_vars(\E dirty \in BOOLEAN : Put(t, b, dirty))

FairSpec == Spec /\ Fairness

-----------------------------------------------------------------------------
\* Every variable has its type.
TypeOK ==
  /\ bkt \in [Bkts -> Bkt]
  /\ lru \in Seq(Bkts)
  /\ curcache \in Int /\ npages \in Nat
  /\ disk \in [Pages -> Content]
  /\ status \in {"open", "closed", "aborted"}
  /\ want \in [Threads -> Bkts \cup {NoBkt}]
  /\ wake \in [Threads -> {"no", "set", "signalled"}]
  /\ sleeper \in [Threads -> Threads \cup {NoThread}]
  /\ holds \in [Threads -> [Bkts -> Int]]
  /\ mod \in SUBSET Bkts

\* "Once this page is claimed by a thread, other threads cannot access" it
\* (ffdb_pagepool.h): two threads never hold the same page, whether through
\* one bkt or through two bkts of the same page number.
Exclusive ==
  \A t, u \in Threads : \A b \in Held(t), c \in Held(u) :
    bkt[b].pgno = bkt[c].pgno => t = u /\ b = c

\* No abort() of the pool is reached: put_page, change_page and delete find
\* the page pinned, and a thread that wakes up is the next of its queue.
NoAbort == status # "aborted"

\* No lost wakeup: when threads queue for a page nobody holds, the first of
\* them has been told to wake up and has been signalled, or will be by the
\* thread that is just leaving put_page.
NoLostWakeup ==
  \A b \in Bkts :
    bkt[b].wqh # << >> /\ ~bkt[b].pinned =>
      LET h == Head(bkt[b].wqh)
      IN  \/ wake[h] = "signalled"
          \/ wake[h] = "set" /\ \E t \in Threads : sleeper[t] = h

\* "bp->waiters will not be changed until other threads are waken up": the
\* waiter put_page signals after it unlocked still sleeps, so that its
\* condition variable is still there.  A wakeup for no reason between the
\* unlock and the signal breaks it: the flag is set, so the waiter leaves its
\* loop, destroys the condition variable and frees itself.
SignalFindsWaiter ==
  \A t \in Threads :
    sleeper[t] # NoThread => /\ want[sleeper[t]] # NoBkt
                             /\ wake[sleeper[t]] = "set"

\* While threads wait for a page, only the first of them can claim it, even
\* in the interval in which it is not pinned.
NoBarging ==
  [][\A b \in Bkts, t \in Threads :
       bkt[b].wqh # << >> /\ holds'[t][b] > holds[t][b] => t = Head(bkt[b].wqh)]_vars

\* The LRU list and the hash chains hold the same bkts, each once, and
\* curcache counts them.
LruIsPool ==
  /\ Range(lru) = Cached
  /\ IsInjective(lru)
  /\ curcache = Len(lru)

\* The pool outgrows its limit only while pages are in use or locked: it
\* never has more bkts than the limit and one, or than threads can claim
\* together with the pages that must stay in memory.
CacheBound ==
  curcache <= Max({MaxCache + 1,
                   Cardinality(Threads) * MaxHeld
                     + Cardinality({b \in Cached : bkt[b].locked})})

\* What eviction may drop without writing: the copy a lookup returns is the
\* content of the file unless it is dirty or being changed.
CleanCopyIsDisk ==
  \A b \in Cached :
    b = Find(bkt[b].pgno) /\ ~bkt[b].dirty /\ b \notin mod =>
      bkt[b].page = PgIn(disk[bkt[b].pgno])

\* get_page with PAGE_CREATE takes pages from npages on for new: none of
\* them has content in the file.
NothingBeyondEnd ==
  \A p \in Pages : disk[p] # CleanPage => p < npages

\* ffdb_pagepool_close: "all dirty pages are flushed out".  What the callers
\* saw in the pool before the close is in the file after it.
CloseFlushes ==
  [][status = "open" /\ status' = "closed" =>
       \A p \in Pages : PgIn(disk'[p]) = View(p)]_vars

\* A page is in this machine's byte order whenever a thread works on it.
MachineOrder ==
  \A t \in Threads : \A b \in Held(t) : ~bkt[b].page.swapped

\* Every get_page that waits for a page gets it.
GetReturns ==
  \A t \in Threads : want[t] # NoBkt ~> want[t] = NoBkt

(***************************************************************************)
(* The pool implements PageStore: caching, eviction, write-back and the    *)
(* hand-over to waiters are invisible.                                     *)
(***************************************************************************)
HolderOf(p) ==
  IF \E t \in Threads : \E b \in Held(t) : bkt[b].pgno = p
  THEN CHOOSE t \in Threads : \E b \in Held(t) : bkt[b].pgno = p
  ELSE NoThread

Store == INSTANCE PageStore
           WITH store  <- [p \in Pages |-> View(p).val],
                holder <- [p \in Pages |-> HolderOf(p)]

\* Every step of the pool is a step of the abstract page store or invisible
\* to it: a claim returns the last content written, for one thread at a time.
ImplementsStore == Store!Spec

=============================================================================
