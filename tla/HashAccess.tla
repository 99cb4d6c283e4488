----------------------------- MODULE HashAccess ----------------------------
(***************************************************************************)
(* Puts and gets of several threads on one hash table.  A thread looks for *)
(* its key page by page: it claims a page (other threads wait for it),     *)
(* looks, and gives it back before it claims the next.  Only the page it   *)
(* ends on stays claimed, and a put takes hashp->lock only then.           *)
(*                                                                         *)
(* A page is its keys with their values and its link; what is on the pages *)
(* of the data is left out: they are claimed last and nobody waits for     *)
(* anything with one in hand.  Keys have one size.                         *)
(*                                                                         *)
(* A page that a split gave back becomes the free map of its level or is   *)
(* listed in it, and is reused from there, for keys or for data            *)
(* (LinearHash has the allocation; a map has room).  A get that read the   *)
(* link to it before still goes there, and finds what is in the file: the  *)
(* page as it was when it was clean, or the free map, or data.             *)
(***************************************************************************)
EXTENDS Integers, Sequences, FiniteSets

CONSTANTS
  Writers, Readers,
  Keys, Hash, Values,
  Cap,         \* keys on a page
  NBuckets,    \* buckets of a new table, a power of 2
  MaxBuckets,  \* bound: largest bucket number
  MaxOvfl,     \* bound: overflow pages
  MaxPuts, MaxGets,  \* bounds: calls of one thread
  NoThread, NoVal, NoPage

Threads == Writers \cup Readers
Buckets == 0 .. MaxBuckets
Overflow == MaxBuckets + 1 .. MaxBuckets + MaxOvfl
Pages == Buckets \cup Overflow  \* a bucket's page has the bucket's number

ASSUME AccessAssumption ==
  /\ Hash \in [Keys -> Nat]
  /\ {Cap, NBuckets} \subseteq Nat \ {0}
  /\ {MaxBuckets, MaxOvfl, MaxPuts, MaxGets} \subseteq Nat
  /\ NBuckets \in 2 .. MaxBuckets + 1 /\ NBuckets % 2 = 0
  /\ NoPage \notin Pages
  /\ Writers \cap Readers = {} /\ NoThread \notin Threads

VARIABLES
  maxBucket, lowMask, highMask,  \* hdr.max_bucket, low_mask and high_mask
  page,    \* the pages
  free,    \* the free pages of this level, its free map the last
  fresh,   \* the next overflow page that was never used
  holder,  \* for each page the thread that has it
  use,     \* what a page is: "hash", "given" back, or "other": map or data
  left,    \* for a page given back what a get finds there
  lvl,     \* for an overflow page its level, named by hdr.high_mask
  mapped,  \* the earlier levels that have a free map
  kept,    \* the pages with a reference that nobody gives back
  early,   \* a get was early to claim the bucket page in the making
  lock,    \* who has hashp->lock
  th,      \* the threads
  given    \* history: for each key its value

masks == <<maxBucket, lowMask, highMask>>
pool == <<page, free, fresh, holder>>
gone == <<use, left, lvl, mapped, kept>>
vars == <<masks, pool, gone, early, lock, th, given>>

----------------------------------------------------------------------------
And(n, mask) == n % (mask + 1)
Or(n, mask)  == (n - (n % (mask + 1))) + mask

\* _ffdb_call_hash
CallHash(k) ==
  LET b == And(Hash[k], highMask)
  IN  IF b > maxBucket THEN And(Hash[k], lowMask) ELSE b

EmptyPage == [keys |-> << >>, next |-> NoPage]

On(pg, k) == \E i \in DOMAIN pg.keys : pg.keys[i].key = k
ValOn(pg, k) == pg.keys[CHOOSE i \in DOMAIN pg.keys : pg.keys[i].key = k].val

\* PAIRFITS
Fits(pg) == Len(pg.keys) < Cap

Holds(t) == {p \in Pages : holder[p] = t}

\* ffdb_pagepool_get_page: a thread has to wait while another one has the page
\* or waits for it; the page goes to those who wait.
Waits(t, p) == th[t].pc = "wait" /\ th[t].want = p
Available(t, p) ==
  \/ holder[p] = t
  \/ holder[p] = NoThread /\ \A u \in Threads \ {t} : ~Waits(u, p)

\* A behaviour ends, for all threads, where an assertion fails and where it is
\* not followed further.
Over == {"abort", "lost", "twice"}
Running == \A t \in Threads : th[t].pc \notin Over
Stop(why) ==
  /\ th' = [t \in Threads |-> [th[t] EXCEPT !.pc = why]]
  /\ UNCHANGED <<masks, pool, gone, early, lock, given>>

Growing == {"grow", "masks", "newpage", "split", "move", "nextpage"}
Splitting == \E t \in Writers : th[t].pc \in Growing

NoSplit == [old |-> 0, new |-> 0, base |-> TRUE, page |-> NoPage,
            todo |-> << >>, next |-> NoPage]

Resting ==
  [pc |-> "idle", op |-> "none", key |-> NoVal, val |-> NoVal, out |-> NoVal,
   want |-> NoPage, first |-> TRUE, split |-> NoSplit, calls |-> 0,
   seen |-> {}, torn |-> FALSE]

----------------------------------------------------------------------------
\* A call and the search for its key

\* _ffdb_hash_get and _ffdb_hash_put up to ffdb_find_item.
Call(t, op, k, v) ==
  /\ th[t].pc = "idle"
  /\ th[t].calls < IF t \in Writers THEN MaxPuts ELSE MaxGets
  /\ th' = [th EXCEPT ![t] = [Resting EXCEPT
              !.pc = "seek", !.op = op, !.key = k, !.val = v,
              !.want = CallHash(k), !.calls = @ + th[t].calls + 1,
              !.seen = {given[k]}, !.torn = Splitting]]
  /\ UNCHANGED <<masks, pool, gone, early, lock, given>>

\* Mutant of Found: overflow pages are not looked at.
FoundFirst(t, pg) == TRUE

\* The search ends here.
Found(t, pg) ==
  \/ th[t].first /\ pg.keys = << >>
  \/ On(pg, th[t].key)
  \/ pg.next = NoPage

\* What the search finds on a page.
Sees(p) == IF use[p] = "given" THEN left[p] ELSE page[p]

Wait(t) ==
  /\ th[t].pc = "seek" /\ ~Available(t, th[t].want)
  /\ th' = [th EXCEPT ![t].pc = "wait"]
  /\ UNCHANGED <<masks, pool, gone, early, lock, given>>

Claims(t, p) ==
  \/ th[t].pc = "seek" /\ Available(t, p)
  \/ th[t].pc = "wait" /\ holder[p] = NoThread

\* The bucket page that an expansion is about to make.
InTheMaking(p) ==
  \E u \in Writers : th[u].pc \in {"masks", "newpage"} /\ th[u].split.new = p

\* ffdb_find_item: one page is claimed and looked at.  A bucket page without
\* keys is initialised.  The page is kept when the search ends on it.
Seek(t) ==
  LET p  == th[t].want
      pg == Sees(p)
  IN  /\ Claims(t, p)
      /\ use[p] = "hash" \/ (t \in Readers /\ use[p] = "given")
      /\ page' = IF th[t].first /\ pg.keys = << >>
                 THEN [page EXCEPT ![p] = EmptyPage] ELSE page
      /\ early' = (early \/ (th[t].first /\ InTheMaking(p)))
      /\ IF Found(t, pg)
         THEN /\ holder' = [holder EXCEPT ![p] = t]
              /\ th' = [th EXCEPT ![t].pc = IF On(pg, th[t].key) THEN "ok" ELSE "nomore"]
         ELSE /\ holder' = [holder EXCEPT ![p] = NoThread]
              /\ th' = [th EXCEPT ![t].pc = "seek", ![t].want = pg.next, ![t].first = FALSE]
      /\ UNCHANGED <<masks, free, fresh, gone, lock, given>>

\* The page has become a free map or a page of data, and its bytes are taken
\* for keys: the search finds nothing ...
Misread(t) ==
  LET p == th[t].want
  IN  /\ Claims(t, p)
      /\ t \in Readers /\ use[p] = "other"
      /\ holder' = [holder EXCEPT ![p] = t]
      /\ th' = [th EXCEPT ![t].pc = "nomore"]
      /\ UNCHANGED <<masks, page, free, fresh, gone, early, lock, given>>

\* ... or anything may follow; and a put adds its key to a page that is free.
Lost(t) ==
  /\ Claims(t, th[t].want)
  /\ use[th[t].want] \in IF t \in Writers THEN {"given", "other"} ELSE {"other"}
  /\ Stop("lost")

\* Mutant of Deliver: the page is not released when the key is not there.
DeliverKept(t) ==
  LET p == th[t].want
  IN  /\ th[t].op = "get" /\ th[t].pc \in {"ok", "nomore"}
      /\ th' = [th EXCEPT ![t].pc = "idle",
                  ![t].out = IF th[t].pc = "ok" THEN ValOn(page[p], th[t].key) ELSE NoVal]
      /\ holder' = IF th[t].pc = "ok" THEN [holder EXCEPT ![p] = NoThread] ELSE holder
      /\ UNCHANGED <<masks, page, free, fresh, gone, early, lock, given>>

\* The rest of _ffdb_hash_get: ffdb_get_item or ffdb_release_item.
Deliver(t) ==
  LET p == th[t].want
  IN  /\ th[t].op = "get" /\ th[t].pc \in {"ok", "nomore"}
      /\ th[t].pc = "ok" => use[p] = "hash"
      /\ th' = [th EXCEPT ![t].pc = "idle",
                  ![t].out = IF th[t].pc = "ok" THEN ValOn(page[p], th[t].key) ELSE NoVal]
      /\ holder' = [holder EXCEPT ![p] = NoThread]
      /\ UNCHANGED <<masks, page, free, fresh, gone, early, lock, given>>

\* The data of a key found on a page that was given back belong to the page
\* that the key has moved to: assert (header->key_page == item->pgno).
Abort(t) ==
  /\ th[t].op = "get" /\ th[t].pc = "ok" /\ use[th[t].want] # "hash"
  /\ Stop("abort")

----------------------------------------------------------------------------
\* The rest of _ffdb_hash_put, with hashp->lock

Putting(t, pc) == th[t].op \in {"put", "keep"} /\ th[t].pc = pc /\ lock = NoThread

\* Key k gets value v: calls in progress may see it.
Seen(k, v) ==
  [u \in Threads |-> IF th[u].pc # "idle" /\ th[u].key = k
                     THEN [th[u] EXCEPT !.seen = @ \cup {v}] ELSE th[u]]

\* The key exists: its data are replaced.
Replace(t) ==
  LET p == th[t].want
      k == th[t].key
      i == CHOOSE i \in DOMAIN page[p].keys : page[p].keys[i].key = k
  IN  /\ Putting(t, "ok") /\ th[t].op = "put"
      /\ page' = [page EXCEPT ![p].keys[i].val = th[t].val]
      /\ holder' = [holder EXCEPT ![p] = NoThread]
      /\ given' = [given EXCEPT ![k] = th[t].val]
      /\ th' = [Seen(k, th[t].val) EXCEPT ![t].pc = "idle"]
      /\ UNCHANGED <<masks, free, fresh, gone, early, lock>>

\* The key exists and must not be overwritten: the put returns -1 and the
\* page stays claimed.
Refuse(t) ==
  /\ Putting(t, "ok") /\ th[t].op = "keep"
  /\ th' = [th EXCEPT ![t].pc = "idle"]
  /\ UNCHANGED <<masks, pool, gone, early, lock, given>>

WithKey(pg, t) == [pg EXCEPT !.keys = Append(@, [key |-> th[t].key, val |-> th[t].val])]

\* _ffdb_data_page: the data take some of the free pages f as well.
TakeDataPages(t, f, D) ==
  \E n \in 0 .. Len(f) :
    /\ D = {f[i] : i \in 1 .. n}
    /\ \A d \in D : Available(t, d)
    /\ free' = SubSeq(f, n + 1, Len(f))

\* ffdb_add_pair
Add(t) ==
  LET p == th[t].want
  IN  /\ Putting(t, "nomore")
      /\ Fits(page[p])
      /\ \E D \in SUBSET Overflow :
           /\ TakeDataPages(t, free, D)
           /\ use' = [q \in Pages |-> IF q \in D THEN "other" ELSE use[q]]
           /\ holder' = [q \in Pages |-> IF q \in D \cup {p} THEN NoThread ELSE holder[q]]
      /\ page' = [page EXCEPT ![p] = WithKey(@, t)]
      /\ given' = [given EXCEPT ![th[t].key] = th[t].val]
      /\ th' = [Seen(th[t].key, th[t].val) EXCEPT ![t].pc = "idle"]
      /\ UNCHANGED <<masks, fresh, left, lvl, mapped, kept, early, lock>>

\* _ffdb_ovfl_page
OvflPage == IF free # << >> THEN Head(free) ELSE fresh
FreeLeft == IF free # << >> THEN Tail(free) ELSE free

TakeOvflPage ==
  /\ free # << >> \/ fresh \in Overflow
  /\ fresh' = IF free # << >> THEN fresh ELSE fresh + 1
  /\ lvl' = IF free # << >> THEN lvl ELSE [lvl EXCEPT ![fresh] = highMask]

\* ffdb_add_ovflpage: the key goes on a new page, and the table grows.
AddOverflow(t) ==
  LET p == th[t].want
      o == OvflPage
  IN  /\ Putting(t, "nomore")
      /\ ~Fits(page[p])
      /\ maxBucket < MaxBuckets
      /\ Available(t, o)
      /\ TakeOvflPage
      /\ \E D \in SUBSET Overflow :
           /\ TakeDataPages(t, FreeLeft, D)
           /\ use' = [q \in Pages |-> IF q \in D THEN "other"
                                    ELSE IF q = o THEN "hash" ELSE use[q]]
           /\ holder' = [q \in Pages |-> IF q \in D \cup {p, o} THEN NoThread ELSE holder[q]]
      /\ page' = [page EXCEPT ![p].next = o, ![o] = WithKey(EmptyPage, t)]
      /\ lock' = t
      /\ given' = [given EXCEPT ![th[t].key] = th[t].val]
      /\ th' = [u \in Threads |->
                  IF u = t THEN [th[t] EXCEPT !.pc = "grow"]
                  ELSE [Seen(th[t].key, th[t].val)[u] EXCEPT !.torn = TRUE]]
      /\ UNCHANGED <<masks, left, mapped, kept, early>>

----------------------------------------------------------------------------
\* _ffdb_expand_table and ffdb_split_bucket.  The masks change in two
\* statements, and other threads read them without the lock.

OldBucket(new) == And(new, lowMask)

GrowMax(t) ==
  /\ th[t].pc = "grow"
  /\ maxBucket' = maxBucket + 1
  /\ th' = [th EXCEPT ![t].pc = "masks",
              ![t].split = [NoSplit EXCEPT !.old = OldBucket(maxBucket + 1),
                                           !.new = maxBucket + 1]]
  /\ UNCHANGED <<lowMask, highMask, pool, gone, early, lock, given>>

\* A doubling begins a new level, without a free map.
HasMap(l) == IF l = highMask THEN free # << >> ELSE l \in mapped

GrowMasks(t) ==
  LET new == maxBucket
  IN  /\ th[t].pc = "masks"
      /\ IF new > highMask
         THEN /\ lowMask' = highMask /\ highMask' = Or(new, highMask)
              /\ mapped' = IF HasMap(highMask) THEN mapped \cup {highMask} ELSE mapped
              /\ free' = << >>
         ELSE UNCHANGED <<lowMask, highMask, mapped, free>>
      /\ th' = [th EXCEPT ![t].pc = "newpage"]
      /\ UNCHANGED <<maxBucket, page, fresh, holder, use, left, lvl, kept, early,
                     lock, given>>

\* ffdb_new_page
NewBucket(t) ==
  LET p == th[t].split.new
  IN  /\ th[t].pc = "newpage"
      /\ Available(t, p)
      /\ page' = [page EXCEPT ![p] = EmptyPage]
      /\ early' = FALSE
      /\ th' = [th EXCEPT ![t].pc = "split"]
      /\ UNCHANGED <<masks, free, fresh, holder, gone, lock, given>>

\* It does not look whether the page is in the pool: when a get was early to
\* claim it, and it was not evicted since, there are two copies.
NewBucketTwice(t) ==
  /\ th[t].pc = "newpage" /\ early
  /\ Stop("twice")

\* Mutant of Split: the link is read after the page was emptied.
SplitFirst(t) ==
  LET p == th[t].split.old
  IN  /\ th[t].pc = "split"
      /\ Available(t, p)
      /\ page' = [page EXCEPT ![p] = EmptyPage]
      /\ th' = [th EXCEPT ![t].pc = "move", ![t].split.page = p,
                          ![t].split.todo = page[p].keys, ![t].split.next = NoPage]
      /\ UNCHANGED <<masks, free, fresh, holder, gone, early, lock, given>>

\* The old bucket's page is copied to split_buf and emptied.
Split(t) ==
  LET p == th[t].split.old
  IN  /\ th[t].pc = "split"
      /\ Available(t, p)
      /\ page' = [page EXCEPT ![p] = EmptyPage]
      /\ th' = [th EXCEPT ![t].pc = "move", ![t].split.page = p,
                          ![t].split.todo = page[p].keys, ![t].split.next = page[p].next]
      /\ UNCHANGED <<masks, free, fresh, holder, gone, early, lock, given>>

\* The chain of pages that begins with page p.
ChainOf(p) ==
  LET c[i \in 0 .. MaxOvfl] ==
        IF i = 0 THEN p ELSE IF c[i - 1] = NoPage THEN NoPage ELSE page[c[i - 1]].next
      n == Cardinality({i \in 0 .. MaxOvfl : c[i] # NoPage})
  IN  [i \in 1 .. n |-> c[i - 1]]

\* The pages of a chain up to the first one with room for a key.
Walk(c) ==
  LET room == {i \in DOMAIN c : Fits(page[c[i]])}
  IN  IF room = {} THEN c ELSE SubSeq(c, 1, CHOOSE i \in room : \A j \in room : i <= j)

\* _ffdb_add_key_datap_to_bucket: one key is written to the first page with
\* room, or to an overflow page.  The old overflow page stays claimed.
Move(t) ==
  LET s == th[t].split
      e == Head(s.todo)
      b == IF CallHash(e.key) = s.old THEN s.old ELSE s.new
      c == Walk(ChainOf(b))
      p == c[Len(c)]
  IN  /\ th[t].pc = "move" /\ s.todo # << >>
      /\ \A i \in DOMAIN c : Available(t, c[i])
      /\ IF Fits(page[p])
         THEN /\ page' = [page EXCEPT ![p].keys = Append(@, e)]
              /\ UNCHANGED <<free, fresh, holder, use, lvl>>
         ELSE /\ TakeOvflPage /\ Available(t, OvflPage)
              /\ free' = FreeLeft
              /\ page' = [page EXCEPT ![p].next = OvflPage,
                                      ![OvflPage] = [EmptyPage EXCEPT !.keys = <<e>>]]
              /\ holder' = [holder EXCEPT ![OvflPage] = NoThread]
              /\ use' = [use EXCEPT ![OvflPage] = "hash"]
      /\ th' = [th EXCEPT ![t].split.todo = Tail(@)]
      /\ UNCHANGED <<masks, left, mapped, kept, early, lock, given>>

\* _ffdb_free_ovflpage: the page is listed at its level, where pages are taken
\* from as long as the level lasts, or it is the first one and lists them.
FreePage(p) ==
  /\ free' = IF lvl[p] = highMask THEN <<p>> \o free ELSE free
  /\ mapped' = IF lvl[p] = highMask THEN mapped ELSE mapped \cup {lvl[p]}

\* Mutant of Deleted: a page that is listed stays claimed.
DeletedHeld(t) ==
  LET p == th[t].split.page
  IN  IF th[t].split.base THEN UNCHANGED <<page, free, holder, gone>>
      ELSE /\ FreePage(p)
           /\ page' = [page EXCEPT ![p] = EmptyPage]
           /\ use' = [use EXCEPT ![p] = "given"]
           /\ left' = [left EXCEPT ![p] = EmptyPage]
           /\ UNCHANGED <<holder, lvl, kept>>

\* ffdb_delete_page: a page of the old chain that is done becomes a free map
\* and is put back, or it is initialised and ffdb_pagepool_delete drops the
\* copy: a dirty one is written, of a clean one the file has what was on it.
\* When others wait for the page, or it has a reference too many, the pool
\* refuses, and the page stays claimed.
Deleted(t) ==
  LET p == th[t].split.page
      refused == p \in kept \/ \E u \in Threads : Waits(u, p)
  IN  IF th[t].split.base THEN UNCHANGED <<page, free, holder, gone>>
      ELSE /\ FreePage(p) /\ UNCHANGED lvl
           /\ page' = [page EXCEPT ![p] = EmptyPage]
           /\ \/ /\ ~HasMap(lvl[p])
                 /\ use' = [use EXCEPT ![p] = "other"]
                 /\ holder' = [holder EXCEPT ![p] = NoThread]
                 /\ UNCHANGED <<left, kept>>
              \/ /\ HasMap(lvl[p]) /\ ~refused
                 /\ use' = [use EXCEPT ![p] = "given"]
                 /\ left' \in {[left EXCEPT ![p] = pg] : pg \in {EmptyPage, page[p]}}
                 /\ holder' = [holder EXCEPT ![p] = NoThread]
                 /\ UNCHANGED kept
              \/ /\ HasMap(lvl[p]) /\ refused
                 /\ use' = [use EXCEPT ![p] = "given"]
                 /\ left' = [left EXCEPT ![p] = EmptyPage]
                 /\ kept' = kept \cup {p}
                 /\ UNCHANGED holder

\* The page in hand is done; the put returns when it was the last one.
PageDone(t) ==
  LET s == th[t].split
  IN  /\ th[t].pc = "move" /\ s.todo = << >>
      /\ Deleted(t)
      /\ IF s.next = NoPage
         THEN /\ lock' = NoThread
              /\ th' = [th EXCEPT ![t].pc = "idle", ![t].split = NoSplit]
         ELSE /\ th' = [th EXCEPT ![t].pc = "nextpage"]
              /\ UNCHANGED lock
      /\ UNCHANGED <<masks, fresh, early, given>>

\* The next page of the old chain is claimed.
NextPage(t) ==
  LET p == th[t].split.next
  IN  /\ th[t].pc = "nextpage"
      /\ Available(t, p)
      /\ holder' = [holder EXCEPT ![p] = t]
      /\ th' = [th EXCEPT ![t].pc = "move",
                  ![t].split = [@ EXCEPT !.base = FALSE, !.page = p,
                                         !.todo = page[p].keys, !.next = page[p].next]]
      /\ UNCHANGED <<masks, page, free, fresh, gone, early, lock, given>>

----------------------------------------------------------------------------
Init ==
  /\ maxBucket = NBuckets - 1 /\ highMask = NBuckets - 1
  /\ lowMask = NBuckets \div 2 - 1
  /\ page = [p \in Pages |-> EmptyPage]
  /\ free = << >> /\ fresh = MaxBuckets + 1
  /\ holder = [p \in Pages |-> NoThread]
  /\ use = [p \in Pages |-> "hash"]
  /\ left = [p \in Pages |-> EmptyPage]
  /\ lvl = [p \in Pages |-> highMask]
  /\ mapped = {} /\ kept = {} /\ early = FALSE
  /\ lock = NoThread
  /\ th = [t \in Threads |-> Resting]
  /\ given = [k \in Keys |-> NoVal]

Step(t) ==
  \/ Wait(t) \/ Seek(t) \/ Misread(t) \/ Lost(t) \/ Deliver(t) \/ Abort(t)
  \/ Replace(t) \/ Add(t) \/ AddOverflow(t)
  \/ GrowMax(t) \/ GrowMasks(t) \/ NewBucket(t) \/ NewBucketTwice(t) \/ Split(t)
  \/ Move(t) \/ PageDone(t) \/ NextPage(t)

Next ==
  \/ \E t \in Readers, k \in Keys : Call(t, "get", k, NoVal)
  \/ \E t \in Writers, k \in Keys, v \in Values : Call(t, "put", k, v)
  \/ \E t \in Threads : Step(t)

Spec == Init /\ [][Next]_vars

\* A thread in a call runs on; each waits only for pages and for the lock,
\* which the pool and the mutex hand on.
LiveSpec == Spec /\ \A t \in Threads : WF_vars(Step(t))

\* The same with puts that must not overwrite.
KeepSpec ==
  Init /\ [][ \/ Next
              \/ \E t \in Writers, k \in Keys, v \in Values : Call(t, "keep", k, v)
              \/ \E t \in Writers : Refuse(t) ]_vars

----------------------------------------------------------------------------
\* Properties

\* What a search that nobody disturbs finds.
Lookup(k) ==
  LET c == ChainOf(CallHash(k))
      S == {i \in DOMAIN c : On(page[c[i]], k)}
  IN  IF page[c[1]].keys = << >> \/ S = {} THEN NoVal
      ELSE ValOn(page[c[CHOOSE i \in S : TRUE]], k)

\* Whenever no split is going on every key is found with the value put last,
\* whatever gets ran during the puts and the splits: a reader that finds a
\* bucket page empty initialises it, also in the middle of a split.
AllFound == Running /\ ~Splitting => \A k \in Keys : Lookup(k) = given[k]

\* A get returns a value that its key had during the call, also while a put
\* splits the key's bucket; that a key is not there is certain only when no
\* split overlapped the call (there is no lock for readers).
GetIsRight ==
  \A t \in Readers :
    (th[t].op = "get" /\ th[t].pc = "idle") =>
      th[t].out \in th[t].seen \cup (IF th[t].torn THEN {NoVal} ELSE {})

\* The stronger claim, that a key put before a get is always found by it.
GetIsCertain ==
  \A t \in Readers :
    (th[t].op = "get" /\ th[t].pc = "idle") => th[t].out \in th[t].seen

\* A thread outside the library has no page: what a put or a get claimed it
\* has given back, on every path, but for the pages whose deletion the pool
\* refused.
PagesGivenBack == \A t \in Threads : th[t].pc = "idle" => Holds(t) \subseteq kept

\* The same without the exception: "if there are waiters, we cannot delete
\* this page we need put", says ffdb_pagepool_delete.
AllGivenBack == \A t \in Threads : th[t].pc = "idle" => Holds(t) = {}

\* The thread waits for a page that nobody is going to give back.
Stuck(t) ==
  \E p \in kept : /\ Waits(t, p) /\ holder[p] # NoThread
                 /\ th[holder[p]].pc = "idle"

\* Every call returns, gets in the middle of splits included, unless it waits
\* for a page whose deletion was refused or the behaviour ends.
CallsReturn ==
  \A t \in Threads : (th[t].pc # "idle") ~> (th[t].pc = "idle" \/ Stuck(t) \/ ~Running)

\* No get meets the data of a key that has moved: ffdb_get_item asserts that
\* the data on its page belong to the page where the key was found.
NoAssertionFails == \A t \in Threads : th[t].pc # "abort"

\* No page has "two entries in the hash and LRU with the same page number".
OneCopy == \A t \in Threads : th[t].pc # "twice"

\* The threads that t waits for: the holder of the page it wants next, or of
\* hashp->lock.
Wanted(t) ==
  CASE th[t].pc \in {"seek", "wait"} -> {th[t].want}
    [] th[t].pc = "newpage"  -> {th[t].split.new}
    [] th[t].pc = "split"    -> {th[t].split.old}
    [] th[t].pc = "nextpage" -> {th[t].split.next}
    [] OTHER -> {}

WaitsFor(t) ==
  ({holder[p] : p \in Wanted(t)} \cup
     IF t \in Writers /\ th[t].pc \in {"ok", "nomore"} THEN {lock} ELSE {})
   \ {NoThread, t}

\* No two threads wait for each other.  "Find item is thread safe", says
\* _ffdb_hash_put.
NoStandstill == \A t, u \in Threads : ~(u \in WaitsFor(t) /\ t \in WaitsFor(u))
============================================================================
