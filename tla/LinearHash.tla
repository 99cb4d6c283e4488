----------------------------- MODULE LinearHash -----------------------------
(***************************************************************************)
(* How the hash table of filehash/ffdb_hash.c grows and where its pages    *)
(* go.  A bucket is a chain of hash pages: its own page and overflow pages.*)
(* A put that finds no room in its bucket chains an overflow page, and the *)
(* table then grows by one bucket: expand_table splits the bucket the masks*)
(* name, which need not be the full one, and split_bucket deals its keys   *)
(* out again.  Bucket pages, data pages and overflow pages share one file; *)
(* hdr.spares says where the pages of every level begin, and the overflow  *)
(* pages a split gives back are kept on free map pages.                    *)
(*                                                                         *)
(* One put is modelled at a time (all but ffdb_find_item runs under        *)
(* hashp->lock), in the phases                                             *)
(*                                                                         *)
(*     idle --Put--> data --Store--> expand --Expand--> split --> idle     *)
(*                     |                                                   *)
(*                     +----Store----> idle  (the key fitted)              *)
(*                                                                         *)
(* Key sizes are kept, in units of which a hash page has Cap.  The bytes of*)
(* a datum are left out: a put takes some data pages.  Closing and opening *)
(* the database is the matter of module Rearrange.                         *)
(***************************************************************************)
EXTENDS Integers, Sequences, FiniteSets, SequencesExt, FiniteSetsExt

CONSTANTS
  Keys,
  Hash,         \* hashp->hash: the hash value of every key
  Size,         \* PAIRSIZE: the room every key takes on a hash page
  NBuckets,     \* nb, the number of buckets a new table is asked for
  WordBits,     \* bits of an unsigned int, 32 in the code
  NCached,      \* NCACHED, the length of hdr.spares and hdr.free_pages
  HdrPages,     \* hdr.hdrpages: header, user information, configurations
  Cap,          \* FREESPACE of an empty hash page
  MapCap        \* page numbers that fit on a free map page

CONSTANTS
  MaxBuckets,   \* bound: the table grows up to bucket MaxBuckets
  MaxMore       \* bound: data pages one put adds

\* POW2 (1 << n)
Pow2[n \in Nat] == IF n = 0 THEN 1 ELSE 2 * Pow2[n - 1]

NoPage  == -1                 \* INVALID_PGNO
Buckets == 0 .. MaxBuckets
Levels  == 0 .. NCached - 1
Word    == 0 .. Pow2[WordBits] - 1

ASSUME HashAssumption ==
  /\ Keys # {}
  /\ Hash \in [Keys -> Nat]
  /\ Size \in [Keys -> Nat \ {0}]
  /\ NBuckets \in Nat \ {0}
  /\ WordBits \in Nat
  /\ NCached \in Nat
  /\ HdrPages \in Nat \ {0}
  /\ Cap \in Nat \ {0}
  /\ MapCap \in Nat
  /\ MaxBuckets \in Nat
  /\ MaxMore \in Nat

VARIABLES
  maxBucket, lowMask, highMask,  \* hdr.max_bucket, low_mask and high_mask
  space,     \* where pages come from: ovfl_point, spares, free_pages and
             \* curr_dpage
  pages,     \* the page numbers of a bucket's chain, its own page first
  chain,     \* what is on each of those pages: keys, and the room used
  dnext,     \* NEXT_PGNO of every data page there is
  stored,    \* the keys that were put
  phase,     \* what the put in progress does
  item,      \* its key, its bucket, whether it needed an overflow page
             \* and the data pages it added
  split      \* the split in progress: old and new bucket, the page in
             \* split_buf and the pages that follow it

masks == <<maxBucket, lowMask, highMask>>
vars  == <<masks, space, pages, chain, dnext, stored, phase, item, split>>

(***************************************************************************)
(* Arithmetic.  Log2 is the number of doublings the loop of __ffdb_log2    *)
(* makes.  Masks are 2^i - 1, for which & and | are the following.         *)
(***************************************************************************)
Log2(n) == Cardinality({j \in 0 .. WordBits - 1 : Pow2[j] < n})

And(n, mask) == n % (mask + 1)
Or(n, mask)  == (n - (n % (mask + 1))) + mask

\* BUCKET_TO_PAGE
BucketToPage(s, b) ==
  LET level == Log2(b + 1)
  IN  IF b > 0 THEN b - Pow2[level - 1] + s.spares[level] ELSE s.spares[level]

\* _ffdb_call_hash: the bucket of a key.
CallHash(k) ==
  LET b == And(Hash[k], highMask)
  IN  IF b > maxBucket THEN And(Hash[k], lowMask) ELSE b

(***************************************************************************)
(* Page allocation.  free_pages[l] is a chain of free map pages, each with *)
(* the page numbers it lists.                                              *)
(***************************************************************************)
Space == [ovfl   : Levels,
          spares : [Levels -> Nat],
          free   : [Levels -> Seq([map : Nat, list : Seq(Nat)])],
          dpage  : Nat \cup {NoPage}]

\* How _ffdb_data_page and _ffdb_ovfl_page begin: the first use of a level
\* sets its first data page behind the pages of all the level's buckets.
Reserve(s) ==
  LET d == IF s.dpage = NoPage
           THEN BucketToPage(s, highMask) + 1 ELSE s.dpage
  IN  [s EXCEPT !.dpage = d,
                !.spares[s.ovfl + 1] = IF @ = 0 THEN d + 1 ELSE @]

\* Mutant of Alloc: a page taken from the free map stays listed there.
AllocKept(s) ==
  LET free == s.free[s.ovfl]
  IN  IF free = << >>
      THEN [num   |-> s.spares[s.ovfl + 1],
            space |-> [s EXCEPT !.spares[s.ovfl + 1] = @ + 1]]
      ELSE IF free[1].list # << >>
      THEN [num   |-> Last(free[1].list), space |-> s]
      ELSE [num   |-> free[1].map,
            space |-> [s EXCEPT !.free[s.ovfl] = Tail(@)]]

\* A page for new content: _ffdb_reuse_free_ovflpage, else the next page of
\* the level.  A map page that lists no page any more is itself reused.
Alloc(s) ==
  LET free == s.free[s.ovfl]
  IN  IF free = << >>
      THEN [num   |-> s.spares[s.ovfl + 1],
            space |-> [s EXCEPT !.spares[s.ovfl + 1] = @ + 1]]
      ELSE IF free[1].list # << >>
      THEN [num   |-> Last(free[1].list),
            space |-> [s EXCEPT !.free[s.ovfl][1].list = Front(@)]]
      ELSE [num   |-> free[1].map,
            space |-> [s EXCEPT !.free[s.ovfl] = Tail(@)]]

OvflPage(s) == Alloc(Reserve(s))

DataPage(s) ==
  LET a == Alloc(Reserve(s))
  IN  [a EXCEPT !.space = [a.space EXCEPT !.dpage = a.num]]

\* The level a page was allocated on (the loop of _ffdb_free_ovflpage).
LevelOf(s, p) ==
  LET above == {l \in 0 .. s.ovfl : p < s.spares[l]}
  IN  (IF above = {} THEN s.ovfl + 1 ELSE Min(above)) - 1

\* Mutant of FreeOvflPage: a full map page is not followed by another one.
FreeOvflPageDropped(s, p) ==
  LET l    == LevelOf(s, p)
      room == {i \in DOMAIN s.free[l] : Len(s.free[l][i].list) < MapCap}
  IN  IF s.free[l] = << >>
      THEN [s EXCEPT !.free[l] = <<[map |-> p, list |-> << >>]>>]
      ELSE IF room = {} THEN s
      ELSE [s EXCEPT !.free[l][Min(room)].list = Append(@, p)]

\* _ffdb_free_ovflpage: the page is listed on the first map page of its
\* level that has room, or becomes a map page itself.
FreeOvflPage(s, p) ==
  LET l    == LevelOf(s, p)
      room == {i \in DOMAIN s.free[l] : Len(s.free[l][i].list) < MapCap}
  IN  IF room = {}
      THEN [s EXCEPT !.free[l] = Append(@, [map |-> p, list |-> << >>])]
      ELSE [s EXCEPT !.free[l][Min(room)].list = Append(@, p)]

----------------------------------------------------------------------------
(***************************************************************************)
(* Hash pages.                                                             *)
(***************************************************************************)
HashPage  == [used : Nat, keys : Seq(Keys)]
EmptyPage == [used |-> 0, keys |-> << >>]

PairFits(pg, k) == pg.used + Size[k] <= Cap

Added(pg, k) == [used |-> pg.used + Size[k], keys |-> Append(pg.keys, k)]

\* What ffdb_find_item leaves of a chain: a bucket page without keys is
\* taken for a new one and initialised, its link to a next page included.
Sought(b) == IF chain[b][1].keys = << >> THEN <<EmptyPage>> ELSE chain[b]

SoughtPages(b) ==
  IF chain[b][1].keys = << >> THEN <<pages[b][1]>> ELSE pages[b]

(***************************************************************************)
(* A new table (_ffdb_init_htab).                                          *)
(***************************************************************************)
InitBuckets == Pow2[Log2(NBuckets)]
InitLowMask == (InitBuckets \div 2 - 1) % Pow2[WordBits]

InitSpace ==
  [ovfl   |-> Log2(NBuckets),
   spares |-> [l \in Levels |->
                 IF l > Log2(NBuckets) THEN 0
                 ELSE IF l = 0 THEN HdrPages ELSE HdrPages + Pow2[l - 1]],
   free   |-> [l \in Levels |-> << >>],
   dpage  |-> NoPage]

NoItem  == [key |-> CHOOSE k \in Keys : TRUE, bucket |-> 0, ovfl |-> FALSE,
            more |-> 0]
NoSplit == [old |-> 0, new |-> 0, base |-> TRUE, page |-> NoPage,
            todo |-> << >>, pages |-> << >>, chain |-> << >>]

\* A table that starts with one bucket gets the low_mask 2^WordBits - 1.
\* This is the condition under which the masks fit together.
TwoBuckets ==
  /\ {InitBuckets, InitLowMask} \subseteq Nat
  /\ InitBuckets = 2 * (InitLowMask + 1)
  /\ InitBuckets <= MaxBuckets + 1

\* The arrays of the header and the words are long enough for the bound on
\* the buckets (32 levels and 32 bits in the code).
LevelsFit ==
  /\ NCached >= 2
  /\ NCached - 2 <= WordBits
  /\ MaxBuckets < Pow2[NCached - 2]

Init ==
  /\ maxBucket = InitBuckets - 1
  /\ highMask  = InitBuckets - 1
  /\ lowMask   = InitLowMask
  /\ space = InitSpace
  /\ pages = [b \in Buckets |-> IF b < InitBuckets
                                THEN <<BucketToPage(InitSpace, b)>>
                                ELSE << >>]
  /\ chain = [b \in Buckets |-> IF b < InitBuckets THEN <<EmptyPage>>
                                ELSE << >>]
  /\ dnext = << >>
  /\ stored = {}
  /\ phase = "idle"
  /\ item  = NoItem
  /\ split = NoSplit

(***************************************************************************)
(* Putting a new key.  ffdb_find_item ends on the last page of the chain,  *)
(* and the key goes there when it fits.                                    *)
(***************************************************************************)
\* The data page a put starts on: it is created when nothing is on it.
Opened(s) ==
  IF s.dpage \in DOMAIN dnext THEN dnext
  ELSE [p \in DOMAIN dnext \cup {s.dpage} |->
          IF p = s.dpage THEN NoPage ELSE dnext[p]]

\* _ffdb_hash_put up to _ffdb_add_data when the key fits on the page.
Put(k) ==
  LET b == CallHash(k)
      s == Reserve(space)
  IN  /\ phase = "idle"
      /\ k \notin stored
      /\ PairFits(Last(Sought(b)), k)
      /\ pages' = [pages EXCEPT ![b] = SoughtPages(b)]
      /\ chain' = [chain EXCEPT ![b] = Sought(b)]
      /\ space' = s
      /\ dnext' = Opened(s)
      /\ phase' = "data"
      /\ item'  = [key |-> k, bucket |-> b, ovfl |-> FALSE, more |-> 0]
      /\ UNCHANGED <<masks, stored, split>>

\* The same when it does not: ffdb_add_ovflpage chains an empty page.
PutOverflow(k) ==
  LET b == CallHash(k)
      o == OvflPage(space)
      s == Reserve(o.space)
  IN  /\ phase = "idle"
      /\ k \notin stored
      /\ ~PairFits(Last(Sought(b)), k)
      /\ maxBucket < MaxBuckets
      /\ pages' = [pages EXCEPT ![b] = Append(SoughtPages(b), o.num)]
      /\ chain' = [chain EXCEPT ![b] = Append(Sought(b), EmptyPage)]
      /\ space' = s
      /\ dnext' = Opened(s)
      /\ phase' = "data"
      /\ item'  = [key |-> k, bucket |-> b, ovfl |-> TRUE, more |-> 0]
      /\ UNCHANGED <<masks, stored, split>>

\* _ffdb_add_data goes on to another data page and links it.
MoreData ==
  LET d == DataPage(space)
  IN  /\ phase = "data"
      /\ item.more < MaxMore
      /\ space' = d.space
      /\ dnext' = [p \in DOMAIN dnext \cup {d.num} |->
                     IF p = d.num THEN NoPage
                     ELSE IF p = space.dpage THEN d.num ELSE dnext[p]]
      /\ item'  = [item EXCEPT !.more = @ + 1]
      /\ UNCHANGED <<masks, pages, chain, stored, phase, split>>

\* The key is written on the hash page.
Store ==
  LET c == chain[item.bucket]
  IN  /\ phase = "data"
      /\ chain'  = [chain EXCEPT ![item.bucket] =
                      [c EXCEPT ![Len(c)] = Added(c[Len(c)], item.key)]]
      /\ stored' = stored \cup {item.key}
      /\ phase'  = IF item.ovfl THEN "expand" ELSE "idle"
      /\ UNCHANGED <<masks, space, pages, dnext, item, split>>

(***************************************************************************)
(* Growing.  _ffdb_expand_table takes the old bucket from low_mask BEFORE  *)
(* the masks change; ffdb_split_bucket copies the old bucket's own page to *)
(* split_buf and empties it.                                               *)
(***************************************************************************)
\* Mutant of OldBucket: it is taken from the masks of the doubled table.
OldBucketHigh(new) == And(new, highMask)

OldBucket(new) == And(new, lowMask)

\* Mutant of Doubles: off by one.
DoublesLate(new) == new > highMask + 1

\* All buckets of the level exist: the masks get another bit.
Doubles(new) == new > highMask

\* The level changes: overflow and data pages start behind the new buckets.
Grown(s, new) ==
  IF Log2(new + 1) > s.ovfl
  THEN [s EXCEPT !.dpage = NoPage, !.ovfl = Log2(new + 1)]
  ELSE s

\* Mutant of Emptied: the old page keeps its keys.
EmptiedNot(C, old) == C

\* _ffdb_init_page on the old bucket's page: no key, no next page.
Emptied(C, old) == [C EXCEPT ![old] = <<EmptyPage>>]

Expand ==
  LET new == maxBucket + 1
      old == OldBucket(new)
      s   == Grown(space, new)
      P   == [pages EXCEPT ![new] = <<BucketToPage(s, new)>>]
      C   == [chain EXCEPT ![new] = <<EmptyPage>>]
  IN  /\ phase = "expand"
      /\ maxBucket' = new
      /\ lowMask'   = IF Doubles(new) THEN highMask ELSE lowMask
      /\ highMask'  = IF Doubles(new) THEN Or(new, highMask) ELSE highMask
      /\ space' = s
      /\ pages' = [P EXCEPT ![old] = <<P[old][1]>>]
      /\ chain' = Emptied(C, old)
      /\ phase' = "split"
      /\ split' = [old |-> old, new |-> new, base |-> TRUE,
                   page |-> P[old][1], todo |-> C[old][1].keys,
                   pages |-> Tail(P[old]), chain |-> Tail(C[old])]
      /\ UNCHANGED <<dnext, stored, item>>

\* The pages of the chain _ffdb_add_key_datap_to_bucket could put a key on.
Room(b, k) == {i \in DOMAIN chain[b] : PairFits(chain[b][i], k)}

\* The bucket a key of the old one goes to.
Target(k) == IF CallHash(k) = split.old THEN split.old ELSE split.new

\* One key is taken from split_buf: it goes on the first page with room ...
MoveKey ==
  LET k == Head(split.todo)
      b == Target(k)
      i == Min(Room(b, k))
  IN  /\ phase = "split"
      /\ split.todo # << >>
      /\ Room(b, k) # {}
      /\ chain' = [chain EXCEPT ![b] =
                     [chain[b] EXCEPT ![i] = Added(chain[b][i], k)]]
      /\ split' = [split EXCEPT !.todo = Tail(@)]
      /\ UNCHANGED <<masks, space, pages, dnext, stored, phase, item>>

\* ... or an overflow page is chained for it.
MoveOverflow ==
  LET k == Head(split.todo)
      b == Target(k)
      o == OvflPage(space)
  IN  /\ phase = "split"
      /\ split.todo # << >>
      /\ Room(b, k) = {}
      /\ pages' = [pages EXCEPT ![b] = Append(@, o.num)]
      /\ chain' = [chain EXCEPT ![b] = Append(@, Added(EmptyPage, k))]
      /\ space' = o.space
      /\ split' = [split EXCEPT !.todo = Tail(@)]
      /\ UNCHANGED <<masks, dnext, stored, phase, item>>

\* Mutant of NextPage: the loop over the old chain has no way out.
NextPageForever ==
  /\ phase = "split"
  /\ split.todo = << >>
  /\ split.chain # << >>
  /\ space' = IF split.base THEN space ELSE FreeOvflPage(space, split.page)
  /\ split' = [split EXCEPT !.base = FALSE,
                  !.page = Head(split.pages), !.pages = Tail(@),
                  !.todo = Head(split.chain).keys, !.chain = Tail(@)]
  /\ UNCHANGED <<masks, pages, chain, dnext, stored, phase, item>>

\* The page in hand is done: an overflow page is given back, and the next
\* page of the old chain is taken, or the put returns.
NextPage ==
  /\ phase = "split"
  /\ split.todo = << >>
  /\ space' = IF split.base THEN space ELSE FreeOvflPage(space, split.page)
  /\ IF split.chain = << >>
     THEN /\ phase' = "idle"
          /\ split' = NoSplit
     ELSE /\ phase' = phase
          /\ split' = [split EXCEPT !.base = FALSE,
                         !.page = Head(split.pages), !.pages = Tail(@),
                         !.todo = Head(split.chain).keys, !.chain = Tail(@)]
  /\ UNCHANGED <<masks, pages, chain, dnext, stored, item>>

Working == MoreData \/ Store \/ Expand \/ MoveKey \/ MoveOverflow \/ NextPage

Next ==
  \/ \E k \in Keys : Put(k) \/ PutOverflow(k)
  \/ Working

Spec == Init /\ [][Next]_vars

\* The thread in hash_put runs; nothing it does there waits for another put.
LiveSpec == Spec /\ WF_vars(Working)

----------------------------------------------------------------------------
\* The types of the variables.
TypeOK ==
  /\ maxBucket \in Buckets \cap (lowMask .. highMask)
  /\ {lowMask, highMask} \subseteq Word
  /\ space \in Space
  /\ pages \in [Buckets -> Seq(Nat)]
  /\ chain \in [Buckets -> Seq(HashPage)]
  /\ \A p \in DOMAIN dnext : {p, dnext[p]} \subseteq Nat \cup {NoPage}
  /\ stored \subseteq Keys
  /\ phase \in {"idle", "data", "expand", "split"}
  /\ item \in [key : Keys, bucket : Buckets, ovfl : BOOLEAN, more : Nat]
  /\ split \in [old : Buckets, new : Buckets, base : BOOLEAN,
                page : Nat \cup {NoPage}, todo : Seq(Keys),
                pages : Seq(Nat), chain : Seq(HashPage)]

\* What ffdb_find_item answers: it walks the chain of the key's bucket.
Found(k) ==
  \E i \in DOMAIN Sought(CallHash(k)) :
    \E j \in DOMAIN Sought(CallHash(k))[i].keys :
      Sought(CallHash(k))[i].keys[j] = k

\* Whatever splits and doublings happened, between two puts a lookup of any
\* key that was put finds it: expand_table splits exactly the bucket whose
\* keys _ffdb_call_hash sends elsewhere from now on.
KeysReachable == phase = "idle" => \A k \in stored : Found(k)

\* Between two puts no hash page holds a key that was not put, and no key
\* is on two pages or twice on one: a split neither copies nor forgets keys.
KeysOnce ==
  phase = "idle" =>
    LET At(b) == UNION {{<<b, i, j>> : j \in DOMAIN chain[b][i].keys}
                          : i \in DOMAIN chain[b]}
        All   == UNION {At(b) : b \in Buckets}
    IN  /\ {chain[u[1]][u[2]].keys[u[3]] : u \in All} = stored
        /\ Cardinality(All) = Cardinality(stored)

\* Every use of a page of the file: what for, and its number.  The pages of
\* the buckets up to high_mask are taken although they do not exist yet.
Uses ==
  {<<"header", 0, 0, 0, p>> : p \in 0 .. HdrPages - 1}
  \cup {<<"bucket", b, 0, 0, BucketToPage(space, b)>> : b \in 0 .. highMask}
  \cup (UNION {{<<"overflow", b, i, 0, pages[b][i]>> : i \in 2 .. Len(pages[b])}
                 : b \in Buckets})
  \cup {<<"splitting", i, 0, 0, split.pages[i]>> : i \in DOMAIN split.pages}
  \cup (IF phase = "split" /\ ~split.base
        THEN {<<"splitting", 0, 0, 0, split.page>>} ELSE {})
  \cup {<<"data", 0, 0, 0, p>> :
          p \in DOMAIN dnext \cup ({space.dpage} \ {NoPage})}
  \cup (UNION {{<<"map", l, i, 0, space.free[l][i].map>>
                  : i \in DOMAIN space.free[l]} : l \in Levels})
  \cup (UNION {UNION {{<<"free", l, i, j, space.free[l][i].list[j]>>
                         : j \in DOMAIN space.free[l][i].list}
                        : i \in DOMAIN space.free[l]} : l \in Levels})

\* No page serves two purposes: _ffdb_data_page, _ffdb_ovfl_page and the
\* free maps never hand out a page that is a bucket's (now or when the level
\* is complete), in a chain, full of data, or handed out already.
NoPageShared == \A u, v \in Uses : u[5] = v[5] => u = v

FileEnd ==
  LET end == space.spares[space.ovfl + 1]
  IN  IF end = 0 THEN BucketToPage(space, highMask) + 1 ELSE end

\* While the database stays open every page of the file is in use or listed
\* as free: a split gives back every overflow page it empties.
NoPageLost == {u[5] : u \in Uses} = 0 .. FileEnd - 1

\* A bucket whose own page has no key has no overflow page either, whenever
\* another put or get may come: ffdb_find_item would cut its chain off.
NoEmptyBase ==
  phase = "idle" =>
    \A b \in 0 .. maxBucket :
      chain[b][1].keys = << >> => Len(chain[b]) = 1

\* A put returns: its split comes to an end.
PutReturns == (phase # "idle") ~> (phase = "idle")
=============================================================================
