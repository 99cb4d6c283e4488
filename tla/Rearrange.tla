------------------------------ MODULE Rearrange ------------------------------
(***************************************************************************)
(* Closing a database and opening it again.  The buckets of the last level *)
(* that do not exist yet leave a hole in the file.  On close the last pages*)
(* of the file are moved into that hole and the file is cut off behind     *)
(* them (ffdb_rearrage_pages_on_close, ffdb_reduce_filesize); when the     *)
(* file is opened for writing they are moved back                          *)
(* (ffdb_rearrage_pages_on_open).  Every page that names a moved page is   *)
(* changed: the neighbours in its chain, the keys whose data are on it, the*)
(* data whose keys are on it.                                              *)
(*                                                                         *)
(* The table and its growth are those of LinearHash.  This module adds what*)
(* its pages look like, which of them are dirty, and what the file has.    *)
(* A page that is in use stays in the cache while the database is open (a  *)
(* cache that is large enough).  A page a split gave back does not: what   *)
(* move_pages sees of it is what the file has.                             *)
(***************************************************************************)
EXTENDS LinearHash

CONSTANTS
  Long,         \* bound: the keys whose datum needs another data page
  Rearranging,  \* values of info->rearrangepages the database is opened with
  Syncs,        \* the application may call sync
  MaxSessions   \* bound: how often the database is closed and opened again

ASSUME RearrangeAssumption ==
  /\ Long \subseteq Keys
  /\ Rearranging \subseteq BOOLEAN
  /\ Syncs \in BOOLEAN
  /\ MaxSessions \in Nat

VARIABLES
  datum,     \* the pages the datum of a key lies on; datap.first is the first
  dprev,     \* PREV_PGNO of every data page
  dirty,     \* pages with FFDB_PAGE_DIRTY
  disk,      \* what the file has: page images
  open,      \* the database is open
  moved,     \* hdr.num_moved_pages
  ok,        \* no assertion failed
  sessions   \* how often the database was opened again

file  == <<datum, dprev, dirty, disk, open, moved, ok, sessions>>
rvars == <<vars, file>>

(***************************************************************************)
(* Page images.  ents are the entries of a hash page: a key and            *)
(* datap->first.  hdrs are the data headers of a data page, by key:        *)
(* key_page and key_idx.  parts are the pieces of data on it.              *)
(***************************************************************************)
\* A page that was never written, or was written as HASH_DELETED_PAGE.
Blank(p) == [type |-> "deleted", curr |-> p, next |-> NoPage, prev |-> NoPage,
             ents |-> << >>, hdrs |-> << >>, parts |-> {}, list |-> << >>]

\* The page and the index of a stored key.
PlaceOf(k) ==
  LET u == CHOOSE u \in UNION {{<<b, i>> : i \in DOMAIN pages[b]}
                                 : b \in 0 .. maxBucket} :
             k \in Range(chain[u[1]][u[2]].keys)
      keys == chain[u[1]][u[2]].keys
  IN  [page |-> pages[u[1]][u[2]], idx |-> CHOOSE j \in DOMAIN keys : keys[j] = k]

HashImage(b, i) ==
  [Blank(pages[b][i]) EXCEPT
     !.type = "bucket",
     !.next = IF i = Len(pages[b]) THEN NoPage ELSE pages[b][i + 1],
     !.prev = IF i = 1 THEN NoPage ELSE pages[b][i - 1],
     !.ents = [j \in DOMAIN chain[b][i].keys |->
                 [key   |-> chain[b][i].keys[j],
                  first |-> datum[chain[b][i].keys[j]][1]]]]

DataImage(p) ==
  [Blank(p) EXCEPT
     !.type = "data", !.next = dnext[p], !.prev = dprev[p],
     !.hdrs  = [k \in {k \in stored : datum[k][1] = p} |-> PlaceOf(k)],
     !.parts = {u \in UNION {{<<k, i>> : i \in DOMAIN datum[k]} : k \in stored}
                  : datum[u[1]][u[2]] = p}]

MapsOf(s) == UNION {Range(s.free[l]) : l \in Levels}
MapPages  == {m.map : m \in MapsOf(space)}

\* Free map pages are numerous only after thousands of frees: one to a level.
MapImage(p) ==
  [Blank(p) EXCEPT
     !.type = "free", !.list = (CHOOSE m \in MapsOf(space) : m.map = p).list]

HashPages == UNION {Range(pages[b]) : b \in 0 .. maxBucket}

\* What the cache has of the pages in use.
View ==
  [p \in HashPages \cup DOMAIN dnext \cup MapPages |->
     IF p \in HashPages
     THEN LET u == CHOOSE u \in UNION {{<<b, i>> : i \in DOMAIN pages[b]}
                                         : b \in 0 .. maxBucket} :
                     pages[u[1]][u[2]] = p
          IN  HashImage(u[1], u[2])
     ELSE IF p \in MapPages THEN MapImage(p) ELSE DataImage(p)]

----------------------------------------------------------------------------
(***************************************************************************)
(* The pool: what is cached, what is dirty, and the file behind it.        *)
(***************************************************************************)
Cache(mem) == [mem |-> mem, dirty |-> dirty, disk |-> disk, ok |-> TRUE]

\* ffdb_get_page: a page that is not cached is read; past the end of the
\* file, and where nothing was written, it is a deleted page.
Get(f, p) ==
  IF p \in DOMAIN f.mem THEN f.mem[p]
  ELSE IF p \in DOMAIN f.disk THEN f.disk[p] ELSE Blank(p)

\* A page is changed and put back dirty.
Changed(f, p, image) ==
  [f EXCEPT !.mem = (p :> image) @@ @, !.dirty = @ \cup {p}]

\* ffdb_pagepool_change_page: the old place in the file is cleaned at once.
Renumbered(f, p, r, image) ==
  [f EXCEPT !.mem   = (r :> image) @@ Restrict(@, DOMAIN @ \ {p}),
            !.dirty = (@ \ {p}) \cup {r},
            !.disk  = Restrict(@, DOMAIN @ \ {p})]

\* ffdb_pagepool_sync
Written(f) ==
  [p \in DOMAIN f.disk \cup f.dirty |->
     IF p \in f.dirty THEN f.mem[p] ELSE f.disk[p]]

----------------------------------------------------------------------------
(***************************************************************************)
(* _ffdb_move_pages.  R has oldfirst, oldlast and newfirst.                *)
(***************************************************************************)
Moves(R, p)   == p \in R.oldfirst .. R.oldlast
MovedTo(R, p) == IF Moves(R, p) THEN R.newfirst + (p - R.oldfirst) ELSE p
NewRange(R)   == R.newfirst .. R.newfirst + (R.oldlast - R.oldfirst)

\* _ffdb_update_key_pages_content: the keys of the data on page p learn that
\* it becomes page r.
KeyPagesUpdated(f, R, p, r) ==
  LET hdrs == Get(f, p).hdrs
      One(g, k) ==
        LET kp    == hdrs[k].page
            i     == hdrs[k].idx
            image == Get(g, kp)
        IN  IF ~g.ok THEN g
            ELSE IF i \in DOMAIN image.ents /\ image.ents[i].first = p
            THEN Changed(g, kp, [image EXCEPT !.ents[i].first = r])
            ELSE [g EXCEPT !.ok = FALSE]
  IN  FoldLeft(One, f, SetToSeq(DOMAIN hdrs))

\* _ffdb_update_data_pages_content: the data of the keys on page p learn that
\* it becomes page r.  Data pages that were moved know it already.
DataPagesUpdated(f, R, p, r) ==
  LET ents == Get(f, p).ents
      One(g, i) ==
        LET d     == ents[i].first
            k     == ents[i].key
            image == Get(g, d)
        IN  IF ~g.ok \/ d \in NewRange(R) THEN g
            ELSE IF k \in DOMAIN image.hdrs /\ image.hdrs[k].page = p
            THEN Changed(g, d, [image EXCEPT !.hdrs[k].page = r])
            ELSE [g EXCEPT !.ok = FALSE]
  IN  FoldLeft(One, f, [i \in DOMAIN ents |-> i])

\* The link of a neighbour that stays where it is.
NextRelinked(f, R, p, r) ==
  LET n == Get(f, p).next
  IN  IF n = NoPage \/ Moves(R, n) THEN f
      ELSE Changed(f, n, [Get(f, n) EXCEPT !.prev = r])

\* Mutant of PrevRelinked: the page before keeps its link.
PrevRelinkedNot(f, R, p, r) == f

PrevRelinked(f, R, p, r) ==
  LET n == Get(f, p).prev
  IN  IF n = NoPage \/ Moves(R, n) THEN f
      ELSE Changed(f, n, [Get(f, n) EXCEPT !.next = r])

\* The moved page itself: its number, its links, and the key pages its data
\* headers name.
MovedImage(R, image, r) ==
  [image EXCEPT !.curr = r,
     !.next = MovedTo(R, @), !.prev = MovedTo(R, @),
     !.hdrs = [k \in DOMAIN @ |-> [@[k] EXCEPT !.page = MovedTo(R, @)]]]

MovePage(f, R, type, p) ==
  LET r == MovedTo(R, p)
      g == PrevRelinked(NextRelinked(f, R, p, r), R, p, r)
      h == CASE type = "data"   -> KeyPagesUpdated(g, R, p, r)
             [] type = "bucket" -> DataPagesUpdated(g, R, p, r)
             [] OTHER           -> g
  IN  IF ~f.ok \/ Get(f, p).type # type THEN f
      ELSE IF ~h.ok THEN h
      ELSE Renumbered(h, p, r, MovedImage(R, Get(h, p), r))

\* One pass over the pages for each type: data, hash and free map pages.
MovePages(f, R) ==
  LET range == [i \in 1 .. R.oldlast - R.oldfirst + 1 |-> R.oldfirst + i - 1]
      Pass(g, type) == FoldLeft(LAMBDA h, p : MovePage(h, R, type, p), g, range)
  IN  FoldLeft(Pass, f, <<"data", "bucket", "free">>)

(***************************************************************************)
(* What is moved where.  The last page is spares - 1, computed in unsigned *)
(* words.                                                                  *)
(***************************************************************************)
LastPage == (space.spares[space.ovfl + 1] - 1) % Pow2[WordBits]
Unused   == highMask - maxBucket

\* ffdb_rearrage_pages_on_close: how many pages are moved, and the ranges.
NumMoved ==
  LET pagesBehind == LastPage - BucketToPage(space, highMask)
  IN  IF pagesBehind < Unused THEN pagesBehind ELSE Unused

OnClose(f) ==
  LET funused == BucketToPage(space, maxBucket + 1)
  IN  IF Unused = 0 THEN f
      ELSE IF LastPage <= BucketToPage(space, highMask)
      THEN [f EXCEPT !.ok = FALSE]
      ELSE MovePages(f, [oldfirst |-> LastPage - NumMoved + 1,
                         oldlast  |-> LastPage, newfirst |-> funused])

\* Mutant of OnOpen: off by one.
OnOpenLow(f) ==
  LET funused == BucketToPage(space, maxBucket + 1)
  IN  IF moved = 0 \/ Unused = 0 THEN f
      ELSE MovePages(f, [oldfirst |-> funused, oldlast |-> funused + moved - 1,
                         newfirst |-> LastPage - moved])

\* ffdb_rearrage_pages_on_open
OnOpen(f) ==
  LET funused == BucketToPage(space, maxBucket + 1)
  IN  IF moved = 0 \/ Unused = 0 THEN f
      ELSE MovePages(f, [oldfirst |-> funused, oldlast |-> funused + moved - 1,
                         newfirst |-> LastPage - moved + 1])

\* The length ffdb_reduce_filesize cuts the file to, in pages.
Reduced(m) == ((LastPage - m) % Pow2[WordBits]) + 1

----------------------------------------------------------------------------
RInit ==
  /\ Init
  /\ datum = [k \in Keys |-> << >>]
  /\ dprev = << >>
  /\ dirty = {}
  /\ disk  = << >>
  /\ open  = TRUE
  /\ moved = 0
  /\ ok    = TRUE
  /\ sessions = 0

\* Free map pages the step changed.
MapsChanged == {m.map : m \in MapsOf(space') \ MapsOf(space)}

DataLinks(new, before) ==
  [p \in DOMAIN dnext' |->
     IF p = new THEN before
     ELSE IF p \in DOMAIN dprev THEN dprev[p] ELSE NoPage]

RPut(k) ==
  /\ open
  /\ Put(k)
  /\ datum' = [datum EXCEPT ![k] = <<space'.dpage>>]
  /\ dprev' = DataLinks(NoPage, NoPage)
  /\ UNCHANGED <<dirty, disk, open, moved, ok, sessions>>

RPutOverflow(k) ==
  /\ open
  /\ PutOverflow(k)
  /\ datum' = [datum EXCEPT ![k] = <<space'.dpage>>]
  /\ dprev' = DataLinks(NoPage, NoPage)
  /\ dirty' = dirty \cup MapsChanged
                \cup {Last(SoughtPages(CallHash(k))), Last(pages'[CallHash(k)])}
  /\ UNCHANGED <<disk, open, moved, ok, sessions>>

\* The datum goes on to the next page, or begins there when its first page
\* was full (start == 0): that page gets its link without becoming dirty.
RMoreData ==
  /\ item.key \in Long
  /\ MoreData
  /\ \/ datum' = [datum EXCEPT ![item.key] = Append(@, space'.dpage)]
     \/ /\ item.more = 0
        /\ \E k \in stored : Last(datum[k]) = space.dpage
        /\ datum' = [datum EXCEPT ![item.key] = <<space'.dpage>>]
  /\ dprev' = DataLinks(space'.dpage, space.dpage)
  /\ dirty' = dirty \cup MapsChanged
  /\ UNCHANGED <<disk, open, moved, ok, sessions>>

RStore ==
  /\ Store
  /\ dirty' = dirty \cup Range(datum[item.key]) \cup {Last(pages[item.bucket])}
  /\ UNCHANGED <<datum, dprev, disk, open, moved, ok, sessions>>

\* A doubling syncs the pool before the split begins.
RExpand ==
  /\ Expand
  /\ LET new == split'.new
         np  == pages'[new][1]
         f   == [Cache(View) EXCEPT
                   !.mem   = (np :> [Blank(np) EXCEPT !.type = "bucket"]) @@ @,
                   !.dirty = @ \cup {np}]
     IN  IF space'.ovfl > space.ovfl
         THEN /\ disk'  = Written(f)
              /\ dirty' = {pages'[split'.old][1]}
         ELSE /\ disk'  = disk
              /\ dirty' = f.dirty \cup {pages'[split'.old][1]}
  /\ UNCHANGED <<datum, dprev, open, moved, ok, sessions>>

\* Mutant of RMoveKey: the data page is put back without the dirty flag.
RMoveKeyClean ==
  /\ MoveKey
  /\ LET k == Head(split.todo)
         b == Target(k)
     IN  dirty' = dirty \cup {pages[b][Min(Room(b, k))]}
  /\ UNCHANGED <<datum, dprev, disk, open, moved, ok, sessions>>

\* A key that is dealt out: its datum learns its new page.
RMoveKey ==
  /\ MoveKey
  /\ LET k == Head(split.todo)
         b == Target(k)
     IN  dirty' = dirty \cup {pages[b][Min(Room(b, k))], datum[k][1]}
  /\ UNCHANGED <<datum, dprev, disk, open, moved, ok, sessions>>

RMoveOverflow ==
  /\ MoveOverflow
  /\ LET k == Head(split.todo)
         b == Target(k)
     IN  dirty' = dirty \cup MapsChanged
                    \cup {Last(pages[b]), Last(pages'[b]), datum[k][1]}
  /\ UNCHANGED <<datum, dprev, disk, open, moved, ok, sessions>>

\* ffdb_delete_page: a page that is given back and does not become a free map
\* page is made a deleted page and leaves the cache.  The file gets to know
\* of it only when the page was dirty.
RNextPage ==
  LET p    == split.page
      gone == ~split.base /\ p \notin {m.map : m \in MapsOf(space')}
  IN  /\ NextPage
      /\ disk'  = IF gone /\ p \in dirty
                  THEN Restrict(disk, DOMAIN disk \ {p}) ELSE disk
      /\ dirty' = (dirty \cup MapsChanged) \ (IF gone THEN {p} ELSE {})
      /\ UNCHANGED <<datum, dprev, open, moved, ok, sessions>>

\* ffdb_hash_sync
Sync ==
  /\ open
  /\ Syncs
  /\ phase = "idle"
  /\ dirty # {}
  /\ disk'  = Written(Cache(View))
  /\ dirty' = {}
  /\ UNCHANGED <<vars, datum, dprev, open, moved, ok, sessions>>

\* _ffdb_hdestroy.  When an assertion fails the process ends.
Close(rearrange) ==
  LET f == IF rearrange THEN OnClose(Cache(View)) ELSE Cache(View)
      m == IF rearrange /\ Unused > 0 THEN NumMoved ELSE moved
      w == Written(f)
  IN  /\ open
      /\ phase = "idle"
      /\ stored # {}
      /\ sessions < MaxSessions
      /\ open'  = FALSE
      /\ dirty' = {}
      /\ ok'    = f.ok
      /\ IF f.ok
         THEN /\ moved' = m
              /\ disk'  = IF m > 0 THEN Restrict(w, DOMAIN w \cap 0 .. Reduced(m) - 1)
                          ELSE w
         ELSE UNCHANGED <<moved, disk>>
      /\ UNCHANGED <<vars, datum, dprev, sessions>>

\* The pool once the database has been opened for writing.
Reopened == OnOpen(Cache(<< >>))

\* Mutant of LastDataPages: the search stops at the first page of the level.
LastDataPagesOfLevel(f) ==
  {p \in BucketToPage(space, highMask) + 1 .. LastPage :
     Get(f, p).type = "data" /\ Get(f, p).next = NoPage}

\* The pages ffdb_last_data_page may stop at on its way back.
LastDataPages(f) ==
  {p \in 0 .. LastPage : Get(f, p).type = "data" /\ Get(f, p).next = NoPage}

\* ffdb_hash_open with O_RDWR.  curr_dpage is not in the header: it is the
\* last data page, and without one the search runs off the file.
Open ==
  LET f == Reopened
      n == space.spares[space.ovfl + 1]
  IN  /\ ~open
      /\ ok
      /\ open' = TRUE
      /\ sessions' = sessions + 1
      /\ ok' = f.ok
      /\ moved' = 0
      /\ dirty' = f.dirty
      /\ disk' = f.disk
      /\ dnext' = [p \in DOMAIN dnext |-> Get(f, p).next]
      /\ dprev' = [p \in DOMAIN dprev |-> Get(f, p).prev]
      /\ n > 0 => LastDataPages(f) # {}
      /\ space' = [space EXCEPT !.dpage = IF n > 0 THEN Max(LastDataPages(f))
                                          ELSE NoPage]
      /\ UNCHANGED <<masks, pages, chain, stored, phase, item, split,
                     datum>>

RNext ==
  \/ \E k \in Keys : RPut(k) \/ RPutOverflow(k)
  \/ RMoreData \/ RStore \/ RExpand \/ RMoveKey \/ RMoveOverflow \/ RNextPage
  \/ Sync
  \/ \E r \in Rearranging : Close(r)
  \/ Open

RSpec == RInit /\ [][RNext]_rvars

----------------------------------------------------------------------------
\* The pages reached from page p.
Steps(f, p) ==
  LET at[n \in 0 .. Cardinality(Keys)] ==
        IF n = 0 THEN p
        ELSE IF at[n - 1] = NoPage THEN NoPage ELSE Get(f, at[n - 1]).next
  IN  at

\* What a get finds: on the chain of the key's bucket the entry of the key,
\* and from datap->first on every piece of its datum.
Readable(f, k) ==
  LET walk == Steps(f, BucketToPage(space, CallHash(k)))
  IN  \E n \in DOMAIN walk :
        /\ walk[n] # NoPage
        /\ \E i \in DOMAIN Get(f, walk[n]).ents :
             LET e  == Get(f, walk[n]).ents[i]
                 on == Steps(f, e.first)
             IN  /\ e.key = k
                 /\ \A j \in DOMAIN datum[k] :
                      <<k, j>> \in Get(f, on[j - 1]).parts

\* In a closed database that is opened for reading only, in which moved pages
\* stay where they are, a get finds every key and its whole datum.
ClosedReadable ==
  ~open /\ ok => \A k \in stored : Readable(Cache(<< >>), k)

\* Opening the file for writing brings every page in use back to its number,
\* with its entries, headers and links as they were when the database was
\* closed.  (The link from a full data page to the next one may be missing:
\* the page was not dirty; when the next one is moved, the link is made up
\* for.  A bucket page without keys may not exist.)
OpenRestores ==
  ~open /\ ok =>
    \A p \in DOMAIN View :
      LET image == Get(Reopened, p)
      IN  \/ image = View[p]
          \/ /\ p \in DOMAIN dnext
             /\ image.next \in {NoPage} \cup {q \in DOMAIN dprev : dprev[q] = p}
             /\ image = [View[p] EXCEPT !.next = image.next]
             /\ \A k \in stored : Readable(Reopened, k)
          \/ /\ image = Blank(p)
             /\ View[p] = [Blank(p) EXCEPT !.type = "bucket"]

\* Moving pages meets what it expects: the entry of a key names the data
\* page that is moved, the header of a datum the hash page that is moved,
\* and the last page lies behind the buckets (the assertions of
\* ffdb_page.c).
AssertionsHold == ok

\* The search for the last data page ends, although the level may have
\* overflow pages only (the comment "there is at least one data page at any
\* level" is not true right after a doubling).
SearchEnds ==
  ~open /\ ok /\ space.spares[space.ovfl + 1] > 0 =>
    LastDataPages(Reopened) # {}

\* Rearranging "to save disk space" does not make the file longer.
NeverGrows == ~open /\ moved > 0 => Reduced(moved) <= FileEnd
=============================================================================
