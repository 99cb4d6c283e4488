----------------------------- MODULE DataPages -----------------------------
(***************************************************************************)
(* The data of a hash table: each datum is a header and its bytes on a     *)
(* data page, on what is left of the current page or spread over new ones. *)
(* The key's page has a data pointer; the header points back at the key.   *)
(*                                                                         *)
(* A page is its bytes (cell), the headers that start on it, HIGHEST_FREE, *)
(* FIRST_DATA_POS, NEXT_PGNO and NUM_ENT.  Byte i of a value is a cell of  *)
(* its own, so data that overlap show.  Page numbers are given out in      *)
(* order (LinearHash has the allocation; a reused page is initialised like *)
(* a new one).  A step is a whole put: the writer has hashp->lock, and a   *)
(* reader of the same datum waits for the page of its key.                 *)
(***************************************************************************)
EXTENDS Integers, Sequences, FiniteSets

CONSTANTS
  BSize,      \* bytes of a page
  PageHdr,    \* BIG_PAGE_OVERHEAD
  DataHdr,    \* BIG_DATA_OVERHEAD
  Align,      \* ADDR_ALIGNMENT
  LenBase,    \* lengths from here on are huge: 2^32 in the code
  Keys, Lens,
  MaxChanges, \* bound: replacements and moved keys
  ShrinkHuge, \* whether huge data are replaced by data that are not huge
  Junk,       \* a byte nobody has written
  NoData

ASSUME DataPagesAssumption ==
  /\ {BSize, PageHdr, DataHdr, Align, LenBase} \subseteq Nat \ {0}
  /\ PageHdr + DataHdr < BSize /\ BSize < LenBase
  /\ \A n \in {BSize, PageHdr, DataHdr} : n % Align = 0
  /\ Lens \subseteq Nat /\ MaxChanges \in Nat
  /\ ShrinkHuge \in BOOLEAN

VARIABLES
  page,   \* the data pages
  curr,   \* curr_dpage, 0 when it is INVALID_PGNO
  datap,  \* for each key its data pointer
  place,  \* for each key where it is: key page and index, numbered
  given,  \* history: for each key the value stored last
  changes \* replacements and moved keys so far

vars == <<page, curr, datap, place, given, changes>>

----------------------------------------------------------------------------
Cap == BSize - PageHdr  \* bytes of a page that has no header
Offsets == 0 .. BSize - 1

\* ALIGN_ADDR
AlignUp(x) == ((x + Align - 1) \div Align) * Align

\* IS_HUGE_DATA; the length is stored as a word and eight bits elsewhere.
IsHuge(n) == n >= LenBase
Low(n)  == n % LenBase
High(n) == n \div LenBase
RealLen(low, high) == high * LenBase + low

\* A value has a key, a generation and a length.
Value(k, g, n) == [key |-> k, gen |-> g, len |-> n]
Byte(v, i) == IF i <= v.len THEN <<v.key, v.gen, i>> ELSE Junk

\* _ffdb_init_page of a data page
NewPage ==
  [cell |-> [i \in Offsets |-> Junk], hdr |-> << >>,
   free |-> PageHdr, firstpos |-> PageHdr, next |-> 0, num |-> 0]

WithHeader(pg, off, h) ==
  [pg EXCEPT !.hdr = [o \in DOMAIN @ \cup {off} |-> IF o = off THEN h ELSE @[o]],
             !.cell = [i \in Offsets |-> IF i \in off .. off + DataHdr - 1
                                         THEN <<off, i - off>> ELSE @[i]]]

\* n bytes of v from byte first on are copied to offset at.
WithBytes(pg, at, v, first, n) ==
  [pg EXCEPT !.cell = [i \in Offsets |-> IF i \in at .. at + n - 1
                                         THEN Byte(v, first + i - at) ELSE @[i]]]

\* Page i of the chain that begins with page p.
Chain(p, i) ==
  LET c[j \in 0 .. Len(page)] ==
        IF j = 0 THEN p ELSE IF c[j - 1] = 0 THEN 0 ELSE page[c[j - 1]].next
  IN  c[i]

----------------------------------------------------------------------------
\* Adding

Fits(v, start) == ~IsHuge(v.len) /\ DataHdr + v.len <= BSize - start

\* Mutant of NextFree: a page is full only when nothing is left.
NextFreeAny(start, v) == IF start + DataHdr + v.len = BSize THEN 0 ELSE start + DataHdr + v.len

\* header.next and HIGHEST_FREE behind a datum that fits on its page.
NextFree(start, v) ==
  LET n == AlignUp(start + DataHdr + v.len)
  IN  IF n + DataHdr >= BSize THEN 0 ELSE n

\* How much of v is left for other pages.
Rest(v, start) == v.len - (BSize - start - DataHdr)

\* HIGHEST_FREE and FIRST_DATA_POS of a page that takes rlen more bytes.
SpreadFree(rlen) == IF rlen <= Cap - DataHdr THEN AlignUp(PageHdr + rlen) ELSE 0

\* Mutant of SpreadPage: the first header is looked for behind the page's own.
SpreadPageFirst(v, rlen, next) ==
  [WithBytes(NewPage, PageHdr, v, v.len - rlen + 1,
             IF rlen <= Cap - DataHdr THEN rlen ELSE Cap)
     EXCEPT !.free = SpreadFree(rlen), !.next = next]

\* A page of the chain when rlen bytes are left: a page that is filled takes
\* Cap bytes, also when fewer are left.
SpreadPage(v, rlen, next) ==
  [WithBytes(NewPage, PageHdr, v, v.len - rlen + 1,
             IF rlen <= Cap - DataHdr THEN rlen ELSE Cap)
     EXCEPT !.free = SpreadFree(rlen), !.firstpos = SpreadFree(rlen), !.next = next]

\* The pages behind the first one, numbered from num + 1 on.
SpreadPages(v, rest, num) ==
  LET n == (rest + Cap - 1) \div Cap
  IN  [i \in 1 .. n |-> SpreadPage(v, rest - (i - 1) * Cap, IF i < n THEN num + i + 1 ELSE 0)]

\* _ffdb_data_page without new_page, and ffdb_get_page
Current ==
  IF curr = 0 THEN [page |-> Append(page, NewPage), curr |-> Len(page) + 1]
  ELSE [page |-> page, curr |-> curr]

\* A full page is followed by a new one.  It is put back as clean, so its
\* link may be lost.
WithRoom(s, kept) ==
  IF s.page[s.curr].free # 0 THEN s
  ELSE [page |-> Append([s.page EXCEPT ![s.curr].next = IF kept THEN Len(s.page) + 1 ELSE @],
                        NewPage),
        curr |-> Len(s.page) + 1]

Header(k, v, next) ==
  [len |-> Low(v.len), high |-> High(v.len), next |-> next, place |-> place[k]]

\* _ffdb_add_item_on_page and _ffdb_add_data
Add(k, n, kept) ==
  /\ datap[k] = NoData
  /\ LET v     == Value(k, 0, n)
         s     == WithRoom(Current, kept)
         p     == s.curr
         pg    == s.page[p]
         start == pg.free
         more  == SpreadPages(v, Rest(v, start), Len(s.page))
         next  == NextFree(start, v)
     IN  /\ IF Fits(v, start)
            THEN /\ page' = [s.page EXCEPT ![p] =
                      [WithBytes(WithHeader(pg, start, Header(k, v, next)),
                                 start + DataHdr, v, 1, n)
                         EXCEPT !.free = next, !.num = @ + 1]]
                 /\ curr' = p
            ELSE /\ page' = [s.page EXCEPT ![p] =
                      [WithHeader(WithBytes(pg, start + DataHdr, v, 1, BSize - start - DataHdr),
                                  start, Header(k, v, 0))
                         EXCEPT !.free = 0, !.next = Len(s.page) + 1, !.num = @ + 1]]
                      \o more
                 /\ curr' = Len(s.page) + Len(more)
         /\ datap' = [datap EXCEPT ![k] = [first |-> p, off |-> start, len |-> Low(n),
                                           high |-> High(n), chksum |-> v]]
         /\ given' = [given EXCEPT ![k] = v]
  /\ UNCHANGED <<place, changes>>

----------------------------------------------------------------------------
\* Replacing

StoredLen(k) == RealLen(datap[k].len, datap[k].high)

\* Mutant of Replaceable: data may grow.
ReplaceableAny(k, n) == TRUE

\* _ffdb_replace_item_on_page: the new datum is not longer.
Replaceable(k, n) == n <= StoredLen(k)

\* The high bits in the data pointer are changed by huge data only.
NewPointer(k, v) ==
  [datap[k] EXCEPT !.len = Low(v.len), !.chksum = v,
                   !.high = IF IsHuge(v.len) THEN High(v.len) ELSE @]

\* _ffdb_replace_data: the bytes along the chain are overwritten.
Overwritten(k, v) ==
  LET p   == datap[k].first
      off == datap[k].off
      pg  == [page[p] EXCEPT !.hdr[off].len = Low(v.len), !.hdr[off].high = High(v.len)]
      fsp == BSize - off - DataHdr
      n   == (v.len - fsp + Cap - 1) \div Cap
  IN  IF v.len <= fsp
      THEN [page EXCEPT ![p] = WithBytes(pg, off + DataHdr, v, 1, v.len)]
      ELSE [i \in DOMAIN page |->
              IF i = p THEN WithBytes(pg, off + DataHdr, v, 1, fsp)
              ELSE IF \E j \in 1 .. n : Chain(p, j) = i
              THEN LET j    == CHOOSE j \in 1 .. n : Chain(p, j) = i
                       rlen == v.len - fsp - (j - 1) * Cap
                   IN  WithBytes(page[i], PageHdr, v, v.len - rlen + 1,
                                 IF rlen <= Cap - DataHdr THEN rlen ELSE Cap)
              ELSE page[i]]

Replace(k, n) ==
  /\ datap[k] # NoData /\ changes < MaxChanges
  /\ Replaceable(k, n)
  /\ IsHuge(StoredLen(k)) /\ ~IsHuge(n) => ShrinkHuge
  /\ LET v == Value(k, 1 - given[k].gen, n)
     IN  /\ datap' = [datap EXCEPT ![k] = NewPointer(k, v)]
         /\ page' = Overwritten(k, v)
         /\ given' = [given EXCEPT ![k] = v]
  /\ changes' = changes + 1
  /\ UNCHANGED <<curr, place>>

----------------------------------------------------------------------------
\* A split, a new level and a new session

\* _ffdb_update_data_info
UpdateDataInfo(k, to) ==
  [page EXCEPT ![datap[k].first].hdr[datap[k].off].place = to]

\* A split moves a key to another place.
MoveKey(k) ==
  /\ datap[k] # NoData /\ changes < MaxChanges
  /\ place' = [place EXCEPT ![k] = 1 - @]
  /\ page' = UpdateDataInfo(k, 1 - place[k])
  /\ changes' = changes + 1
  /\ UNCHANGED <<curr, datap, given>>

\* expand_table begins a new level: the next datum gets a new page.
NewLevel ==
  /\ curr # 0
  /\ curr' = 0
  /\ UNCHANGED <<page, datap, place, given, changes>>

\* ffdb_last_data_page when the file is opened: a data page without a
\* successor.
Reopen(p) ==
  /\ page[p].next = 0
  /\ curr' = p
  /\ UNCHANGED <<page, datap, place, given, changes>>

----------------------------------------------------------------------------
Init ==
  /\ page = << >> /\ curr = 0
  /\ datap = [k \in Keys |-> NoData]
  /\ place = [k \in Keys |-> 0]
  /\ given = [k \in Keys |-> NoData]
  /\ changes = 0

Next ==
  \/ \E k \in Keys, n \in Lens, kept \in BOOLEAN : Add(k, n, kept)
  \/ \E k \in Keys, n \in Lens : Replace(k, n)
  \/ \E k \in Keys : MoveKey(k)
  \/ NewLevel
  \/ \E p \in DOMAIN page : Reopen(p)

Spec == Init /\ [][Next]_vars

----------------------------------------------------------------------------
\* Reading

Stored == {k \in Keys : datap[k] # NoData}

HeaderAt(p, off) == page[p].hdr[off]

\* The header at an offset is whole.
HeaderWhole(p, off) ==
  /\ off \in DOMAIN page[p].hdr
  /\ \A i \in 0 .. DataHdr - 1 : page[p].cell[off + i] = <<off, i>>

\* The assertions of _ffdb_get_data.
GetAsserts(k) ==
  LET d == datap[k]
  IN  /\ page[d.first].num >= 1
      /\ HeaderWhole(d.first, d.off)
      /\ RealLen(HeaderAt(d.first, d.off).len, HeaderAt(d.first, d.off).high) = StoredLen(k)
      /\ HeaderAt(d.first, d.off).place = place[k]

\* The loop of _ffdb_get_data: byte j of the datum.
GetByte(k, j) ==
  LET d   == datap[k]
      fsp == BSize - d.off - DataHdr
      q   == j - fsp - 1
  IN  IF j <= fsp THEN page[d.first].cell[d.off + DataHdr + j - 1]
      ELSE LET p == Chain(d.first, q \div Cap + 1)
           IN  IF p = 0 THEN Junk ELSE page[p].cell[PageHdr + (q % Cap)]

\* The last step: the checksum of what was copied.
GetSucceeds(k) == \A j \in 1 .. StoredLen(k) : GetByte(k, j) = Byte(datap[k].chksum, j)

----------------------------------------------------------------------------
\* Properties

\* Every datum that was stored can be read: the assertions of _ffdb_get_data
\* hold, its checksum agrees and it has the length that was stored, however
\* data around it were added and replaced, its key was moved by splits, the
\* file grew by a level or was opened again, and wherever page ends fell.
DataReadBack ==
  \A k \in Stored :
    /\ GetAsserts(k)
    /\ StoredLen(k) = given[k].len
    /\ GetSucceeds(k)
    /\ datap[k].chksum = given[k]

\* A page that still takes data has room for a header behind everything that
\* is on it: the assertion of _ffdb_add_data and _ffdb_replace_data.
RoomForHeader ==
  \A p \in DOMAIN page :
    page[p].free # 0 =>
      /\ BSize - page[p].free >= DataHdr
      /\ page[p].free % Align = 0
      /\ \A i \in page[p].free .. BSize - 1 : page[p].cell[i] = Junk

\* From FIRST_DATA_POS along header->next, NUM_ENT steps meet exactly the
\* headers on a page: the byte swapping of the page filters and the moving
\* of pages on close rely on that walk.
WalkMeetsHeaders ==
  \A p \in DOMAIN page :
    LET walk[i \in 1 .. page[p].num] ==
          IF i = 1 THEN page[p].firstpos
          ELSE IF walk[i - 1] \in DOMAIN page[p].hdr THEN HeaderAt(p, walk[i - 1]).next ELSE 0
    IN  /\ {walk[i] : i \in 1 .. page[p].num} = DOMAIN page[p].hdr
        /\ page[p].num = Cardinality(DOMAIN page[p].hdr)
============================================================================
