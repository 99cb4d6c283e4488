# filedb (FFDB): models, checks and proofs

FFDB keeps key/data pairs in one file per database. The C library in
`filehash/` is a disk hash table (linear hashing with overflow chains) on top
of a page cache shared by the threads of a process; the C++ templates in
`src/` turn objects into keys and data and store ensembles of configurations
in such databases. This directory models the part that carries the logic: the
page cache, the growth of the hash table with its page allocation, the layout of
data on pages, puts and gets of several threads, closing and opening a database,
which moves pages in the file, the cursors, and on top of them the store of
configurations and the merger of the C++ library.

Line numbers below are those at the modelled commit.

## 1. The system

| component | code | state | operations |
|---|---|---|---|
| page pool | `ffdb_pagepool.c/.h`, `ffdb_cq.h` | bkts with page, flags, owner, waiter queue; hash chains, LRU list, counters; the file | new, get, put, change, delete, sync, close, open |
| page filters | `ffdb_page.c` 123-400 | the page in hand | byte order in and out, blank pages |
| linear hashing | `ffdb_hash.c` 542-624, 1045-1129; `ffdb_page.c` 1886-2048 | masks and `max_bucket` of the header, chains of hash pages | put of a new key, expansion, split |
| page allocation | `ffdb_page.c` 929-1318 | `spares`, `free_pages`, `ovfl_point` of the header, `curr_dpage` | data page, overflow page, free, search on open |
| data pages | `ffdb_page.c` 415-923 | layout of data on pages | add, read, replace |
| puts, gets, locking | `ffdb_hash.c` 1139-1398 | `hashp->lock`, claimed pages | get, put with flags, sync |
| cursors | `ffdb_hash.c` 1403-1446, 1586-1641; `ffdb_page.c` 2774-3049 | page and index of a cursor | create, first, last, next, prev, close |
| rearranging | `ffdb_page.c` 2058-2518 | `num_moved_pages`, page numbers of the last level | on close, on open |
| header, user information, configurations | `ffdb_hash.c` 206-449, 1453-1580; `ffdb_page.c` 2523-2769 | pages 0 .. hdrpages-1 | read, write |
| database objects | `ConfDataStoreDB.h`, `DBFunc.h`, `DBCursor.h` | the handle, options for the next open | open, close, get and insert of strings, user information |
| store of configurations | `AllConfStoreDB.h`, `ConfigInfo.h` | number of configurations `nbin_`, size of a datum `bytesize_`, `empty_`, the configurations | insert and get of ensembles, update of one configuration, updateDone, keysAndData, configuration information |
| merger | `ConfDataDBMerger.h` | names of databases, the keys, a bag with a chunk of ensembles | merge |
| several databases | `ConfDataStoreMultipleDB.h`, `AllConfStoreMultipleDB.h` | handles | forward to one of them |
| serialisation | `Serializable.h`, `DBString.h`, `VFloatData.h` | none | write and read objects |

How they interact. A put computes a bucket from the masks, walks the bucket's
chain (claiming one page at a time from the pool), adds data pages, writes the
key, and when it had to chain an overflow page expands the table by one bucket.
A get walks the chain and then claims the data pages on top of the hash page it
found. A cursor keeps a hash page claimed *between* calls. All of them meet in
the pool: a claimed page belongs to one thread, others queue for it on a
condition variable; the pool itself is protected by `pgp->lock`. A put takes
`hashp->lock` only after its search, with a page in hand; a get never takes it.
The store of configurations keeps, for each key, one string with the data of all
configurations; the merger reads databases of single configurations and fills
such a store.

What is hard here:

* hand-over of pages: the lock is given up while a thread waits, the waiter is
  signalled after the lock was released, and pages can be renumbered, evicted
  or dropped in between;
* eviction and write-back: dirty, pinned and locked pages at a cache at its
  limit, write errors, two cached copies of one page;
* long histories: the masks, the bucket that is split and the page numbers
  must fit together over many splits, doublings and reopenings;
* moving pages: every page that names a moved page has to be found and changed,
  in an order in which each change still finds what it looks for, and what the
  file keeps of the old places must never be taken for a page again;
* searches without a lock: a put and a get find their bucket and page while
  another put changes the masks and deals a chain out to two buckets;
* boundaries: data, user information and chunks of keys that end at, before or
  behind the end of a page, and lengths whose high bits live elsewhere;
* state an object learns once (the size of a datum, whether the store was empty)
  and uses for everything that follows;
* loops that must end: a split that appends to the chain it reads, a search
  backward for the last data page, threads that wait for each other's pages.

`PROJECT.json` lists these as hazards, each at its line, with the properties
that cover it or the reason why none does yet.

## 2. Modules

| module | models | checked by | proofs |
|---|---|---|---|
| `PagePool` | the page pool and its filters | `MCPagePool` | `PagePoolProofs`, `PoolStoreProofs`, `ListLemmas` |
| `PageStore` | what the pool promises (abstract specification) | as a property of `PagePool` | `PoolStoreProofs` |
| `LinearHash` | growth of the table, page allocation | `MCLinearHash` | `LinearHashProofs`, `ListLemmas` |
| `Rearrange` | closing and opening: pages moved in the file, dirty pages; extends `LinearHash` | `MCRearrange` | |
| `Cursors` | cursors and lookups over pages claimed one at a time | `MCCursors` | `CursorProofs` |
| `HashAccess` | puts and gets of several threads on a table that grows | `MCHashAccess` | `HashAccessProofs`, `ListLemmas` |
| `DataPages` | the layout of data on data pages: add, replace, read | `MCDataPages` | `DataPagesProofs`, `ListLemmas` |
| `MetaPages` | operators: user information and configuration pages | through `ConfStore` | `ConfStoreProofs` |
| `ConfStore` | the store of configurations; extends `MetaPages` | `MCMerger` | `ConfStoreProofs` |
| `Merger` | the merger on top of a store; extends `ConfStore` | `MCMerger` | `ConfStoreProofs` |

### PagePool

A `bkt` is an `ffdb_bkt_t`; `pgno = NoPage` means that it is not in the pool.
One list, `lru`, stands for both the LRU list and the hash chains: every
operation that moves a bkt to the tail of the LRU list moves it to the head of
its chain, so the chain of a page number is that list backward. `want`, `wake`
and `sleeper` are the waiter objects: which bkt a thread waits for, whether
`wakeup` is set and signalled, and the waiter `put_page` still has to signal
after it released `pgp->lock`. `disk` is the file, `npages` the pool's idea of
its length. `holds` and `mod` describe the client: what it uses and what it
changed without having told the pool yet.

Actions: `GetHit`, `GetWait`, `Resume`, `GetMiss` (the four ways through
`ffdb_pagepool_get_page`), `NewPage`, `Modify` (the client writes in place),
`Put` and `Signal` (the two halves of `put_page`), `Change`, `Delete`,
`DeleteFails`, `Sync`, `Close`, `Open`. A call runs under `pgp->lock` from its
first access to its last, so it is one action except where the code gives the
lock up. Eviction (`_ffdb_pagepool_reuse_bkt`) is part of the actions that need
room.

Constants describe clients and environment (`Ordered`, `MaxNest`, `Moves`,
`DupPages`, `Spurious`, `WriteFaults`, ...); every run states which clients it
is about. Two assumptions on clients are not options: a client that changed a
page puts it back dirty (`ffdb_page.c` 597 and 1316 are the two places that do
not look like it; they are listed as a hazard), and `new_page` is called for a
page no other thread has in hand (a get can break the second,
`MCAccessCopies.cfg`).

`PageStore` is the promise: a function from page numbers to contents, with one
holder per page. `ImplementsStore` is `PageStore!Spec` under the mapping
"content of a page = the cached copy a lookup finds, else what the file says".

### LinearHash

`chain[b]` has the keys of every page of bucket `b`, `pages[b]` the page
numbers; `space` is what page numbers are computed from. A put is a sequence of
phases (`Put`, `PutOverflow`, `MoreData`, `Store`, `Expand`, `MoveKey`,
`MoveOverflow`, `NextPage`), as a split is a loop over the keys of a chain that
allocates and frees pages while it runs. Arithmetic on
masks is that of `WordBits`-bit words, which is what makes the table of one
bucket interesting. `Sought` models that `ffdb_find_item` re-initialises a
bucket page without keys and so cuts its chain off.

Left out: the bytes of keys and data (a key has a size, a datum takes some
pages), `nkeys`, the header writes and the sync in `_ffdb_expand_table`
(contents do not depend on them while the process lives; `Rearrange` has the
sync), and puts of keys that exist.

### Rearrange

The buckets of the last level that do not exist yet leave a hole in the file.
On close the last pages of the file are moved into it and the file is cut off;
opening it for writing moves them back. The module extends `LinearHash`: each of
its steps is a step of the table together with what it does to the file. A page
has an image: its type and number, its links, the entries of a hash page (key
and `datap->first`), the data headers of a data page (`key_page`, `key_idx`) and
the pieces of data on it. While the database is open the images of the pages in
use follow from the table (`View`); `dirty` says which of them the pool will
write, `disk` what the file has. `datum` and `dprev` add where a datum lies and
the backward links.

`Close` is `_ffdb_hdestroy`: `OnClose` computes the ranges and moves data, hash
and free map pages in three passes (`MovePages`); a moved page changes its
neighbours, the keys of its data (`KeyPagesUpdated`) or the data of its keys
(`DataPagesUpdated`), each a page put back dirty, and is renumbered, which cleans
its old place in the file (`Renumbered`). Then the
dirty pages are written and the file is cut off. `Open` reads the pages again
from the file, moves them back (`OnOpen`) and searches for the last data page,
the one number the header does not have. An assertion that fails sets `ok` to
FALSE and the process ends. `Sync` is the application's, and a doubling syncs too.

What is abstracted: a page in use stays cached while the database is open (the
pool itself is `PagePool`); a page that a split gives back leaves the cache, and
what the file knows of it depends on whether it was dirty
(`ffdb_pagepool_delete`). A level has one free map page. A link to the next data
page that is set on a page which is put back clean (`ffdb_page.c` 602) is
modelled as such, so `OpenRestores` lets that link be missing in the file,
provided that every datum can still be read: the link then leads from a page
that was full to a page on which a new datum begins, and no get follows it; a
move of the next page makes up for it. `Close` asks for a
stored key: closing an empty table writes nothing but the header.

### Cursors

The chains are fixed (a table that is only read): `table[b][i]` is `NUM_ENT` of
the `i`-th page of bucket `b`. A thread has at most one cursor, and is in at
most one call. A call is: give the cursor's page back, claim the next page to
look at (`Miss` when it has nothing, `Land` when it has), then claim and copy
the data pages one after the other (`ClaimData`, `CopyData`), or return at once
when the caller wants the key only (`KeyOnly`). A get is the same with the hash
page given back at the end (`PutItem`).

The pool is used through its promise: a claim is enabled while no other thread
has the page, and is strongly fair since waiters are served in turn.

A cursor that reported the end is not moved on with NEXT or PREV in the model
(it has no page then; the code would follow a null pointer), and a thread does
not call get while its cursor is on a page: putting the page at the end of the
get would unpin it under the cursor, as `put_page` clears the
pin whatever `ref` is.
The lock of a cursor and cursors shared by threads are left out.

### HashAccess

The table of `LinearHash` seen by several threads, with one action per page that
is claimed. `page` has the keys (with values) and the link of each page,
`holder` the thread that has it, `lock` the holder of `hashp->lock`, and `th[t]`
where thread `t` is in its call. `Call` computes the bucket (`_ffdb_call_hash`),
`Seek` is one round of `ffdb_find_item` (claim, look, give back or keep, and
initialise a bucket page without keys), `Deliver` ends a get. A put goes on with
the page it kept once `hashp->lock` is free: `Replace`, `Add`, `Refuse` (a key
that must not be overwritten) or `AddOverflow`, which is followed by the steps of
`_ffdb_expand_table` and `ffdb_split_bucket`: `GrowMax` and `GrowMasks` (two
statements that readers can come between), `NewBucket`, `Split`, `Move`,
`PageDone`, `NextPage`. A thread that finds its page claimed waits in its queue
(`Wait`), and what is waited for goes to a waiter.

A page that a split gave back (`Deleted`) is what the code leaves of it: the
first one of a level is its free map (`use` = "other"), any other is listed
there (`use` = "given"), and `left` is what a get finds that still follows an old
link to it: an empty page when the copy was written before it was dropped, and
the page as it was when the copy was clean, because `ffdb_pagepool_delete` writes
only dirty pages. Both are possible for every page: evictions and the sync of a
doubling are a choice. If somebody waits for the page, the pool refuses the deletion and
the page stays claimed by the thread that split (`kept`). Puts take listed pages
for keys or for data (`TakeDataPages`). A get on such a page

* searches what is left there, and meets `assert (header->key_page ==
  item->pgno)` if it finds its key, whose datum has moved with it (`Abort`);
* takes the bytes of a free map or of data for keys, and finds nothing
  (`Misread`) or anything (`Lost`).

`Abort` and `Lost` end the behaviour for all threads (`Stop`), and so does
`NewBucketTwice`: a get that reads the new `max_bucket` early claims the bucket
page before `ffdb_new_page` makes it, which does not look whether the page
is cached, and the pool has two copies then. The properties say what holds up to
such an end, and the three ends have configurations of their own below.

Puts that add or replace run to their end under the lock, so they are one step.
Left out: what is on data pages (claimed last, by a thread that then waits for
nothing else), keys of different sizes, and free maps of more than one page.
`seen` and `torn` are history: the values a key had during a get, and whether a
split overlapped it.

### DataPages

A page is an array of cells; byte `i` of a value is a cell of its own, so data
that overlap or are cut wrongly show. `Add` is `_ffdb_add_data` with the choice
of a page before it: what fits goes behind `HIGHEST_FREE`, what does not is
spread over new pages (`SpreadPage`), and a page that is filled takes a whole
page of bytes even if fewer are left. `Replace` overwrites along the chain and
keeps the high bits of the length in the data pointer unless the new datum is
huge, as the code does. `MoveKey` is what a split does to a datum's header;
`NewLevel` and `Reopen` set `curr_dpage`. The link of a full page may or may not
reach the file (`kept`). Reading is the operators `GetAsserts`, `GetByte` and
`GetSucceeds` (assertions, copy loop and checksum of `_ffdb_get_data`), which the
properties use. The length base is 16 instead of 2^32.

### MetaPages, ConfStore and Merger

`MetaPages` has the two kinds of pages behind the header: the text of the user
information over several pages with its length on the first (old text stays in
the cells behind a shorter one), and configurations, a fixed number per page.

`ConfStore` models one file (`db`) and one `AllConfStoreDB` object after the other
(`obj`: `bytesize_`, `empty_`, `nbin_`, configurations). `Open` writes the
object's configurations into an empty database and otherwise reads them;
`Insert`, `UpdateStored`, `UpdateFresh`, `UpdateDone`, `Get`, `KeysAndData`,
`InsertUserdata`, `MarkInserted` are the calls; `over` means the process called
`exit` or `abort`. A database is a function from keys to strings: `DataPages`,
`LinearHash` and `Rearrange` are about what is below it. A put of a longer string
over a shorter one is refused, which is `_ffdb_replace_item_on_page`. `GetConfigOf` is `getConfigInfo` with its
uninitialised record, whose index is any of `Leftovers`. `ReadsAreRight` says
nothing of a get that is refused with -1: an object that learnt the size of a
datum refuses keys with data of another size.

Clients are assumed to keep one size of data within an ensemble (insert does not
compare sizes), to work on one configuration until `updateDone`, to give update
a type whose default value has the size of the data, and (with
`FreshUpdates = FALSE`) not to update in a new database what they inserted
before `updateDone`. `Merger` adds the merge: keys of the first
configuration, chunks by `max_memory`, `InitBag`, `PopulateBag` per
configuration, `InsertBag` per key in any order (a hash map), then the marks.
The application runs before and after a merge, not during it.

## 3. Runs

Passing runs:

* `pool_store` (2 threads, 3 pages, a cache limit of 1 over 3 bkts, a page that
  stays in memory, spurious wakeups, closing and opening, a page that
  `new_page` may create twice): `TypeOK`, `LruIsPool`, `CacheBound`,
  `CleanCopyIsDisk`, `NothingBeyondEnd`, `CloseFlushes`, `ImplementsStore`.
  Three pages over a limit of one make every eviction path happen.
* `pool_latch` (3 threads, 2 pages, claims in increasing order of up to 2
  pages, renumbering, spurious wakeups): `Exclusive`, `NoAbort`, `NoLostWakeup`,
  `NoBarging`, and, under fairness, `GetReturns`. Three threads are the smallest
  number with a holder and two waiters. The file is long enough from the start
  (`LatchInit`). A signal for a waiter that is gone
  (`MCPoolSpurious.cfg`) is lost or wakes a waiter for no reason.
* `pool_faults` (any write may fail): `ImplementsStore`.
* `hash_grow` (6 keys, one per page, two of them with equal hash values, from 2
  to 9 buckets): `TypeOK`, `KeysReachable`, `KeysOnce`, `NoPageLost`, and
  `PutReturns` under weak fairness of the put. It crosses the doublings at 2, 4
  and 8 buckets.
* `access` (a writer with 5 puts and a reader with a get, 6 keys of which five
  share a chain, one per page, from 2 to 5 buckets; the first three puts are of
  keys of one bucket, gets begin after them): `AllFound` (no get spoils a
  chain, also one that is being split), `GetIsRight` (a get returns a value its
  key had during the call; "not there" is certain only without a split in
  between), `PagesGivenBack`, and `CallsReturn` under fairness, each as long as
  the behaviour goes on. The first two puts double the table, and the third
  splits the bucket of all keys put so far: a chain of three pages is dealt out,
  one page becomes the free map and others are given back and reused, some with their
  old image in the file. The last two double the table again and split that
  bucket once more, while the get follows links it read before.
* `data_pages` (3 data of lengths 0, 1, 5, 12, 13, 17 and 33 on pages of 10 bytes,
  2 of them page header and 2 data header; up to 2 replacements or moves, new
  levels, reopening at any page that may be the last): `DataReadBack`,
  `RoomForHeader`, `WalkMeetsHeaders`. The lengths leave a page just full, one
  header short of full, spread over one to five pages, and are huge (17, 33).
* `store` (3 configurations, 2 per page; 3 keys, data of one or two bytes, two
  objects, user information of 2, 5 and 6 characters over two pages with room
  for 2 and 3; databases to merge that all have the keys, fewer, or lack one;
  chunks of none, one, two and all keys): `EnsemblesIntact`, `ReadsAreRight`,
  `UserInfoReadsBack`, `ConfigsKept`, `MergedIsWhole`. All objects of the run
  have the same configurations, so `ffdb_set_all_configs` never refuses.
* `close_open` (6 keys of two sizes, one with a datum on several pages, from 8 to
  11 buckets, synced at any time, closed at any point with or without moving
  pages, opened and closed a second time): `ClosedReadable` (a reader of the
  closed file finds every pair), `OpenRestores` (a writer gets every page back),
  `SearchEnds`. The ninth bucket opens a hole of seven pages, and the keys need
  overflow, data and free map pages behind it. A close whose assertion fails
  ends the process, so these say what a close does that finishes; that an
  assertion does fail after a sync is `MCRearrangeSync.cfg`.
* `reopen` (keys of two sizes whose splits give pages back, syncs at any time,
  closed and opened twice without moving pages, with puts in between):
  `NoPageShared`, `OpenRestores`.
* `cursor_sweep` (2 threads, 3 buckets each empty or with an overflow page, one
  or two shared data pages per datum): `SweepIsComplete`,
  `PinsAreTheCursors`, and `CallsReturn` under fairness.

The runs of `LinearHash`, `Rearrange`, `HashAccess` and `Merger` do not check
deadlock: a table whose keys are all put or that reached its bound, threads that
have used up their calls, and a process that called `exit` stop. All other runs
do, so in them some thread can always go on.

Runs that show where code and documentation disagree (each has a finding):

* `hash_one`: a table of one bucket (the default) gets a `low_mask` of all
  ones; its first expansion splits the new bucket instead of bucket 0.
* `access_writers`: a put finds its bucket and page before it takes
  `hashp->lock`; if another put expands the table meanwhile, its key goes to a
  bucket where nobody looks for it. "Find item is thread safe" is true of one
  writer with readers (`access`).

### Further observations

Each of these has a configuration that reproduces it (run it with the module
named, TLC reports the violation):

| configuration | module | property | what it shows |
|---|---|---|---|
| `MCAccessStandstill.cfg` | `MCHashAccess` | `NoStandstill` | two puts wait for each other: one keeps a page and waits for `hashp->lock`, the other has the lock and splits that page's bucket |
| `MCAccessTorn.cfg` | `MCHashAccess` | `GetIsCertain` | a get that overlaps a split may miss a key that was put before |
| `MCAccessKeep.cfg` | `MCHashAccess` | `PagesGivenBack` | a put with `NOOVERWRITE` of a key that exists returns with the page claimed (`ffdb_hash.c` 1321) |
| `MCAccessStale.cfg` | `MCHashAccess` | `NoAssertionFails` | a get read a link before a split gave that page back clean, finds its key in the old image of the page, and fails `assert (header->key_page == item->pgno)` (`ffdb_page.c` 465), since the key's datum belongs to another page by now |
| `MCAccessStuck.cfg` | `MCHashAccess` | `AllGivenBack` | a get waits for an overflow page that a split is done with: `ffdb_pagepool_delete` returns EAGAIN, nobody puts the page instead, as its comment says one needs to (`ffdb_pagepool.c` 1555), and the get waits for ever |
| `MCAccessCopies.cfg` | `MCHashAccess` | `OneCopy` | a get that reads `max_bucket` right after it was increased claims the bucket page before `ffdb_new_page` makes it: the pool has "two entries in the hash and LRU with the same page number" (`ffdb_pagepool.c` 1148) |
| `MCShrinkHuge.cfg` | `MCDataPages` | `DataReadBack` | huge data replaced by data that are not huge keep the high bits of the old length in the data pointer |
| `MCStoreFresh.cfg` | `MCMerger` | `EnsemblesIntact` | in a new database, an update of an inserted key before `updateDone` overwrites the whole ensemble with default values |
| `MCMergeUnfinished.cfg` | `MCMerger` | `UnfinishedNotMarked` | a configuration given as "N/A" keeps the database name of the one before it, is merged from that database and marked as inserted |
| `MCPoolForeign.cfg` | `MCPagePool` | `MachineOrder` | in a file of the other byte order a page that was written back stays swapped in the cache |
| `MCHashLargeKey.cfg` | `MCLinearHash` | `KeysReachable` | the last three key sizes `_ffdb_hash_put` accepts never satisfy `PAIRFITS`, and the overflow page made for such a key is lost |
| `MCPoolSpurious.cfg` | `MCPagePool` | `SignalFindsWaiter` | `put_page` sets the waiter's flag and signals it after it gave up the lock; a waiter whose wait returns for no reason in between sees the flag, destroys its condition variable and frees itself (`ffdb_pagepool.c` 1102, 1117-1119), and the signal (1265) goes to freed memory, although the comment at 1260 says that the waiters do not change |
| `MCRearrangeSync.cfg` | `MCRearrange` | `AssertionsHold` | an overflow page that a sync wrote and a split gave back clean is still one in the file: a close takes it for one, moves it, and meets `assert (header->key_page == oldpage)` (`ffdb_page.c` 2098) |
| `MCConfigIndex.cfg` | `MCMerger` | `ConfigsAreFound` | `ffdb_get_config` refuses a record whose index is not below the number of pages of configurations (`ffdb_hash.c` 1528), and `getConfigInfo` passes one it never initialised (`AllConfStoreDB.h` 750), although `ffdb_db.h` 352 says that the answer goes into it |
| `MCFileGrows.cfg` | `MCRearrange` | `NeverGrows` | a database closed right after a doubling has `spares` 0 for its new level; the "last page used so far" is then 2^32 - 1, and the file is extended instead of cut off |

Others, without a configuration of their own:

* A thread that gets a page it holds and puts it once leaves it unpinned
  (`PagePool` with `MaxNest = 2` refutes `Exclusive`). `ffdb_pagepool_close`
  never reports EAGAIN, although its comment promises it for pinned pages.
* The comment "there is at least one data page at any level" is not true right
  after a doubling; the search that relies on it still ends (`SearchEnds`).
* A get with too small a buffer (`ffdb_page.c` 473) or of a datum of length 0
  (493), and `ffdb_get_uinfo` with too small a buffer, return with the
  page claimed. A page that is filled by the rest of a datum is filled with a
  whole page of the caller's buffer, past its end (721-734).
* The comment on the configuration pages says they need no lock for the
  whole update, so a reader can see some pages of the old and some of the new.
* `insert` of an ensemble does not compare the sizes of its elements; the size an
  object learnt is kept when an ensemble is replaced by one of smaller data, and
  later gets of it return -1; `setConfigInfo` leaves the type uninitialised;
  that `ffdb_set_all_configs` fails on open is not noticed.
* The merger divides by zero when the memory is too small for one key, ends the
  process when a database lacks a key of the first, and takes no key that only a
  later database has.

### Bounds

Every bound is a constant (`LastPage`, `MaxHeld`, `MaxNest`, `MaxBuckets`,
`MaxOvfl`, `MaxMore`, `Long`, `MaxPuts`, `MaxGets`, `MaxChanges`, `MaxSessions`,
`MaxInfo`, the sets). `Bkts` is large enough that the pool never runs out of
memory in a run (pages claimed together, and the limit plus one). `WordBits` is
5 or 6 instead of 32: wide enough for every page number of the runs, and the wrap
of `(1 >> 1) - 1` gives all ones in both. `LenBase` stands for 2^32: what matters
is that it is larger than a page and that lengths lie on both sides of it.
`MaxPuts = 5` lets the keys of one bucket drive two doublings, with two splits of
that bucket that give pages back and reuse them beside a get. `MaxSessions = 2` is one object that creates a
store and one that finds it.

### Fairness

* `PagePool`: a thread that has to signal does, a signalled thread returns from
  the wait (the kernel schedules both; that it wakes up without one is allowed and
  not assumed), and a client gives back each page it
  claims in the end, although it may claim another first. Nothing else is fair;
  in particular no client has to ask for a page.
* `LinearHash`: the thread inside a put runs (`WF` of its steps).
* `Cursors`: claims are strongly fair, which the pool's queues justify
  (`NoBarging`, `GetReturns`, and the theorem `QueuesAreFair`); a thread in a
  call runs; and the application closes a cursor some time, though it may use
  it before.
* `HashAccess`: a thread inside a call runs on when it can (`WF` of its steps).
  Weak fairness is enough with one writer: pages are given back after each step
  of a search, the pool hands a page to those that wait for it, and the mutex
  hands on.

## 4. Proofs

Checked by TLAPS for all values of the constants allowed by the assumptions the
modules declare (`PoolAssumption`, `HashAssumption`, `CursorAssumption`,
`AccessAssumption`, `DataPagesAssumption`, `MetaAssumption`, `StoreAssumption`,
`MergerAssumption`):

| theorem | module | hypotheses | statement |
|---|---|---|---|
| `PoolListsCorrect`, `VariablesKeepTypes` | `PagePoolProofs` | none | `Spec => [](TypeOK /\ LruIsPool)` |
| `PagesAreExclusive` | | `MaxNest = 1` | `Spec => []Exclusive` |
| `WakeupsAreNotLost` | | `MaxNest = 1` | `Spec => []NoLostWakeup` |
| `PoolDoesNotAbort` | | `MaxNest = 1` | `Spec => []NoAbort` |
| `QueuesAreFair` | | `MaxNest = 1` | `Spec => NoBarging` |
| `CacheIsBounded` | | `BoundSetting` | `Spec => []CacheBound` |
| `CleanCopiesMatchTheFile` | `PoolStoreProofs` | `Setting` | `Spec => []CleanCopyIsDisk` |
| `FileEndsAtCount` | | `Setting` | `Spec => []NothingBeyondEnd` |
| `CloseWritesAll` | | `Setting` | `Spec => CloseFlushes` |
| `PoolImplementsStore` | | `Setting` | `Spec => ImplementsStore` |
| `LookupFindsEveryKey` | `LinearHashProofs` | `TwoBuckets`, `SmallKeys` | `Spec => [](KeysReachable /\ NoEmptyBase)` |
| `SplitKeepsKeysOnce` | | `TwoBuckets`, `SmallKeys` | `Spec => []KeysOnce` |
| `PagesAreNotShared` | | and `LevelsFit` | `Spec => []NoPageShared` |
| `PagesAreNotLost` | | and `LevelsFit` | `Spec => []NoPageLost` |
| `VariablesHaveTypes` | | and `LevelsFit` | `Spec => []TypeOK` |
| `CursorsKeepOnlyTheirPage` | `CursorProofs` | none | `Spec => [](TypeOK /\ PinsAreTheCursors)` |
| `SweepsAreComplete` | | none | `Spec => []SweepIsComplete` |
| `AccessGivesPagesBack` | `HashAccessProofs` | none | `Spec => []PagesGivenBack` |
| `PutsAreFound` | | `OneWriter` | `Spec => []AllFound` |
| `GetsAreRight` | | `OneWriter` | `Spec => []GetIsRight` |
| `DataReadsBack` | `DataPagesProofs` | `~ShrinkHuge` | `Spec => []DataReadBack` |
| `PagesHaveRoom` | | `~ShrinkHuge` | `Spec => []RoomForHeader` |
| `WalksMeetHeaders` | | `~ShrinkHuge` | `Spec => []WalkMeetsHeaders` |
| `UserInfoIsKept` | `ConfStoreProofs` | none | `MSpec => []UserInfoReadsBack` |
| `ConfigurationsAreKept` | | `Finished`, `DistinctConfigs` | `MSpec => []ConfigsKept` |
| `EnsemblesStayIntact` | | `Finished`, `~FreshUpdates` | `MSpec => []EnsemblesIntact` |
| `ReadsReturnTheData` | | `Finished`, `~FreshUpdates` | `MSpec => []ReadsAreRight` |
| `MergeIsWhole` | | `Finished` | `MSpec => []MergedIsWhole` |

The hypotheses describe clients and files, and each is needed:

* `MaxNest = 1`: a thread does not get a page it holds. One that does breaks
  `Exclusive` with its first put, since put clears the pin.
* `BoundSetting` adds that writes succeed and that there are finitely many
  threads: an idle page whose write fails stays cached, however many there are.
* `Setting` is `MaxNest = 1` and: pages have this machine's byte order (the write
  filter swaps a cached page in place, `MCPoolForeign.cfg`); a page is renumbered
  by its one user only (`Moves # "any"`: under a waiter, the new number could be a
  page somebody else has changed); and a pool that is closed did not fail to
  write (close drops what it could not write). With `Closes = FALSE` failing
  writes are allowed, which is `pool_faults`.
* `TwoBuckets` is what `init_htab` computes for a table asked for two buckets or
  more (`TwoBucketsMeansTwo` evaluates that for the instance); `SmallKeys` says
  that a key fits on an empty page. Without the first `hash_one`, without the
  second `MCHashLargeKey.cfg` refutes `KeysReachable`. The page properties need
  them too: a chain with an empty bucket page is cut off by the next search, and
  its pages are lost.
* `LevelsFit`: `spares` and `free_pages` have an entry for every level the
  bound on the buckets allows, and a page number fits a word. The code has 32
  of each and checks neither; `MCLinearHash` evaluates it (`LevelsSuffice`).
* `OneWriter` (stated as `NEW w, Writers = {w}`): one thread puts, any number of
  threads get. With two writers `access_writers` refutes `AllFound`. A behaviour
  that ends by an assertion, a second copy of a page or the bytes of another
  page has no successor in the module, so the theorems do not speak of what
  comes behind (`MCAccessStale.cfg`, `MCAccessCopies.cfg`).
  `AccessAssumption` says of the table that it begins with an even number of
  buckets (`init_htab` makes a power of two) and of the model that `NoPage` is no
  page number.
* `~ShrinkHuge`: a datum of `LenBase` bytes or more is not replaced by one of
  fewer. The data pointer would keep the high bits of the old length
  (`MCShrinkHuge.cfg`), and a later replacement that believes in them runs past
  the pages of the datum.
* `Finished`: no configuration of a merge is given as "N/A"
  (`MCMergeUnfinished.cfg` shows what happens else). `~FreshUpdates`: no update in
  a new database of what was inserted before `updateDone` (`MCStoreFresh.cfg`).
  `DistinctConfigs`: configurations have different numbers, by which
  `ffdb_get_config_info` finds them.

*Lists of the pool.* `PoolInv` is `TypeOK`, `LruIsPool` and `BusyCached`: a
bkt that is pinned or waited for is in the pool. The last part is needed since
eviction and deletion take bkts off the list; the rest is about
`RemoveFirst`/`Append` on a list without duplicates, in `ListLemmas`.

*The latch.* None of the latch properties is inductive. `LatchInv` adds: a
thread holds a bkt exactly when it is pinned for it (`HoldsPin`); a thread in a
queue waits for that bkt, once (`Queued`); a thread with `wakeup` set is the
first in the queue of a page that is not pinned (`WokenFirst`); and a bkt that
is pinned or waited for is the one a lookup of its page finds (`BusyLatest`),
without which two copies of a page could have two holders.

*The bound on the cache.* `BoundInv` adds to `CacheBound` that a pinned page has
an owner (`PinnedOwned`) and that a thread uses at most `MaxHeld` pages, the one
it waits for or has to signal included (`UsesBound`). A page is made only after
the eviction loop found nothing idle to drop, so every cached page is then locked
in memory or used by some thread, and counting over the threads gives the bound.

*The pool as a store.* `StoreInv` says of the copy a lookup finds (`Latest`) that
it is what the file has unless it is dirty or being changed (`CleanLatest`), and
of the older copies `new_page` may leave behind that nobody uses them and that
there is nothing to write (`OldIdle`): eviction takes them first, so what the
file gets last is the latest copy. The file has nothing behind the pool's count
of pages (`NothingBeyondEnd`), from which on get makes up blank pages. Every
action comes down to one pattern (`StoreStep`): one bkt comes, goes, is renumbered
or changes, a set of bkts is evicted, and the file follows what was written. The
step simulation takes the actions one by one: `GetHit`, `Resume` and `GetMiss`
are a claim of the store, `NewPage` claims and blanks, `Modify` writes, `Put`
gives back, `Change` moves, `Delete` discards, and `GetWait`, `Signal`,
`DeleteFails`, `Sync`, `Close` and `Open` change nothing the store can see;
an eviction or a write-back inside any of them does not either.

*The table.* `HashInv` says what `KeysReachable` does inside a split: every key
that was put is on the chain `_ffdb_call_hash` names, or is still to be dealt
out (on the page in `split_buf` or behind it) and belongs to one of the two
buckets of the split (`Placed`). It needs the shape of the masks
(`high = 2 * low + 1`, `low <= max_bucket <= high`) and `BaseFirst`, that a chain begins with a page that is
not empty unless it is the whole chain. The arithmetic core is `GrowInLevel`
and `GrowLevel`: when `max_bucket` grows by one, the only keys whose bucket
changes are those of the old bucket, and they go to the new one. `OnceInv` adds
for `KeysOnce` that a key is in one place of all chains and lists still to be
dealt out (`OnePlace`), that these have stored keys only (`OnlyStored`), and that
nothing is left to deal out when a split has ended (`SplitDone`).

*Page allocation.* That no page is shared says nothing about the page that is
allocated next, and that none is lost nothing about the page a split gives back;
so neither is inductive. `AllocInv` is one statement about the whole file: five
sets of pages by kind of use - fixed (header and buckets, those of the level that
do not exist yet included), overflow, being dealt out, data, free - partition the
page numbers up to the last one allocated, and each kind lists a page once
(`PagesInv`, `SpaceParts`). Around it stand `LevelInv` (the level follows from
`max_bucket`, the arrays have their lengths, the last page of a level lies before
the first of the next), `ChainInv` (a chain has as many pages as lists of keys)
and `DataInv` (data pages and their links). The proof has a lemma for each way a
page changes its kind: an overflow page taken from a list or made at the end of
the file, one given back to the list or made a free map page, a data page, a page
a split passes on, a doubling that turns a range behind the file into
buckets (`POW2` pages, the function `Pow2`).

*Cursors.* `PinsAreTheCursors` speaks of threads between calls only. `CursorInv`
says what a thread has claimed at every step (`PinsOf`): the hash page its
cursor or its get stands on, and the data page it is copying from, which is a
different page. It needs three more facts: a thread that looks for a page has
given its page back and looks at a page of the chain (`SeekAt`); a get is made
by a thread without a cursor, and a cursor call reads data only after it has
found a page (`CallOf`); and a cursor with a page stands on a key (`CursorAt`).
`SweepInv` adds what a cursor returned so far: since FIRST (or LAST) it went one
way only, and returned exactly the keys on its side of its position, each once
(`CoveredOnce`); what it skips on the way to the next page has no keys.

*Puts and gets.* `PagesGivenBack` speaks of threads outside a call. `ClaimInv`
says what a thread may have claimed inside one (`MayHold`): the page its search
ended on, the overflow page of the old chain that a split is dealing out, and
pages whose deletion was refused; and that a split begins with the bucket's own page, which is not kept
(`BeginsAtBase`). It is about any number of writers, so the schedules in which
two puts spoil the table are included. `NOOVERWRITE` is not
(`MCAccessKeep.cfg`).

*What gets see of a split.* `AllFound` says nothing while a split goes on, and a
chain is spread over pages of which readers hold some, so neither it nor
`GetIsRight` is inductive. `AccessInv` describes the file at every step by two
functions the code does not have, quantified over in `TableInv`: `own` gives each
page the bucket whose chain it is on, `Rest` for the part of the old chain that
is not dealt out yet, or `None`; `idx` gives its place there, so that links lead
to the next place of the same owner and a chain ends (`Structure`). `Contents`
says that a key that was put is on one page, or in the list of the page in hand,
with the value given last; `Placed` that it is on its home chain or, during the
split of that bucket, still on the rest. Home is the bucket the masks name,
except between the two statements that change `max_bucket` and the masks
(`HomeOf`). `WriterOk` and `ReaderOk` say what a search knows at each page:
it is on the chain of its key's home and no page before it has the key
(`Passed`). A get that a split overlapped (`torn`) keeps only that the page it
stands on exists (`UseOk`: also what is left on a page given back leads to such a
page only), and that is enough: what it finds on a page of keys is the value the key
has now, and a key found on what is left of a page ends the behaviour, for all threads
(`Dead`). Both theorems need that the readers' only write, making a bucket page
they find empty a chain of one page, meets nothing but an empty chain; a split
empties the old bucket's page first, and then the pages behind it are the
writer's, through `Rest`. Every step is one of a few changes of the chains
(an entry appended, a page linked behind the last one, the rest cut off, the head
of the rest taken, an emptied page freed), each with a lemma that says what it
does to `own` and `idx`. The lemmas on `BucketOf` say which keys get another
home when the table grows; they are the ones `LinearHashProofs` uses, in
`ListLemmas`.

*Data pages.* `DataReadBack` says nothing of what lies between data, so it is
not inductive. `DataInv` says where each datum lies: its header, `Inner` bytes
behind it, and the rest on pages that follow one another (`Links`, `BytesOk`);
the cells it takes (`Taken`) are those of no other datum (`Apart`) and lie below
the place where its page takes more (`Below`). A page has its headers in the
order of their offsets, each with a link to the one behind it and the last with a
link to the free place (`Listed`), of which the cells are unused (`RoomOk`); the
current page has no successor. The proof then needs one fact of each step:
which cells it writes. `Add` writes at or above the free place of one page and on
new pages; `Replace` inside the datum's own cells, since the new datum is not
longer (`Shorter`) and the chain leads to exactly those pages (`ChainIs`);
`MoveKey` writes a header. Every other datum is untouched (`KeyStays`). `RestIs`
finds the page and the place of a byte with the division the copy loop uses, and
`WalkIs` counts the headers before each step of the walk.

*User information and configurations.* A text put over pages reads back because
byte `i` lies on a page and at a place that depend on `i` alone, also where an
older text shows behind a shorter one. The configuration pages are a
function of the set of marked configurations (`Layout`), as long as the file has
data or is open with a number of configurations (`Settled`); before that an
object with none leaves pages that mean nothing.

*Ensembles and merges.* A string is the concatenation of the elements
(`FlattenSeq` with equal sizes): its bytes are characterised by their places, and
from the places follow the element a get cuts out and the string an update makes.
`StoredInv` says that every string is that of the ensemble the clients expect;
`FreshInv` that a store which has just been created holds one configuration
and default values else, as long as nothing was inserted. The invariant of the
merge describes chunks as ranges of positions in the list of keys (`KeysAt`), the
rows of the bag as the data of the configurations read so far, and the file as
the whole ensembles of the keys of the chunks that are done (`MergeData`).

Sums, powers and concatenations are recursive functions, or folds of the community modules.
What is proved about them for all lengths uses the least natural number at
which a statement fails (`LeastExists` in `ListLemmas`, since `<` is well-founded on
them), since the induction theorems of the library take an operator as
parameter.

`NoEmptyBase` and `TypeOK` of `Cursors` are proved and in no run; they are parts
of the inductive invariants.

Only model-checked:

* liveness (`GetReturns`, `PutReturns`, `CallsReturn`), which is out of reach of
  the prover;
* `Rearrange`: `ClosedReadable`, `OpenRestores` and `SearchEnds` say that three passes over moved pages, of which each changes pages
  that another has moved, end in one function of the table. The moves are
  folds over pages and over the entries and headers of a page inside one step,
  so the proof is an induction over data for every one of them, with an
  invariant of the file between any two moves; and they hold
  of a close only if no assertion ends it (`MCRearrangeSync.cfg`).

## 5. Not modelled, and the plan

Not modelled: checksums and the byte layout of keys and pages; the serialisation
of objects; statistics and debugging output; failing reads and allocations; the
iterators and option setters of the C++ classes; the classes for several
databases, which forward each call to one of them; programs under `examples/`
and tests (`tread-th.c`, the only one with threads, opens its database for
reading only).

What is left of the plan:

1. A crash inside a close: pages are moved, the header is written, the dirty
   pages are written and the file is cut off, in four steps; `Rearrange` has
   them as one. The code does not claim to survive it.
2. What is on data pages in `HashAccess`, with the pages a get leaves claimed, and
   how a search goes on that took other bytes for keys.
3. Proofs about `Rearrange`, for one session: first what a pass over the data
   pages does to the pages it does not move.

## 6. Using it

    tlc -config MCPoolLatch.cfg MCPagePool
    tlapm PagePoolProofs.tla

Every `.cfg` belongs to the MC module named after its component:
`MCPool*.cfg` to `MCPagePool`, `MCHashGrow.cfg`, `MCHashOne.cfg` and
`MCHashLargeKey.cfg` to `MCLinearHash`, `MCCursors.cfg` to `MCCursors`;
`MCRearrange*.cfg`, `MCReopen.cfg` and `MCFileGrows.cfg` to `MCRearrange`;
`MCHashAccess.cfg` and `MCAccess*.cfg` to `MCHashAccess`; `MCDataPages.cfg` and
`MCShrinkHuge.cfg` to `MCDataPages`; `MCMerger.cfg`, `MCMergeUnfinished.cfg`,
`MCConfigIndex.cfg` and `MCStoreFresh.cfg` to `MCMerger`. Definitions marked "Mutant of" are deliberately
wrong versions of the definition that follows them; no specification uses them.
`PROJECT.json` says which property each of them must break.
