----------------------------- MODULE MetaPages -----------------------------
(***************************************************************************)
(* The pages between the header and the first bucket: user information     *)
(* (one text over several pages, its length on the first) and              *)
(* configurations (records of fixed size, as many per page as fit).        *)
(*                                                                         *)
(* A page of user information has a word for the length and cells for the  *)
(* text; what a shorter text leaves of an older one stays in the cells.    *)
(***************************************************************************)
EXTENDS Integers, Sequences, SequencesExt

CONSTANTS
  PageRoom,        \* bsize - PAGE_OVERHEAD
  LenRoom,         \* room of the length on the first page
  ConfigsPerPage,  \* (bsize - PAGE_OVERHEAD) / sizeof(ffdb_config_info_t)
  Junk             \* what a cell holds before it is written

ASSUME MetaAssumption ==
  /\ {PageRoom, LenRoom, ConfigsPerPage} \subseteq Nat \ {0}
  /\ LenRoom < PageRoom

----------------------------------------------------------------------------
\* User information

\* _ffdb_init_htab: pages for a text of at most maxlen characters and its
\* length.
UinfoPages(maxlen) ==
  LET size == maxlen + LenRoom
  IN  IF size % PageRoom = 0 THEN size \div PageRoom ELSE size \div PageRoom + 1

Room(i) == IF i = 1 THEN PageRoom - LenRoom ELSE PageRoom

\* What the pages before page i have room for.
Before(i) == IF i = 1 THEN 0 ELSE (i - 1) * PageRoom - LenRoom

BlankUinfo(maxlen) ==
  [i \in 1 .. UinfoPages(maxlen) |-> [len |-> 0, cell |-> [j \in 1 .. Room(i) |-> Junk]]]

\* Mutant of SetUinfo: every page is taken to hold PageRoom characters.
SetUinfoFull(pages, data) ==
  [i \in DOMAIN pages |->
     [len  |-> IF i = 1 THEN Len(data) ELSE pages[i].len,
      cell |-> [j \in 1 .. Room(i) |->
                  IF (i - 1) * PageRoom + j <= Len(data)
                  THEN data[(i - 1) * PageRoom + j] ELSE pages[i].cell[j]]]]

\* ffdb_set_uinfo: each page takes its share of the text.
SetUinfo(pages, data) ==
  [i \in DOMAIN pages |->
     [len  |-> IF i = 1 THEN Len(data) ELSE pages[i].len,
      cell |-> [j \in 1 .. Room(i) |->
                  IF Before(i) + j <= Len(data)
                  THEN data[Before(i) + j] ELSE pages[i].cell[j]]]]

\* ffdb_get_uinfo with a buffer of the largest length.
GetUinfo(pages) ==
  SubSeq(FlattenSeq([i \in DOMAIN pages |-> pages[i].cell]), 1, pages[1].len)

----------------------------------------------------------------------------
\* Configurations

\* _ffdb_num_config_info_pages
ConfigPages(num) == (num + ConfigsPerPage - 1) \div ConfigsPerPage

\* NUM_ENT is 0 on the pages of a new file.
BlankConfigs(num) == [i \in 1 .. ConfigPages(num) |-> << >>]

\* ffdb_set_configs: every page but the last is filled.
SetConfigs(pages, configs) ==
  [i \in DOMAIN pages |->
     LET first == (i - 1) * ConfigsPerPage
         left  == Len(configs) - first
     IN  SubSeq(configs, first + 1,
                first + (IF left < ConfigsPerPage THEN left ELSE ConfigsPerPage))]

\* ffdb_get_configs
GetConfigs(pages) == FlattenSeq(pages)

\* The entries, as page and position, and the one a loop over the pages meets
\* first.
Entries(pages) ==
  {x \in (DOMAIN pages) \X (1 .. ConfigsPerPage) : x[2] \in DOMAIN pages[x[1]]}

Entry(pages, x) == pages[x[1]][x[2]]

FirstMatch(S) == CHOOSE x \in S : \A y \in S : x[1] < y[1] \/ (x[1] = y[1] /\ x[2] <= y[2])

\* ffdb_set_config_info: the entry with this index and this number is
\* overwritten; << >> when there is none.
SetConfigInfo(pages, c) ==
  LET S == {x \in Entries(pages) : /\ Entry(pages, x).index = c.index
                                   /\ Entry(pages, x).config = c.config}
      x == FirstMatch(S)
  IN  IF S = {} THEN << >> ELSE [pages EXCEPT ![x[1]][x[2]] = c]

\* ffdb_get_config_info: the entry with this number; << >> when there is none.
GetConfigInfo(pages, num) ==
  LET S == {x \in Entries(pages) : Entry(pages, x).config = num}
  IN  IF S = {} THEN << >> ELSE << Entry(pages, FirstMatch(S)) >>
============================================================================
