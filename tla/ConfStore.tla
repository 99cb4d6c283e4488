----------------------------- MODULE ConfStore -----------------------------
(***************************************************************************)
(* A store of configurations: AllConfStoreDB on top of ConfDataStoreDB and *)
(* the functions of DBFunc.  For each key the database has one string, the *)
(* data of all configurations one behind the other; where one ends is not  *)
(* stored, it follows from the number of configurations.                   *)
(*                                                                         *)
(* A datum is the string of its bytes, and byte i of value v is <<v, i>>,  *)
(* so that cutting a string at the wrong place shows.  The hash table is a *)
(* function from keys to strings: what is in the database when it is       *)
(* closed is there when it is opened (Rearrange).                          *)
(*                                                                         *)
(* The application keeps one size of data within an ensemble (the code     *)
(* calls it FILEDB_FIX_DATA_SIZE), gives update a type whose default value *)
(* has that size, and works on one configuration until it calls            *)
(* updateDone.                                                             *)
(***************************************************************************)
EXTENDS MetaPages, FiniteSets

CONSTANTS
  Keys, Values,
  AppKeys,       \* the keys the application itself stores and reads
  AppEnsembles,  \* the ensembles it inserts
  Size,          \* bytes of a value
  Blank,         \* the value a default constructed D has
  ConfigNums,    \* configuration numbers the application gives the constructor
  Infos,         \* user information it stores
  MaxInfo,       \* setMaxUserInfoLen
  MaxSessions,   \* bound: store objects
  FreshUpdates,  \* whether it updates a key it inserted into a new database
                 \* without a call of updateDone in between
  NoString       \* a key is not in the database

ASSUME StoreAssumption ==
  /\ Blank \in Values /\ AppKeys \subseteq Keys
  /\ Size \in [Values -> Nat \ {0}]
  /\ ConfigNums \in Seq(Int) /\ Len(ConfigNums) > 0
  /\ NoString \notin Seq(Values) /\ NoString \notin Seq(Values \X Nat)
  /\ \A text \in Infos : text \in Seq(Range(text))
  /\ \A vec \in AppEnsembles : Len(vec) = Len(ConfigNums) /\ vec \in Seq(Values)
  /\ \A vec \in AppEnsembles, i \in DOMAIN ConfigNums : Size[vec[i]] = Size[vec[1]]
  /\ MaxInfo \in Nat \ {0} /\ MaxSessions \in Nat
  /\ FreshUpdates \in BOOLEAN

VARIABLES
  db,        \* the database file
  obj,       \* the AllConfStoreDB object
  given,     \* history: the ensembles the application has stored
  info,      \* history: the user information it has stored
  marked,    \* history: the configurations it has marked as inserted
  at,        \* the configuration it works on
  how,       \* "insert" after it inserted into a database opened as empty
  sessions,  \* store objects so far
  over       \* the process has called exit or abort

client == <<given, info, marked, at, how>>
vars == <<db, obj, client, sessions, over>>

N == Len(ConfigNums)
Indices == 1 .. N

----------------------------------------------------------------------------
\* Strings

\* writeObject
Bytes(v) == [i \in 1 .. Size[v] |-> <<v, i>>]

\* The loop that appends every element.
Concat(vec) == FlattenSeq([i \in DOMAIN vec |-> Bytes(vec[i])])

\* The loop that cuts a string every size bytes.
Pieces(string, size) ==
  [i \in 1 .. Len(string) \div size |->
     SubSeq(string, (i - 1) * size + 1, i * size)]

----------------------------------------------------------------------------
\* The database

NewConfig(i) == [config |-> ConfigNums[i], index |-> i - 1, inserted |-> 0]

\* A new file for an object that was told a maximum of max configurations.
NewDb(max) ==
  LET num == IF max > 0 THEN max ELSE 1
  IN  [exists |-> TRUE, numcfgs |-> num, cfig |-> BlankConfigs(num),
       uinfo |-> BlankUinfo(MaxInfo + 1), data |-> [k \in Keys |-> NoString]]

IsEmpty(d) == \A k \in Keys : d.data[k] = NoString

\* A put replaces a string by one that is not longer.
PutAccepts(k, string) == db.data[k] = NoString \/ Len(string) <= Len(db.data[k])

----------------------------------------------------------------------------
\* Objects, open and close

\* The default constructor (n = 0), or the one with configuration numbers.
NewObj(n) ==
  [dbh |-> FALSE, nbin |-> n, bytesize |-> 0, empty |-> TRUE, max |-> n,
   cfgs |-> [i \in 1 .. n |-> NewConfig(i)]]

Construct(n) ==
  /\ ~over /\ ~obj.dbh /\ sessions < MaxSessions
  /\ obj' = NewObj(n)
  /\ sessions' = sessions + 1
  /\ UNCHANGED <<db, client, over>>

\* AllConfStoreDB::open after the base class has opened database d.
Opened(d) ==
  IF IsEmpty(d) THEN [obj EXCEPT !.dbh = TRUE, !.empty = TRUE]
  ELSE [obj EXCEPT !.dbh = TRUE, !.empty = FALSE, !.nbin = d.numcfgs,
                   !.cfgs = GetConfigs(d.cfig)]

\* open: an empty database gets the object's configurations, and that
\* ffdb_set_all_configs refuses another number of them goes unnoticed.
Open(trunc) ==
  /\ ~over /\ sessions > 0
  /\ LET new == trunc \/ ~db.exists
         d   == IF new THEN NewDb(obj.max) ELSE db
     IN  /\ new => obj = NewObj(N)
         /\ obj' = Opened(d)
         /\ db' = IF IsEmpty(d) /\ obj.nbin # 0 /\ Len(obj.cfgs) = d.numcfgs
                  THEN [d EXCEPT !.cfig = SetConfigs(d.cfig, obj.cfgs)] ELSE d
         /\ given' = IF new THEN [k \in Keys |-> NoString] ELSE given
         /\ info' = IF new THEN << >> ELSE info
         /\ marked' = IF IsEmpty(d) THEN {} ELSE marked
  /\ how' = "any" /\ at' \in Indices
  /\ UNCHANGED <<sessions, over>>

Close ==
  /\ ~over /\ obj.dbh
  /\ obj' = [obj EXCEPT !.dbh = FALSE]
  /\ UNCHANGED <<db, client, sessions, over>>

Ready == ~over /\ obj.dbh /\ obj.nbin > 0

----------------------------------------------------------------------------
\* Storing

\* insert, insertWithStringKey and insertBinaryData: the size of the first
\* datum becomes the size of the object when it has none yet, and no datum
\* is compared with it.
InsertString(k, vec) ==
  /\ obj' = [obj EXCEPT !.bytesize = IF @ = 0 THEN Size[vec[1]] ELSE @]
  /\ db' = IF PutAccepts(k, Concat(vec))
           THEN [db EXCEPT !.data[k] = Concat(vec)] ELSE db

Insert(k, vec) ==
  /\ Ready /\ obj.nbin = Len(vec)
  /\ InsertString(k, vec)
  /\ given' = IF PutAccepts(k, Concat(vec)) THEN [given EXCEPT ![k] = vec] ELSE given
  /\ how' = IF obj.empty THEN "insert" ELSE how
  /\ UNCHANGED <<info, marked, at, sessions, over>>

\* An ensemble of another number of data than the store's: exit (1).
InsertOther ==
  /\ Ready
  /\ over' = TRUE
  /\ UNCHANGED <<db, obj, client, sessions>>

\* The string with the bytes of v in place of configuration i's.
Patched(string, v, i) ==
  [j \in DOMAIN string |->
     IF j \in (i - 1) * Size[v] + 1 .. i * Size[v] THEN <<v, j - (i - 1) * Size[v]>>
     ELSE string[j]]

\* Mutant of UpdateReads: a size that was learnt is not compared.
UpdateReadsAny(k) ==
  db.data[k] # NoString /\ Len(db.data[k]) % obj.nbin = 0

\* What update asks of the string it reads.
UpdateReads(k) ==
  /\ db.data[k] # NoString
  /\ Len(db.data[k]) % obj.nbin = 0
  /\ obj.bytesize \in {0, Len(db.data[k]) \div obj.nbin}

\* update on an object that opened an existing database: read, change the
\* bytes of one configuration and put back.
UpdateStored(k, v) ==
  /\ Ready /\ ~obj.empty
  /\ LET size == IF obj.bytesize = 0 THEN Len(db.data[k]) \div obj.nbin ELSE obj.bytesize
         ok   == UpdateReads(k) /\ Size[v] = size
     IN  /\ obj' = IF UpdateReads(k) THEN [obj EXCEPT !.bytesize = size] ELSE obj
         /\ db' = IF ok THEN [db EXCEPT !.data[k] = Patched(@, v, at)] ELSE db
         /\ given' = IF ok THEN [given EXCEPT ![k][at] = v] ELSE given
  /\ UNCHANGED <<info, marked, at, how, sessions, over>>

\* update on an object that opened an empty database: an ensemble of default
\* values but for one.
UpdateFresh(k, v) ==
  /\ Ready /\ obj.empty
  /\ Size[v] = Size[Blank]
  /\ how = "insert" => FreshUpdates
  /\ LET vec == [i \in Indices |-> IF i = at THEN v ELSE Blank]
     IN  /\ InsertString(k, vec)
         /\ given' = IF ~PutAccepts(k, Concat(vec)) THEN given
                     ELSE IF given[k] = NoString THEN [given EXCEPT ![k] = vec]
                     ELSE [given EXCEPT ![k][at] = v]
  /\ UNCHANGED <<info, marked, at, how, sessions, over>>

\* updateDone, and the application goes on with another configuration.
UpdateDone ==
  /\ Ready
  /\ obj' = [obj EXCEPT !.empty = FALSE]
  /\ at' \in Indices \ {at}
  /\ UNCHANGED <<db, given, info, marked, how, sessions, over>>

----------------------------------------------------------------------------
\* Reading

\* The size of a datum once key k has been read.
Learnt(k) == IF obj.bytesize = 0 THEN Len(db.data[k]) \div obj.nbin ELSE obj.bytesize

\* Mutant of GetStatus: the size is not compared.
GetStatusAny(k) ==
  IF db.data[k] = NoString THEN 1 ELSE IF Len(db.data[k]) % obj.nbin # 0 THEN -1 ELSE 0

\* get, getFromStringKey and getBinaryData: 1 when there is no such key, -1
\* when its string cannot be cut into data of the size the object knows.
GetStatus(k) ==
  CASE db.data[k] = NoString -> 1
    [] db.data[k] # NoString /\ Len(db.data[k]) % obj.nbin # 0 -> -1
    [] OTHER -> IF Learnt(k) = Len(db.data[k]) \div obj.nbin THEN 0 ELSE -1

\* What a get that returns 0 hands out.
GetReturns(k) == Pieces(db.data[k], Learnt(k))

Get(k) ==
  /\ Ready
  /\ obj' = IF db.data[k] # NoString /\ Len(db.data[k]) % obj.nbin = 0
            THEN [obj EXCEPT !.bytesize = Learnt(k)] ELSE obj
  /\ UNCHANGED <<db, client, sessions, over>>

Stored == {k \in Keys : db.data[k] # NoString}

\* stringKeysAndData and keysAndData: every ensemble, all of one size.
PairSizes ==
  {Len(db.data[k]) \div obj.nbin : k \in Stored}
    \cup IF obj.bytesize = 0 THEN {} ELSE {obj.bytesize}

PairsOK ==
  /\ \A k \in Stored : Len(db.data[k]) % obj.nbin = 0
  /\ Cardinality(PairSizes) <= 1

PairsReturned == [k \in Stored |-> Pieces(db.data[k], Len(db.data[k]) \div obj.nbin)]

\* Data of different sizes abort the process.
KeysAndData ==
  /\ Ready
  /\ over' = ~PairsOK
  /\ obj' = IF PairsOK /\ PairSizes # {}
            THEN [obj EXCEPT !.bytesize = CHOOSE s \in PairSizes : TRUE] ELSE obj
  /\ UNCHANGED <<db, client, sessions>>

----------------------------------------------------------------------------
\* User information and configurations

InsertUserdata(text) ==
  /\ ~over /\ obj.dbh
  /\ IF Len(text) > MaxInfo + 1 THEN UNCHANGED <<db, info>>
     ELSE db' = [db EXCEPT !.uinfo = SetUinfo(@, text)] /\ info' = text
  /\ UNCHANGED <<obj, given, marked, at, how, sessions, over>>

\* Mutant of SetConfigInfoOf: only the number is compared.
SetConfigInfoOfNumber(i, num) ==
  LET c == [config |-> num, index |-> i - 1, inserted |-> 1]
      S == {x \in Entries(db.cfig) : Entry(db.cfig, x).config = num}
      x == FirstMatch(S)
  IN  IF i > db.numcfgs \/ S = {} THEN << >>
      ELSE [db.cfig EXCEPT ![x[1]][x[2]] = c]

\* setConfigInfo through ffdb_set_config.  The other members of a record are
\* left out; one of them, its type, is whatever the stack held.
SetConfigInfoOf(i, num) ==
  IF i > db.numcfgs THEN << >>
  ELSE SetConfigInfo(db.cfig, [config |-> num, index |-> i - 1, inserted |-> 1])

MarkInserted(i, num) ==
  /\ ~over /\ obj.dbh
  /\ LET pages == SetConfigInfoOf(i, num)
     IN  /\ db' = IF pages = << >> THEN db ELSE [db EXCEPT !.cfig = pages]
         /\ marked' = IF i \in Indices /\ num = ConfigNums[i] /\ pages # << >>
                      THEN marked \cup {i} ELSE marked
  /\ UNCHANGED <<obj, given, info, at, how, sessions, over>>

\* ffdb_get_config asks of the record it is to fill that its index is one of a
\* page of configurations, and getConfigInfo hands it one it never wrote to:
\* the index is what the stack held.
Leftovers == -1 .. N   \* bound: indexes below, on both ends of, and above

GetConfigOf(index, num) ==
  IF index \in 0 .. Len(db.cfig) - 1 THEN GetConfigInfo(db.cfig, num) ELSE << >>

----------------------------------------------------------------------------
Init ==
  /\ db = [NewDb(1) EXCEPT !.exists = FALSE]
  /\ obj = NewObj(0)
  /\ given = [k \in Keys |-> NoString]
  /\ info = << >> /\ marked = {} /\ at = 1 /\ how = "any"
  /\ sessions = 0 /\ over = FALSE

Store ==
  \/ \E n \in {0, N} : Construct(n)
  \/ \E trunc \in BOOLEAN : Open(trunc)
  \/ Close
  \/ \E k \in AppKeys, vec \in AppEnsembles : Insert(k, vec)
  \/ InsertOther
  \/ \E k \in AppKeys, v \in Values : UpdateStored(k, v) \/ UpdateFresh(k, v)
  \/ UpdateDone
  \/ \E k \in AppKeys : Get(k)
  \/ KeysAndData
  \/ \E text \in Infos : InsertUserdata(text)
  \/ \E i \in 1 .. N + 1, j \in Indices : MarkInserted(i, ConfigNums[j])

----------------------------------------------------------------------------
\* Properties

\* The bytes in the database are those of the ensembles that insert and
\* update have accepted, whatever the order of inserts, updates by several
\* objects, updateDone, closing and opening was.
EnsemblesIntact ==
  \A k \in Keys :
    db.data[k] = IF given[k] = NoString THEN NoString ELSE Concat(given[k])

\* A get that succeeds, and keysAndData, return the data of every
\* configuration as they were stored, also when the object learnt the size
\* of a datum from another key, and a get fails with 1 only for a key that
\* was never stored.
ReadsAreRight ==
  LET right(k, out) == out = [i \in Indices |-> Bytes(given[k][i])]
  IN  Ready =>
        /\ \A k \in Keys : /\ GetStatus(k) = 0 => right(k, GetReturns(k))
                           /\ GetStatus(k) = 1 => given[k] = NoString
        /\ PairsOK => \A k \in DOMAIN PairsReturned : right(k, PairsReturned[k])

\* getUserdata returns the text that was stored last, for every length up to
\* the largest, over any page boundary and whatever longer text was there.
UserInfoReadsBack == db.exists => GetUinfo(db.uinfo) = info

\* What a store has to know of configuration i.
Kept(i) == [NewConfig(i) EXCEPT !.inserted = IF i \in marked THEN 1 ELSE 0]

\* Once a database has data, getAllConfigInfo returns the configurations of
\* the constructor that created it, in their order, and exactly the ones that
\* setConfigInfo accepted, in this session or in an earlier one, are marked
\* as inserted.  getConfigInfo returns the same record of a configuration, or
\* nothing at all when the index that happens to be in its record is not
\* that of a page of configurations.
ConfigsKept ==
  ~IsEmpty(db) =>
    /\ GetConfigs(db.cfig) = [i \in Indices |-> Kept(i)]
    /\ \A i \in Indices, index \in Leftovers :
         GetConfigOf(index, ConfigNums[i]) =
           IF index \in 0 .. ConfigPages(N) - 1 THEN << Kept(i) >> ELSE << >>

\* What ffdb_db.h says of ffdb_get_config, that the record it is given is
\* where the answer goes: each configuration of a database with data is
\* found, whatever the record held before.
ConfigsAreFound ==
  ~IsEmpty(db) =>
    \A i \in Indices, index \in Leftovers : GetConfigOf(index, ConfigNums[i]) # << >>
============================================================================
