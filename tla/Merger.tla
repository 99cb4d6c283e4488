------------------------------- MODULE Merger ------------------------------
(***************************************************************************)
(* ConfDataDBMerger: the databases of single configurations are merged     *)
(* into a store of configurations (ConfStore), a chunk of keys at a time.  *)
(* The keys are those of the first configuration that has a database; a    *)
(* chunk is collected in a bag in memory, one database after the other,    *)
(* and then inserted.                                                      *)
(***************************************************************************)
EXTENDS ConfStore

CONSTANTS
  SourceSets,  \* databases to merge: for each configuration a function from
               \* some of the keys to values, or NoSource for "N/A"
  NoSource,
  KeyLen,      \* bytes of a key
  Memories     \* values of max_memory

\* The data of a key have one size in all databases (FILEDB_FIX_DATA_SIZE).
ASSUME MergerAssumption ==
  /\ KeyLen \in Nat \ {0} /\ Memories \subseteq Nat
  /\ \A src \in SourceSets :
       /\ DOMAIN src = Indices
       /\ \A i \in Indices : src[i] # NoSource =>
            /\ src[i] \in [DOMAIN src[i] -> Values]
            /\ DOMAIN src[i] \subseteq Keys /\ IsFiniteSet(DOMAIN src[i])
            /\ \A j \in Indices : src[j] # NoSource =>
                 \A k \in DOMAIN src[i] \cap DOMAIN src[j] :
                   Size[src[i][k]] = Size[src[j][k]]

VARIABLE mg  \* the merger

mvars == <<vars, mg>>

Idle == [pc |-> "idle"]
Missing == << >>  \* an element of a vector of strings that nobody assigned

----------------------------------------------------------------------------
\* The constructor with numbers and names: one ConfigInfo is filled again and
\* again, and its name is assigned only when it is not "N/A", so a
\* configuration without a database has the name of the one before it.
UrlsOf(src) ==
  [i \in Indices |->
     LET named == {j \in 1 .. i : src[j] # NoSource}
     IN  IF named = {} THEN NoSource
         ELSE src[CHOOSE j \in named : \A m \in named : m <= j]]

\* iterateSize: how many keys fit into the memory; numloops rounds up.
Chunk(nkeys, datalen, memory) ==
  LET fit == memory \div ((KeyLen + datalen) * N)
  IN  IF fit > nkeys THEN nkeys ELSE fit

\* Mutant of NumLoops: the keys behind the last full chunk are forgotten.
NumLoopsDown(nkeys, chunk) == nkeys \div chunk

NumLoops(nkeys, chunk) ==
  IF nkeys = (nkeys \div chunk) * chunk THEN nkeys \div chunk ELSE nkeys \div chunk + 1

Least(S) == CHOOSE x \in S : \A y \in S : x <= y

\* merge: the first configuration with a name, its keys and data, and the
\* size of a chunk.  A chunk of no keys divides by zero.
Start(src, memory) ==
  /\ ~over /\ mg = Idle /\ obj.dbh /\ obj.nbin = N /\ obj.empty /\ IsEmpty(db)
  /\ LET url   == UrlsOf(src)
         named == {i \in Indices : url[i] # NoSource}
         first == Least(named)
         keys  == SetToSeq(DOMAIN url[first])
         chunk == Chunk(Len(keys), Size[url[first][keys[1]]], memory)
     IN  IF named = {} \/ DOMAIN url[first] = {} \/ chunk = 0
         THEN over' = TRUE /\ UNCHANGED mg
         ELSE /\ mg' = [pc |-> "bag", src |-> src, url |-> url, first |-> first,
                        keys |-> keys, chunk |-> chunk,
                        loops |-> NumLoops(Len(keys), chunk),
                        loop |-> 0, conf |-> 1, bag |-> << >>]
              /\ UNCHANGED over
  /\ UNCHANGED <<db, obj, client, sessions>>

\* The keys of the current chunk.
InChunk ==
  LET last == (mg.loop + 1) * mg.chunk
  IN  {mg.keys[i] : i \in mg.loop * mg.chunk + 1 ..
                          IF last > Len(mg.keys) THEN Len(mg.keys) ELSE last}

\* initBag
InitBag ==
  /\ ~over /\ mg.pc = "bag"
  /\ mg' = [mg EXCEPT !.pc = "fill", !.conf = 1,
              !.bag = [k \in InChunk |-> [i \in Indices |->
                         IF i = mg.first THEN Bytes(mg.url[mg.first][k]) ELSE Missing]]]
  /\ UNCHANGED vars

\* The loop over the configurations; populateBag skips one without a name and
\* calls exit when a database lacks a key.
PopulateBag ==
  /\ ~over /\ mg.pc = "fill" /\ mg.conf <= N
  /\ LET c == mg.conf
         read == c # mg.first /\ mg.url[c] # NoSource
     IN  IF read /\ ~(InChunk \subseteq DOMAIN mg.url[c])
         THEN over' = TRUE /\ UNCHANGED mg
         ELSE /\ mg' = [mg EXCEPT !.conf = @ + 1,
                          !.bag = IF ~read THEN @
                                  ELSE [k \in DOMAIN @ |-> [@[k] EXCEPT ![c] = Bytes(mg.url[c][k])]]]
              /\ UNCHANGED over
  /\ UNCHANGED <<db, obj, client, sessions>>

\* insertBag, in the order of the hash map: insertBinaryData of one key.
InsertBag(k) ==
  /\ ~over /\ mg.pc = "fill" /\ mg.conf > N /\ k \in DOMAIN mg.bag
  /\ LET string == FlattenSeq(mg.bag[k])
     IN  /\ obj' = [obj EXCEPT !.bytesize = IF @ = 0 THEN Len(mg.bag[k][1]) ELSE @]
         /\ db' = IF PutAccepts(k, string) THEN [db EXCEPT !.data[k] = string] ELSE db
  /\ given' = [given EXCEPT ![k] =
                 [i \in Indices |-> IF mg.src[i] = NoSource THEN Blank ELSE mg.src[i][k]]]
  /\ mg' = [mg EXCEPT !.bag = [j \in DOMAIN @ \ {k} |-> @[j]]]
  /\ how' = "insert"
  /\ UNCHANGED <<info, marked, at, sessions, over>>

\* The next chunk.
NextLoop ==
  /\ ~over /\ mg.pc = "fill" /\ mg.conf > N /\ mg.bag = << >>
  /\ mg' = [mg EXCEPT !.pc = IF mg.loop + 1 < mg.loops THEN "bag" ELSE "mark",
                      !.loop = @ + 1, !.conf = 1]
  /\ UNCHANGED vars

\* updateConfigInfo: every configuration with a name is marked as inserted.
UpdateConfigInfo ==
  /\ ~over /\ mg.pc = "mark" /\ mg.conf <= N
  /\ LET c == mg.conf
         pages == SetConfigInfoOf(c, ConfigNums[c])
         done == mg.url[c] # NoSource
     IN  /\ db' = IF done /\ pages # << >> THEN [db EXCEPT !.cfig = pages] ELSE db
         /\ marked' = IF mg.src[c] # NoSource THEN marked \cup {c} ELSE marked
  /\ mg' = [mg EXCEPT !.conf = @ + 1]
  /\ UNCHANGED <<obj, given, info, at, how, sessions, over>>

Return ==
  /\ ~over /\ mg.pc = "mark" /\ mg.conf > N
  /\ mg' = [mg EXCEPT !.pc = "done"]
  /\ UNCHANGED vars

\* The application goes on with the merged store.
Leave ==
  /\ ~over /\ mg.pc = "done"
  /\ mg' = Idle
  /\ UNCHANGED vars

----------------------------------------------------------------------------
MInit == Init /\ mg = Idle

MNext ==
  \/ mg = Idle /\ Store /\ UNCHANGED mg
  \/ \E src \in SourceSets, memory \in Memories : Start(src, memory)
  \/ InitBag
  \/ PopulateBag
  \/ \E k \in Keys : InsertBag(k)
  \/ NextLoop
  \/ UpdateConfigInfo
  \/ Return
  \/ Leave

MSpec == MInit /\ [][MNext]_mvars

----------------------------------------------------------------------------
\* When merge returns, the store has exactly the keys of the first database,
\* whatever the size of a chunk, each with the data of all configurations
\* that have a database at their index, and exactly those configurations are
\* marked.
MergedIsWhole ==
  mg.pc = "done" =>
    LET have == {i \in Indices : mg.src[i] # NoSource}
        all  == GetConfigs(db.cfig)
    IN  /\ \A k \in Keys :
             db.data[k] = IF k \notin DOMAIN mg.src[Least(have)] THEN NoString
                          ELSE Concat([i \in Indices |-> mg.src[i][k]])
        /\ \A i \in Indices : all[i].inserted = 1 <=> i \in have

\* help() of DBMergeTest: "If the dbasename is empty, this configuration has
\* not been finished": it is not marked as inserted.
UnfinishedNotMarked ==
  mg.pc = "done" =>
    \A i \in Indices : mg.src[i] = NoSource => GetConfigs(db.cfig)[i].inserted = 0
============================================================================
