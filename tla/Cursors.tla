------------------------------ MODULE Cursors ------------------------------
(***************************************************************************)
(* Reading a table: the cursors of _ffdb_cursor_get and                    *)
(* ffdb_cursor_find_by_key, and the lookups of _ffdb_hash_get, by threads  *)
(* that share the page pool.  Nothing is put meanwhile, so the chains of   *)
(* hash pages stay what they are (a database opened for reading).          *)
(*                                                                         *)
(* A cursor keeps the hash page it is on claimed BETWEEN calls; the call   *)
(* that moves it gives that page back before it claims the next one, and   *)
(* claims the pages of the datum, one after the other, on top of it.  The  *)
(* pool is used through what PageStore promises: a page has one holder, a  *)
(* claim waits until the page is free.                                     *)
(*                                                                         *)
(* Buffers that are too small and pages that cannot be read are left out.  *)
(***************************************************************************)
EXTENDS Integers, Sequences, FiniteSets, SequencesExt

CONSTANTS
  Threads,
  MaxBucket,    \* hdr.max_bucket
  Chains,       \* the chains a bucket may have: NUM_ENT of each page
  DataOf(_)     \* the pages of a key's datum, in order

Buckets == 0 .. MaxBucket

\* A hash page is <<bucket, place in the chain>>; a key is where it is:
\* <<bucket, place, index on the page>>.  Data pages are other pages.
DataPage == {-1} \X Nat

ASSUME CursorAssumption ==
  /\ MaxBucket \in Nat \ {0}
  /\ \A c \in Chains : /\ c \in Seq(Nat) /\ c # << >>
                       /\ 0 \in Range(c) => Len(c) = 1
  /\ \A b \in Buckets, c \in Chains : \A i \in DOMAIN c : \A j \in 1 .. c[i] :
       DataOf(<<b, i, j>>) \in Seq(DataPage) \ {<< >>}

VARIABLES
  table,   \* the chain of every bucket
  pins,    \* the pages every thread has claimed
  crs,     \* its cursor: status, whether pagep is set, and where it is
  call,    \* the call it is in: what it does, at which page
  seen     \* history: the keys its cursor returned since FIRST or LAST

vars == <<table, pins, crs, call, seen>>

AllKeys ==
  UNION {UNION {{<<b, i, j>> : j \in 1 .. table[b][i]} : i \in DOMAIN table[b]}
           : b \in Buckets}

\* Keys to look up: those of the table, and one that is not in each bucket.
Lookups == AllKeys \cup {<<b, 0, 0>> : b \in Buckets}

\* NUM_ENT; the page of bucket max_bucket + 1 is not in use.
Entries(b, i) == IF b \in Buckets THEN table[b][i] ELSE 0

Free(p) == \A u \in Threads : p \notin pins[u]

Idle(t) == call[t].stage = "idle"

NoCall == [stage |-> "idle", does |-> "none", bucket |-> 0, place |-> 0,
           key |-> <<0, 0, 0>>, data |-> << >>]

\* A cursor without a page; what is left of its position is not used.
Nowhere(status) ==
  [status |-> status, pagep |-> FALSE, bucket |-> 0, place |-> 0, ndx |-> 0]

CursorPage(t) == <<crs[t].bucket, crs[t].place>>

\* The pages thread t still has when its cursor gave its page back.
Unpinned(t) ==
  IF crs[t].pagep THEN pins[t] \ {CursorPage(t)} ELSE pins[t]

Init ==
  /\ table \in [Buckets -> Chains]
  /\ pins = [t \in Threads |-> {}]
  /\ crs  = [t \in Threads |-> Nowhere("none")]
  /\ call = [t \in Threads |-> NoCall]
  /\ seen = [t \in Threads |-> [way |-> "none", keys |-> << >>]]

-----------------------------------------------------------------------------
(***************************************************************************)
(* The start of a call.                                                    *)
(***************************************************************************)
\* _ffdb_hash_cursor
NewCursor(t) ==
  /\ Idle(t) /\ crs[t].status = "none"
  /\ crs' = [crs EXCEPT ![t] = Nowhere("clean")]
  /\ UNCHANGED <<table, pins, call, seen>>

\* _ffdb_cursor_close
CloseCursor(t) ==
  /\ Idle(t) /\ crs[t].status # "none"
  /\ pins' = [pins EXCEPT ![t] = Unpinned(t)]
  /\ crs' = [crs EXCEPT ![t] = Nowhere("none")]
  /\ seen' = [seen EXCEPT ![t] = [way |-> "none", keys |-> << >>]]
  /\ UNCHANGED <<table, call>>

\* The call goes on to look at page i of bucket b.
LookAt(t, does, b, i) ==
  call' = [call EXCEPT ![t] = [@ EXCEPT !.stage = "seek", !.does = does,
                                        !.bucket = b, !.place = i]]

\* The cursor gives its page back, if it has one.
PutPage(t) ==
  /\ pins' = [pins EXCEPT ![t] = Unpinned(t)]
  /\ crs'  = [crs EXCEPT ![t] = Nowhere(@.status)]

\* FIRST and LAST, and NEXT and PREV on a cursor that was not used yet.
Start(t, does) ==
  /\ Idle(t) /\ crs[t].status # "none"
  /\ PutPage(t)
  /\ LookAt(t, does, IF does = "first" THEN 0 ELSE MaxBucket, 1)
  /\ seen' = [seen EXCEPT ![t] = [way |-> does, keys |-> << >>]]
  /\ UNCHANGED table

\* The way of a cursor that goes on with NEXT or PREV.
Way(t, does) ==
  IF seen[t].way = (IF does = "next" THEN "first" ELSE "last")
  THEN seen[t] ELSE [way |-> "mixed", keys |-> << >>]

\* The index of the next key on the same page.
Beside(t, does) == IF does = "next" THEN crs[t].ndx + 1 ELSE crs[t].ndx - 1

\* NEXT and PREV find the next key on the page the cursor is on ...
Step(t, does) ==
  LET j == Beside(t, does)
  IN  /\ Idle(t) /\ crs[t].pagep
      /\ j \in 1 .. Entries(crs[t].bucket, crs[t].place)
      /\ crs' = [crs EXCEPT ![t].ndx = j]
      /\ call' = [call EXCEPT ![t] =
                    [NoCall EXCEPT !.stage = "data", !.does = does,
                       !.data = DataOf(<<crs[t].bucket, crs[t].place, j>>)]]
      /\ seen' = [seen EXCEPT ![t] = Way(t, does)]
      /\ UNCHANGED <<table, pins>>

\* Where NEXT and PREV end.
LastBucket(does) == IF does = "next" THEN MaxBucket ELSE 0

\* The bucket after b on the way of a call.
Onward(does, b) == IF does \in {"first", "next"} THEN b + 1 ELSE b - 1

\* The call ends without a key: FFDB_NOT_FOUND.
NotFound(t) ==
  /\ crs'  = [crs EXCEPT ![t] = Nowhere("nomore")]
  /\ call' = [call EXCEPT ![t] = NoCall]

\* Mutant of Leave: the page is kept until the next one is claimed.
LeaveLate(t, does) ==
  LET b == crs[t].bucket
      i == crs[t].place
  IN  /\ UNCHANGED <<pins, crs>>
      /\ i < Len(table[b]) \/ b # LastBucket(does)
      /\ IF i < Len(table[b]) THEN LookAt(t, does, b, i + 1)
         ELSE LookAt(t, does, Onward(does, b), 1)

\* ... or leave the page: for the next one of the chain (both of them), else
\* for the next bucket.
Leave(t, does) ==
  LET b == crs[t].bucket
      i == crs[t].place
  IN  IF i = Len(table[b]) /\ b = LastBucket(does)
      THEN NotFound(t) /\ pins' = [pins EXCEPT ![t] = Unpinned(t)]
      ELSE /\ PutPage(t)
           /\ IF i < Len(table[b]) THEN LookAt(t, does, b, i + 1)
              ELSE LookAt(t, does, Onward(does, b), 1)

StepOff(t, does) ==
  /\ Idle(t) /\ crs[t].pagep
  /\ Beside(t, does) \notin 1 .. Entries(crs[t].bucket, crs[t].place)
  /\ Leave(t, does)
  /\ seen' = [seen EXCEPT ![t] = Way(t, does)]
  /\ UNCHANGED table

\* _ffdb_hash_get, by a thread that has no cursor: a cursor without a page
\* makes no difference, and one with a page must not meet a get of the same
\* thread on that page (put_page would unpin it under the cursor).
Get(t, k) ==
  /\ Idle(t) /\ crs[t].status = "none"
  /\ call' = [call EXCEPT ![t] =
                [stage |-> "seek", does |-> "get", bucket |-> k[1], place |-> 1,
                 key |-> k, data |-> << >>]]
  /\ UNCHANGED <<table, pins, crs, seen>>

-----------------------------------------------------------------------------
(***************************************************************************)
(* A call claims the page it looks at.  A page without the key in question *)
(* is given back at once.                                                  *)
(***************************************************************************)
\* The page holds what the call looks for: any key, or the one of a get.
Hit(t) ==
  IF call[t].does = "get"
  THEN call[t].key \in AllKeys /\ call[t].key[2] = call[t].place
  ELSE Entries(call[t].bucket, call[t].place) > 0

\* Mutant of Exhausted: FIRST and NEXT do not look at the last bucket.
ExhaustedEarly(does, b) ==
  IF does \in {"first", "next"} THEN b >= MaxBucket - 1 ELSE b = 0

\* Nothing is left behind an empty bucket page: FIRST sees it one page late.
Exhausted(does, b) ==
  CASE does = "first" -> b > MaxBucket
    [] does = "next"  -> b = MaxBucket
    [] OTHER          -> b = 0

Skip(t) ==
  LET does == call[t].does
      b    == call[t].bucket
      i    == call[t].place
  IN  IF does = "get"
      THEN IF i < Len(table[b])
           THEN LookAt(t, does, b, i + 1) /\ UNCHANGED crs
           ELSE call' = [call EXCEPT ![t] = NoCall] /\ UNCHANGED crs
      ELSE IF Exhausted(does, b) THEN NotFound(t)
      ELSE LookAt(t, does, Onward(does, b), 1) /\ UNCHANGED crs

Miss(t) ==
  /\ call[t].stage = "seek"
  /\ Free(<<call[t].bucket, call[t].place>>)
  /\ ~Hit(t)
  /\ Skip(t)
  /\ UNCHANGED <<table, pins, seen>>

\* The index a cursor gets on a page it comes to.
FirstIndex(does, b, i) ==
  IF does \in {"first", "next"} THEN 1 ELSE Entries(b, i)

Land(t) ==
  LET does == call[t].does
      b    == call[t].bucket
      i    == call[t].place
      j    == FirstIndex(does, b, i)
  IN  /\ call[t].stage = "seek"
      /\ Free(<<b, i>>)
      /\ Hit(t)
      /\ pins' = [pins EXCEPT ![t] = @ \cup {<<b, i>>}]
      /\ IF does = "get"
         THEN UNCHANGED crs
         ELSE crs' = [crs EXCEPT ![t] =
                        [status |-> "ok", pagep |-> TRUE,
                         bucket |-> b, place |-> i, ndx |-> j]]
      /\ call' = [call EXCEPT ![t] =
                    [@ EXCEPT !.stage = "data",
                       !.data = DataOf(IF does = "get" THEN call[t].key
                                       ELSE <<b, i, j>>)]]
      /\ UNCHANGED <<table, seen>>

(***************************************************************************)
(* _ffdb_get_data: the pages of the datum are claimed one after the other. *)
(***************************************************************************)
ClaimData(t) ==
  /\ call[t].stage = "data"
  /\ Free(Head(call[t].data))
  /\ pins' = [pins EXCEPT ![t] = @ \cup {Head(call[t].data)}]
  /\ call' = [call EXCEPT ![t].stage = "copy"]
  /\ UNCHANGED <<table, crs, seen>>

CursorKey(t) == <<crs[t].bucket, crs[t].place, crs[t].ndx>>

\* A datum is read: a cursor stays on its page, a get still has to put it.
CopyData(t) ==
  LET rest == Tail(call[t].data)
      get  == call[t].does = "get"
  IN  /\ call[t].stage = "copy"
      /\ pins' = [pins EXCEPT ![t] = @ \ {Head(call[t].data)}]
      /\ call' = [call EXCEPT ![t] =
                    IF rest = << >> /\ ~get THEN NoCall
                    ELSE [@ EXCEPT !.data = rest,
                            !.stage = IF rest = << >> THEN "put" ELSE "data"]]
      /\ seen' = IF rest = << >> /\ ~get /\ seen[t].way # "mixed"
                 THEN [seen EXCEPT ![t].keys = Append(@, CursorKey(t))]
                 ELSE seen
      /\ UNCHANGED <<table, crs>>

\* A cursor call that was given no data to fill returns with the key.
KeyOnly(t) ==
  /\ call[t].stage = "data" /\ call[t].does # "get"
  /\ call[t].data = DataOf(CursorKey(t))
  /\ call' = [call EXCEPT ![t] = NoCall]
  /\ seen' = IF seen[t].way # "mixed"
             THEN [seen EXCEPT ![t].keys = Append(@, CursorKey(t))]
             ELSE seen
  /\ UNCHANGED <<table, pins, crs>>

\* Mutant of PutItem: the hash page stays claimed.
PutItemNot(t) ==
  /\ call[t].stage = "put"
  /\ call' = [call EXCEPT ![t] = NoCall]
  /\ UNCHANGED <<table, pins, crs, seen>>

\* The end of ffdb_get_item with freepage.
PutItem(t) ==
  /\ call[t].stage = "put"
  /\ pins' = [pins EXCEPT ![t] = @ \ {<<call[t].bucket, call[t].place>>}]
  /\ call' = [call EXCEPT ![t] = NoCall]
  /\ UNCHANGED <<table, crs, seen>>

-----------------------------------------------------------------------------
Claims(t) == Miss(t) \/ Land(t) \/ ClaimData(t)

Next ==
  \E t \in Threads :
    \/ NewCursor(t)
    \/ CloseCursor(t)
    \/ \E does \in {"first", "last"} : Start(t, does)
    \/ \E does \in {"next", "prev"} : Step(t, does) \/ StepOff(t, does)
    \/ \E k \in Lookups : Get(t, k)
    \/ Claims(t)
    \/ KeyOnly(t)
    \/ CopyData(t)
    \/ PutItem(t)

Spec == Init /\ [][Next]_vars

(***************************************************************************)
(* A thread that waits for a page gets it when it comes free again and     *)
(* again: the pool serves waiters in turn (PagePool!NoBarging and          *)
(* PagePool!GetReturns), hence strong fairness.  A cursor is closed some   *)
(* time, although other calls may come first.                              *)
(***************************************************************************)
Fairness ==
  \A t \in Threads :
    /\ SF_vars(Claims(t))
    /\ WF_vars(CopyData(t) \/ PutItem(t))
    /\ SF_vars(CloseCursor(t))

FairSpec == Spec /\ Fairness

-----------------------------------------------------------------------------
\* The types of the variables.
TypeOK ==
  /\ table \in [Buckets -> Chains]
  /\ \A t \in Threads :
       /\ IsFiniteSet(pins[t])
       /\ crs[t].status \in {"none", "clean", "ok", "nomore"}
       /\ crs[t].pagep => /\ crs[t].bucket \in Buckets
                          /\ crs[t].place \in DOMAIN table[crs[t].bucket]
                          /\ CursorKey(t) \in AllKeys
       /\ call[t].stage \in {"idle", "seek", "data", "copy", "put"}

\* A cursor that went from FIRST to the end with NEXT, or from LAST with PREV,
\* returned every key of the table, and none twice: empty buckets, chains and
\* the order of the buckets are walked without a gap.
SweepIsComplete ==
  \A t \in Threads :
    Idle(t) /\ crs[t].status = "nomore" /\ seen[t].way \in {"first", "last"} =>
      /\ Range(seen[t].keys) = AllKeys
      /\ Len(seen[t].keys) = Cardinality(AllKeys)

\* Between calls a thread has the page its cursor is on, and no other: no
\* path through a call leaves a page claimed, or gives the cursor's page away.
PinsAreTheCursors ==
  \A t \in Threads :
    Idle(t) => pins[t] = IF crs[t].pagep THEN {CursorPage(t)} ELSE {}

\* Every call returns, although cursors keep pages claimed between calls and
\* every call claims data pages on top of a hash page.
CallsReturn == \A t \in Threads : ~Idle(t) ~> Idle(t)
=============================================================================
