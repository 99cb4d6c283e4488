---------------------------- MODULE CursorProofs ----------------------------
(***************************************************************************)
(* Proofs about Cursors: a thread has exactly the pages its cursor and its *)
(* call account for, for any table, any data and any number of threads.    *)
(***************************************************************************)
EXTENDS Cursors, FiniteSetTheorems, TLAPS

(***************************************************************************)
(* The inductive invariant.  PinsAreTheCursors is about the moments between*)
(* calls; PinsOf says what a thread has claimed inside a call: the page of *)
(* the hash table that it is on, and the data page that it copies from.    *)
(***************************************************************************)
Position == Int \X Int \X Int

Calls == [stage : {"idle", "seek", "data", "copy", "put"},
          does : {"none", "first", "last", "next", "prev", "get"},
          bucket : Int, place : Int, key : Position, data : Seq(Int \X Int)]

CursorStates == [status : {"none", "clean", "ok", "nomore"},
                 pagep : BOOLEAN, bucket : Int, place : Int, ndx : Int]

Types ==
  /\ table \in [Buckets -> Chains]
  /\ call \in [Threads -> Calls]
  /\ crs \in [Threads -> CursorStates]
  /\ pins \in [Threads -> SUBSET (Int \X Int)]

\* A cursor that has a page is on a key of it; only an open cursor has one.
CursorAt(t) ==
  crs[t].pagep => crs[t].status = "ok" /\ CursorKey(t) \in AllKeys

\* A thread that looks for a page has given back the one it had, and looks
\* at a page of the table (or behind its last bucket).
SeekAt(t) ==
  /\ call[t].stage = "seek" => ~crs[t].pagep
  /\ call[t].bucket \in Buckets /\ call[t].stage = "seek" =>
       call[t].place \in DOMAIN table[call[t].bucket]

\* A get is made by a thread without a cursor, a cursor call by one with a
\* cursor, which stands on a page once the call has found one.
CallOf(t) ==
  /\ call[t].stage = "seek" => call[t].does # "none"
  /\ call[t].does = "get" <=> ~Idle(t) /\ crs[t].status = "none"
  /\ call[t].stage \in {"data", "copy"} /\ call[t].does # "get" => crs[t].pagep
  /\ call[t].stage = "put" => call[t].does = "get"
  /\ call[t].stage \in {"data", "copy"} => call[t].data # << >>

\* The hash page a thread has.
HashPages(t) ==
  IF call[t].does = "get"
  THEN IF call[t].stage = "seek" THEN {} ELSE {<<call[t].bucket, call[t].place>>}
  ELSE IF crs[t].pagep THEN {CursorPage(t)} ELSE {}

PinsOf(t) ==
  IF call[t].stage = "copy"
  THEN /\ Head(call[t].data) \notin HashPages(t)
       /\ pins[t] = HashPages(t) \cup {Head(call[t].data)}
  ELSE pins[t] = HashPages(t)

CursorInv ==
  /\ Types
  /\ \A t \in Threads : CursorAt(t) /\ SeekAt(t) /\ CallOf(t) /\ PinsOf(t)

LEMMA KeyAt ==
  ASSUME Types, NEW b \in Int, NEW i \in Int, NEW j \in Int
  PROVE  <<b, i, j>> \in AllKeys <=>
           b \in Buckets /\ i \in DOMAIN table[b] /\ j \in 1 .. table[b][i]
  BY DEF AllKeys, Types

\* The data of a key of the table are on some pages.
LEMMA DataType ==
  ASSUME Types, NEW k \in AllKeys
  PROVE  /\ DataOf(k) \in Seq(Int \X Int) /\ DataOf(k) # << >>
         /\ k \in Position
<1>1. PICK b \in Buckets : \E i \in DOMAIN table[b] :
              \E j \in 1 .. table[b][i] : k = <<b, i, j>>
  BY DEF AllKeys
<1>2. PICK i \in DOMAIN table[b] : \E j \in 1 .. table[b][i] : k = <<b, i, j>>
  BY <1>1
<1>3. PICK j \in 1 .. table[b][i] : k = <<b, i, j>>
  BY <1>2
<1>4. table[b] \in Chains /\ table[b] \in Seq(Nat)
  BY CursorAssumption DEF Types
<1>5. DataOf(<<b, i, j>>) \in Seq(DataPage) /\ DataOf(<<b, i, j>>) # << >>
  BY <1>4, CursorAssumption
<1>6. DataOf(<<b, i, j>>) \in Seq(Int \X Int)
  BY <1>5 DEF DataPage
<1>7. b \in Int /\ i \in Int /\ j \in Int
  BY <1>4, CursorAssumption DEF Buckets
<1>. QED BY <1>3, <1>5, <1>6, <1>7 DEF Position

\* A step of thread t leaves the others alone.
LEMMA Local ==
  ASSUME CursorInv, NEW t \in Threads, table' = table, Types',
         \A u \in Threads \ {t} : /\ call'[u] = call[u]
                                  /\ crs'[u] = crs[u]
                                  /\ pins'[u] = pins[u],
         CursorAt(t)', SeekAt(t)', CallOf(t)', PinsOf(t)'
  PROVE  CursorInv'
<1>1. ASSUME NEW u \in Threads \ {t}
      PROVE  (CursorAt(u) /\ SeekAt(u) /\ CallOf(u) /\ PinsOf(u))'
  <2>1. CursorAt(u) /\ SeekAt(u) /\ CallOf(u) /\ PinsOf(u)
    BY DEF CursorInv
  <2>2. AllKeys' = AllKeys
    BY DEF AllKeys
  <2>3. CursorAt(u)'
    BY <2>1, <2>2 DEF CursorAt, CursorKey
  <2>4. SeekAt(u)' /\ CallOf(u)'
    BY <2>1 DEF SeekAt, CallOf, Idle
  <2>5. HashPages(u)' = HashPages(u)
    BY DEF HashPages, CursorPage
  <2>6. PinsOf(u)'
    BY <2>1, <2>5 DEF PinsOf
  <2>. QED BY <2>3, <2>4, <2>6
<1>. QED BY <1>1 DEF CursorInv

\* The page of a cursor is the only one a thread has between two calls.
LEMMA PutBack ==
  ASSUME CursorInv, NEW t \in Threads, Idle(t)
  PROVE  Unpinned(t) = {}
  BY DEF CursorInv, Idle, PinsOf, CallOf, HashPages, Unpinned

LEMMA NowhereType ==
  ASSUME NEW s \in {"none", "clean", "ok", "nomore"}
  PROVE  /\ Nowhere(s) \in CursorStates
         /\ Nowhere(s).status = s /\ Nowhere(s).pagep = FALSE
  BY DEF Nowhere, CursorStates

LEMMA NoCallType ==
  /\ NoCall \in Calls
  /\ NoCall.stage = "idle" /\ NoCall.does = "none"
<1>1. << >> \in Seq(Int \X Int) /\ <<0, 0, 0>> \in Position
  BY DEF Position
<1>. QED BY <1>1 DEF NoCall, Calls

\* A call that came to its end, or did not begin.
LEMMA IdleInv ==
  ASSUME NEW t \in Threads, call'[t] = NoCall, CursorAt(t)',
         pins'[t] = IF crs'[t].pagep THEN {CursorPage(t)'} ELSE {}
  PROVE  SeekAt(t)' /\ CallOf(t)' /\ PinsOf(t)'
  BY NoCallType DEF SeekAt, CallOf, PinsOf, HashPages, Idle

\* A call that looks for a page, of a thread whose cursor has none.
LEMMA SeekInv ==
  ASSUME NEW t \in Threads, call'[t].stage = "seek", ~crs'[t].pagep,
         pins'[t] = {}, call'[t].does # "none",
         call'[t].does = "get" <=> crs'[t].status = "none",
         call'[t].bucket \in Buckets =>
           call'[t].place \in DOMAIN table'[call'[t].bucket]
  PROVE  CursorAt(t)' /\ SeekAt(t)' /\ CallOf(t)' /\ PinsOf(t)'
  BY DEF CursorAt, SeekAt, CallOf, PinsOf, HashPages, Idle, Buckets

\* The first page of every bucket exists.
LEMMA FirstPage ==
  ASSUME Types, NEW b \in Buckets
  PROVE  1 \in DOMAIN table[b] /\ Len(table[b]) \in Nat
         /\ DOMAIN table[b] = 1 .. Len(table[b])
<1>1. table[b] \in Seq(Nat) /\ table[b] # << >>
  BY CursorAssumption DEF Types
<1>. QED BY <1>1

LEMMA NewCursorInv ==
  ASSUME CursorInv, NEW t \in Threads, NewCursor(t)
  PROVE  CursorInv'
<1>1. /\ crs' = [crs EXCEPT ![t] = Nowhere("clean")]
      /\ table' = table /\ pins' = pins /\ call' = call /\ Idle(t)
  BY DEF NewCursor
<1>2. Types'
  BY <1>1, NowhereType DEF CursorInv, Types
<1>3. crs'[t] = Nowhere("clean")
  BY <1>1 DEF CursorInv, Types
<1>4. CursorAt(t)'
  BY <1>3, NowhereType DEF CursorAt
<1>5. SeekAt(t)' /\ CallOf(t)' /\ PinsOf(t)'
  BY <1>1, <1>3, NowhereType
     DEF CursorInv, SeekAt, CallOf, PinsOf, HashPages, Idle, NewCursor, CursorAt
<1>6. \A u \in Threads \ {t} : /\ call'[u] = call[u] /\ crs'[u] = crs[u]
                               /\ pins'[u] = pins[u]
  BY <1>1 DEF CursorInv, Types
<1>. QED BY <1>1, <1>2, <1>4, <1>5, <1>6, Local

LEMMA CloseCursorInv ==
  ASSUME CursorInv, NEW t \in Threads, CloseCursor(t)
  PROVE  CursorInv'
<1>1. /\ crs' = [crs EXCEPT ![t] = Nowhere("none")]
      /\ pins' = [pins EXCEPT ![t] = {}]
      /\ table' = table /\ call' = call /\ Idle(t)
  BY PutBack DEF CloseCursor
<1>2. Types'
  BY <1>1, NowhereType DEF CursorInv, Types
<1>3. crs'[t] = Nowhere("none") /\ pins'[t] = {}
  BY <1>1 DEF CursorInv, Types
<1>4. CursorAt(t)'
  BY <1>3, NowhereType DEF CursorAt
<1>5. SeekAt(t)' /\ CallOf(t)' /\ PinsOf(t)'
  BY <1>1, <1>3, NowhereType
     DEF CursorInv, SeekAt, CallOf, PinsOf, HashPages, Idle
<1>6. \A u \in Threads \ {t} : /\ call'[u] = call[u] /\ crs'[u] = crs[u]
                               /\ pins'[u] = pins[u]
  BY <1>1 DEF CursorInv, Types
<1>. QED BY <1>1, <1>2, <1>4, <1>5, <1>6, Local

LEMMA LookAtType ==
  ASSUME CursorInv, NEW t \in Threads, NEW b \in Int, NEW i \in Int,
         NEW does \in {"first", "last", "next", "prev", "get"},
         LookAt(t, does, b, i)
  PROVE  /\ call' \in [Threads -> Calls]
         /\ call'[t].stage = "seek" /\ call'[t].does = does
         /\ call'[t].bucket = b /\ call'[t].place = i
         /\ \A u \in Threads \ {t} : call'[u] = call[u]
<1> DEFINE r == [call[t] EXCEPT !.stage = "seek", !.does = does,
                               !.bucket = b, !.place = i]
<1>1. call' = [call EXCEPT ![t] = r]
  BY DEF LookAt
<1>2. call \in [Threads -> Calls]
  BY DEF CursorInv, Types
<1>3. /\ r \in Calls /\ r.stage = "seek" /\ r.does = does
      /\ r.bucket = b /\ r.place = i
  BY <1>2 DEF Calls
<1>. HIDE DEF r
<1>. QED BY <1>1, <1>2, <1>3

LEMMA PutPageType ==
  ASSUME CursorInv, NEW t \in Threads, Idle(t), PutPage(t)
  PROVE  /\ crs' \in [Threads -> CursorStates]
         /\ pins' \in [Threads -> SUBSET (Int \X Int)]
         /\ crs'[t].status = crs[t].status /\ ~crs'[t].pagep /\ pins'[t] = {}
         /\ \A u \in Threads \ {t} : crs'[u] = crs[u] /\ pins'[u] = pins[u]
<1>1. /\ crs' = [crs EXCEPT ![t] = Nowhere(crs[t].status)]
      /\ pins' = [pins EXCEPT ![t] = {}]
  BY PutBack DEF PutPage
<1>2. /\ crs \in [Threads -> CursorStates]
      /\ pins \in [Threads -> SUBSET (Int \X Int)]
  BY DEF CursorInv, Types
<1>3. crs[t].status \in {"none", "clean", "ok", "nomore"}
  BY <1>2 DEF CursorStates
<1>. QED BY <1>1, <1>2, <1>3, NowhereType

LEMMA StartInv ==
  ASSUME CursorInv, NEW t \in Threads, NEW does \in {"first", "last"},
         Start(t, does)
  PROVE  CursorInv'
<1> DEFINE b == IF does = "first" THEN 0 ELSE MaxBucket
<1>1. Idle(t) /\ crs[t].status # "none" /\ PutPage(t) /\ table' = table
      /\ LookAt(t, does, b, 1)
  BY DEF Start
<1>2. b \in Buckets /\ b \in Int
  BY CursorAssumption DEF Buckets
<1>3. 1 \in DOMAIN table[b]
  BY <1>2, FirstPage DEF CursorInv
<1>. HIDE DEF b
<1>4. /\ call' \in [Threads -> Calls]
      /\ call'[t].stage = "seek" /\ call'[t].does = does
      /\ call'[t].bucket = b /\ call'[t].place = 1
      /\ \A u \in Threads \ {t} : call'[u] = call[u]
  BY <1>1, <1>2, LookAtType
<1>5. /\ crs' \in [Threads -> CursorStates]
      /\ pins' \in [Threads -> SUBSET (Int \X Int)]
      /\ crs'[t].status = crs[t].status /\ ~crs'[t].pagep /\ pins'[t] = {}
      /\ \A u \in Threads \ {t} : crs'[u] = crs[u] /\ pins'[u] = pins[u]
  BY <1>1, PutPageType
<1>6. Types'
  BY <1>1, <1>4, <1>5 DEF CursorInv, Types
<1>7. CursorAt(t)' /\ SeekAt(t)' /\ CallOf(t)' /\ PinsOf(t)'
  BY <1>1, <1>3, <1>4, <1>5, SeekInv
<1>. QED BY <1>1, <1>4, <1>5, <1>6, <1>7, Local

\* Where a cursor that has a page is.
LEMMA CursorPlace ==
  ASSUME CursorInv, NEW t \in Threads, crs[t].pagep
  PROVE  /\ crs[t].bucket \in Buckets /\ crs[t].bucket \in Int
         /\ crs[t].place \in DOMAIN table[crs[t].bucket] /\ crs[t].place \in Int
         /\ crs[t].ndx \in Int /\ crs[t].status = "ok"
         /\ CursorPage(t) \in Int \X Int
<1>1. crs[t] \in CursorStates
  BY DEF CursorInv, Types
<1>2. crs[t].bucket \in Int /\ crs[t].place \in Int /\ crs[t].ndx \in Int
  BY <1>1 DEF CursorStates
<1>3. CursorKey(t) \in AllKeys /\ crs[t].status = "ok" /\ Types
  BY DEF CursorInv, CursorAt
<1>. QED BY <1>2, <1>3, KeyAt DEF CursorKey, CursorPage

LEMMA StepInv ==
  ASSUME CursorInv, NEW t \in Threads, NEW does \in {"next", "prev"},
         Step(t, does)
  PROVE  CursorInv'
<1> DEFINE j == Beside(t, does)
           k == <<crs[t].bucket, crs[t].place, j>>
<1>1. /\ Idle(t) /\ crs[t].pagep /\ table' = table /\ pins' = pins
      /\ j \in 1 .. Entries(crs[t].bucket, crs[t].place)
      /\ crs' = [crs EXCEPT ![t].ndx = j]
      /\ call' = [call EXCEPT ![t] = [NoCall EXCEPT !.stage = "data",
                     !.does = does, !.data = DataOf(k)]]
  BY DEF Step
<1>2. /\ crs[t].bucket \in Buckets /\ crs[t].bucket \in Int
      /\ crs[t].place \in DOMAIN table[crs[t].bucket] /\ crs[t].place \in Int
      /\ crs[t].ndx \in Int /\ crs[t].status = "ok"
  BY <1>1, CursorPlace
<1>3. j \in Int /\ j \in 1 .. table[crs[t].bucket][crs[t].place]
  BY <1>1, <1>2 DEF Entries, Beside
<1>4. k \in AllKeys /\ DataOf(k) \in Seq(Int \X Int) /\ DataOf(k) # << >>
  BY <1>2, <1>3, KeyAt, DataType DEF CursorInv
<1>. HIDE DEF j
<1>5. /\ crs' \in [Threads -> CursorStates]
      /\ crs'[t].pagep /\ crs'[t].status = crs[t].status
      /\ CursorKey(t)' = k /\ CursorPage(t)' = CursorPage(t)
      /\ \A u \in Threads \ {t} : crs'[u] = crs[u]
  <2>1. crs \in [Threads -> CursorStates]
    BY DEF CursorInv, Types
  <2>2. crs'[t] = [crs[t] EXCEPT !.ndx = j]
    BY <1>1, <2>1
  <2>. QED BY <1>1, <1>3, <2>1, <2>2 DEF CursorStates, CursorKey, CursorPage
<1>6. /\ call' \in [Threads -> Calls]
      /\ call'[t].stage = "data" /\ call'[t].does = does
      /\ call'[t].data # << >>
      /\ \A u \in Threads \ {t} : call'[u] = call[u]
  <2>1. call \in [Threads -> Calls]
    BY DEF CursorInv, Types
  <2>. DEFINE r == [NoCall EXCEPT !.stage = "data", !.does = does,
                                  !.data = DataOf(k)]
  <2>2. r \in Calls /\ r.stage = "data" /\ r.does = does /\ r.data # << >>
    BY <1>4, NoCallType DEF Calls
  <2>3. call' = [call EXCEPT ![t] = r]
    BY <1>1
  <2>. HIDE DEF r
  <2>. QED BY <2>1, <2>2, <2>3
<1>7. Types'
  BY <1>1, <1>5, <1>6 DEF CursorInv, Types
<1>8. CursorAt(t)'
  <2>1. AllKeys' = AllKeys
    BY <1>1 DEF AllKeys
  <2>. QED BY <1>2, <1>4, <1>5, <2>1 DEF CursorAt
<1>9. SeekAt(t)' /\ CallOf(t)'
  BY <1>2, <1>5, <1>6 DEF SeekAt, CallOf, Idle
<1>10. PinsOf(t)'
  <2>1. pins[t] = {CursorPage(t)}
    BY <1>1 DEF CursorInv, PinsOf, HashPages, CallOf, Idle
  <2>. QED BY <1>1, <1>5, <1>6, <2>1 DEF PinsOf, HashPages
<1>. QED BY <1>1, <1>5, <1>6, <1>7, <1>8, <1>9, <1>10, Local

LEMMA StepOffInv ==
  ASSUME CursorInv, NEW t \in Threads, NEW does \in {"next", "prev"},
         StepOff(t, does)
  PROVE  CursorInv'
<1> DEFINE b == crs[t].bucket
           i == crs[t].place
<1>1. Idle(t) /\ crs[t].pagep /\ Leave(t, does) /\ table' = table
  BY DEF StepOff
<1>2. /\ b \in Buckets /\ b \in Int /\ i \in DOMAIN table[b] /\ i \in Int
      /\ crs[t].status # "none"
  BY <1>1, CursorPlace
<1>3. Types
  BY DEF CursorInv
<1>4. Len(table[b]) \in Nat /\ DOMAIN table[b] = 1 .. Len(table[b])
  BY <1>2, <1>3, FirstPage
<1>. HIDE DEF b, i
<1>5. CASE i = Len(table[b]) /\ b = LastBucket(does)
  <2>1. /\ crs' = [crs EXCEPT ![t] = Nowhere("nomore")]
        /\ call' = [call EXCEPT ![t] = NoCall]
        /\ pins' = [pins EXCEPT ![t] = {}]
    BY <1>1, <1>5, PutBack DEF Leave, NotFound, b, i
  <2>2. Types'
    BY <1>1, <2>1, NowhereType, NoCallType DEF CursorInv, Types
  <2>3. crs'[t] = Nowhere("nomore") /\ call'[t] = NoCall /\ pins'[t] = {}
    BY <1>3, <2>1 DEF Types
  <2>4. CursorAt(t)' /\ SeekAt(t)' /\ CallOf(t)' /\ PinsOf(t)'
    BY <2>3, NowhereType, IdleInv DEF CursorAt
  <2>5. \A u \in Threads \ {t} : /\ call'[u] = call[u] /\ crs'[u] = crs[u]
                                 /\ pins'[u] = pins[u]
    BY <1>3, <2>1 DEF Types
  <2>. QED BY <1>1, <2>2, <2>4, <2>5, Local
<1>6. CASE ~(i = Len(table[b]) /\ b = LastBucket(does))
  <2>1. /\ PutPage(t)
        /\ IF i < Len(table[b]) THEN LookAt(t, does, b, i + 1)
           ELSE LookAt(t, does, Onward(does, b), 1)
    BY <1>1, <1>6 DEF Leave, b, i
  <2>2. PICK c \in Int, n \in Int :
          /\ LookAt(t, does, c, n)
          /\ c \in Buckets => n \in DOMAIN table[c]
    <3>1. CASE i < Len(table[b])
      <4>1. i + 1 \in DOMAIN table[b] /\ i + 1 \in Int
        BY <1>2, <1>4, <3>1
      <4>. QED BY <1>2, <2>1, <3>1, <4>1
    <3>2. CASE ~(i < Len(table[b]))
      <4>1. Onward(does, b) \in Int
        BY <1>2 DEF Onward
      <4>. QED BY <1>3, <2>1, <3>2, <4>1, FirstPage
    <3>. QED BY <3>1, <3>2
  <2>3. /\ call' \in [Threads -> Calls]
        /\ call'[t].stage = "seek" /\ call'[t].does = does
        /\ call'[t].bucket = c /\ call'[t].place = n
        /\ \A u \in Threads \ {t} : call'[u] = call[u]
    BY <2>2, LookAtType
  <2>4. /\ crs' \in [Threads -> CursorStates]
        /\ pins' \in [Threads -> SUBSET (Int \X Int)]
        /\ crs'[t].status = crs[t].status /\ ~crs'[t].pagep /\ pins'[t] = {}
        /\ \A u \in Threads \ {t} : crs'[u] = crs[u] /\ pins'[u] = pins[u]
    BY <1>1, <2>1, PutPageType
  <2>5. Types'
    BY <1>1, <2>3, <2>4 DEF CursorInv, Types
  <2>6. CursorAt(t)' /\ SeekAt(t)' /\ CallOf(t)' /\ PinsOf(t)'
    BY <1>1, <1>2, <2>2, <2>3, <2>4, SeekInv
  <2>. QED BY <1>1, <2>3, <2>4, <2>5, <2>6, Local
<1>. QED BY <1>5, <1>6

LEMMA GetInv ==
  ASSUME CursorInv, NEW t \in Threads, NEW k \in Lookups, Get(t, k)
  PROVE  CursorInv'
<1> DEFINE r == [stage |-> "seek", does |-> "get", bucket |-> k[1], place |-> 1,
                 key |-> k, data |-> << >>]
<1>1. /\ Idle(t) /\ crs[t].status = "none"
      /\ call' = [call EXCEPT ![t] = r]
      /\ table' = table /\ pins' = pins /\ crs' = crs
  BY DEF Get
<1>2. Types
  BY DEF CursorInv
<1>3. k \in Position /\ k[1] \in Buckets
  <2>1. CASE k \in AllKeys
    <3>1. k \in Position
      BY <1>2, <2>1, DataType
    <3>2. k = <<k[1], k[2], k[3]>> /\ k[1] \in Int /\ k[2] \in Int /\ k[3] \in Int
      BY <3>1 DEF Position
    <3>. QED BY <1>2, <2>1, <3>1, <3>2, KeyAt
  <2>2. CASE k \notin AllKeys
    BY <2>2, CursorAssumption DEF Lookups, Position, Buckets
  <2>. QED BY <2>1, <2>2
<1>4. /\ r \in Calls /\ r.stage = "seek" /\ r.does = "get"
      /\ r.bucket = k[1] /\ r.place = 1
  <2>1. k[1] \in Int /\ << >> \in Seq(Int \X Int)
    BY <1>3, CursorAssumption DEF Buckets
  <2>. QED BY <1>3, <2>1 DEF Calls
<1>. HIDE DEF r
<1>5. call'[t] = r /\ \A u \in Threads \ {t} : call'[u] = call[u]
  BY <1>1, <1>2 DEF Types
<1>6. Types'
  BY <1>1, <1>2, <1>4 DEF Types
<1>7. ~crs[t].pagep /\ pins[t] = {}
  BY <1>1 DEF CursorInv, CursorAt, PinsOf, HashPages, CallOf, Idle
<1>8. CursorAt(t)' /\ SeekAt(t)' /\ CallOf(t)' /\ PinsOf(t)'
  BY <1>1, <1>2, <1>3, <1>4, <1>5, <1>7, SeekInv, FirstPage
<1>. QED BY <1>1, <1>5, <1>6, <1>8, Local

\* What a call looks for, and where.
LEMMA SeekPlace ==
  ASSUME CursorInv, NEW t \in Threads
  PROVE  /\ call[t].bucket \in Int /\ call[t].place \in Int
         /\ call[t].key \in Position /\ call[t].data \in Seq(Int \X Int)
         /\ call[t].does \in {"none", "first", "last", "next", "prev", "get"}
<1>1. call[t] \in Calls
  BY DEF CursorInv, Types
<1>. QED BY <1>1 DEF Calls

LEMMA MissInv ==
  ASSUME CursorInv, NEW t \in Threads, Miss(t)
  PROVE  CursorInv'
<1> DEFINE does == call[t].does
           b == call[t].bucket
           i == call[t].place
<1>1. /\ call[t].stage = "seek" /\ Skip(t)
      /\ table' = table /\ pins' = pins
  BY DEF Miss
<1>2. Types
  BY DEF CursorInv
<1>3. /\ ~crs[t].pagep /\ pins[t] = {}
      /\ b \in Buckets => i \in DOMAIN table[b]
      /\ does = "get" <=> crs[t].status = "none"
  BY <1>1 DEF CursorInv, SeekAt, PinsOf, HashPages, CallOf, Idle
<1>4. b \in Int /\ i \in Int
  BY SeekPlace
<1>5. CASE call' = [call EXCEPT ![t] = NoCall]
           /\ (crs' = crs \/ crs' = [crs EXCEPT ![t] = Nowhere("nomore")])
  <2>1. /\ call'[t] = NoCall
        /\ \A u \in Threads \ {t} : call'[u] = call[u] /\ crs'[u] = crs[u]
    BY <1>2, <1>5 DEF Types
  <2>2. ~crs'[t].pagep
    BY <1>2, <1>3, <1>5, NowhereType DEF Types
  <2>3. Types'
    BY <1>1, <1>2, <1>5, NowhereType, NoCallType DEF Types
  <2>4. CursorAt(t)' /\ SeekAt(t)' /\ CallOf(t)' /\ PinsOf(t)'
    BY <1>1, <1>3, <2>1, <2>2, IdleInv DEF CursorAt
  <2>. QED BY <1>1, <2>1, <2>3, <2>4, Local
<1>6. ASSUME NEW c \in Int, NEW n \in Int, LookAt(t, does, c, n), crs' = crs,
             does \in {"first", "last", "next", "prev", "get"},
             c \in Buckets => n \in DOMAIN table[c]
      PROVE  CursorInv'
  <2>1. /\ call' \in [Threads -> Calls]
        /\ call'[t].stage = "seek" /\ call'[t].does = does
        /\ call'[t].bucket = c /\ call'[t].place = n
        /\ \A u \in Threads \ {t} : call'[u] = call[u]
    BY <1>6, LookAtType
  <2>2. Types'
    BY <1>1, <1>2, <1>6, <2>1 DEF Types
  <2>3. CursorAt(t)' /\ SeekAt(t)' /\ CallOf(t)' /\ PinsOf(t)'
    BY <1>1, <1>3, <1>6, <2>1, SeekInv
  <2>. QED BY <1>1, <1>6, <2>1, <2>2, <2>3, Local
<1>7. CASE does = "get" /\ i < Len(table[b])
  <2>1. LookAt(t, does, b, i + 1) /\ crs' = crs
    BY <1>1, <1>7 DEF Skip
  <2>2. b \in Buckets => i + 1 \in DOMAIN table[b]
    <3>1. b \in Buckets => /\ Len(table[b]) \in Nat
                           /\ DOMAIN table[b] = 1 .. Len(table[b])
      BY <1>2, FirstPage
    <3>. QED BY <1>3, <1>4, <1>7, <3>1
  <2>3. i + 1 \in Int
    BY <1>4
  <2>. QED BY <1>4, <1>6, <1>7, <2>1, <2>2, <2>3
<1>8. CASE does = "get" /\ ~(i < Len(table[b]))
  BY <1>1, <1>5, <1>8 DEF Skip
<1>9. CASE does # "get" /\ Exhausted(does, b)
  BY <1>1, <1>5, <1>9 DEF Skip, NotFound
<1>10. CASE does # "get" /\ ~Exhausted(does, b)
  <2>1. LookAt(t, does, Onward(does, b), 1) /\ crs' = crs
    BY <1>1, <1>10 DEF Skip
  <2>2. Onward(does, b) \in Int
    BY <1>4 DEF Onward
  <2>3. Onward(does, b) \in Buckets => 1 \in DOMAIN table[Onward(does, b)]
    BY <1>2, FirstPage
  <2>4. does \in {"first", "last", "next", "prev", "get"}
    BY <1>1, SeekPlace DEF CursorInv, CallOf
  <2>. QED BY <1>6, <2>1, <2>2, <2>3, <2>4
<1>. QED BY <1>7, <1>8, <1>9, <1>10

\* A thread that looks for a page comes to one: a cursor is on a key of it.
LEMMA LandInv ==
  ASSUME CursorInv, NEW t \in Threads, Land(t)
  PROVE  CursorInv'
<1> DEFINE does == call[t].does
           b == call[t].bucket
           i == call[t].place
           j == FirstIndex(does, b, i)
           k == IF does = "get" THEN call[t].key ELSE <<b, i, j>>
           r == [call[t] EXCEPT !.stage = "data", !.data = DataOf(k)]
           c == [status |-> "ok", pagep |-> TRUE,
                 bucket |-> b, place |-> i, ndx |-> j]
<1>1. /\ call[t].stage = "seek" /\ Hit(t) /\ table' = table
      /\ pins' = [pins EXCEPT ![t] = pins[t] \cup {<<b, i>>}]
      /\ crs' = IF does = "get" THEN crs ELSE [crs EXCEPT ![t] = c]
      /\ call' = [call EXCEPT ![t] = r]
  BY DEF Land
<1>2. Types
  BY DEF CursorInv
<1>3. /\ ~crs[t].pagep /\ pins[t] = {}
      /\ b \in Buckets => i \in DOMAIN table[b]
      /\ does = "get" <=> crs[t].status = "none"
  BY <1>1 DEF CursorInv, SeekAt, PinsOf, HashPages, CallOf, Idle
<1>4. b \in Int /\ i \in Int /\ call[t] \in Calls
  BY <1>2, SeekPlace DEF Types
<1>5. k \in AllKeys /\ (does # "get" => j \in Int)
  <2>1. CASE does = "get"
    BY <1>1, <2>1 DEF Hit
  <2>2. CASE does # "get"
    <3>1. b \in Buckets /\ i \in DOMAIN table[b] /\ table[b][i] > 0
          /\ Entries(b, i) = table[b][i]
      BY <1>1, <1>3, <2>2 DEF Hit, Entries
    <3>2. table[b] \in Seq(Nat)
      BY <1>2, <3>1, CursorAssumption DEF Types
    <3>3. table[b][i] \in Nat
      BY <3>1, <3>2
    <3>4. j \in Int /\ j \in 1 .. table[b][i]
      BY <3>1, <3>3 DEF FirstIndex
    <3>. QED BY <1>2, <1>4, <2>2, <3>1, <3>4, KeyAt
  <2>. QED BY <2>1, <2>2
<1>6. /\ r \in Calls /\ r.stage = "data" /\ r.does = does
      /\ r.bucket = b /\ r.place = i /\ r.data # << >>
  <2>1. DataOf(k) \in Seq(Int \X Int) /\ DataOf(k) # << >>
    BY <1>2, <1>5, DataType
  <2>. HIDE DEF k
  <2>. QED BY <1>4, <2>1 DEF Calls
<1>7. does # "get" => /\ c \in CursorStates /\ c.pagep /\ c.status = "ok"
                      /\ <<c.bucket, c.place>> = <<b, i>>
                      /\ <<c.bucket, c.place, c.ndx>> = k
  BY <1>4, <1>5 DEF CursorStates
<1>. HIDE DEF r, c, k
<1>8. /\ call'[t] = r /\ pins'[t] = {<<b, i>>}
      /\ crs'[t] = IF does = "get" THEN crs[t] ELSE c
      /\ \A u \in Threads \ {t} : /\ call'[u] = call[u] /\ crs'[u] = crs[u]
                                  /\ pins'[u] = pins[u]
  BY <1>1, <1>2, <1>3 DEF Types
<1>9. Types'
  <2>1. <<b, i>> \in Int \X Int
    BY <1>4
  <2>. QED BY <1>1, <1>2, <1>6, <1>7, <2>1 DEF Types
<1>10. CursorAt(t)'
  <2>1. AllKeys' = AllKeys
    BY <1>1 DEF AllKeys
  <2>. QED BY <1>3, <1>5, <1>7, <1>8, <2>1 DEF CursorAt, CursorKey
<1>11. SeekAt(t)' /\ CallOf(t)'
  BY <1>3, <1>6, <1>7, <1>8 DEF SeekAt, CallOf, Idle
<1>12. PinsOf(t)'
  BY <1>3, <1>6, <1>7, <1>8 DEF PinsOf, HashPages, CursorPage
<1>. QED BY <1>1, <1>8, <1>9, <1>10, <1>11, <1>12, Local

LEMMA ClaimDataInv ==
  ASSUME CursorInv, NEW t \in Threads, ClaimData(t)
  PROVE  CursorInv'
<1> DEFINE d == Head(call[t].data)
<1>1. /\ call[t].stage = "data" /\ Free(d)
      /\ pins' = [pins EXCEPT ![t] = pins[t] \cup {d}]
      /\ call' = [call EXCEPT ![t] = [call[t] EXCEPT !.stage = "copy"]]
      /\ table' = table /\ crs' = crs
  BY DEF ClaimData
<1>2. Types /\ call[t] \in Calls
  BY DEF CursorInv, Types
<1>3. d \in Int \X Int
  <2>1. call[t].data # << >>
    BY <1>1 DEF CursorInv, CallOf
  <2>. QED BY <1>2, <2>1 DEF Calls
<1>4. d \notin pins[t] /\ pins[t] = HashPages(t)
  BY <1>1 DEF Free, CursorInv, PinsOf
<1>5. /\ [call[t] EXCEPT !.stage = "copy"] \in Calls
      /\ call'[t] = [call[t] EXCEPT !.stage = "copy"]
      /\ call'[t].stage = "copy" /\ call'[t].does = call[t].does
      /\ call'[t].bucket = call[t].bucket /\ call'[t].place = call[t].place
      /\ call'[t].data = call[t].data
      /\ \A u \in Threads \ {t} : call'[u] = call[u]
  BY <1>1, <1>2 DEF Types, Calls
<1>. HIDE DEF d
<1>6. /\ pins'[t] = pins[t] \cup {d}
      /\ \A u \in Threads \ {t} : pins'[u] = pins[u]
  BY <1>1, <1>2 DEF Types
<1>7. Types'
  BY <1>1, <1>2, <1>3, <1>5 DEF Types
<1>8. CursorAt(t)' /\ SeekAt(t)' /\ CallOf(t)'
  BY <1>1, <1>5 DEF CursorInv, CursorAt, CursorKey, AllKeys, SeekAt, CallOf, Idle
<1>9. PinsOf(t)'
  <2>1. HashPages(t)' = HashPages(t)
    BY <1>1, <1>5 DEF HashPages, CursorPage
  <2>. QED BY <1>4, <1>5, <1>6, <2>1 DEF PinsOf, d
<1>. QED BY <1>1, <1>5, <1>6, <1>7, <1>8, <1>9, Local

\* A data page is given back: the hash page stays, and the call goes on with
\* the next data page, with giving its hash page back, or is over.
LEMMA CopyDataInv ==
  ASSUME CursorInv, NEW t \in Threads, CopyData(t)
  PROVE  CursorInv'
<1> DEFINE d == Head(call[t].data)
           rest == Tail(call[t].data)
           get == call[t].does = "get"
           r == [call[t] EXCEPT !.data = rest,
                   !.stage = IF rest = << >> THEN "put" ELSE "data"]
           over == rest = << >> /\ ~get
<1>1. /\ call[t].stage = "copy" /\ table' = table /\ crs' = crs
      /\ pins' = [pins EXCEPT ![t] = pins[t] \ {d}]
      /\ call' = [call EXCEPT ![t] = IF over THEN NoCall ELSE r]
  BY DEF CopyData
<1>2. Types /\ call[t] \in Calls
  BY DEF CursorInv, Types
<1>3. d \notin HashPages(t) /\ pins[t] = HashPages(t) \cup {d}
  BY <1>1 DEF CursorInv, PinsOf
<1>4. rest \in Seq(Int \X Int)
  <2>1. call[t].data # << >> /\ call[t].data \in Seq(Int \X Int)
    BY <1>1, <1>2 DEF CursorInv, CallOf, Calls
  <2>. QED BY <2>1
<1>5. /\ r \in Calls /\ r.does = call[t].does /\ r.data = rest
      /\ r.bucket = call[t].bucket /\ r.place = call[t].place
      /\ r.stage = IF rest = << >> THEN "put" ELSE "data"
  <2>. HIDE DEF rest
  <2>. QED BY <1>2, <1>4 DEF Calls
<1>. HIDE DEF r, d, rest
<1>6. /\ call'[t] = IF over THEN NoCall ELSE r
      /\ pins'[t] = HashPages(t)
      /\ \A u \in Threads \ {t} : call'[u] = call[u] /\ pins'[u] = pins[u]
  BY <1>1, <1>2, <1>3 DEF Types
<1>7. Types'
  BY <1>1, <1>2, <1>5, NoCallType DEF Types
<1>8. CursorAt(t)'
  BY <1>1 DEF CursorInv, CursorAt, CursorKey, AllKeys
<1>9. /\ get <=> crs[t].status = "none"
      /\ ~get => crs[t].pagep
  BY <1>1 DEF CursorInv, CallOf, Idle
<1>10. CASE over
  <2>1. HashPages(t) = {CursorPage(t)} /\ CursorPage(t)' = CursorPage(t)
    BY <1>1, <1>9, <1>10 DEF HashPages, CursorPage
  <2>2. SeekAt(t)' /\ CallOf(t)' /\ PinsOf(t)'
    BY <1>1, <1>6, <1>8, <1>9, <1>10, <2>1, IdleInv
  <2>. QED BY <1>1, <1>6, <1>7, <1>8, <2>2, Local
<1>11. CASE ~over
  <2>1. call'[t] = r
    BY <1>6, <1>11
  <2>2. SeekAt(t)' /\ CallOf(t)'
    BY <1>1, <1>5, <1>9, <1>11, <2>1 DEF SeekAt, CallOf, Idle
  <2>3. HashPages(t)' = HashPages(t)
    BY <1>1, <1>5, <2>1 DEF HashPages, CursorPage
  <2>4. PinsOf(t)'
    BY <1>5, <1>6, <2>1, <2>3 DEF PinsOf
  <2>. QED BY <1>1, <1>6, <1>7, <1>8, <2>2, <2>4, Local
<1>. QED BY <1>10, <1>11

LEMMA KeyOnlyInv ==
  ASSUME CursorInv, NEW t \in Threads, KeyOnly(t)
  PROVE  CursorInv'
<1>1. /\ call[t].stage = "data" /\ call[t].does # "get"
      /\ call' = [call EXCEPT ![t] = NoCall]
      /\ table' = table /\ pins' = pins /\ crs' = crs
  BY DEF KeyOnly
<1>2. Types
  BY DEF CursorInv
<1>3. call'[t] = NoCall /\ \A u \in Threads \ {t} : call'[u] = call[u]
  BY <1>1, <1>2 DEF Types
<1>4. Types'
  BY <1>1, <1>2, NoCallType DEF Types
<1>5. CursorAt(t)'
  BY <1>1 DEF CursorInv, CursorAt, CursorKey, AllKeys
<1>6. crs[t].pagep /\ pins[t] = {CursorPage(t)} /\ CursorPage(t)' = CursorPage(t)
  BY <1>1 DEF CursorInv, CallOf, PinsOf, HashPages, CursorPage
<1>7. SeekAt(t)' /\ CallOf(t)' /\ PinsOf(t)'
  BY <1>1, <1>3, <1>5, <1>6, IdleInv
<1>. QED BY <1>1, <1>3, <1>4, <1>5, <1>7, Local

LEMMA PutItemInv ==
  ASSUME CursorInv, NEW t \in Threads, PutItem(t)
  PROVE  CursorInv'
<1>1. /\ call[t].stage = "put"
      /\ pins' = [pins EXCEPT ![t] = pins[t] \ {<<call[t].bucket, call[t].place>>}]
      /\ call' = [call EXCEPT ![t] = NoCall]
      /\ table' = table /\ crs' = crs
  BY DEF PutItem
<1>2. Types
  BY DEF CursorInv
<1>3. /\ call[t].does = "get" /\ crs[t].status = "none" /\ ~crs[t].pagep
      /\ pins[t] = {<<call[t].bucket, call[t].place>>}
  BY <1>1 DEF CursorInv, CallOf, CursorAt, PinsOf, HashPages
<1>4. /\ call'[t] = NoCall /\ pins'[t] = {}
      /\ \A u \in Threads \ {t} : call'[u] = call[u] /\ pins'[u] = pins[u]
  BY <1>1, <1>2, <1>3 DEF Types
<1>5. Types'
  BY <1>1, <1>2, NoCallType DEF Types
<1>6. CursorAt(t)'
  BY <1>1, <1>3 DEF CursorAt
<1>7. SeekAt(t)' /\ CallOf(t)' /\ PinsOf(t)'
  BY <1>1, <1>3, <1>4, <1>6, IdleInv
<1>. QED BY <1>1, <1>4, <1>5, <1>6, <1>7, Local

LEMMA InitInv == Init => CursorInv
<1> SUFFICES ASSUME Init PROVE CursorInv
  OBVIOUS
<1>1. Types
  BY NowhereType, NoCallType DEF Init, Types
<1>2. ASSUME NEW t \in Threads
      PROVE  CursorAt(t) /\ SeekAt(t) /\ CallOf(t) /\ PinsOf(t)
  <2>1. crs[t] = Nowhere("none") /\ call[t] = NoCall /\ pins[t] = {}
    BY DEF Init
  <2>. QED BY <2>1, NowhereType, NoCallType
           DEF CursorAt, SeekAt, CallOf, PinsOf, HashPages, Idle
<1>. QED BY <1>1, <1>2 DEF CursorInv

LEMMA NextInv == CursorInv /\ [Next]_vars => CursorInv'
<1> SUFFICES ASSUME CursorInv, [Next]_vars PROVE CursorInv'
  OBVIOUS
<1>1. CASE UNCHANGED vars
  <2>1. table' = table /\ pins' = pins /\ crs' = crs /\ call' = call
    BY <1>1 DEF vars
  <2>2. Types'
    BY <2>1 DEF CursorInv, Types
  <2>3. ASSUME NEW t \in Threads
        PROVE  (CursorAt(t) /\ SeekAt(t) /\ CallOf(t) /\ PinsOf(t))'
    <3>1. CursorAt(t) /\ SeekAt(t) /\ CallOf(t) /\ PinsOf(t)
      BY DEF CursorInv
    <3>2. AllKeys' = AllKeys /\ HashPages(t)' = HashPages(t)
      BY <2>1 DEF AllKeys, HashPages, CursorPage
    <3>. QED BY <2>1, <3>1, <3>2
             DEF CursorAt, CursorKey, SeekAt, CallOf, Idle, PinsOf
  <2>. QED BY <2>2, <2>3 DEF CursorInv
<1>2. ASSUME NEW t \in Threads,
             \/ NewCursor(t) \/ CloseCursor(t)
             \/ \E does \in {"first", "last"} : Start(t, does)
             \/ \E does \in {"next", "prev"} : Step(t, does) \/ StepOff(t, does)
             \/ \E k \in Lookups : Get(t, k)
             \/ Claims(t) \/ KeyOnly(t) \/ CopyData(t) \/ PutItem(t)
      PROVE  CursorInv'
  BY <1>2, NewCursorInv, CloseCursorInv, StartInv, StepInv, StepOffInv, GetInv,
     MissInv, LandInv, ClaimDataInv, CopyDataInv, KeyOnlyInv, PutItemInv
     DEF Claims
<1>. QED BY <1>1, <1>2 DEF Next

\* What a thread has claimed is a finite set of pages.
LEMMA FewPins ==
  ASSUME CursorInv, NEW t \in Threads
  PROVE  IsFiniteSet(pins[t])
<1>1. IsFiniteSet(HashPages(t))
  BY FS_EmptySet, FS_Singleton DEF HashPages
<1>2. IsFiniteSet(HashPages(t) \cup {Head(call[t].data)})
  BY <1>1, FS_AddElement
<1>. QED BY <1>1, <1>2 DEF CursorInv, PinsOf

\* For any table, any data, and any number of threads: a cursor is always on
\* a key of the table, and between two calls a thread has the page of its
\* cursor and no other.  The page of a get, the data pages, and the pages a
\* cursor left are all given back, on every way through a call.
THEOREM CursorsKeepOnlyTheirPage == Spec => [](TypeOK /\ PinsAreTheCursors)
<1>1. Init => CursorInv
  BY InitInv
<1>2. CursorInv /\ [Next]_vars => CursorInv'
  BY NextInv
<1>3. CursorInv => TypeOK /\ PinsAreTheCursors
  <2> SUFFICES ASSUME CursorInv PROVE TypeOK /\ PinsAreTheCursors
    OBVIOUS
  <2>1. PinsAreTheCursors
    BY DEF CursorInv, PinsOf, HashPages, CallOf, Idle, PinsAreTheCursors
  <2>2. ASSUME NEW t \in Threads, crs[t].pagep
        PROVE  /\ crs[t].bucket \in Buckets
               /\ crs[t].place \in DOMAIN table[crs[t].bucket]
               /\ CursorKey(t) \in AllKeys
    BY <2>2, CursorPlace DEF CursorInv, CursorAt
  <2>3. ASSUME NEW t \in Threads
        PROVE  /\ crs[t].status \in {"none", "clean", "ok", "nomore"}
               /\ call[t].stage \in {"idle", "seek", "data", "copy", "put"}
    BY DEF CursorInv, Types, CursorStates, Calls
  <2>. QED BY <2>1, <2>2, <2>3, FewPins DEF TypeOK, CursorInv, Types
<1>. QED BY <1>1, <1>2, <1>3, PTL DEF Spec


-----------------------------------------------------------------------------
(***************************************************************************)
(* SweepIsComplete speaks of a cursor at its end.  SweepAt says what the   *)
(* cursor returned at every step on the way: the keys of the pages and     *)
(* places behind it, in the order in which the code walks the table, each  *)
(* once.  The order of the buckets and of the keys on a page is turned     *)
(* round from LAST with PREV; the pages of a chain are walked from the     *)
(* bucket page on, both ways.                                              *)
(***************************************************************************)
\* The keys a sweep has passed when it comes to page i of bucket b ...
PagesBefore(up, b, i) ==
  {k \in AllKeys : \/ IF up THEN k[1] < b ELSE k[1] > b
                   \/ k[1] = b /\ k[2] < i}

\* ... and to index j of that page.
KeysBefore(up, b, i, j) ==
  {k \in AllKeys : \/ k \in PagesBefore(up, b, i)
                   \/ /\ k[1] = b /\ k[2] = i
                      /\ IF up THEN k[3] < j ELSE k[3] > j}

\* The keys a sweep has returned: those it passed, and the one it is on when
\* the call that moved it there has returned.
Covered(t) ==
  LET up   == seen[t].way = "first"
      past == KeysBefore(up, crs[t].bucket, crs[t].place, crs[t].ndx)
  IN  IF call[t].stage = "seek"
      THEN PagesBefore(up, call[t].bucket, call[t].place)
      ELSE IF ~crs[t].pagep THEN AllKeys
      ELSE IF Idle(t) THEN past \cup {CursorKey(t)} ELSE past

SeenType ==
  seen \in [Threads -> [way : {"none", "first", "last", "mixed"},
                        keys : Seq(Position)]]

\* A call looks at a bucket of the table; FIRST may look at the one behind.
SeekIn(t) ==
  call[t].stage = "seek" /\ call[t].does # "get" =>
    \/ call[t].bucket \in Buckets
    \/ call[t].bucket = MaxBucket + 1 /\ call[t].does = "first"

\* A sweep goes on in the direction it began with.
Sweeping(t) == seen[t].way \in {"first", "last"}

WayOf(t) ==
  /\ seen[t].way # "none" => crs[t].status # "none"
  /\ Sweeping(t) /\ ~Idle(t) =>
       (call[t].does \in {"first", "next"} <=> seen[t].way = "first")

CoveredOnce(t) ==
  Sweeping(t) => /\ IsInjective(seen[t].keys)
                 /\ Range(seen[t].keys) = Covered(t)

SweepAt(t) == SeekIn(t) /\ WayOf(t) /\ CoveredOnce(t)

SweepInv == SeenType /\ \A t \in Threads : SweepAt(t)


\* What a key of the table is made of.
LEMMA KeyParts ==
  ASSUME Types, NEW k \in AllKeys
  PROVE  /\ k = <<k[1], k[2], k[3]>>
         /\ k[1] \in Buckets /\ k[1] \in Int /\ k[2] \in Int /\ k[3] \in Int
         /\ k[2] \in 1 .. Len(table[k[1]])
         /\ k[3] \in 1 .. table[k[1]][k[2]]
<1>1. PICK b \in Buckets : \E i \in DOMAIN table[b] :
              \E j \in 1 .. table[b][i] : k = <<b, i, j>>
  BY DEF AllKeys
<1>2. PICK i \in DOMAIN table[b] : \E j \in 1 .. table[b][i] : k = <<b, i, j>>
  BY <1>1
<1>3. PICK j \in 1 .. table[b][i] : k = <<b, i, j>>
  BY <1>2
<1>4. DOMAIN table[b] = 1 .. Len(table[b]) /\ Len(table[b]) \in Nat
  BY FirstPage
<1>5. b \in Int /\ i \in Int /\ j \in Int
  BY <1>4, CursorAssumption DEF Buckets
<1>. QED BY <1>3, <1>4, <1>5

\* Nothing is before the first page that FIRST and LAST look at.
LEMMA NothingBefore ==
  ASSUME Types, NEW up \in BOOLEAN
  PROVE  PagesBefore(up, IF up THEN 0 ELSE MaxBucket, 1) = {}
<1>1. ASSUME NEW k \in AllKeys
      PROVE  k \notin PagesBefore(up, IF up THEN 0 ELSE MaxBucket, 1)
  <2>1. k[1] \in 0 .. MaxBucket /\ k[2] \in 1 .. Len(table[k[1]])
    BY KeyParts DEF Buckets
  <2>2. Len(table[k[1]]) \in Nat
    BY KeyParts, FirstPage
  <2>. QED BY <2>1, <2>2, CursorAssumption DEF PagesBefore
<1>. QED BY <1>1 DEF PagesBefore

\* A page with a key in place j; the index a cursor gets when it comes to it.
LEMMA AtTheEdge ==
  ASSUME Types, NEW b \in Buckets, NEW i \in DOMAIN table[b],
         NEW does \in {"first", "last", "next", "prev"}
  PROVE  KeysBefore(does \in {"first", "next"}, b, i, FirstIndex(does, b, i))
           = PagesBefore(does \in {"first", "next"}, b, i)
<1> DEFINE up == does \in {"first", "next"}
<1>1. ASSUME NEW k \in AllKeys, k[1] = b, k[2] = i
      PROVE  ~(IF up THEN k[3] < FirstIndex(does, b, i)
                     ELSE k[3] > FirstIndex(does, b, i))
  <2>1. k[3] \in 1 .. table[b][i]
    BY <1>1, KeyParts
  <2>2. table[b][i] \in Nat
    BY CursorAssumption DEF Types
  <2>. QED BY <2>1, <2>2 DEF FirstIndex, Entries
<1>. QED BY <1>1 DEF KeysBefore, PagesBefore

\* The cursor moves on to the key beside its own.
LEMMA OneKeyOn ==
  ASSUME Types, NEW b \in Int, NEW i \in Int, NEW j \in Int,
         <<b, i, j>> \in AllKeys, NEW up \in BOOLEAN
  PROVE  KeysBefore(up, b, i, IF up THEN j + 1 ELSE j - 1)
           = KeysBefore(up, b, i, j) \cup {<<b, i, j>>}
<1> DEFINE h == IF up THEN j + 1 ELSE j - 1
<1>1. ASSUME NEW k \in AllKeys
      PROVE  k \in KeysBefore(up, b, i, h) <=>
               k \in KeysBefore(up, b, i, j) \/ k = <<b, i, j>>
  <2>1. k = <<k[1], k[2], k[3]>> /\ k[3] \in Int
    BY KeyParts
  <2>2. k = <<b, i, j>> <=> k[1] = b /\ k[2] = i /\ k[3] = j
    BY <2>1
  <2>3. (IF up THEN k[3] < h ELSE k[3] > h)
          <=> (IF up THEN k[3] < j ELSE k[3] > j) \/ k[3] = j
    BY <2>1
  <2>. HIDE DEF h
  <2>. QED BY <2>2, <2>3 DEF KeysBefore
<1>. HIDE DEF h
<1>2. KeysBefore(up, b, i, h) \subseteq AllKeys
  BY DEF KeysBefore
<1>3. KeysBefore(up, b, i, j) \cup {<<b, i, j>>} \subseteq AllKeys
  BY DEF KeysBefore
<1>4. KeysBefore(up, b, i, h) = KeysBefore(up, b, i, j) \cup {<<b, i, j>>}
  BY <1>1, <1>2, <1>3
<1>. QED BY <1>4 DEF h

\* ... or is on the last one: all keys of the page are passed.
LEMMA PageDone ==
  ASSUME Types, NEW b \in Int, NEW i \in Int, NEW j \in Int,
         <<b, i, j>> \in AllKeys, NEW up \in BOOLEAN,
         (IF up THEN j + 1 ELSE j - 1) \notin 1 .. Entries(b, i)
  PROVE  KeysBefore(up, b, i, j) \cup {<<b, i, j>>} = PagesBefore(up, b, i + 1)
<1>0. b \in Buckets /\ i \in DOMAIN table[b] /\ j \in 1 .. table[b][i]
  BY KeyAt
<1>1. ASSUME NEW k \in AllKeys
      PROVE  k \in PagesBefore(up, b, i + 1) <=>
               k \in KeysBefore(up, b, i, j) \/ k = <<b, i, j>>
  <2>1. k = <<k[1], k[2], k[3]>> /\ k[3] \in Int /\ k[2] \in Int
        /\ k[3] \in 1 .. table[k[1]][k[2]]
    BY KeyParts
  <2>2. k = <<b, i, j>> <=> k[1] = b /\ k[2] = i /\ k[3] = j
    BY <2>1
  <2>3. k[2] < i + 1 <=> k[2] < i \/ k[2] = i
    BY <2>1
  <2>4. table[b][i] \in Nat
    BY <1>0, CursorAssumption DEF Types
  <2>5. k[1] = b /\ k[2] = i =>
          (IF up THEN k[3] < j ELSE k[3] > j) \/ k[3] = j
    <3>1. SUFFICES ASSUME k[1] = b, k[2] = i
                   PROVE  (IF up THEN k[3] < j ELSE k[3] > j) \/ k[3] = j
      OBVIOUS
    <3>2. k[3] \in 1 .. table[b][i]
      BY <2>1, <3>1
    <3>. QED BY <1>0, <2>4, <3>2 DEF Entries
  <2>. QED BY <2>2, <2>3, <2>5 DEF KeysBefore, PagesBefore
<1>2. PagesBefore(up, b, i + 1) \subseteq AllKeys
  BY DEF PagesBefore
<1>3. KeysBefore(up, b, i, j) \cup {<<b, i, j>>} \subseteq AllKeys
  BY DEF KeysBefore
<1>. QED BY <1>1, <1>2, <1>3

\* Behind the last page of a chain comes the next bucket of the way.
LEMMA BucketDone ==
  ASSUME Types, NEW b \in Buckets, NEW up \in BOOLEAN
  PROVE  PagesBefore(up, b, Len(table[b]) + 1)
           = PagesBefore(up, IF up THEN b + 1 ELSE b - 1, 1)
<1>1. ASSUME NEW k \in AllKeys
      PROVE  k \in PagesBefore(up, b, Len(table[b]) + 1) <=>
               k \in PagesBefore(up, IF up THEN b + 1 ELSE b - 1, 1)
  <2>1. k[1] \in Int /\ k[2] \in Int /\ k[2] \in 1 .. Len(table[k[1]])
        /\ k[1] \in Buckets
    BY KeyParts
  <2>2. Len(table[b]) \in Nat /\ Len(table[k[1]]) \in Nat /\ b \in Int
    BY <2>1, FirstPage, CursorAssumption DEF Buckets
  <2>3. k[1] = b => k[2] < Len(table[b]) + 1
    BY <2>1, <2>2
  <2>4. ~(k[2] < 1)
    BY <2>1, <2>2
  <2>5. (IF up THEN k[1] < b ELSE k[1] > b) \/ k[1] = b
          <=> (IF up THEN k[1] < b + 1 ELSE k[1] > b - 1)
    BY <2>1, <2>2
  <2>. QED BY <2>3, <2>4, <2>5 DEF PagesBefore
<1>. QED BY <1>1 DEF PagesBefore

\* Behind the last bucket of the way there is nothing.
LEMMA AllDone ==
  ASSUME Types, NEW up \in BOOLEAN
  PROVE  PagesBefore(up, IF up THEN MaxBucket + 1 ELSE -1, 1) = AllKeys
<1>1. ASSUME NEW k \in AllKeys
      PROVE  k \in PagesBefore(up, IF up THEN MaxBucket + 1 ELSE -1, 1)
  <2>1. k[1] \in 0 .. MaxBucket
    BY KeyParts DEF Buckets
  <2>. QED BY <2>1, CursorAssumption DEF PagesBefore
<1>. QED BY <1>1 DEF PagesBefore

\* A page without keys is its bucket's only one.
LEMMA EmptyPage ==
  ASSUME Types, NEW b \in Buckets, NEW i \in DOMAIN table[b], ~(table[b][i] > 0),
         NEW up \in BOOLEAN
  PROVE  PagesBefore(up, b, i) = PagesBefore(up, IF up THEN b + 1 ELSE b - 1, 1)
<1>1. table[b] \in Seq(Nat) /\ (0 \in Range(table[b]) => Len(table[b]) = 1)
  BY CursorAssumption DEF Types
<1>2. table[b][i] = 0 /\ i \in 1 .. Len(table[b])
  BY <1>1
<1>3. 0 \in Range(table[b])
  BY <1>2 DEF Range
<1>4. Len(table[b]) = 1 /\ i = 1
  BY <1>1, <1>2, <1>3
<1>5. ASSUME NEW k \in AllKeys
      PROVE  k \in PagesBefore(up, b, 1) <=> k \in PagesBefore(up, b, 2)
  <2>1. k[2] \in Int /\ k[2] \in 1 .. Len(table[k[1]])
        /\ k[3] \in 1 .. table[k[1]][k[2]]
    BY KeyParts
  <2>2. k[1] # b
    BY <1>2, <1>4, <2>1
  <2>. QED BY <2>2 DEF PagesBefore
<1>6. PagesBefore(up, b, 1) = PagesBefore(up, b, 2)
  BY <1>5 DEF PagesBefore
<1>7. PagesBefore(up, b, Len(table[b]) + 1)
        = PagesBefore(up, IF up THEN b + 1 ELSE b - 1, 1)
  BY BucketDone
<1>8. Len(table[b]) + 1 = 2
  BY <1>4
<1>. QED BY <1>4, <1>6, <1>7, <1>8


\* What the keys returned are after a step, by the stage of the call.
LEMMA CoveredThen ==
  ASSUME table' = table, NEW t \in Threads
  PROVE  /\ call'[t].stage = "seek" =>
              Covered(t)' = PagesBefore(seen'[t].way = "first",
                                        call'[t].bucket, call'[t].place)
         /\ call'[t].stage # "seek" /\ ~crs'[t].pagep => Covered(t)' = AllKeys
         /\ call'[t].stage \in {"data", "copy"} /\ crs'[t].pagep =>
              Covered(t)' = KeysBefore(seen'[t].way = "first", crs'[t].bucket,
                                       crs'[t].place, crs'[t].ndx)
         /\ call'[t].stage = "idle" /\ crs'[t].pagep =>
              Covered(t)' = KeysBefore(seen'[t].way = "first", crs'[t].bucket,
                                       crs'[t].place, crs'[t].ndx)
                              \cup {CursorKey(t)'}
<1>1. AllKeys' = AllKeys
  BY DEF AllKeys
<1>. QED BY <1>1 DEF Covered, KeysBefore, PagesBefore, Idle

LEMMA CoveredNow ==
  ASSUME NEW t \in Threads
  PROVE  /\ call[t].stage = "seek" =>
              Covered(t) = PagesBefore(seen[t].way = "first",
                                       call[t].bucket, call[t].place)
         /\ call[t].stage \in {"data", "copy"} /\ crs[t].pagep =>
              Covered(t) = KeysBefore(seen[t].way = "first", crs[t].bucket,
                                      crs[t].place, crs[t].ndx)
         /\ Idle(t) /\ crs[t].pagep =>
              Covered(t) = KeysBefore(seen[t].way = "first", crs[t].bucket,
                                      crs[t].place, crs[t].ndx)
                             \cup {CursorKey(t)}
  BY DEF Covered, Idle

\* A step of thread t leaves the sweeps of the others alone.
LEMMA SweepLocal ==
  ASSUME SweepInv, NEW t \in Threads, table' = table, SeenType',
         \A u \in Threads \ {t} : /\ call'[u] = call[u]
                                  /\ crs'[u] = crs[u]
                                  /\ seen'[u] = seen[u],
         SeekIn(t)', WayOf(t)', CoveredOnce(t)'
  PROVE  SweepInv'
<1>1. ASSUME NEW u \in Threads \ {t}
      PROVE  SweepAt(u)'
  <2>1. SweepAt(u)
    BY DEF SweepInv
  <2>2. AllKeys' = AllKeys
    BY DEF AllKeys
  <2>3. Covered(u)' = Covered(u)
    <3>1. call'[u] = call[u] /\ crs'[u] = crs[u] /\ seen'[u] = seen[u]
          /\ CursorKey(u)' = CursorKey(u)
      BY DEF CursorKey
    <3>. QED BY <2>2, <3>1 DEF Covered, KeysBefore, PagesBefore, Idle
  <2>4. SeekIn(u)' /\ WayOf(u)'
    BY <2>1 DEF SweepAt, SeekIn, WayOf, Sweeping, Idle
  <2>5. CoveredOnce(u)'
    BY <2>1, <2>3 DEF SweepAt, CoveredOnce, Sweeping
  <2>. QED BY <2>4, <2>5 DEF SweepAt
<1>. QED BY <1>1 DEF SweepInv, SweepAt

\* A thread without a cursor does not sweep.
LEMMA NoSweep ==
  ASSUME CursorInv, SweepInv, NEW t \in Threads,
         crs[t].status = "none" \/ call[t].does = "get"
  PROVE  ~Sweeping(t) /\ seen[t].way = "none" /\ crs[t].status = "none"
<1>1. crs[t].status = "none"
  BY DEF CursorInv, CallOf
<1>2. seen[t].way = "none"
  BY <1>1 DEF SweepInv, SweepAt, WayOf
<1>. QED BY <1>1, <1>2 DEF Sweeping

\* A step that leaves the history of a thread alone, which does not sweep.
LEMMA StillNoSweep ==
  ASSUME CursorInv, SweepInv, NEW t \in Threads, table' = table, seen' = seen,
         crs[t].status = "none" \/ call[t].does = "get",
         \A u \in Threads \ {t} : call'[u] = call[u] /\ crs'[u] = crs[u],
         call'[t].stage = "seek" => call'[t].does = "get"
  PROVE  SweepInv'
<1>1. seen'[t].way = "none"
  BY NoSweep
<1>2. SeekIn(t)' /\ WayOf(t)' /\ CoveredOnce(t)'
  BY <1>1 DEF SeekIn, WayOf, CoveredOnce, Sweeping
<1>3. SeenType'
  BY DEF SweepInv, SeenType
<1>. QED BY <1>2, <1>3, SweepLocal

LEMMA NoSweepSteps ==
  ASSUME CursorInv, SweepInv, NEW t \in Threads,
         NewCursor(t) \/ (\E k \in Lookups : Get(t, k)) \/ PutItem(t)
  PROVE  SweepInv'
<1>0. /\ call \in [Threads -> Calls] /\ crs \in [Threads -> CursorStates]
  BY DEF CursorInv, Types
<1>1. CASE NewCursor(t)
  <2>1. /\ crs[t].status = "none" /\ Idle(t) /\ table' = table /\ seen' = seen
        /\ call' = call /\ crs' = [crs EXCEPT ![t] = Nowhere("clean")]
    BY <1>1 DEF NewCursor
  <2>. QED BY <1>0, <2>1, StillNoSweep DEF Idle
<1>2. ASSUME NEW k \in Lookups, Get(t, k) PROVE SweepInv'
  <2>1. /\ crs[t].status = "none" /\ table' = table /\ seen' = seen
        /\ crs' = crs
        /\ call' = [call EXCEPT ![t] =
                      [stage |-> "seek", does |-> "get", bucket |-> k[1],
                       place |-> 1, key |-> k, data |-> << >>]]
    BY <1>2 DEF Get
  <2>. QED BY <1>0, <2>1, StillNoSweep
<1>3. CASE PutItem(t)
  <2>1. /\ call[t].stage = "put" /\ table' = table /\ seen' = seen
        /\ crs' = crs /\ call' = [call EXCEPT ![t] = NoCall]
    BY <1>3 DEF PutItem
  <2>2. call[t].does = "get"
    BY <2>1 DEF CursorInv, CallOf
  <2>. QED BY <1>0, <2>1, <2>2, NoCallType, StillNoSweep
<1>. QED BY <1>1, <1>2, <1>3

LEMMA NoKeys ==
  /\ << >> \in Seq(Position) /\ IsInjective(<< >>) /\ Range(<< >>) = {}
  BY DEF IsInjective, Range

LEMMA CloseCursorSweep ==
  ASSUME CursorInv, SweepInv, NEW t \in Threads, CloseCursor(t)
  PROVE  SweepInv'
<1> DEFINE n == [way |-> "none", keys |-> << >>]
<1>1. /\ table' = table /\ call' = call /\ Idle(t)
      /\ crs' = [crs EXCEPT ![t] = Nowhere("none")]
      /\ seen' = [seen EXCEPT ![t] = n]
  BY DEF CloseCursor
<1>2. SeenType /\ crs \in [Threads -> CursorStates]
  BY DEF SweepInv, CursorInv, Types
<1>3. seen'[t] = n /\ SeenType'
      /\ \A u \in Threads \ {t} : seen'[u] = seen[u] /\ crs'[u] = crs[u]
  BY <1>1, <1>2, NoKeys DEF SeenType
<1>4. SeekIn(t)' /\ WayOf(t)' /\ CoveredOnce(t)'
  BY <1>1, <1>3 DEF SeekIn, WayOf, CoveredOnce, Sweeping, Idle
<1>. QED BY <1>1, <1>3, <1>4, SweepLocal

LEMMA StartSweep ==
  ASSUME CursorInv, SweepInv, NEW t \in Threads, NEW does \in {"first", "last"},
         Start(t, does)
  PROVE  SweepInv'
<1> DEFINE n == [way |-> does, keys |-> << >>]
           b == IF does = "first" THEN 0 ELSE MaxBucket
<1>1. /\ table' = table /\ Idle(t) /\ PutPage(t) /\ LookAt(t, does, b, 1)
      /\ seen' = [seen EXCEPT ![t] = n] /\ crs[t].status # "none"
  BY DEF Start
<1>2. b \in Buckets /\ b \in Int
  BY CursorAssumption DEF Buckets
<1>3. SeenType /\ Types
  BY DEF SweepInv, CursorInv
<1>4. /\ seen'[t].way = does /\ seen'[t].keys = << >> /\ SeenType'
      /\ \A u \in Threads \ {t} : seen'[u] = seen[u]
  BY <1>1, <1>3, NoKeys DEF SeenType
<1>5. PagesBefore(does = "first", b, 1) = {}
  BY <1>3, NothingBefore
<1>. HIDE DEF b
<1>6. /\ call'[t].stage = "seek" /\ call'[t].does = does
      /\ call'[t].bucket = b /\ call'[t].place = 1
      /\ \A u \in Threads \ {t} : call'[u] = call[u]
  BY <1>1, <1>2, LookAtType
<1>7. crs'[t].status # "none" /\ \A u \in Threads \ {t} : crs'[u] = crs[u]
  BY <1>1, PutPageType
<1>8. SeekIn(t)' /\ WayOf(t)'
  BY <1>2, <1>4, <1>6, <1>7 DEF SeekIn, WayOf, Sweeping, Idle, Buckets
<1>9. Covered(t)' = {}
  BY <1>1, <1>4, <1>5, <1>6, CoveredThen
<1>10. CoveredOnce(t)'
  BY <1>4, <1>9, NoKeys DEF CoveredOnce
<1>. QED BY <1>1, <1>4, <1>6, <1>7, <1>8, <1>10, SweepLocal


\* The history a NEXT or PREV goes on with.
LEMMA WayGoesOn ==
  ASSUME SweepInv, NEW t \in Threads, NEW does \in {"next", "prev"},
         seen' = [seen EXCEPT ![t] = Way(t, does)]
  PROVE  /\ SeenType' /\ \A u \in Threads \ {t} : seen'[u] = seen[u]
         /\ seen'[t].way \in {"first", "last"} =>
              /\ seen'[t] = seen[t]
              /\ does \in {"first", "next"} <=> seen[t].way = "first"
<1> DEFINE m == [way |-> "mixed", keys |-> << >>]
           n == IF does = "next" THEN "first" ELSE "last"
<1>1. SeenType
  BY DEF SweepInv
<1>2. seen'[t] = (IF seen[t].way = n THEN seen[t] ELSE m)
      /\ \A u \in Threads \ {t} : seen'[u] = seen[u]
  BY <1>1 DEF SeenType, Way
<1>3. SeenType'
  <2>1. m \in [way : {"none", "first", "last", "mixed"}, keys : Seq(Position)]
    BY NoKeys
  <2>. QED BY <1>1, <2>1 DEF SeenType, Way
<1>4. m.way = "mixed"
  OBVIOUS
<1>. HIDE DEF m
<1>5. CASE seen[t].way = n
  <2>1. does \in {"first", "next"} <=> seen[t].way = "first"
    BY <1>5
  <2>. HIDE DEF n
  <2>. QED BY <1>2, <1>3, <1>5, <2>1
<1>6. CASE seen[t].way # n
  <2>1. seen'[t].way = "mixed"
    BY <1>2, <1>4, <1>6
  <2>. QED BY <1>2, <1>3, <2>1
<1>. QED BY <1>5, <1>6

LEMMA StepSweep ==
  ASSUME CursorInv, SweepInv, NEW t \in Threads, NEW does \in {"next", "prev"},
         Step(t, does)
  PROVE  SweepInv'
<1> DEFINE b == crs[t].bucket
           i == crs[t].place
           j == crs[t].ndx
           h == Beside(t, does)
           r == [NoCall EXCEPT !.stage = "data", !.does = does,
                               !.data = DataOf(<<b, i, h>>)]
           up == does \in {"first", "next"}
<1>1. /\ Idle(t) /\ crs[t].pagep /\ table' = table
      /\ crs' = [crs EXCEPT ![t].ndx = h]
      /\ call' = [call EXCEPT ![t] = r]
      /\ seen' = [seen EXCEPT ![t] = Way(t, does)]
  BY DEF Step
<1>2. Types /\ <<b, i, j>> \in AllKeys /\ crs[t].status # "none"
      /\ b \in Int /\ i \in Int /\ j \in Int
  BY <1>1, CursorPlace DEF CursorInv, CursorAt, CursorKey
<1>3. h = IF up THEN j + 1 ELSE j - 1
  BY DEF Beside
<1>4. /\ crs'[t].pagep /\ crs'[t].bucket = b /\ crs'[t].place = i
      /\ crs'[t].ndx = h /\ crs'[t].status # "none"
      /\ \A u \in Threads \ {t} : crs'[u] = crs[u]
  <2>1. crs \in [Threads -> CursorStates]
    BY <1>2 DEF Types
  <2>2. crs'[t] = [crs[t] EXCEPT !.ndx = h]
    BY <1>1, <2>1
  <2>. HIDE DEF h
  <2>. QED BY <1>1, <1>2, <2>1, <2>2 DEF CursorStates
<1>5. /\ call'[t].stage = "data" /\ call'[t].does = does
      /\ \A u \in Threads \ {t} : call'[u] = call[u]
  <2>1. r.stage = "data" /\ r.does = does
    BY NoCallType DEF Calls
  <2>. HIDE DEF r
  <2>. QED BY <1>1, <1>2, <2>1 DEF Types
<1>6. /\ SeenType' /\ \A u \in Threads \ {t} : seen'[u] = seen[u]
      /\ Sweeping(t)' => seen'[t] = seen[t] /\ (up <=> seen[t].way = "first")
  BY <1>1, WayGoesOn DEF Sweeping
<1>7. SeekIn(t)' /\ WayOf(t)'
  BY <1>4, <1>5, <1>6 DEF SeekIn, WayOf
<1>8. CoveredOnce(t)'
  <2>. SUFFICES ASSUME Sweeping(t)'
                PROVE  IsInjective(seen'[t].keys)
                       /\ Range(seen'[t].keys) = Covered(t)'
    BY DEF CoveredOnce
  <2>1. seen'[t] = seen[t] /\ up = (seen[t].way = "first") /\ Sweeping(t)
    BY <1>6 DEF Sweeping
  <2>2. IsInjective(seen[t].keys) /\ Range(seen[t].keys) = Covered(t)
    BY <2>1 DEF SweepInv, SweepAt, CoveredOnce
  <2>3. Covered(t) = KeysBefore(up, b, i, j) \cup {<<b, i, j>>}
    BY <1>1, <2>1, CoveredNow DEF CursorKey
  <2>4. Covered(t)' = KeysBefore(up, b, i, h)
    BY <1>1, <1>4, <1>5, <2>1, CoveredThen
  <2>5. KeysBefore(up, b, i, h) = KeysBefore(up, b, i, j) \cup {<<b, i, j>>}
    <3>1. up \in BOOLEAN
      OBVIOUS
    <3>. HIDE DEF up, h
    <3>. QED BY <1>2, <1>3, <3>1, OneKeyOn
  <2>. QED BY <2>1, <2>2, <2>3, <2>4, <2>5
<1>. QED BY <1>1, <1>4, <1>5, <1>6, <1>7, <1>8, SweepLocal

\* A cursor leaves its page: all keys up to here were returned.
LEMMA StepOffSweep ==
  ASSUME CursorInv, SweepInv, NEW t \in Threads, NEW does \in {"next", "prev"},
         StepOff(t, does)
  PROVE  SweepInv'
<1> DEFINE b == crs[t].bucket
           i == crs[t].place
           j == crs[t].ndx
           up == does \in {"first", "next"}
           c == IF i < Len(table[b]) THEN b ELSE Onward(does, b)
           m == IF i < Len(table[b]) THEN i + 1 ELSE 1
<1>1. /\ Idle(t) /\ crs[t].pagep /\ table' = table /\ Leave(t, does)
      /\ Beside(t, does) \notin 1 .. Entries(b, i)
      /\ seen' = [seen EXCEPT ![t] = Way(t, does)]
  BY DEF StepOff
<1>2. Types /\ <<b, i, j>> \in AllKeys /\ crs[t].status # "none"
      /\ b \in Int /\ i \in Int /\ j \in Int /\ b \in Buckets
      /\ i \in 1 .. Len(table[b]) /\ Len(table[b]) \in Nat
  BY <1>1, CursorPlace, FirstPage DEF CursorInv, CursorAt, CursorKey
<1>3. Beside(t, does) = IF up THEN j + 1 ELSE j - 1
  BY DEF Beside
<1>4. KeysBefore(up, b, i, j) \cup {<<b, i, j>>} = PagesBefore(up, b, i + 1)
  <2>1. up \in BOOLEAN
    OBVIOUS
  <2>2. (IF up THEN j + 1 ELSE j - 1) \notin 1 .. Entries(b, i)
    BY <1>1, <1>3
  <2>3. Types /\ b \in Int /\ i \in Int /\ j \in Int /\ <<b, i, j>> \in AllKeys
    BY <1>2
  <2>. HIDE DEF up, b, i, j, c, m
  <2>. QED BY <2>1, <2>2, <2>3, PageDone
<1>5. i = Len(table[b]) =>
        PagesBefore(up, b, i + 1) = PagesBefore(up, Onward(does, b), 1)
  <2>1. up \in BOOLEAN /\ Onward(does, b) = IF up THEN b + 1 ELSE b - 1
    BY DEF Onward
  <2>. HIDE DEF up
  <2>. QED BY <1>2, <2>1, BucketDone
<1>6. /\ SeenType' /\ \A u \in Threads \ {t} : seen'[u] = seen[u]
      /\ Sweeping(t)' => seen'[t] = seen[t] /\ (up <=> seen[t].way = "first")
  BY <1>1, WayGoesOn DEF Sweeping
<1>7. Sweeping(t)' => /\ IsInjective(seen'[t].keys)
                      /\ Range(seen'[t].keys) = PagesBefore(up, b, i + 1)
  <2>. SUFFICES ASSUME Sweeping(t)'
                PROVE  IsInjective(seen'[t].keys)
                       /\ Range(seen'[t].keys) = PagesBefore(up, b, i + 1)
    OBVIOUS
  <2>1. seen'[t] = seen[t] /\ up = (seen[t].way = "first") /\ Sweeping(t)
    BY <1>6 DEF Sweeping
  <2>2. IsInjective(seen[t].keys) /\ Range(seen[t].keys) = Covered(t)
    BY <2>1 DEF SweepInv, SweepAt, CoveredOnce
  <2>3. Covered(t) = KeysBefore(up, b, i, j) \cup {<<b, i, j>>}
    BY <1>1, <2>1, CoveredNow DEF CursorKey
  <2>. QED BY <1>4, <2>1, <2>2, <2>3
<1>8. CASE i = Len(table[b]) /\ b = LastBucket(does)
  <2>1. /\ crs' = [crs EXCEPT ![t] = Nowhere("nomore")]
        /\ call' = [call EXCEPT ![t] = NoCall]
    BY <1>1, <1>8 DEF Leave, NotFound
  <2>2. /\ crs'[t] = Nowhere("nomore") /\ call'[t] = NoCall
        /\ \A u \in Threads \ {t} : crs'[u] = crs[u] /\ call'[u] = call[u]
    BY <1>2, <2>1 DEF Types
  <2>3. SeekIn(t)' /\ WayOf(t)'
    BY <2>2, NowhereType, NoCallType DEF SeekIn, WayOf, Idle
  <2>4. PagesBefore(up, b, i + 1) = AllKeys
    <3>1. up \in BOOLEAN
          /\ Onward(does, b) = IF up THEN MaxBucket + 1 ELSE -1
      BY <1>8 DEF Onward, LastBucket
    <3>. HIDE DEF up
    <3>. QED BY <1>2, <1>5, <1>8, <3>1, AllDone
  <2>5. Covered(t)' = AllKeys
    BY <1>1, <2>2, NowhereType, NoCallType, CoveredThen
  <2>6. CoveredOnce(t)'
    BY <1>7, <2>4, <2>5 DEF CoveredOnce
  <2>. QED BY <1>1, <1>6, <2>2, <2>3, <2>6, SweepLocal
<1>9. CASE ~(i = Len(table[b]) /\ b = LastBucket(does))
  <2>1. PutPage(t) /\ LookAt(t, does, c, m)
    BY <1>1, <1>9 DEF Leave
  <2>2. c \in Int /\ c \in Buckets /\ m \in Int
    <3>1. CASE i < Len(table[b])
      BY <1>2, <3>1
    <3>2. CASE ~(i < Len(table[b]))
      <4>1. i = Len(table[b])
        BY <1>2, <3>2
      <4>2. Onward(does, b) \in Buckets
        BY <1>2, <1>9, <4>1, CursorAssumption DEF Onward, LastBucket, Buckets
      <4>. QED BY <3>2, <4>2, CursorAssumption DEF Buckets
    <3>. QED BY <3>1, <3>2
  <2>3. PagesBefore(up, c, m) = PagesBefore(up, b, i + 1)
    <3>. HIDE DEF up
    <3>1. i < Len(table[b]) \/ i = Len(table[b])
      BY <1>2
    <3>2. i = Len(table[b]) => ~(i < Len(table[b]))
      BY <1>2
    <3>. QED BY <1>5, <3>1, <3>2
  <2>. HIDE DEF c, m
  <2>4. /\ call'[t].stage = "seek" /\ call'[t].does = does
        /\ call'[t].bucket = c /\ call'[t].place = m
        /\ \A u \in Threads \ {t} : call'[u] = call[u]
    BY <2>1, <2>2, LookAtType
  <2>5. crs'[t].status # "none" /\ \A u \in Threads \ {t} : crs'[u] = crs[u]
    BY <1>1, <1>2, <2>1, PutPageType
  <2>6. SeekIn(t)' /\ WayOf(t)'
    BY <1>6, <2>2, <2>4, <2>5 DEF SeekIn, WayOf
  <2>7. CoveredOnce(t)'
    <3>. SUFFICES ASSUME Sweeping(t)'
                  PROVE  IsInjective(seen'[t].keys)
                         /\ Range(seen'[t].keys) = Covered(t)'
      BY DEF CoveredOnce
    <3>1. up = (seen'[t].way = "first")
      BY <1>6
    <3>2. Covered(t)' = PagesBefore(up, c, m)
      BY <1>1, <2>4, <3>1, CoveredThen
    <3>. QED BY <1>7, <2>3, <3>2
  <2>. QED BY <1>1, <1>6, <2>4, <2>5, <2>6, <2>7, SweepLocal
<1>. QED BY <1>8, <1>9


\* An empty page is passed over: nothing was left behind it.
LEMMA MissSweep ==
  ASSUME CursorInv, SweepInv, NEW t \in Threads, Miss(t)
  PROVE  SweepInv'
<1> DEFINE does == call[t].does
           b == call[t].bucket
           i == call[t].place
           up == does \in {"first", "next"}
<1>1. /\ call[t].stage = "seek" /\ ~Hit(t) /\ Skip(t)
      /\ table' = table /\ seen' = seen
  BY DEF Miss
<1>2. Types
  BY DEF CursorInv
<1>3. CASE does = "get"
  <2>1. crs' = crs /\ ((\E n \in {i + 1} : LookAt(t, does, b, n))
                        \/ call' = [call EXCEPT ![t] = NoCall])
    BY <1>1, <1>3 DEF Skip
  <2>2. b \in Int /\ i \in Int
    BY <1>2, SeekPlace DEF Types
  <2>3. /\ call'[t].stage = "seek" => call'[t].does = "get"
        /\ \A u \in Threads \ {t} : call'[u] = call[u]
    <3>1. CASE call' = [call EXCEPT ![t] = NoCall]
      BY <1>2, <3>1, NoCallType DEF Types
    <3>2. CASE LookAt(t, does, b, i + 1)
      BY <1>3, <2>2, <3>2, LookAtType
    <3>. QED BY <2>1, <3>1, <3>2
  <2>. QED BY <1>1, <1>3, <2>1, <2>3, StillNoSweep
<1>4. CASE does # "get"
  <2>1. /\ does \in {"first", "last", "next", "prev"} /\ crs[t].status # "none"
        /\ b \in Int /\ i \in Int /\ ~crs[t].pagep
        /\ b \in Buckets => i \in DOMAIN table[b]
    BY <1>1, <1>2, <1>4, SeekPlace DEF CursorInv, CallOf, SeekAt, Idle
  <2>2. b \in Buckets \/ (b = MaxBucket + 1 /\ does = "first")
    BY <1>1, <1>4 DEF SweepInv, SweepAt, SeekIn
  <2>3. PagesBefore(up, b, i) = PagesBefore(up, Onward(does, b), 1)
        \/ (b = MaxBucket + 1 /\ up)
    <3>1. CASE b \in Buckets
      <4>1. ~(table[b][i] > 0) /\ up \in BOOLEAN
            /\ Onward(does, b) = IF up THEN b + 1 ELSE b - 1
        BY <1>1, <1>4, <3>1 DEF Hit, Entries, Onward
      <4>. HIDE DEF up
      <4>. QED BY <1>2, <2>1, <3>1, <4>1, EmptyPage
    <3>. QED BY <2>2, <3>1
  <2>4. b = MaxBucket + 1 /\ up => PagesBefore(up, b, i) = AllKeys
    <3>. SUFFICES ASSUME b = MaxBucket + 1, up
                  PROVE  PagesBefore(up, b, i) = AllKeys
      OBVIOUS
    <3>1. ASSUME NEW k \in AllKeys PROVE k[1] < b
      BY <1>2, KeyParts, CursorAssumption DEF Buckets
    <3>. QED BY <3>1 DEF PagesBefore
  <2>5. /\ SeenType' /\ \A u \in Threads \ {t} : seen'[u] = seen[u]
        /\ Sweeping(t)' = Sweeping(t)
    BY <1>1 DEF SweepInv, SeenType, Sweeping
  <2>6. WayOf(t) /\ CoveredOnce(t)
    BY DEF SweepInv, SweepAt
  <2>7. Sweeping(t) => /\ up = (seen[t].way = "first")
                       /\ IsInjective(seen[t].keys)
                       /\ Range(seen[t].keys) = PagesBefore(up, b, i)
    BY <1>1, <2>6, CoveredNow DEF WayOf, CoveredOnce, Idle
  <2>8. CASE Exhausted(does, b)
    <3>1. /\ crs' = [crs EXCEPT ![t] = Nowhere("nomore")]
          /\ call' = [call EXCEPT ![t] = NoCall]
      BY <1>1, <1>4, <2>8 DEF Skip, NotFound
    <3>2. /\ crs'[t] = Nowhere("nomore") /\ call'[t] = NoCall
          /\ \A u \in Threads \ {t} : crs'[u] = crs[u] /\ call'[u] = call[u]
      BY <1>2, <3>1 DEF Types
    <3>3. SeekIn(t)' /\ WayOf(t)'
      BY <3>2, NowhereType, NoCallType DEF SeekIn, WayOf, Idle
    <3>4. PagesBefore(up, b, i) = AllKeys
      <4>1. CASE b = MaxBucket + 1 /\ up
        BY <2>4, <4>1
      <4>2. CASE ~(b = MaxBucket + 1 /\ up)
        <5>1. up \in BOOLEAN
              /\ Onward(does, b) = IF up THEN MaxBucket + 1 ELSE -1
          BY <2>1, <2>2, <2>8, <4>2, CursorAssumption
             DEF Exhausted, Onward, Buckets
        <5>2. PagesBefore(up, Onward(does, b), 1) = AllKeys
          <6>. HIDE DEF up
          <6>. QED BY <1>2, <5>1, AllDone
        <5>. QED BY <2>3, <4>2, <5>2
      <4>. QED BY <4>1, <4>2
    <3>5. Covered(t)' = AllKeys
      BY <1>1, <3>2, NowhereType, NoCallType, CoveredThen
    <3>6. CoveredOnce(t)'
      BY <1>1, <2>5, <2>7, <3>4, <3>5 DEF CoveredOnce
    <3>. QED BY <1>1, <2>5, <3>2, <3>3, <3>6, SweepLocal
  <2>9. CASE ~Exhausted(does, b)
    <3>1. LookAt(t, does, Onward(does, b), 1) /\ crs' = crs
      BY <1>1, <1>4, <2>9 DEF Skip
    <3>2. /\ Onward(does, b) \in Int
          /\ ~(b = MaxBucket + 1 /\ up)
          /\ \/ Onward(does, b) \in Buckets
             \/ Onward(does, b) = MaxBucket + 1 /\ does = "first"
      BY <2>1, <2>2, <2>9, CursorAssumption DEF Exhausted, Onward, Buckets
    <3>3. /\ call'[t].stage = "seek" /\ call'[t].does = does
          /\ call'[t].bucket = Onward(does, b) /\ call'[t].place = 1
          /\ \A u \in Threads \ {t} : call'[u] = call[u]
      BY <2>1, <3>1, <3>2, LookAtType
    <3>4. SeekIn(t)' /\ WayOf(t)'
      BY <1>1, <2>1, <2>5, <2>7, <3>1, <3>2, <3>3 DEF SeekIn, WayOf
    <3>5. CoveredOnce(t)'
      <4>. SUFFICES ASSUME Sweeping(t)'
                    PROVE  IsInjective(seen'[t].keys)
                           /\ Range(seen'[t].keys) = Covered(t)'
        BY DEF CoveredOnce
      <4>1. up = (seen'[t].way = "first")
        BY <1>1, <2>5, <2>7
      <4>2. Covered(t)' = PagesBefore(up, Onward(does, b), 1)
        BY <1>1, <3>3, <4>1, CoveredThen
      <4>. QED BY <1>1, <2>3, <2>5, <2>7, <3>2, <4>2
    <3>. QED BY <1>1, <2>5, <3>1, <3>3, <3>4, <3>5, SweepLocal
  <2>. QED BY <2>8, <2>9
<1>. QED BY <1>3, <1>4

\* A cursor that comes to a page has passed all pages before it, and is on the
\* first key of the page in its direction.
LEMMA LandSweep ==
  ASSUME CursorInv, SweepInv, NEW t \in Threads, Land(t)
  PROVE  SweepInv'
<1> DEFINE does == call[t].does
           b == call[t].bucket
           i == call[t].place
           j == FirstIndex(does, b, i)
           k == IF does = "get" THEN call[t].key ELSE <<b, i, j>>
           r == [call[t] EXCEPT !.stage = "data", !.data = DataOf(k)]
           c == [status |-> "ok", pagep |-> TRUE,
                 bucket |-> b, place |-> i, ndx |-> j]
           up == does \in {"first", "next"}
<1>1. /\ call[t].stage = "seek" /\ Hit(t) /\ table' = table /\ seen' = seen
      /\ crs' = IF does = "get" THEN crs ELSE [crs EXCEPT ![t] = c]
      /\ call' = [call EXCEPT ![t] = r]
  BY DEF Land
<1>2. Types /\ call[t] \in Calls
  BY DEF CursorInv, Types
<1>3. r.stage = "data" /\ r.does = does
  <2>. HIDE DEF k
  <2>. QED BY <1>2 DEF Calls
<1>4. /\ call'[t].stage = "data" /\ call'[t].does = does
      /\ \A u \in Threads \ {t} : call'[u] = call[u] /\ crs'[u] = crs[u]
  <2>. HIDE DEF r, c
  <2>. QED BY <1>1, <1>2, <1>3 DEF Types
<1>5. CASE does = "get"
  BY <1>1, <1>4, <1>5, StillNoSweep
<1>6. CASE does # "get"
  <2>1. /\ does \in {"first", "last", "next", "prev"}
        /\ b \in Buckets => i \in DOMAIN table[b]
    BY <1>1, <1>2, <1>6 DEF CursorInv, CallOf, SeekAt, Calls
  <2>2. b \in Buckets
    BY <1>1, <1>6 DEF Hit, Entries
  <2>3. /\ crs'[t].pagep /\ crs'[t].bucket = b /\ crs'[t].place = i
        /\ crs'[t].ndx = j /\ crs'[t].status # "none"
    <3>1. c.pagep /\ c.bucket = b /\ c.place = i /\ c.ndx = j /\ c.status = "ok"
      OBVIOUS
    <3>. HIDE DEF c, j
    <3>. QED BY <1>1, <1>2, <1>6, <3>1 DEF Types
  <2>4. /\ SeenType' /\ \A u \in Threads \ {t} : seen'[u] = seen[u]
        /\ Sweeping(t)' = Sweeping(t)
    BY <1>1 DEF SweepInv, SeenType, Sweeping
  <2>5. WayOf(t) /\ CoveredOnce(t)
    BY DEF SweepInv, SweepAt
  <2>6. Sweeping(t) => /\ up = (seen[t].way = "first")
                       /\ IsInjective(seen[t].keys)
                       /\ Range(seen[t].keys) = PagesBefore(up, b, i)
    BY <1>1, <2>5, CoveredNow DEF WayOf, CoveredOnce, Idle
  <2>7. SeekIn(t)' /\ WayOf(t)'
    BY <1>1, <1>4, <2>3, <2>4, <2>6 DEF SeekIn, WayOf
  <2>8. KeysBefore(up, b, i, j) = PagesBefore(up, b, i)
    BY <1>2, <2>1, <2>2, AtTheEdge
  <2>9. CoveredOnce(t)'
    <3>. SUFFICES ASSUME Sweeping(t)'
                  PROVE  IsInjective(seen'[t].keys)
                         /\ Range(seen'[t].keys) = Covered(t)'
      BY DEF CoveredOnce
    <3>1. up = (seen'[t].way = "first")
      BY <1>1, <2>4, <2>6
    <3>. HIDE DEF up, j
    <3>2. Covered(t)' = KeysBefore(up, b, i, j)
      BY <1>1, <1>4, <2>3, <3>1, CoveredThen
    <3>. QED BY <1>1, <2>4, <2>6, <2>8, <3>2
  <2>. QED BY <1>1, <1>4, <2>4, <2>7, <2>9, SweepLocal
<1>. QED BY <1>5, <1>6


\* One more key behind those returned.
LEMMA OneMore ==
  ASSUME NEW s \in Seq(Position), NEW k \in Position, IsInjective(s),
         k \notin Range(s)
  PROVE  /\ IsInjective(Append(s, k))
         /\ Range(Append(s, k)) = Range(s) \cup {k}
<1> DEFINE n == Len(s)
           a == Append(s, k)
<1>1. /\ n \in Nat /\ DOMAIN s = 1 .. n /\ DOMAIN a = 1 .. n + 1
      /\ \A x \in 1 .. n : a[x] = s[x]
      /\ a[n + 1] = k
  OBVIOUS
<1>2. \A x \in 1 .. n : s[x] \in Range(s)
  BY <1>1 DEF Range
<1>3. \A x, y \in 1 .. n : s[x] = s[y] => x = y
  BY <1>1 DEF IsInjective
<1>. HIDE DEF a, n
<1>4. \A x, y \in 1 .. n + 1 : a[x] = a[y] => x = y
  <2>1. \A x \in 1 .. n + 1 : x \in 1 .. n \/ x = n + 1
    BY <1>1
  <2>. QED BY <1>1, <1>2, <1>3, <2>1
<1>5. IsInjective(a)
  BY <1>1, <1>4 DEF IsInjective
<1>6. Range(a) = Range(s) \cup {k}
  <2>1. \A x \in 1 .. n + 1 : x \in 1 .. n \/ x = n + 1
    BY <1>1
  <2>2. n + 1 \in 1 .. n + 1 /\ \A x \in 1 .. n : x \in 1 .. n + 1
    BY <1>1
  <2>. QED BY <1>1, <2>1, <2>2 DEF Range
<1>. QED BY <1>5, <1>6 DEF a

\* A call returns the key its cursor is on.
LEMMA ReturnSweep ==
  ASSUME CursorInv, SweepInv, NEW t \in Threads, table' = table, crs' = crs,
         crs[t].pagep, call[t].stage \in {"data", "copy"},
         call' = [call EXCEPT ![t] = NoCall],
         seen' = IF seen[t].way # "mixed"
                 THEN [seen EXCEPT ![t].keys = Append(@, CursorKey(t))]
                 ELSE seen
  PROVE  SweepInv'
<1> DEFINE b == crs[t].bucket
           i == crs[t].place
           j == crs[t].ndx
           k == CursorKey(t)
           s == seen[t].keys
           up == seen[t].way = "first"
<1>1. Types /\ SeenType
  BY DEF CursorInv, SweepInv
<1>2. k \in AllKeys /\ k = <<b, i, j>> /\ j \in Int /\ k \in Position
      /\ crs[t].status # "none"
  BY <1>1, CursorPlace, DataType DEF CursorInv, CursorAt, CursorKey
<1>3. call'[t] = NoCall /\ \A u \in Threads \ {t} : call'[u] = call[u]
  BY <1>1 DEF Types
<1>4. s \in Seq(Position) /\ seen[t].way \in {"none", "first", "last", "mixed"}
  BY <1>1 DEF SeenType
<1>5. Append(s, k) \in Seq(Position)
  BY <1>2, <1>4
<1>. HIDE DEF k
<1>6. /\ seen'[t].way = seen[t].way
      /\ seen[t].way # "mixed" => seen'[t].keys = Append(s, k)
      /\ \A u \in Threads \ {t} : seen'[u] = seen[u]
  BY <1>1 DEF SeenType, k
<1>7. SeenType'
  <2>. DEFINE n == [seen[t] EXCEPT !.keys = Append(s, k)]
  <2>1. n \in [way : {"none", "first", "last", "mixed"}, keys : Seq(Position)]
    BY <1>1, <1>5 DEF SeenType
  <2>2. seen' = IF seen[t].way # "mixed" THEN [seen EXCEPT ![t] = n] ELSE seen
    BY DEF k
  <2>. HIDE DEF n
  <2>. QED BY <1>1, <2>1, <2>2 DEF SeenType
<1>8. SeekIn(t)' /\ WayOf(t)'
  BY <1>2, <1>3, NoCallType DEF SeekIn, WayOf, Idle
<1>9. CoveredOnce(t)'
  <2>. SUFFICES ASSUME Sweeping(t)'
                PROVE  IsInjective(seen'[t].keys)
                       /\ Range(seen'[t].keys) = Covered(t)'
    BY DEF CoveredOnce
  <2>1. Sweeping(t) /\ seen'[t].keys = Append(s, k)
    BY <1>6 DEF Sweeping
  <2>2. IsInjective(s) /\ Range(s) = Covered(t)
    BY <2>1 DEF SweepInv, SweepAt, CoveredOnce
  <2>3. Covered(t) = KeysBefore(up, b, i, j)
    BY CoveredNow
  <2>4. k \notin KeysBefore(up, b, i, j)
    <3>1. k[1] = b /\ k[2] = i /\ k[3] = j /\ b \in Int /\ i \in Int
      BY <1>2, CursorPlace
    <3>2. up \in BOOLEAN /\ j \in Int
      BY <1>2
    <3>. HIDE DEF k, b, i, j, up
    <3>3. k \notin PagesBefore(up, b, i)
      BY <3>1, <3>2 DEF PagesBefore
    <3>. QED BY <3>1, <3>2, <3>3 DEF KeysBefore
  <2>5. /\ IsInjective(Append(s, k))
        /\ Range(Append(s, k)) = Range(s) \cup {k}
    <3>. HIDE DEF s
    <3>. QED BY <1>2, <1>4, <2>2, <2>3, <2>4, OneMore, SMTT(30)
  <2>6. Covered(t)' = KeysBefore(up, b, i, j) \cup {k}
    <3>1. CursorKey(t)' = k
      BY DEF CursorKey, k
    <3>. QED BY <1>3, <1>6, <3>1, NoCallType, CoveredThen
  <2>. QED BY <2>1, <2>2, <2>3, <2>5, <2>6
<1>. QED BY <1>3, <1>6, <1>7, <1>8, <1>9, SweepLocal

LEMMA KeyOnlySweep ==
  ASSUME CursorInv, SweepInv, NEW t \in Threads, KeyOnly(t)
  PROVE  SweepInv'
<1>1. /\ call[t].stage = "data" /\ call[t].does # "get"
      /\ call' = [call EXCEPT ![t] = NoCall] /\ table' = table /\ crs' = crs
      /\ seen' = IF seen[t].way # "mixed"
                 THEN [seen EXCEPT ![t].keys = Append(@, CursorKey(t))]
                 ELSE seen
  BY DEF KeyOnly
<1>2. crs[t].pagep
  BY <1>1 DEF CursorInv, CallOf
<1>. QED BY <1>1, <1>2, ReturnSweep

\* A call that reads a datum has returned nothing yet.
LEMMA StillReading ==
  ASSUME CursorInv, SweepInv, NEW t \in Threads, table' = table, crs' = crs,
         seen' = seen, call[t].stage \in {"data", "copy"},
         call[t].does # "get",
         call'[t].stage \in {"data", "copy"}, call'[t].does = call[t].does,
         \A u \in Threads \ {t} : call'[u] = call[u]
  PROVE  SweepInv'
<1>1. crs[t].pagep
  BY DEF CursorInv, CallOf
<1>2. SeenType' /\ SeekIn(t)'
  BY DEF SweepInv, SeenType, SeekIn
<1>3. SweepAt(t)
  BY DEF SweepInv
<1>4. WayOf(t)'
  BY <1>3 DEF SweepAt, WayOf, Sweeping, Idle
<1>5. Covered(t)' = Covered(t)
  BY <1>1, CoveredNow, CoveredThen
<1>6. CoveredOnce(t)'
  BY <1>3, <1>5 DEF SweepAt, CoveredOnce, Sweeping
<1>. QED BY <1>2, <1>4, <1>6, SweepLocal

LEMMA ClaimDataSweep ==
  ASSUME CursorInv, SweepInv, NEW t \in Threads, ClaimData(t)
  PROVE  SweepInv'
<1>1. /\ call[t].stage = "data" /\ table' = table /\ crs' = crs /\ seen' = seen
      /\ call' = [call EXCEPT ![t].stage = "copy"]
  BY DEF ClaimData
<1>2. /\ call'[t].stage = "copy" /\ call'[t].does = call[t].does
      /\ \A u \in Threads \ {t} : call'[u] = call[u]
  BY <1>1 DEF CursorInv, Types, Calls
<1>3. CASE call[t].does = "get"
  BY <1>1, <1>2, <1>3, StillNoSweep
<1>. QED BY <1>1, <1>2, <1>3, StillReading

LEMMA CopyDataSweep ==
  ASSUME CursorInv, SweepInv, NEW t \in Threads, CopyData(t)
  PROVE  SweepInv'
<1> DEFINE rest == Tail(call[t].data)
           get == call[t].does = "get"
           r == [call[t] EXCEPT !.data = rest,
                   !.stage = IF rest = << >> THEN "put" ELSE "data"]
           over == rest = << >> /\ ~get
<1>1. /\ call[t].stage = "copy" /\ table' = table /\ crs' = crs
      /\ call' = [call EXCEPT ![t] = IF over THEN NoCall ELSE r]
      /\ seen' = IF over /\ seen[t].way # "mixed"
                 THEN [seen EXCEPT ![t].keys = Append(@, CursorKey(t))]
                 ELSE seen
  BY DEF CopyData
<1>2. /\ call \in [Threads -> Calls] /\ r.does = call[t].does
      /\ r.stage = IF rest = << >> THEN "put" ELSE "data"
  <2>1. call \in [Threads -> Calls]
    BY DEF CursorInv, Types
  <2>. HIDE DEF rest
  <2>. QED BY <2>1 DEF Calls
<1>3. CASE over
  <2>1. crs[t].pagep
    BY <1>1, <1>3 DEF CursorInv, CallOf
  <2>2. /\ call' = [call EXCEPT ![t] = NoCall]
        /\ seen' = IF seen[t].way # "mixed"
                   THEN [seen EXCEPT ![t].keys = Append(@, CursorKey(t))]
                   ELSE seen
    BY <1>1, <1>3
  <2>3. call[t].stage \in {"data", "copy"}
    BY <1>1
  <2>. HIDE DEF r, over
  <2>. QED BY <1>1, <2>1, <2>2, <2>3, ReturnSweep
<1>4. CASE ~over
  <2>. HIDE DEF r
  <2>1. /\ call'[t] = r /\ seen' = seen
        /\ \A u \in Threads \ {t} : call'[u] = call[u]
    BY <1>1, <1>2, <1>4
  <2>2. CASE get
    BY <1>1, <1>2, <2>1, <2>2, StillNoSweep
  <2>3. CASE ~get
    BY <1>1, <1>2, <1>4, <2>1, <2>3, StillReading
  <2>. QED BY <2>2, <2>3
<1>. QED BY <1>3, <1>4

LEMMA SweepInit == Init => SweepInv
<1> SUFFICES ASSUME Init PROVE SweepInv
  OBVIOUS
<1>1. SeenType
  BY NoKeys DEF Init, SeenType
<1>2. ASSUME NEW t \in Threads PROVE SweepAt(t)
  <2>1. call[t] = NoCall /\ seen[t].way = "none"
    BY DEF Init
  <2>. QED BY <2>1, NoCallType
           DEF SweepAt, SeekIn, WayOf, CoveredOnce, Sweeping
<1>. QED BY <1>1, <1>2 DEF SweepInv

LEMMA SweepNext == CursorInv /\ SweepInv /\ [Next]_vars => SweepInv'
<1> SUFFICES ASSUME CursorInv, SweepInv, [Next]_vars PROVE SweepInv'
  OBVIOUS
<1>1. CASE UNCHANGED vars
  <2>1. table' = table /\ crs' = crs /\ call' = call /\ seen' = seen
    BY <1>1 DEF vars
  <2>2. ASSUME NEW t \in Threads PROVE SweepAt(t)'
    <3>1. SweepAt(t) /\ AllKeys' = AllKeys
      BY <2>1 DEF SweepInv, AllKeys
    <3>2. Covered(t)' = Covered(t)
      <4>1. CursorKey(t)' = CursorKey(t)
        BY <2>1 DEF CursorKey
      <4>. QED BY <2>1, <3>1, <4>1
               DEF Covered, KeysBefore, PagesBefore, Idle
    <3>3. SeekIn(t)' /\ WayOf(t)'
      BY <2>1, <3>1 DEF SweepAt, SeekIn, WayOf, Sweeping, Idle
    <3>4. CoveredOnce(t)'
      BY <2>1, <3>1, <3>2 DEF SweepAt, CoveredOnce, Sweeping
    <3>. QED BY <3>3, <3>4 DEF SweepAt
  <2>3. SeenType'
    BY <2>1 DEF SweepInv, SeenType
  <2>. QED BY <2>2, <2>3 DEF SweepInv
<1>2. ASSUME NEW t \in Threads,
             \/ NewCursor(t) \/ CloseCursor(t)
             \/ \E does \in {"first", "last"} : Start(t, does)
             \/ \E does \in {"next", "prev"} : Step(t, does) \/ StepOff(t, does)
             \/ \E k \in Lookups : Get(t, k)
             \/ Claims(t) \/ KeyOnly(t) \/ CopyData(t) \/ PutItem(t)
      PROVE  SweepInv'
  BY <1>2, NoSweepSteps, CloseCursorSweep, StartSweep, StepSweep,
     StepOffSweep, MissSweep, LandSweep, ClaimDataSweep, CopyDataSweep,
     KeyOnlySweep DEF Claims
<1>. QED BY <1>1, <1>2 DEF Next

\* A list without duplicates is as long as the set of its elements is large.
LEMMA LongAsSet ==
  ASSUME NEW S, NEW s \in Seq(S), IsInjective(s)
  PROVE  Len(s) = Cardinality(Range(s))
<1> DEFINE n == Len(s)
           R == Range(s)
<1>1. n \in Nat /\ s \in [1 .. n -> R]
  BY DEF Range
<1>2. s \in Injection(1 .. n, R)
  BY <1>1 DEF Injection, IsInjective
<1>3. s \in Surjection(1 .. n, R)
  BY <1>1 DEF Surjection, Range
<1>4. s \in Bijection(1 .. n, R)
  BY <1>2, <1>3 DEF Bijection
<1>5. ExistsBijection(1 .. n, R)
  BY <1>4 DEF ExistsBijection
<1>. HIDE DEF n, R
<1>6. Cardinality(R) = n
  BY <1>1, <1>5, FS_CountingElements
<1>. QED BY <1>6 DEF n, R

\* For any table, any number of threads and whatever calls they make: a cursor
\* that went from FIRST to the end with NEXT, or from LAST with PREV, has
\* returned every key of the table, and none twice.  Empty buckets, overflow
\* chains and calls of other threads in between leave no gap.
THEOREM SweepsAreComplete == Spec => []SweepIsComplete
<1>1. Init => CursorInv /\ SweepInv
  BY InitInv, SweepInit
<1>2. CursorInv /\ SweepInv /\ [Next]_vars => CursorInv' /\ SweepInv'
  BY NextInv, SweepNext
<1>3. CursorInv /\ SweepInv => SweepIsComplete
  <2> SUFFICES ASSUME CursorInv, SweepInv, NEW t \in Threads, Idle(t),
                      crs[t].status = "nomore", Sweeping(t)
               PROVE  /\ Range(seen[t].keys) = AllKeys
                      /\ Len(seen[t].keys) = Cardinality(AllKeys)
    BY DEF SweepIsComplete, Sweeping
  <2>1. IsInjective(seen[t].keys) /\ Range(seen[t].keys) = Covered(t)
    BY DEF SweepInv, SweepAt, CoveredOnce
  <2>2. ~crs[t].pagep
    BY DEF CursorInv, CursorAt
  <2>3. Covered(t) = AllKeys
    BY <2>2 DEF Covered, Idle
  <2>4. seen[t].keys \in Seq(Position)
    BY DEF SweepInv, SeenType
  <2>. QED BY <2>1, <2>3, <2>4, LongAsSet
<1>. QED BY <1>1, <1>2, <1>3, PTL DEF Spec
=============================================================================
