-------------------------- MODULE HashAccessProofs -------------------------
(***************************************************************************)
(* Puts and gets give back every page they claim, for any number of        *)
(* readers and writers, any hash function and any growth of the table; and *)
(* for one writer what it put is found, and a get that runs beside it      *)
(* returns a value that its key had during the call.                       *)
(***************************************************************************)
EXTENDS HashAccess, ListLemmas, FiniteSetTheorems

Fields == {"pc", "op", "key", "val", "out", "want", "first", "split",
           "calls", "seen", "torn"}
SplitFields == {"old", "new", "base", "page", "todo", "next"}

\* What the steps need to know of the shape of the variables.
Shape ==
  /\ DOMAIN holder = Pages
  /\ DOMAIN th = Threads
  /\ \A t \in Threads : DOMAIN th[t] = Fields /\ DOMAIN th[t].split = SplitFields

\* What a thread may have claimed at each of its steps.
MayHold(s) ==
  IF s.pc \in {"ok", "nomore"} THEN {s.want}
  ELSE IF s.pc = "move" /\ ~s.split.base THEN {s.split.page} ELSE {}

\* A split begins with the page of the old bucket.
BeginsAtBase(s) == s.pc \in {"masks", "newpage", "split"} => s.split.base

\* A page whose deletion was refused may stay claimed.
Good(t) == Holds(t) \subseteq MayHold(th[t]) \cup kept /\ BeginsAtBase(th[t])

ClaimInv == Shape /\ \A t \in Threads : Good(t)

\* The behaviour has ended, for all threads.
Dead == Threads # {} /\ \A t \in Threads : th[t].pc \in Over

----------------------------------------------------------------------------
\* A step of t that claims or gives back page p and changes the other
\* threads' records at most in seen and torn.
OthersKeep(t) ==
  \A u \in Threads \ {t} :
    /\ DOMAIN th'[u] = Fields
    /\ th'[u].pc = th[u].pc /\ th'[u].want = th[u].want /\ th'[u].split = th[u].split

\* No thread gets a page; t may claim or give back pages.
Fewer(T) ==
  /\ DOMAIN holder' = Pages /\ kept \subseteq kept'
  /\ \A q \in Pages : \A u \in T : holder'[q] = u => holder[q] = u

\* Threads other than t keep what they may hold when t claims a page that was
\* free or its own.
LEMMA OthersGood ==
  ASSUME ClaimInv, NEW t \in Threads, OthersKeep(t), Fewer(Threads \ {t})
  PROVE  \A u \in Threads \ {t} :
           Good(u)' /\ DOMAIN th'[u] = Fields /\ DOMAIN th'[u].split = SplitFields
  BY DEF ClaimInv, Shape, Good, Holds, MayHold, BeginsAtBase, OthersKeep, Fewer

\* A record in which some fields other than seen and torn are changed.
LEMMA Alone ==
  ASSUME ClaimInv, NEW t \in Threads, NEW r, th' = [th EXCEPT ![t] = r]
  PROVE  OthersKeep(t) /\ th'[t] = r /\ DOMAIN th' = Threads
  BY DEF ClaimInv, Shape, OthersKeep

\* Putting the parts together.
LEMMA Whole ==
  ASSUME ClaimInv, NEW t \in Threads, OthersKeep(t), Fewer(Threads \ {t}),
         DOMAIN th' = Threads,
         DOMAIN th'[t] = Fields, DOMAIN th'[t].split = SplitFields,
         Good(t)'
  PROVE  ClaimInv'
<1>1. \A u \in Threads \ {t} :
        Good(u)' /\ DOMAIN th'[u] = Fields /\ DOMAIN th'[u].split = SplitFields
  BY OthersGood
<1>2. Shape'
  BY <1>1 DEF Shape, Fewer
<1>3. \A u \in Threads : Good(u)'
  BY <1>1
<1>. QED BY <1>2, <1>3 DEF ClaimInv
----------------------------------------------------------------------------
\* A step that changes the record of t only and claims no page.
LEMMA Quiet ==
  ASSUME ClaimInv, NEW t \in Threads, NEW r, th' = [th EXCEPT ![t] = r],
         DOMAIN r = Fields, DOMAIN r.split = SplitFields, Fewer(Threads),
         MayHold(th[t]) \subseteq MayHold(r), BeginsAtBase(r)
  PROVE  ClaimInv'
<1>1. OthersKeep(t) /\ th'[t] = r /\ DOMAIN th' = Threads
  BY Alone
<1>2. Good(t)'
  <2>1. Holds(t)' \subseteq Holds(t) /\ kept \subseteq kept'
    BY DEF Holds, Fewer
  <2>2. Holds(t) \subseteq MayHold(th[t]) \cup kept
    BY DEF ClaimInv, Good
  <2>. QED BY <1>1, <2>1, <2>2 DEF Good, MayHold, BeginsAtBase
<1>3. Fewer(Threads \ {t})
  BY DEF Fewer
<1>. QED BY <1>1, <1>2, <1>3, Whole

\* A thread that has given its page back and returns, or goes on to expand
\* the table.
LEMMA GivenBack ==
  ASSUME ClaimInv, NEW t \in Threads, OthersKeep(t), DOMAIN th' = Threads,
         DOMAIN th'[t] = Fields, DOMAIN th'[t].split = SplitFields,
         th'[t].pc \in {"idle", "grow"},
         th[t].pc \in {"ok", "nomore"},
         Fewer(Threads), \A q \in Pages : holder'[q] = t => q # th[t].want
  PROVE  ClaimInv'
<1>1. Holds(t) \subseteq {th[t].want} \cup kept
  BY DEF ClaimInv, Good, MayHold
<1>2. Good(t)'
  <2>1. Holds(t)' \subseteq kept'
    BY <1>1 DEF Holds, Fewer
  <2>. QED BY <2>1 DEF Good, BeginsAtBase
<1>3. Fewer(Threads \ {t})
  BY DEF Fewer
<1>. QED BY <1>2, <1>3, Whole

\* Giving back page p.
LEMMA OneLess ==
  ASSUME ClaimInv, NEW p, holder' = [holder EXCEPT ![p] = NoThread], kept' = kept
  PROVE  Fewer(Threads) /\ \A q \in Pages, t \in Threads : holder'[q] = t => q # p
  BY AccessAssumption DEF ClaimInv, Shape, Fewer

\* Giving back page p, and taking free pages for the data.
LEMMA ManyLess ==
  ASSUME ClaimInv, NEW p, NEW D, kept' = kept,
         holder' = [q \in Pages |-> IF q \in D \cup {p} THEN NoThread ELSE holder[q]]
  PROVE  Fewer(Threads) /\ \A q \in Pages, t \in Threads : holder'[q] = t => q # p
  BY AccessAssumption DEF ClaimInv, Shape, Fewer

\* Leaving the pages with their holders.
LEMMA NoneLess ==
  ASSUME ClaimInv, holder' = holder, kept' = kept
  PROVE  Fewer(Threads)
  BY DEF ClaimInv, Shape, Fewer

----------------------------------------------------------------------------
\* The call, the search and the end of a get

\* A thread outside the library has no page when it calls.
LEMMA CallKeeps ==
  ASSUME ClaimInv, NEW t \in Threads, NEW op, NEW k, NEW v, Call(t, op, k, v)
  PROVE  ClaimInv'
<1> DEFINE r == [Resting EXCEPT
                   !.pc = "seek", !.op = op, !.key = k, !.val = v,
                   !.want = CallHash(k), !.calls = @ + th[t].calls + 1,
                   !.seen = {given[k]}, !.torn = Splitting]
<1>1. th' = [th EXCEPT ![t] = r] /\ Fewer(Threads) /\ th[t].pc = "idle"
  BY NoneLess DEF Call, pool, gone
<1>2. DOMAIN r = Fields /\ r.split = NoSplit /\ r.pc = "seek"
  BY DEF Resting, Fields
<1>3. DOMAIN r.split = SplitFields
  BY <1>2 DEF NoSplit, SplitFields
<1>4. MayHold(th[t]) = {} /\ BeginsAtBase(r)
  BY <1>1, <1>2 DEF MayHold, BeginsAtBase
<1>. HIDE DEF r
<1>. QED BY <1>1, <1>2, <1>3, <1>4, Quiet

\* A thread that waits has a page no more than one that is about to claim it.
LEMMA WaitKeeps ==
  ASSUME ClaimInv, NEW t \in Threads, Wait(t)
  PROVE  ClaimInv'
<1> DEFINE r == [th[t] EXCEPT !.pc = "wait"]
<1>1. DOMAIN r = Fields /\ r.split = th[t].split /\ r.pc = "wait"
  BY DEF ClaimInv, Shape, Fields
<1>2. th' = [th EXCEPT ![t] = r] /\ Fewer(Threads) /\ th[t].pc = "seek"
  BY NoneLess DEF Wait, pool, gone, ClaimInv, Shape
<1> HIDE DEF r
<1>3. MayHold(th[t]) = {} /\ BeginsAtBase(r)
  BY <1>1, <1>2 DEF MayHold, BeginsAtBase
<1>4. DOMAIN r.split = SplitFields
  BY <1>1 DEF ClaimInv, Shape
<1>. QED BY <1>1, <1>2, <1>3, <1>4, Quiet

\* The search of t ends on page p, which t keeps.
LEMMA EndKeeps ==
  ASSUME ClaimInv, NEW t \in Threads, NEW p, p = th[t].want, Claims(t, p),
         NEW c \in {"ok", "nomore"}, kept' = kept,
         holder' = [holder EXCEPT ![p] = t], th' = [th EXCEPT ![t].pc = c]
  PROVE  ClaimInv'
<1> DEFINE r == [th[t] EXCEPT !.pc = c]
<1>1. Holds(t) \subseteq kept /\ holder[p] \in {NoThread, t}
  BY DEF ClaimInv, Good, MayHold, Claims, Available
<1>2. /\ DOMAIN r = Fields /\ r.split = th[t].split /\ r.want = p
      /\ r.pc \in {"ok", "nomore"}
  BY DEF ClaimInv, Shape, Fields
<1>3. th' = [th EXCEPT ![t] = r]
  BY DEF ClaimInv, Shape
<1>4. OthersKeep(t) /\ th'[t] = r /\ DOMAIN th' = Threads
  BY <1>3, Alone
<1> HIDE DEF r
<1>5. Fewer(Threads \ {t})
  BY DEF Fewer, ClaimInv, Shape
<1>6. Good(t)'
  <2>1. Holds(t)' \subseteq {p} \cup kept'
    BY <1>1 DEF Holds, ClaimInv, Shape
  <2>. QED BY <1>2, <1>4, <2>1 DEF Good, MayHold, BeginsAtBase
<1>7. DOMAIN th'[t] = Fields /\ DOMAIN th'[t].split = SplitFields
  BY <1>2, <1>4 DEF ClaimInv, Shape
<1>. QED BY <1>4, <1>5, <1>6, <1>7, Whole

\* A search goes from page to page with empty hands and keeps the last one.
LEMMA SeekKeeps ==
  ASSUME ClaimInv, NEW t \in Threads, Seek(t)
  PROVE  ClaimInv'
<1> DEFINE p == th[t].want
           pg == Sees(p)
<1>1. Claims(t, p) /\ kept' = kept
  BY DEF Seek, gone
<1>2. CASE Found(t, pg)
  <2>1. PICK c \in {"ok", "nomore"} :
          holder' = [holder EXCEPT ![p] = t] /\ th' = [th EXCEPT ![t].pc = c]
    BY <1>2 DEF Seek
  <2>. QED BY <1>1, <2>1, EndKeeps
<1>3. CASE ~Found(t, pg)
  <2> DEFINE r == [th[t] EXCEPT !.pc = "seek", !.want = pg.next, !.first = FALSE]
  <2>1. DOMAIN r = Fields /\ r.split = th[t].split /\ r.pc = "seek"
    BY DEF ClaimInv, Shape, Fields
  <2>2. th' = [th EXCEPT ![t] = r]
    BY <1>3 DEF Seek, ClaimInv, Shape
  <2>3. Fewer(Threads)
    BY <1>1, <1>3, OneLess DEF Seek
  <2> HIDE DEF r
  <2>4. MayHold(th[t]) = {} /\ BeginsAtBase(r) /\ DOMAIN r.split = SplitFields
    BY <1>1, <2>1 DEF Claims, MayHold, BeginsAtBase, ClaimInv, Shape
  <2>. QED BY <2>1, <2>2, <2>3, <2>4, Quiet
<1>. QED BY <1>2, <1>3

\* A search may end on a page that is no longer of the table.
LEMMA MisreadKeeps ==
  ASSUME ClaimInv, NEW t \in Threads, Misread(t)
  PROVE  ClaimInv'
  BY EndKeeps DEF Misread, gone

\* A get gives its page back whether or not it found the key.
LEMMA DeliverKeeps ==
  ASSUME ClaimInv, NEW t \in Threads, Deliver(t)
  PROVE  ClaimInv'
<1> DEFINE o == IF th[t].pc = "ok" THEN ValOn(page[th[t].want], th[t].key) ELSE NoVal
           r == [th[t] EXCEPT !.pc = "idle", !.out = o]
<1>1. th' = [th EXCEPT ![t] = r]
  BY DEF Deliver, ClaimInv, Shape
<1>2. OthersKeep(t) /\ th'[t] = r /\ DOMAIN th' = Threads
  BY <1>1, Alone
<1>3. DOMAIN r = Fields /\ r.split = th[t].split /\ r.pc = "idle"
  BY DEF ClaimInv, Shape, Fields
<1>4. /\ DOMAIN th'[t] = Fields /\ DOMAIN th'[t].split = SplitFields
      /\ th'[t].pc = "idle"
  BY <1>2, <1>3 DEF ClaimInv, Shape
<1>5. th[t].pc \in {"ok", "nomore"}
  BY DEF Deliver
<1>6. Fewer(Threads) /\ \A q \in Pages : holder'[q] = t => q # th[t].want
  BY OneLess DEF Deliver, gone
<1>. QED BY <1>2, <1>4, <1>5, <1>6, GivenBack

----------------------------------------------------------------------------
\* The end of a put

\* A value that a put stores changes the record of another thread in seen
\* only.
LEMMA SeenKeeps ==
  ASSUME ClaimInv, NEW t \in Threads, NEW k, NEW v,
         th' = [Seen(k, v) EXCEPT ![t].pc = "idle"]
  PROVE  /\ OthersKeep(t) /\ DOMAIN th' = Threads
         /\ DOMAIN th'[t] = Fields /\ DOMAIN th'[t].split = SplitFields
         /\ th'[t].pc = "idle"
<1>1. DOMAIN Seen(k, v) = Threads
  BY DEF Seen
<1>2. ASSUME NEW u \in Threads
      PROVE  /\ DOMAIN Seen(k, v)[u] = Fields
             /\ Seen(k, v)[u].pc = th[u].pc
             /\ Seen(k, v)[u].want = th[u].want
             /\ Seen(k, v)[u].split = th[u].split
  <2>1. \/ Seen(k, v)[u] = th[u]
        \/ Seen(k, v)[u] = [th[u] EXCEPT !.seen = @ \cup {v}]
    BY DEF Seen
  <2>. QED BY <2>1 DEF ClaimInv, Shape, Fields
<1>3. \A u \in Threads \ {t} : th'[u] = Seen(k, v)[u]
  BY <1>1
<1>4. th'[t] = [Seen(k, v)[t] EXCEPT !.pc = "idle"]
  BY <1>1
<1>5. OthersKeep(t)
  BY <1>2, <1>3 DEF OthersKeep
<1>6. /\ DOMAIN th'[t] = Fields /\ th'[t].split = th[t].split
      /\ th'[t].pc = "idle"
  BY <1>2, <1>4 DEF Fields
<1>. QED BY <1>1, <1>5, <1>6 DEF ClaimInv, Shape

\* A put that replaces the data of its key gives the key's page back.
LEMMA ReplaceKeeps ==
  ASSUME ClaimInv, NEW t \in Threads, Replace(t)
  PROVE  ClaimInv'
<1>1. th' = [Seen(th[t].key, th[t].val) EXCEPT ![t].pc = "idle"]
  BY DEF Replace
<1>2. /\ th[t].pc \in {"ok", "nomore"}
      /\ Fewer(Threads) /\ \A q \in Pages : holder'[q] = t => q # th[t].want
  BY OneLess DEF Replace, Putting, gone
<1>. QED BY <1>1, <1>2, SeenKeeps, GivenBack

\* A put that adds its key to a page gives the page back.
LEMMA AddKeeps ==
  ASSUME ClaimInv, NEW t \in Threads, Add(t)
  PROVE  ClaimInv'
<1>1. th' = [Seen(th[t].key, th[t].val) EXCEPT ![t].pc = "idle"]
  BY DEF Add
<1>2. th[t].pc \in {"ok", "nomore"} /\ kept' = kept
  BY DEF Add, Putting
<1>3. PICK D : holder' = [q \in Pages |-> IF q \in D \cup {th[t].want} THEN NoThread
                                       ELSE holder[q]]
  BY DEF Add
<1>4. Fewer(Threads) /\ \A q \in Pages : holder'[q] = t => q # th[t].want
  BY <1>2, <1>3, ManyLess
<1>. QED BY <1>1, <1>2, <1>4, SeenKeeps, GivenBack

\* A put that chains an overflow page gives the page before it back and goes
\* on to expand the table.
LEMMA AddOverflowKeeps ==
  ASSUME ClaimInv, NEW t \in Threads, AddOverflow(t)
  PROVE  ClaimInv'
<1> DEFINE S == Seen(th[t].key, th[t].val)
<1>1. th' = [u \in Threads |-> IF u = t THEN [th[t] EXCEPT !.pc = "grow"]
                               ELSE [S[u] EXCEPT !.torn = TRUE]]
  BY DEF AddOverflow
<1>2. /\ th[t].pc \in {"ok", "nomore"}
      /\ Fewer(Threads) /\ \A q \in Pages : holder'[q] = t => q # th[t].want
  <2>1. PICK D : holder' = [q \in Pages |-> IF q \in D \cup {th[t].want, OvflPage}
                                         THEN NoThread ELSE holder[q]]
    BY DEF AddOverflow
  <2>2. holder' = [q \in Pages |-> IF q \in (D \cup {OvflPage}) \cup {th[t].want}
                                THEN NoThread ELSE holder[q]]
    BY <2>1
  <2>3. kept' = kept /\ th[t].pc = "nomore"
    BY DEF AddOverflow, Putting
  <2> DEFINE E == D \cup {OvflPage}
  <2>4. holder' = [q \in Pages |-> IF q \in E \cup {th[t].want} THEN NoThread ELSE holder[q]]
    BY <2>2
  <2> HIDE DEF E
  <2>5. Fewer(Threads) /\ \A q \in Pages, u \in Threads : holder'[q] = u => q # th[t].want
    BY <2>3, <2>4, ManyLess
  <2>. QED BY <2>3, <2>5
<1>3. ASSUME NEW u \in Threads
      PROVE  /\ DOMAIN S[u] = Fields
             /\ S[u].pc = th[u].pc /\ S[u].want = th[u].want /\ S[u].split = th[u].split
  <2>1. \/ S[u] = th[u]
        \/ S[u] = [th[u] EXCEPT !.seen = @ \cup {th[t].val}]
    BY DEF Seen
  <2>. QED BY <2>1 DEF ClaimInv, Shape, Fields
<1> HIDE DEF S
<1>4. OthersKeep(t)
  <2>1. ASSUME NEW u \in Threads \ {t}
        PROVE  /\ DOMAIN th'[u] = Fields
               /\ th'[u].pc = th[u].pc /\ th'[u].want = th[u].want
               /\ th'[u].split = th[u].split
    <3>1. th'[u] = [S[u] EXCEPT !.torn = TRUE]
      BY <1>1
    <3>. QED BY <3>1, <1>3 DEF Fields
  <2>. QED BY <2>1 DEF OthersKeep
<1>5. /\ DOMAIN th' = Threads /\ DOMAIN th'[t] = Fields
      /\ th'[t].split = th[t].split /\ th'[t].pc = "grow"
  <2>1. th'[t] = [th[t] EXCEPT !.pc = "grow"]
    BY <1>1
  <2>. QED BY <1>1, <2>1 DEF ClaimInv, Shape, Fields
<1>6. DOMAIN th'[t].split = SplitFields
  BY <1>5 DEF ClaimInv, Shape
<1>. QED BY <1>2, <1>4, <1>5, <1>6, GivenBack

----------------------------------------------------------------------------
\* The expansion

\* max_bucket grows and the split is set up.
LEMMA GrowMaxKeeps ==
  ASSUME ClaimInv, NEW t \in Threads, GrowMax(t)
  PROVE  ClaimInv'
<1> DEFINE s == [NoSplit EXCEPT !.old = OldBucket(maxBucket + 1), !.new = maxBucket + 1]
           r == [th[t] EXCEPT !.pc = "masks", !.split = s]
<1>1. DOMAIN s = SplitFields /\ s.base
  BY DEF NoSplit, SplitFields
<1>2. th' = [th EXCEPT ![t].pc = "masks", ![t].split = s]
      /\ Fewer(Threads) /\ th[t].pc = "grow"
  BY NoneLess DEF GrowMax, pool, gone
<1> HIDE DEF s
<1>3. th' = [th EXCEPT ![t] = r]
  BY <1>2 DEF ClaimInv, Shape
<1>4. DOMAIN r = Fields /\ r.pc = "masks" /\ r.split = s
  BY DEF ClaimInv, Shape, Fields
<1> HIDE DEF r
<1>5. MayHold(th[t]) = {} /\ BeginsAtBase(r)
  BY <1>1, <1>2, <1>4 DEF MayHold, BeginsAtBase
<1>. QED BY <1>1, <1>2, <1>3, <1>4, <1>5, Quiet

\* A step of the expansion that changes nothing of the thread but where it is.
LEMMA GoOn ==
  ASSUME ClaimInv, NEW t \in Threads, NEW c \in {"newpage", "split"},
         th[t].pc \in {"masks", "newpage"}, Fewer(Threads),
         th' = [th EXCEPT ![t].pc = c]
  PROVE  ClaimInv'
<1> DEFINE r == [th[t] EXCEPT !.pc = c]
<1>1. DOMAIN r = Fields /\ r.pc = c /\ r.split = th[t].split
  BY DEF ClaimInv, Shape, Fields
<1>2. th' = [th EXCEPT ![t] = r]
  BY DEF ClaimInv, Shape
<1> HIDE DEF r
<1>3. th[t].split.base
  BY DEF ClaimInv, Good, BeginsAtBase
<1>4. MayHold(th[t]) = {} /\ BeginsAtBase(r)
  BY <1>1, <1>3 DEF MayHold, BeginsAtBase
<1>5. DOMAIN r.split = SplitFields
  BY <1>1 DEF ClaimInv, Shape
<1>. QED BY <1>1, <1>2, <1>4, <1>5, Quiet

\* The record of a thread that splits a bucket.
SplitTo(f, t, p, ks, nx) ==
  [f EXCEPT ![t].pc = "move", ![t].split.page = p,
            ![t].split.todo = ks, ![t].split.next = nx]

Divided(r, p, ks, nx) ==
  [r EXCEPT !.pc = "move",
            !.split = [r.split EXCEPT !.page = p, !.todo = ks, !.next = nx]]

LEMMA SplitRecord ==
  ASSUME NEW f, NEW t \in DOMAIN f, NEW p, NEW ks, NEW nx
  PROVE  SplitTo(f, t, p, ks, nx) = [f EXCEPT ![t] = Divided(f[t], p, ks, nx)]
<1> DEFINE a == f[t]
           b == [a EXCEPT !.pc = "move"]
           c == [b EXCEPT !.split.page = p]
           d == [c EXCEPT !.split.todo = ks]
           e == [d EXCEPT !.split.next = nx]
<1>1. SplitTo(f, t, p, ks, nx) = [f EXCEPT ![t] = e]
  BY DEF SplitTo
<1>2. e = Divided(f[t], p, ks, nx)
  BY DEF Divided
<1>. QED BY <1>1, <1>2

\* The old bucket's page is copied and given back at once.
LEMMA SplitKeeps ==
  ASSUME ClaimInv, NEW t \in Threads, Split(t)
  PROVE  ClaimInv'
<1> DEFINE p == th[t].split.old
           s == [th[t].split EXCEPT !.page = p, !.todo = page[p].keys, !.next = page[p].next]
           r == [th[t] EXCEPT !.pc = "move", !.split = s]
<1>1. DOMAIN s = SplitFields /\ s.base = th[t].split.base
  BY DEF ClaimInv, Shape, SplitFields
<1>2. th[t].pc = "split" /\ Fewer(Threads)
  BY NoneLess DEF Split, gone
<1>3. th' = [th EXCEPT ![t] = r]
  <2>1. th' = SplitTo(th, t, p, page[p].keys, page[p].next)
    BY DEF Split, SplitTo
  <2>2. t \in DOMAIN th
    BY DEF ClaimInv, Shape
  <2>3. th' = [th EXCEPT ![t] = Divided(th[t], p, page[p].keys, page[p].next)]
    BY <2>1, <2>2, SplitRecord
  <2>. QED BY <2>3 DEF Divided
<1> HIDE DEF s
<1>4. DOMAIN r = Fields /\ r.pc = "move" /\ r.split = s
  BY DEF ClaimInv, Shape, Fields
<1> HIDE DEF r
<1>5. MayHold(th[t]) = {} /\ BeginsAtBase(r)
  BY <1>2, <1>4 DEF MayHold, BeginsAtBase
<1>. QED BY <1>1, <1>2, <1>3, <1>4, <1>5, Quiet

\* Moving a key leaves the old chain's page where it is.
LEMMA MoveKeeps ==
  ASSUME ClaimInv, NEW t \in Threads, Move(t)
  PROVE  ClaimInv'
<1> DEFINE s == [th[t].split EXCEPT !.todo = Tail(@)]
           r == [th[t] EXCEPT !.split = s]
<1>1. /\ DOMAIN s = SplitFields /\ s.base = th[t].split.base
      /\ s.page = th[t].split.page
  BY DEF ClaimInv, Shape, SplitFields
<1>2. /\ th[t].pc = "move" /\ Fewer(Threads)
      /\ th' = [th EXCEPT ![t].split.todo = Tail(@)]
  <2>1. kept' = kept /\ (holder' = holder \/ holder' = [holder EXCEPT ![OvflPage] = NoThread])
    BY DEF Move
  <2>. QED BY <2>1, NoneLess, OneLess DEF Move
<1>3. th' = [th EXCEPT ![t] = r]
  BY <1>2 DEF ClaimInv, Shape, Fields, SplitFields
<1> HIDE DEF s
<1>4. DOMAIN r = Fields /\ r.pc = "move" /\ r.split = s
  BY <1>2 DEF ClaimInv, Shape, Fields
<1> HIDE DEF r
<1>5. MayHold(th[t]) = MayHold(r) /\ BeginsAtBase(r)
  BY <1>1, <1>2, <1>4 DEF MayHold, BeginsAtBase
<1>. QED BY <1>1, <1>2, <1>3, <1>4, <1>5, Quiet

\* A page of the old chain that is done is given back with ffdb_delete_page;
\* the page of the bucket itself was not kept.
LEMMA PageDoneKeeps ==
  ASSUME ClaimInv, NEW t \in Threads, PageDone(t)
  PROVE  ClaimInv'
<1>1. PICK r : /\ th' = [th EXCEPT ![t] = r] /\ r.pc \in {"idle", "nextpage"}
               /\ DOMAIN r = Fields /\ DOMAIN r.split = SplitFields
  <2> DEFINE a == [th[t] EXCEPT !.pc = "idle", !.split = NoSplit]
             b == [th[t] EXCEPT !.pc = "nextpage"]
  <2>1. th' = [th EXCEPT ![t] = a] \/ th' = [th EXCEPT ![t] = b]
    BY DEF PageDone, ClaimInv, Shape
  <2>2. DOMAIN a = Fields /\ a.pc = "idle" /\ a.split = NoSplit
    BY DEF ClaimInv, Shape, Fields
  <2>3. DOMAIN b = Fields /\ b.pc = "nextpage" /\ b.split = th[t].split
    BY DEF ClaimInv, Shape, Fields
  <2> HIDE DEF a, b
  <2>4. DOMAIN NoSplit = SplitFields
    BY DEF NoSplit, SplitFields
  <2>5. DOMAIN th[t].split = SplitFields
    BY DEF ClaimInv, Shape
  <2>. QED BY <2>1, <2>2, <2>3, <2>4, <2>5
<1>2. OthersKeep(t) /\ th'[t] = r /\ DOMAIN th' = Threads
  BY <1>1, Alone
<1>3. th[t].pc = "move" /\ Deleted(t)
  BY DEF PageDone
<1> DEFINE p == th[t].split.page
<1>4. /\ Fewer(Threads)
      /\ ~th[t].split.base =>
           p \in kept' \/ \A q \in Pages : holder'[q] = t => q # p
  <2>1. CASE th[t].split.base
    BY <1>3, <2>1, NoneLess DEF Deleted, gone
  <2>2. CASE ~th[t].split.base
    <3>1. \/ holder' = [holder EXCEPT ![p] = NoThread] /\ kept' = kept
          \/ holder' = holder /\ kept' = kept \cup {p}
      BY <1>3, <2>2 DEF Deleted
    <3>2. CASE holder' = [holder EXCEPT ![p] = NoThread] /\ kept' = kept
      BY <3>2, OneLess
    <3>3. CASE holder' = holder /\ kept' = kept \cup {p}
      BY <3>3 DEF Fewer, ClaimInv, Shape
    <3>. QED BY <3>1, <3>2, <3>3
  <2>. QED BY <2>1, <2>2
<1>5. Holds(t)' \subseteq kept'
  <2>1. Holds(t) \subseteq (IF th[t].split.base THEN {} ELSE {p}) \cup kept
    BY <1>3 DEF ClaimInv, Good, MayHold
  <2>. QED BY <1>4, <2>1 DEF Holds, Fewer
<1>6. Good(t)'
  BY <1>1, <1>2, <1>5 DEF Good, BeginsAtBase
<1>7. Fewer(Threads \ {t})
  BY <1>4 DEF Fewer
<1>. QED BY <1>1, <1>2, <1>6, <1>7, Whole

\* The split claims the next page of the old chain with empty hands.
LEMMA NextPageKeeps ==
  ASSUME ClaimInv, NEW t \in Threads, NextPage(t)
  PROVE  ClaimInv'
<1> DEFINE p == th[t].split.next
           s == [th[t].split EXCEPT !.base = FALSE, !.page = p,
                                    !.todo = page[p].keys, !.next = page[p].next]
           r == [th[t] EXCEPT !.pc = "move", !.split = s]
<1>1. DOMAIN s = SplitFields /\ s.base = FALSE /\ s.page = p
  BY DEF ClaimInv, Shape, SplitFields
<1>2. /\ th[t].pc = "nextpage" /\ holder[p] \in {NoThread, t} /\ kept' = kept
      /\ holder' = [holder EXCEPT ![p] = t]
  BY DEF NextPage, Available, gone
<1>3. th' = [th EXCEPT ![t] = r]
  BY DEF NextPage, ClaimInv, Shape, Fields
<1> HIDE DEF s
<1>4. DOMAIN r = Fields /\ r.pc = "move" /\ r.split = s
  BY DEF ClaimInv, Shape, Fields
<1> HIDE DEF r
<1>5. OthersKeep(t) /\ th'[t] = r /\ DOMAIN th' = Threads
  BY <1>3, Alone
<1>6. Fewer(Threads \ {t})
  BY <1>2 DEF Fewer, ClaimInv, Shape
<1>7. Holds(t)' \subseteq {p} \cup kept'
  <2>1. Holds(t) \subseteq kept
    BY <1>2 DEF ClaimInv, Good, MayHold
  <2>. QED BY <1>2, <2>1 DEF Holds, ClaimInv, Shape
<1>8. Good(t)'
  BY <1>1, <1>4, <1>5, <1>7 DEF Good, MayHold, BeginsAtBase
<1>. QED BY <1>1, <1>4, <1>5, <1>6, <1>8, Whole

----------------------------------------------------------------------------
\* A behaviour ends for all threads at once.
LEMMA StopEnds ==
  ASSUME ClaimInv, NEW t \in Threads, NEW why \in Over, Stop(why)
  PROVE  Dead'
<1>1. ASSUME NEW u \in Threads
      PROVE  th'[u].pc \in Over
  <2>1. th'[u] = [th[u] EXCEPT !.pc = why] /\ DOMAIN th[u] = Fields
    BY DEF Stop, ClaimInv, Shape
  <2>. QED BY <2>1 DEF Fields
<1>. QED BY <1>1 DEF Dead

Ends(t) == Lost(t) \/ Abort(t) \/ NewBucketTwice(t)

LEMMA EndsDead ==
  ASSUME ClaimInv, NEW t \in Threads, Ends(t)
  PROVE  Dead'
<1>1. Stop("lost") \/ Stop("abort") \/ Stop("twice")
  BY DEF Ends, Lost, Abort, NewBucketTwice
<1>. QED BY <1>1, StopEnds DEF Over

\* Nothing happens after the end.
LEMMA DeadStays ==
  ASSUME Dead, [Next]_vars
  PROVE  Dead'
<1>1. ASSUME NEW t \in Threads, NEW op, NEW k, NEW v, Call(t, op, k, v)
      PROVE  FALSE
  BY <1>1 DEF Dead, Over, Call
<1>2. ASSUME NEW t \in Threads, Step(t)
      PROVE  FALSE
  <2>1. th[t].pc \in {"abort", "lost", "twice"}
    BY DEF Dead, Over
  <2>. QED BY <1>2, <2>1 DEF Step, Wait, Seek, Misread, Lost, Claims, Deliver, Abort,
         Replace, Add, AddOverflow, Putting, GrowMax, GrowMasks, NewBucket, NewBucketTwice,
         Split, Move, PageDone, NextPage
<1>3. UNCHANGED vars
  BY <1>1, <1>2 DEF Next, Threads
<1>. QED BY <1>3 DEF vars, Dead

\* Every step of a thread in a call.
LEMMA StepKeeps ==
  ASSUME ClaimInv, NEW t \in Threads, Step(t), ~Ends(t)
  PROVE  ClaimInv'
<1>1. CASE GrowMasks(t)
  <2>1. Fewer(Threads)
    BY <1>1, NoneLess DEF GrowMasks
  <2>. QED BY <1>1, <2>1, GoOn DEF GrowMasks
<1>2. CASE NewBucket(t)
  <2>1. Fewer(Threads)
    BY <1>2, NoneLess DEF NewBucket, gone
  <2>. QED BY <1>2, <2>1, GoOn DEF NewBucket
<1>. QED
  BY <1>1, <1>2, WaitKeeps, SeekKeeps, MisreadKeeps, DeliverKeeps, ReplaceKeeps, AddKeeps,
     AddOverflowKeeps, GrowMaxKeeps, SplitKeeps, MoveKeeps, PageDoneKeeps, NextPageKeeps
  DEF Step, Ends

\* What the threads have claimed at each step is an invariant, up to the end.
LEMMA ClaimInvariant == Spec => [](ClaimInv \/ Dead)
<1>1. Init => ClaimInv
  <2> SUFFICES ASSUME Init PROVE ClaimInv
    OBVIOUS
  <2>1. \A t \in Threads : Holds(t) = {}
    BY AccessAssumption DEF Init, Holds
  <2>2. DOMAIN Resting = Fields /\ Resting.split = NoSplit /\ Resting.pc = "idle"
    BY DEF Resting, Fields
  <2>3. DOMAIN NoSplit = SplitFields
    BY DEF NoSplit, SplitFields
  <2>4. \A t \in Threads : th[t] = Resting
    BY DEF Init
  <2>5. Shape
    BY <2>2, <2>3, <2>4 DEF Shape, Init
  <2>6. \A t \in Threads : Good(t)
    BY <2>1, <2>2, <2>4 DEF Good, BeginsAtBase
  <2>. QED BY <2>5, <2>6 DEF ClaimInv
<1>2. ClaimInv /\ [Next]_vars => (ClaimInv \/ Dead)'
  <2> SUFFICES ASSUME ClaimInv, [Next]_vars PROVE ClaimInv' \/ Dead'
    OBVIOUS
  <2>1. CASE UNCHANGED vars
    BY <2>1 DEF vars, pool, gone, ClaimInv, Shape, Good, Holds, MayHold, BeginsAtBase
  <2>2. ASSUME NEW t \in Threads, NEW op, NEW k, NEW v, Call(t, op, k, v)
        PROVE  ClaimInv'
    BY <2>2, CallKeeps
  <2>3. ASSUME NEW t \in Threads, Step(t)
        PROVE  ClaimInv' \/ Dead'
    BY <2>3, StepKeeps, EndsDead
  <2>. QED BY <2>1, <2>2, <2>3 DEF Next, Threads
<1>. QED BY <1>1, <1>2, DeadStays, PTL DEF Spec

\* A thread that is outside put and get (_ffdb_hash_put without NOOVERWRITE,
\* _ffdb_hash_get) has no page claimed but those whose deletion was refused,
\* whatever splits, waits and lookups of other threads came between, for any
\* number of threads.
THEOREM AccessGivesPagesBack == Spec => []PagesGivenBack
<1>1. ClaimInv => PagesGivenBack
  BY DEF ClaimInv, Good, MayHold, PagesGivenBack
<1>2. Dead => PagesGivenBack
  BY DEF Dead, Over, PagesGivenBack
<1>. QED BY <1>1, <1>2, ClaimInvariant, PTL

(***************************************************************************)
(* One writer, any number of readers: what the pages of the table hold     *)
(* while a put splits a bucket.  The proof gives every page an owner, its  *)
(* bucket, Rest for the pages of the old chain that the split has still to *)
(* deal out, or None, and its place in the owner's chain.  The parts of    *)
(* the invariant are about any table pg and any values gv, so that a step  *)
(* of the program is a step from one table to another.                     *)
(***************************************************************************)
None == -1
Rest == -2

Entries == [key : Keys, val : Values]
PageSet == [keys : Seq(Entries), next : Overflow \cup {NoPage}]

PageTypes(pg, gv) ==
  pg \in [Pages -> PageSet] /\ gv \in [Keys -> Values \cup {NoVal}]

\* Every page has an owner and a place in its owner's chain.
Ghosts(own, idx) ==
  /\ own \in [Pages -> Buckets \cup {None, Rest}] /\ idx \in [Pages -> Nat \ {0}]
  /\ \A b \in Buckets : own[b] = b /\ idx[b] = 1

\* Only the page at rest, with which the rest of the old chain begins, has no
\* page before it.
Links(pg, own, idx, rest) ==
  /\ \A p \in Pages : pg[p].next # NoPage =>
       /\ own[p] # None /\ own[pg[p].next] = own[p]
       /\ idx[pg[p].next] = idx[p] + 1
  /\ \A p, q \in Pages : own[p] # None /\ own[p] = own[q] /\ idx[p] = idx[q] => p = q
  /\ \A q \in Overflow : own[q] # None /\ q # rest => \E p \in Pages : pg[p].next = q

RestOk(own, idx, rest) ==
  IF rest = NoPage THEN \A p \in Pages : own[p] # Rest
  ELSE /\ rest \in Overflow /\ own[rest] = Rest
       /\ \A p \in Pages : own[p] = Rest => idx[p] >= idx[rest]

\* Pages nobody owns are empty, and so are buckets that do not exist yet; a
\* search ends at a bucket page without keys.
EmptyOk(pg, own, top) ==
  /\ \A p \in Pages : own[p] = None => pg[p] = EmptyPage
  /\ \A b \in Buckets : /\ pg[b].keys = << >> => pg[b].next = NoPage
                        /\ b > top => pg[b] = EmptyPage

Structure(pg, own, idx, rest, top) ==
  Ghosts(own, idx) /\ Links(pg, own, idx, rest) /\ RestOk(own, idx, rest) /\ EmptyOk(pg, own, top)

FreeOk(own, fr, fs) ==
  /\ fr \in Seq(Overflow)
  /\ \A i \in DOMAIN fr : own[fr[i]] = None /\ fr[i] < fs
  /\ \A i, j \in DOMAIN fr : fr[i] = fr[j] => i = j
  /\ fs \in MaxBuckets + 1 .. MaxBuckets + MaxOvfl + 1
  /\ \A p \in Pages : p >= fs => own[p] = None

\* The keys: those of the page in hand are in the list todo, as far as they
\* are not dealt out.
Current(pg, todo, gv) ==
  /\ \A p \in Pages : \A i \in DOMAIN pg[p].keys : pg[p].keys[i].val = gv[pg[p].keys[i].key]
  /\ \A i \in DOMAIN todo : todo[i].val = gv[todo[i].key]

Distinct(s) == \A i, j \in DOMAIN s : s[i].key = s[j].key => i = j

Once(pg, hand, todo) ==
  /\ \A p \in Pages : p # hand => Distinct(pg[p].keys)
  /\ \A p, q \in Pages : \A k \in Keys :
       p # hand /\ q # hand /\ On(pg[p], k) /\ On(pg[q], k) => p = q
  /\ Distinct(todo)
  /\ \A i \in DOMAIN todo : \A p \in Pages : p # hand => ~On(pg[p], todo[i].key)

Kept(pg, hand, todo, gv) ==
  \A k \in Keys :
    \/ gv[k] = NoVal
    \/ \E p \in Pages : p # hand /\ On(pg[p], k)
    \/ \E i \in DOMAIN todo : todo[i].key = k

Contents(pg, hand, todo, gv) ==
  Current(pg, todo, gv) /\ Once(pg, hand, todo) /\ Kept(pg, hand, todo, gv)

\* Where the keys are: in their home, a bucket; the keys of the two buckets
\* of a split may still be on the rest of the old chain, and on the old
\* bucket's own pages before it is split (from is that bucket, then Rest).
Placed(pg, own, hand, todo, home, both, from) ==
  /\ \A p \in Pages, k \in Keys : p # hand /\ On(pg[p], k) =>
       \/ own[p] = home[k]
       \/ own[p] \in {Rest, from} /\ home[k] \in both
  /\ \A i \in DOMAIN todo : home[todo[i].key] \in both

\* No page before page p of its owner's chain has key k.
Passed(pg, own, idx, p, k) ==
  \A q \in Pages : own[q] = own[p] /\ idx[q] < idx[p] => ~On(pg[q], k)

----------------------------------------------------------------------------
\* Pages are numbers; buckets come first.
LEMMA Space ==
  /\ Buckets \subseteq Pages /\ Overflow \subseteq Pages /\ Pages \subseteq Nat
  /\ Buckets \cap Overflow = {} /\ NoPage \notin Pages
  /\ None \notin Pages /\ Rest \notin Pages /\ None # Rest
  /\ MaxBuckets \in Nat /\ MaxOvfl \in Nat /\ Cap \in Nat \ {0}
  /\ Overflow = MaxBuckets + 1 .. MaxBuckets + MaxOvfl
  BY AccessAssumption DEF Pages, Buckets, Overflow, None, Rest

\* A page of the table.
LEMMA PageIs ==
  ASSUME NEW pg, NEW gv, PageTypes(pg, gv), NEW p \in Pages
  PROVE  /\ pg[p] = [keys |-> pg[p].keys, next |-> pg[p].next]
         /\ pg[p].keys \in Seq(Entries) /\ pg[p].next \in Overflow \cup {NoPage}
         /\ Len(pg[p].keys) \in Nat /\ DOMAIN pg[p].keys = 1 .. Len(pg[p].keys)
         /\ \A i \in DOMAIN pg[p].keys :
              /\ pg[p].keys[i] \in Entries
              /\ pg[p].keys[i].key \in Keys /\ pg[p].keys[i].val \in Values
<1>1. pg[p] \in PageSet
  BY DEF PageTypes
<1>2. /\ pg[p] = [keys |-> pg[p].keys, next |-> pg[p].next]
      /\ pg[p].keys \in Seq(Entries) /\ pg[p].next \in Overflow \cup {NoPage}
  BY <1>1 DEF PageSet
<1>3. Len(pg[p].keys) \in Nat /\ DOMAIN pg[p].keys = 1 .. Len(pg[p].keys)
  BY <1>2
<1>4. \A i \in DOMAIN pg[p].keys : pg[p].keys[i] \in Entries
  BY <1>2, <1>3
<1>. QED BY <1>2, <1>3, <1>4 DEF Entries

\* The empty page has no keys and no link.
LEMMA EmptyIs ==
  /\ EmptyPage \in PageSet /\ EmptyPage.keys = << >> /\ EmptyPage.next = NoPage
  /\ \A k : ~On(EmptyPage, k)
  /\ DOMAIN EmptyPage.keys = {}
<1>1. << >> \in Seq(Entries) /\ DOMAIN << >> = {}
  OBVIOUS
<1>2. EmptyPage.keys = << >> /\ EmptyPage.next = NoPage
  BY DEF EmptyPage
<1>. QED BY <1>1, <1>2 DEF EmptyPage, PageSet, On

\* The page behind a page.
LEMMA NextIs ==
  ASSUME NEW pg, NEW gv, NEW own, NEW idx, NEW rest,
         PageTypes(pg, gv), Links(pg, own, idx, rest), NEW p \in Pages
  PROVE  /\ pg[p].next \in Overflow \cup {NoPage}
         /\ pg[p].next # NoPage =>
              /\ pg[p].next \in Pages /\ own[p] # None
              /\ own[pg[p].next] = own[p] /\ idx[pg[p].next] = idx[p] + 1
<1>1. pg[p].next \in Overflow \cup {NoPage}
  BY PageIs
<1>. QED BY <1>1, Space DEF Links

\* Where a page comes from: every page but the first of a chain follows one.
LEMMA HasBefore ==
  ASSUME NEW pg, NEW own, NEW idx, NEW rest,
         Ghosts(own, idx), Links(pg, own, idx, rest),
         NEW p \in Pages, own[p] # None, p # rest, idx[p] # 1
  PROVE  \E r \in Pages : own[r] = own[p] /\ idx[p] = idx[r] + 1 /\ pg[r].next = p
<1>1. p \in Overflow
  BY DEF Ghosts, Pages
<1>2. PICK r \in Pages : pg[r].next = p
  BY <1>1 DEF Links
<1>. QED BY <1>2, Space DEF Links

\* A page without a link is the last one of its chain.
LEMMA LastIs ==
  ASSUME NEW pg, NEW own, NEW idx, NEW rest,
         Ghosts(own, idx), Links(pg, own, idx, rest), RestOk(own, idx, rest),
         NEW q \in Pages, own[q] # None, pg[q].next = NoPage
  PROVE  \A p \in Pages : own[p] = own[q] => idx[p] <= idx[q]
<1> DEFINE S == {i \in Nat : i > idx[q] /\ \E p \in Pages : own[p] = own[q] /\ idx[p] = i}
<1>1. \A p \in Pages : idx[p] \in Nat /\ idx[p] # 0
  BY DEF Ghosts
<1>2. ASSUME S # {} PROVE FALSE
  <2>1. S \in SUBSET Nat
    OBVIOUS
  <2> HIDE DEF S
  <2>2. PICK i \in S : \A j \in S : i <= j
    BY <1>2, <2>1, LeastExists
  <2>3. PICK p \in Pages : own[p] = own[q] /\ idx[p] = i /\ i > idx[q]
    BY <2>2 DEF S
  <2>4. p # rest
    <3>1. CASE rest = NoPage
      BY <3>1, Space
    <3>2. CASE rest # NoPage
      BY <1>1, <2>3, <3>2 DEF RestOk
    <3>. QED BY <3>1, <3>2
  <2>5. PICK r \in Pages : own[r] = own[p] /\ idx[p] = idx[r] + 1 /\ pg[r].next = p
    BY <1>1, <2>3, <2>4, HasBefore
  <2>6. idx[r] \notin S
    BY <1>1, <2>2, <2>3, <2>5
  <2>7. ~(idx[r] > idx[q])
    BY <1>1, <2>3, <2>5, <2>6 DEF S
  <2>8. idx[r] = idx[q]
    BY <1>1, <2>3, <2>5, <2>7
  <2>9. r = q
    BY <2>3, <2>5, <2>8 DEF Links
  <2>. QED BY <2>5, <2>9, Space
<1>. QED BY <1>1, <1>2

\* A bucket has a page for each place up to the last one.
LEMMA AllPlaces ==
  ASSUME NEW pg, NEW own, NEW idx, NEW rest,
         Ghosts(own, idx), Links(pg, own, idx, rest), RestOk(own, idx, rest),
         NEW p \in Pages, own[p] \in Buckets, NEW i \in 1 .. idx[p]
  PROVE  \E q \in Pages : own[q] = own[p] /\ idx[q] = i
<1> DEFINE n == idx[p]
           T == {d \in Nat : d < n /\ ~\E q \in Pages : own[q] = own[p] /\ idx[q] = n - d}
<1>1. \A q \in Pages : idx[q] \in Nat /\ idx[q] # 0
  BY DEF Ghosts
<1>2. ASSUME T # {} PROVE FALSE
  <2>1. T \in SUBSET Nat
    OBVIOUS
  <2> HIDE DEF T
  <2>2. PICK d \in T : \A e \in T : d <= e
    BY <1>2, <2>1, LeastExists
  <2>3. d \in Nat /\ d < n /\ ~\E q \in Pages : own[q] = own[p] /\ idx[q] = n - d
    BY DEF T
  <2>4. d # 0
    BY <1>1, <2>3
  <2>5. d - 1 \in Nat /\ d - 1 < n /\ d - 1 \notin T
    BY <1>1, <2>2, <2>3, <2>4
  <2>6. PICK q \in Pages : own[q] = own[p] /\ idx[q] = n - (d - 1)
    BY <2>5 DEF T
  <2>7. own[q] # None /\ q # rest /\ idx[q] # 1
    <3>1. own[q] # None /\ own[q] # Rest
      BY <2>6, Space
    <3>2. rest # NoPage => own[rest] = Rest
      BY DEF RestOk
    <3>. QED BY <1>1, <2>3, <2>6, <3>1, <3>2, Space
  <2>8. PICK r \in Pages : own[r] = own[q] /\ idx[q] = idx[r] + 1
    BY <2>7, HasBefore
  <2>9. idx[r] = n - d
    BY <1>1, <2>3, <2>6, <2>8
  <2>. QED BY <2>3, <2>6, <2>8, <2>9
<1>3. n - i \in Nat /\ n - i < n /\ n - i \notin T /\ n - (n - i) = i
  BY <1>1, <1>2
<1>. QED BY <1>3

\* A chain has at most all overflow pages after the bucket's page.
LEMMA Bounded ==
  ASSUME NEW pg, NEW own, NEW idx, NEW rest,
         Ghosts(own, idx), Links(pg, own, idx, rest), RestOk(own, idx, rest),
         NEW p \in Pages, own[p] \in Buckets
  PROVE  idx[p] \in 1 .. MaxOvfl + 1
<1> DEFINE n == idx[p]
           S == 2 .. n
           At(i) == CHOOSE q \in Pages : own[q] = own[p] /\ idx[q] = i
           f == [i \in S |-> At(i)]
<1>1. n \in Nat /\ n # 0 /\ MaxOvfl \in Nat
  BY Space DEF Ghosts
<1>2. ASSUME NEW i \in S
      PROVE  At(i) \in Overflow /\ idx[At(i)] = i
  <2>1. \E q \in Pages : own[q] = own[p] /\ idx[q] = i
    BY <1>1, AllPlaces
  <2>2. At(i) \in Pages /\ idx[At(i)] = i
    BY <2>1
  <2> HIDE DEF At
  <2>3. i # 1
    OBVIOUS
  <2>. QED BY <2>2, <2>3 DEF Ghosts, Pages
<1> HIDE DEF At
<1>3. f \in Injection(S, Overflow)
  <2>1. f \in [S -> Overflow]
    BY <1>2
  <2>2. ASSUME NEW i \in S, NEW j \in S, f[i] = f[j] PROVE i = j
    BY <1>2, <2>2
  <2>3. DOMAIN f = S
    OBVIOUS
  <2> HIDE DEF f
  <2>. QED BY <2>1, <2>2, <2>3 DEF Injection, IsInjective
<1>4. IsFiniteSet(Overflow) /\ Cardinality(Overflow) = MaxOvfl
  <2>1. Overflow = MaxBuckets + 1 .. MaxBuckets + MaxOvfl
    BY Space
  <2>2. MaxBuckets + 1 \in Int /\ MaxBuckets + MaxOvfl \in Int
    BY Space
  <2>3. /\ IsFiniteSet(Overflow)
        /\ Cardinality(Overflow) =
             IF MaxBuckets + 1 > MaxBuckets + MaxOvfl THEN 0
             ELSE (MaxBuckets + MaxOvfl) - (MaxBuckets + 1) + 1
    BY <2>1, <2>2, FS_Interval
  <2>. QED BY <2>3, Space
<1> HIDE DEF f, S
<1>5. Cardinality(S) <= MaxOvfl
  BY <1>3, <1>4, FS_Injection
<1>6. Cardinality(S) = IF 2 > n THEN 0 ELSE n - 2 + 1
  <2>1. 2 \in Int /\ n \in Int
    BY <1>1
  <2>. QED BY <2>1, FS_Interval DEF S
<1>. QED BY <1>1, <1>5, <1>6

\* A list is the chain of bucket b: its i-th page has place i, and every page
\* of the bucket is on it.
ChainAs(c, own, idx, b) ==
  /\ c \in Seq(Pages) /\ Len(c) \in Nat \ {0} /\ DOMAIN c = 1 .. Len(c)
  /\ \A i \in 1 .. Len(c) : own[c[i]] = b /\ idx[c[i]] = i
  /\ \A q \in Pages : own[q] = b => idx[q] \in 1 .. Len(c) /\ c[idx[q]] = q

LEMMA ChainIs ==
  ASSUME NEW own, NEW idx, NEW rest, PageTypes(page, given),
         Ghosts(own, idx), Links(page, own, idx, rest), RestOk(own, idx, rest),
         NEW b \in Buckets
  PROVE  ChainAs(ChainOf(b), own, idx, b) /\ ChainOf(b)[1] = b
<1> DEFINE N == MaxOvfl
           Has(i) == \E q \in Pages : own[q] = b /\ idx[q] = i + 1
           At(i) == CHOOSE q \in Pages : own[q] = b /\ idx[q] = i + 1
           g(i) == IF Has(i) THEN At(i) ELSE NoPage
           Is(f) == f = [i \in 0 .. N |->
                           IF i = 0 THEN b
                           ELSE IF f[i - 1] = NoPage THEN NoPage ELSE page[f[i - 1]].next]
           c == CHOOSE f : Is(f)
<1>1. /\ N \in Nat /\ b \in Pages /\ own[b] = b /\ idx[b] = 1 /\ b # None
      /\ \A q \in Pages : idx[q] \in Nat /\ idx[q] # 0
  BY Space DEF Ghosts
<1>2. ASSUME NEW i \in Nat, Has(i)
      PROVE  /\ At(i) \in Pages /\ own[At(i)] = b /\ idx[At(i)] = i + 1
             /\ \A q \in Pages : own[q] = b /\ idx[q] = i + 1 => At(i) = q
  <2>1. At(i) \in Pages /\ own[At(i)] = b /\ idx[At(i)] = i + 1
    BY <1>2
  <2>. QED BY <1>1, <2>1 DEF Links
<1> HIDE DEF At
<1>3. g(0) = b
  <2>1. Has(0)
    BY <1>1
  <2>2. At(0) = b
    BY <1>1, <1>2, <2>1
  <2>. QED BY <2>1, <2>2
<1>4. ASSUME NEW i \in Nat
      PROVE  g(i + 1) = IF g(i) = NoPage THEN NoPage ELSE page[g(i)].next
  <2>1. ASSUME Has(i + 1)
        PROVE  Has(i) /\ page[At(i)].next = At(i + 1)
    <3> DEFINE q == At(i + 1)
    <3>1. i + 1 \in Nat /\ q \in Pages /\ own[q] = b /\ idx[q] = i + 2
      BY <1>2, <2>1
    <3> HIDE DEF q
    <3>2. own[q] # None /\ q # rest /\ idx[q] # 1
      <4>1. rest # NoPage => own[rest] = Rest
        BY DEF RestOk
      <4>. QED BY <1>1, <3>1, <4>1, Space
    <3>3. PICK r \in Pages : own[r] = own[q] /\ idx[q] = idx[r] + 1 /\ page[r].next = q
      BY <3>1, <3>2, HasBefore
    <3>4. idx[r] = i + 1 /\ own[r] = b
      BY <1>1, <3>1, <3>3
    <3>5. Has(i) /\ At(i) = r
      BY <1>2, <3>4
    <3>. QED BY <3>3, <3>5 DEF q
  <2>2. ASSUME Has(i), page[At(i)].next # NoPage
        PROVE  Has(i + 1)
    <3>1. At(i) \in Pages /\ own[At(i)] = b /\ idx[At(i)] = i + 1
      BY <1>2, <2>2
    <3>2. page[At(i)].next \in Pages
      BY <2>2, <3>1, PageIs, Space
    <3>. QED BY <2>2, <3>1, <3>2 DEF Links
  <2>3. Has(i) => At(i) # NoPage
    BY <1>2, Space
  <2>4. CASE Has(i + 1)
    BY <2>1, <2>3, <2>4
  <2>5. CASE ~Has(i + 1)
    BY <2>2, <2>3, <2>5
  <2>. QED BY <2>4, <2>5
<1>5. \A i \in Nat : g(i) # NoPage <=> Has(i)
  BY <1>2, Space
<1>6. ASSUME NEW i \in Nat, Has(i)
      PROVE  i \in 0 .. N
  <2>1. own[At(i)] = b /\ idx[At(i)] = i + 1 /\ At(i) \in Pages
    BY <1>2, <1>6
  <2>2. idx[At(i)] \in 1 .. MaxOvfl + 1
    BY <2>1, Bounded
  <2>. QED BY <1>1, <2>1, <2>2
<1>7. PICK m \in Nat \ {0} : \A i \in Nat : Has(i) <=> i < m
  <2> DEFINE S == {i \in Nat : ~Has(i)}
  <2>1. N + 1 \in S
    BY <1>1, <1>6
  <2>2. S \in SUBSET Nat
    OBVIOUS
  <2> HIDE DEF S
  <2>3. PICK m \in S : \A j \in S : m <= j
    BY <2>1, <2>2, LeastExists
  <2>4. m \in Nat /\ ~Has(m) /\ \A i \in Nat : i < m => Has(i)
    BY <2>3 DEF S
  <2>5. m # 0
    BY <1>1, <2>4
  <2>6. ASSUME NEW i \in Nat, Has(i), ~(i < m) PROVE FALSE
    <3>1. own[At(i)] = b /\ idx[At(i)] = i + 1 /\ At(i) \in Pages
      BY <1>2, <2>6
    <3>2. m + 1 \in 1 .. idx[At(i)]
      BY <2>4, <2>6, <3>1
    <3>3. \E q \in Pages : own[q] = own[At(i)] /\ idx[q] = m + 1
      BY <3>1, <3>2, AllPlaces
    <3>. QED BY <2>4, <3>1, <3>3
  <2>. QED BY <2>4, <2>5, <2>6
<1> HIDE DEF Has
<1>8. Is([i \in 0 .. N |-> g(i)])
  <2> DEFINE h == [i \in 0 .. N |-> g(i)]
  <2>1. ASSUME NEW i \in 0 .. N
        PROVE  h[i] = IF i = 0 THEN b
                      ELSE IF h[i - 1] = NoPage THEN NoPage ELSE page[h[i - 1]].next
    <3>1. CASE i = 0
      BY <1>3, <3>1
    <3>2. CASE i # 0
      <4>1. i - 1 \in 0 .. N /\ i - 1 \in Nat /\ (i - 1) + 1 = i
        BY <1>1, <3>2
      <4>2. h[i - 1] = g(i - 1) /\ h[i] = g(i)
        BY <4>1
      <4> HIDE DEF g, h
      <4>. QED BY <1>4, <3>2, <4>1, <4>2
    <3>. QED BY <3>1, <3>2
  <2> HIDE DEF g
  <2>2. h = [i \in 0 .. N |-> h[i]]
    OBVIOUS
  <2> HIDE DEF h
  <2>3. Is(h)
    BY <2>1, <2>2, Zenon
  <2>. QED BY <2>3 DEF h
<1> HIDE DEF g
<1>9. Is(c)
  BY <1>8
<1>10. ChainOf(b) = [i \in 1 .. Cardinality({i \in 0 .. N : c[i] # NoPage}) |-> c[i - 1]]
  BY DEF ChainOf
<1> HIDE DEF c
<1>11. \A i \in 0 .. N : c[i] = g(i)
  <2> DEFINE S == {i \in Nat : i <= N /\ c[i] # g(i)}
  <2>1. ASSUME S # {} PROVE FALSE
    <3>1. S \in SUBSET Nat
      OBVIOUS
    <3> HIDE DEF S
    <3>2. PICK i \in S : \A j \in S : i <= j
      BY <2>1, <3>1, LeastExists
    <3>3. i \in Nat /\ i <= N /\ c[i] # g(i) /\ i \in 0 .. N
      BY <1>1, <3>2 DEF S
    <3>4. c[i] = IF i = 0 THEN b
                 ELSE IF c[i - 1] = NoPage THEN NoPage ELSE page[c[i - 1]].next
      BY <1>9, <3>3
    <3>5. i # 0
      BY <1>3, <3>3, <3>4
    <3>6. i - 1 \in Nat /\ i - 1 \notin S /\ i - 1 <= N /\ (i - 1) + 1 = i
      BY <1>1, <3>2, <3>3, <3>5
    <3>7. c[i - 1] = g(i - 1)
      BY <3>6 DEF S
    <3>8. g(i) = IF g(i - 1) = NoPage THEN NoPage ELSE page[g(i - 1)].next
      BY <1>4, <3>6
    <3>. QED BY <3>3, <3>4, <3>5, <3>7, <3>8
  <2>. QED BY <1>1, <2>1
<1>12. m <= N + 1
  <2>1. m - 1 \in Nat /\ m - 1 < m
    OBVIOUS
  <2>2. m - 1 \in 0 .. N
    BY <1>6, <1>7, <2>1
  <2>. QED BY <1>1, <2>2
<1>13. {i \in 0 .. N : c[i] # NoPage} = 0 .. m - 1
  BY <1>1, <1>5, <1>7, <1>11, <1>12
<1>14. Cardinality(0 .. m - 1) = m
  <2>1. 0 \in Int /\ m - 1 \in Int
    OBVIOUS
  <2>2. Cardinality(0 .. m - 1) = IF 0 > m - 1 THEN 0 ELSE (m - 1) - 0 + 1
    BY <2>1, FS_Interval
  <2>. QED BY <2>2
<1> DEFINE ch == ChainOf(b)
<1>15. ch = [i \in 1 .. m |-> c[i - 1]]
  BY <1>10, <1>13, <1>14
<1> HIDE DEF ch
<1>16. ASSUME NEW i \in 1 .. m
       PROVE  /\ ch[i] \in Pages /\ own[ch[i]] = b /\ idx[ch[i]] = i
              /\ \A q \in Pages : own[q] = b /\ idx[q] = i => ch[i] = q
  <2>1. i - 1 \in 0 .. N /\ i - 1 \in Nat /\ i - 1 < m /\ (i - 1) + 1 = i
    BY <1>1, <1>12
  <2>2. ch[i] = g(i - 1) /\ Has(i - 1)
    BY <1>7, <1>11, <1>15, <2>1
  <2>3. ch[i] = At(i - 1)
    BY <2>2 DEF g
  <2>. QED BY <1>2, <2>1, <2>2, <2>3
<1>17. ch \in Seq(Pages) /\ Len(ch) = m /\ DOMAIN ch = 1 .. m
  <2>1. ch \in [1 .. m -> Pages]
    BY <1>15, <1>16
  <2>. QED BY <1>15, <2>1, SeqDef, LenProperties
<1>18. ASSUME NEW q \in Pages, own[q] = b
       PROVE  idx[q] \in 1 .. m /\ ch[idx[q]] = q
  <2>1. idx[q] - 1 \in Nat /\ (idx[q] - 1) + 1 = idx[q]
    BY <1>1
  <2>2. Has(idx[q] - 1)
    BY <1>18, <2>1 DEF Has
  <2>3. idx[q] \in 1 .. m
    BY <1>1, <1>7, <2>1, <2>2
  <2>. QED BY <1>16, <1>18, <2>3
<1>19. ch[1] = b
  BY <1>1, <1>18
<1>. QED BY <1>16, <1>17, <1>18, <1>19 DEF ChainAs, ch

\* The walk of _ffdb_add_key_datap_to_bucket ends on a page with room or on
\* the last page of the chain.
LEMMA WalkEnds ==
  ASSUME NEW own, NEW idx, NEW rest, PageTypes(page, given),
         Ghosts(own, idx), Links(page, own, idx, rest),
         NEW b \in Buckets, NEW c, ChainAs(c, own, idx, b)
  PROVE  LET w == Walk(c)
             p == w[Len(w)]
         IN  /\ Len(w) \in DOMAIN w /\ p \in Pages /\ own[p] = b
             /\ Fits(page[p]) \/ page[p].next = NoPage
<1> DEFINE room == {i \in DOMAIN c : Fits(page[c[i]])}
           w == Walk(c)
           p == w[Len(w)]
<1>1. /\ Len(c) \in Nat \ {0} /\ DOMAIN c = 1 .. Len(c) /\ c \in Seq(Pages)
      /\ \A i \in 1 .. Len(c) : c[i] \in Pages
  BY DEF ChainAs
<1>2. CASE room = {}
  <2>1. w = c
    BY <1>2 DEF Walk
  <2>2. Len(c) \in DOMAIN c
    BY <1>1
  <2> DEFINE q == c[Len(c)]
  <2>3. q \in Pages /\ own[q] = b /\ idx[q] = Len(c)
    BY <1>1 DEF ChainAs
  <2> HIDE DEF q
  <2>4. page[q].next = NoPage
    <3> SUFFICES ASSUME page[q].next # NoPage PROVE FALSE
      OBVIOUS
    <3> DEFINE r == page[q].next
    <3>1. own[r] = b /\ idx[r] = Len(c) + 1
      BY <2>3 DEF Links
    <3>2. r \in Pages
      BY <2>3, PageIs, Space
    <3>3. idx[r] \in 1 .. Len(c)
      BY <3>1, <3>2 DEF ChainAs
    <3>. QED BY <1>1, <3>1, <3>3
  <2> HIDE DEF w
  <2>. QED BY <2>1, <2>2, <2>3, <2>4 DEF w, q
<1>3. CASE room # {}
  <2> DEFINE i == CHOOSE i \in room : \A j \in room : i <= j
  <2>1. room \in SUBSET Nat
    BY <1>1
  <2>2. i \in room
    <3> HIDE DEF room
    <3>1. \E x \in room : \A y \in room : x <= y
      BY <1>3, <2>1, LeastExists
    <3>. QED BY <3>1
  <2>3. w = SubSeq(c, 1, i)
    BY <1>3 DEF Walk
  <2>4. i \in 1 .. Len(c) /\ Fits(page[c[i]])
    BY <1>1, <2>2
  <2> HIDE DEF i, w
  <2>5. Len(w) = i /\ DOMAIN w = 1 .. i /\ w[i] = c[i]
    BY <1>1, <2>3, <2>4
  <2>6. own[c[i]] = b /\ c[i] \in Pages
    BY <1>1, <2>4 DEF ChainAs
  <2>. QED BY <2>4, <2>5, <2>6 DEF w
<1>. QED BY <1>2, <1>3

----------------------------------------------------------------------------
(***************************************************************************)
(* Steps from one table to another.                                        *)
(***************************************************************************)

\* The keys of a page that has an owner change: its bucket exists, and a
\* bucket page that is left without keys has no link.
LEMMA KeysChange ==
  ASSUME NEW pg, NEW own, NEW idx, NEW rest, NEW top,
         Structure(pg, own, idx, rest, top),
         NEW pg2, NEW p \in Pages, own[p] # None, top \in Int,
         \A q \in Pages : pg2[q].next = pg[q].next,
         \A q \in Pages : q # p => pg2[q] = pg[q],
         p \in Buckets => p <= top /\ (pg2[p].keys = << >> => pg[p].keys = << >>)
  PROVE  Structure(pg2, own, idx, rest, top)
<1>1. Links(pg2, own, idx, rest)
  BY DEF Structure, Links
<1>2. EmptyOk(pg, own, top) /\ Buckets \subseteq Pages /\ Buckets \subseteq Nat
  BY Space DEF Structure
<1>3. ASSUME NEW b \in Buckets
      PROVE  /\ pg2[b].keys = << >> => pg2[b].next = NoPage
             /\ b > top => pg2[b] = EmptyPage
  <2>1. b \in Pages /\ pg2[b].next = pg[b].next /\ (b # p => pg2[b] = pg[b])
    BY <1>2
  <2>2. b = p => ~(b > top) /\ (pg2[b].keys = << >> => pg[b].keys = << >>)
    BY <1>2
  <2>. QED BY <1>2, <2>1, <2>2 DEF EmptyOk
<1>4. EmptyOk(pg2, own, top)
  BY <1>2, <1>3 DEF EmptyOk
<1>. QED BY <1>1, <1>4 DEF Structure

\* A new page o with keys ks goes to the end of a chain, behind page p.
Linked(pg, own, idx, pg2, own2, idx2, p, o, ks) ==
  /\ pg2 = [pg EXCEPT ![p].next = o, ![o] = [EmptyPage EXCEPT !.keys = ks]]
  /\ own2 = [own EXCEPT ![o] = own[p]] /\ idx2 = [idx EXCEPT ![o] = idx[p] + 1]

\* The page before it is full.
LEMMA LinkPage ==
  ASSUME NEW pg, NEW gv, NEW own, NEW idx, NEW rest, NEW top,
         PageTypes(pg, gv), Structure(pg, own, idx, rest, top),
         NEW p \in Pages, own[p] \in Buckets, pg[p].next = NoPage, pg[p].keys # << >>,
         NEW o \in Overflow, own[o] = None,
         NEW ks, NEW pg2, NEW own2, NEW idx2, Linked(pg, own, idx, pg2, own2, idx2, p, o, ks)
  PROVE  /\ Structure(pg2, own2, idx2, rest, top)
         /\ \A q \in Pages \ {o} : pg2[q].keys = pg[q].keys
         /\ pg2[o].keys = ks /\ pg[o].keys = << >>
<1> USE DEF Linked
<1>1. /\ own \in [Pages -> Buckets \cup {None, Rest}] /\ idx \in [Pages -> Nat \ {0}]
      /\ \A b \in Buckets : own[b] = b /\ idx[b] = 1
      /\ o \in Pages /\ o \notin Buckets /\ p # o /\ own[p] # None /\ own[p] # Rest
      /\ own[p] \in Buckets \cup {None, Rest}
      /\ \A q \in Pages : idx[q] \in Nat /\ idx[q] # 0
  BY Space DEF Structure, Ghosts
<1>2. /\ pg2[o] = [EmptyPage EXCEPT !.keys = ks] /\ pg2[p] = [pg[p] EXCEPT !.next = o]
      /\ \A q \in Pages : q # o /\ q # p => pg2[q] = pg[q]
  BY <1>1 DEF PageTypes
<1>3. pg[o] = EmptyPage
  BY <1>1 DEF Structure, EmptyOk
<1>4. /\ pg2[o].keys = ks /\ pg2[o].next = NoPage
      /\ pg2[p].keys = pg[p].keys /\ pg2[p].next = o
  <2>1. pg[p] \in PageSet
    BY DEF PageTypes
  <2>2. pg2[p].keys = pg[p].keys /\ pg2[p].next = o
    BY <1>2, <2>1 DEF PageSet
  <2>3. pg2[o].keys = ks /\ pg2[o].next = NoPage
    <3>1. pg2[o] = [EmptyPage EXCEPT !.keys = ks]
      BY <1>2
    <3>2. [EmptyPage EXCEPT !.keys = ks] = [keys |-> ks, next |-> NoPage]
      BY DEF EmptyPage
    <3>. QED BY <3>1, <3>2
  <2>. QED BY <2>2, <2>3
<1>5. /\ own2 \in [Pages -> Buckets \cup {None, Rest}] /\ idx2 \in [Pages -> Nat \ {0}]
      /\ own2[o] = own[p] /\ idx2[o] = idx[p] + 1
      /\ \A q \in Pages : q # o => own2[q] = own[q] /\ idx2[q] = idx[q]
  BY <1>1
<1>6. Ghosts(own2, idx2)
  BY <1>1, <1>5, Space DEF Ghosts
<1>7. \A q \in Pages : own[q] = own[p] => idx[q] <= idx[p]
  BY <1>1, LastIs DEF Structure
<1>8. \A q \in Pages : pg[q].next # o
  <2>1. o # NoPage
    BY Space
  <2>2. \A q \in Pages : pg[q].next # NoPage => own[q] # None /\ own[pg[q].next] = own[q]
    BY DEF Structure, Links
  <2>. QED BY <2>1, <2>2
<1>9. \A q \in Pages : pg[q].next # NoPage => pg[q].next \in Pages
  BY PageIs, Space
<1>10. Links(pg2, own2, idx2, rest)
  <2>1. ASSUME NEW q \in Pages, pg2[q].next # NoPage
        PROVE  /\ own2[q] # None /\ own2[pg2[q].next] = own2[q]
               /\ idx2[pg2[q].next] = idx2[q] + 1
    <3>1. CASE q = p
      BY <1>1, <1>4, <1>5, <3>1
    <3>2. CASE q # p
      <4>1. q # o /\ pg2[q] = pg[q]
        BY <1>2, <1>4, <2>1, <3>2
      <4>2. pg[q].next \in Pages /\ pg[q].next # o
        BY <1>8, <1>9, <2>1, <4>1
      <4>. QED BY <1>5, <2>1, <4>1, <4>2 DEF Structure, Links
    <3>. QED BY <3>1, <3>2
  <2>2. ASSUME NEW q \in Pages, NEW r \in Pages,
               own2[q] # None, own2[q] = own2[r], idx2[q] = idx2[r]
        PROVE  q = r
    <3>1. CASE q # o /\ r # o
      BY <1>5, <2>2, <3>1 DEF Structure, Links
    <3>2. \A s \in Pages : own[s] = own[p] => idx[s] # idx[p] + 1
      BY <1>1, <1>7
    <3>. QED BY <1>5, <2>2, <3>1, <3>2
  <2>3. ASSUME NEW q \in Overflow, own2[q] # None, q # rest
        PROVE  \E r \in Pages : pg2[r].next = q
    <3>1. CASE q = o
      BY <1>4, <3>1
    <3>2. CASE q # o
      <4>1. q \in Pages /\ own[q] # None
        BY <1>5, <2>3, <3>2, Space
      <4>2. PICK r \in Pages : pg[r].next = q
        BY <2>3, <4>1 DEF Structure, Links
      <4>3. q # NoPage
        BY <4>1, Space
      <4>4. r # p /\ r # o
        BY <1>3, <4>2, <4>3, EmptyIs
      <4>. QED BY <1>2, <4>2, <4>4
    <3>. QED BY <3>1, <3>2
  <2>. QED BY <2>1, <2>2, <2>3 DEF Links
<1>11. RestOk(own2, idx2, rest)
  <2>1. rest # NoPage => rest # o
    BY <1>1, Space DEF Structure, RestOk
  <2>2. rest \in Overflow => rest \in Pages
    BY Space
  <2>. QED BY <1>1, <1>5, <2>1, <2>2 DEF Structure, RestOk
<1>12. EmptyOk(pg2, own2, top)
  <2>1. \A b \in Buckets : b # o /\ b \in Pages
    BY <1>1, Space
  <2>2. p \in Buckets => ~(p > top)
    BY <1>1, EmptyIs DEF Structure, EmptyOk
  <2>3. ASSUME NEW q \in Pages, own2[q] = None PROVE pg2[q] = EmptyPage
    <3>1. q # o /\ q # p /\ own[q] = None
      BY <1>1, <1>5, <2>3
    <3>. QED BY <1>2, <3>1 DEF Structure, EmptyOk
  <2>4. ASSUME NEW b \in Buckets
        PROVE  /\ pg2[b].keys = << >> => pg2[b].next = NoPage
               /\ b > top => pg2[b] = EmptyPage
    <3>1. CASE b = p
      BY <1>4, <2>2, <3>1
    <3>2. CASE b # p
      BY <1>2, <2>1, <3>2 DEF Structure, EmptyOk
    <3>. QED BY <3>1, <3>2
  <2>. QED BY <2>3, <2>4 DEF EmptyOk
<1>. QED BY <1>2, <1>3, <1>4, <1>6, <1>10, <1>11, <1>12, EmptyIs DEF Structure

\* Adding an entry to a page.
LEMMA OnAppend ==
  ASSUME NEW a, NEW c, a.keys \in Seq(Entries), NEW e \in Entries,
         c.keys = Append(a.keys, e)
  PROVE  /\ \A k : On(c, k) <=> On(a, k) \/ k = e.key
         /\ \A i \in DOMAIN c.keys : c.keys[i] = e \/ \E j \in DOMAIN a.keys : c.keys[i] = a.keys[j]
         /\ ~On(a, e.key) /\ Distinct(a.keys) => Distinct(c.keys)
<1> DEFINE n == Len(a.keys)
<1>1. /\ n \in Nat /\ DOMAIN a.keys = 1 .. n /\ DOMAIN c.keys = 1 .. n + 1
      /\ c.keys[n + 1] = e /\ \A i \in 1 .. n : c.keys[i] = a.keys[i]
  OBVIOUS
<1> HIDE DEF n
<1>2. \A i \in DOMAIN c.keys : i = n + 1 \/ i \in 1 .. n
  BY <1>1
<1>3. ASSUME NEW k PROVE On(c, k) <=> On(a, k) \/ k = e.key
  <2>1. On(c, k) => On(a, k) \/ k = e.key
    BY <1>1, <1>2 DEF On
  <2>2. On(a, k) => On(c, k)
    BY <1>1 DEF On
  <2>3. n + 1 \in DOMAIN c.keys
    BY <1>1
  <2>4. k = e.key => On(c, k)
    BY <1>1, <2>3 DEF On
  <2>. QED BY <2>1, <2>2, <2>4
<1>4. ASSUME ~On(a, e.key), Distinct(a.keys) PROVE Distinct(c.keys)
  <2>1. ASSUME NEW i \in DOMAIN c.keys, NEW j \in DOMAIN c.keys, c.keys[i].key = c.keys[j].key
        PROVE  i = j
    <3>1. \A x \in 1 .. n : a.keys[x].key # e.key
      BY <1>1, <1>4 DEF On
    <3>. QED BY <1>1, <1>2, <1>4, <2>1, <3>1 DEF Distinct
  <2>. QED BY <2>1 DEF Distinct
<1>. QED BY <1>1, <1>2, <1>3, <1>4

MoreOn(a, c, e) == \A k : On(c, k) <=> On(a, k) \/ k = e.key

LEMMA AppendMoreOn ==
  ASSUME NEW a, NEW c, a.keys \in Seq(Entries), NEW e \in Entries,
         c.keys = Append(a.keys, e)
  PROVE  MoreOn(a, c, e)
<1>1. \A k : On(c, k) <=> On(a, k) \/ k = e.key
  BY OnAppend
<1>. QED BY <1>1 DEF MoreOn

\* An entry e that no page and no other entry of the list has goes to a page
\* of its key's home.
Elsewhere(pg, hand, e) == \A p \in Pages : p # hand => ~On(pg[p], e.key)

Without(todo, todo2, e) ==
  /\ Distinct(todo2)
  /\ \A i \in DOMAIN todo2 : todo2[i].key # e.key /\ \E j \in DOMAIN todo : todo2[i] = todo[j]
  /\ \A j \in DOMAIN todo : todo[j].key = e.key \/ \E i \in DOMAIN todo2 : todo2[i] = todo[j]

Gives(pg, gv, gv2, e) ==
  \/ gv2 = gv /\ gv[e.key] = e.val
  \/ /\ gv2 = [gv EXCEPT ![e.key] = e.val]
     /\ \A p \in Pages : ~On(pg[p], e.key)

Added(pg, pg2, at, e) ==
  /\ \A q \in Pages \ {at} : pg2[q].keys = pg[q].keys
  /\ pg2[at].keys = Append(pg[at].keys, e)

LEMMA Gain ==
  ASSUME NEW pg, NEW gv, NEW hand, NEW todo, PageTypes(pg, gv), Contents(pg, hand, todo, gv),
         NEW e \in Entries, Elsewhere(pg, hand, e),
         NEW at \in Pages, at # hand,
         NEW pg2, Added(pg, pg2, at, e), todo \in Seq(Entries), NEW todo2, Without(todo, todo2, e),
         NEW gv2, Gives(pg, gv, gv2, e)
  PROVE  Contents(pg2, hand, todo2, gv2)
<1> USE DEF Added
<1>1. /\ e.key \in Keys /\ gv2[e.key] = e.val
      /\ \A k \in Keys : k # e.key => gv2[k] = gv[k]
  BY DEF Gives, PageTypes, Entries
<1>2. /\ \A k : On(pg2[at], k) <=> On(pg[at], k) \/ k = e.key
      /\ \A i \in DOMAIN pg2[at].keys :
           pg2[at].keys[i] = e \/ \E j \in DOMAIN pg[at].keys : pg2[at].keys[i] = pg[at].keys[j]
      /\ ~On(pg[at], e.key) /\ Distinct(pg[at].keys) => Distinct(pg2[at].keys)
  <2>1. pg[at].keys \in Seq(Entries)
    BY PageIs
  <2>. QED BY <2>1, OnAppend
<1>3. \A q \in Pages : q # at => \A k : On(pg2[q], k) <=> On(pg[q], k)
  BY DEF On
<1>4. \A q \in Pages : q # hand => ~On(pg[q], e.key)
  BY DEF Elsewhere
<1>5. Current(pg2, todo2, gv2)
  <2>1. ASSUME NEW q \in Pages, NEW i \in DOMAIN pg[q].keys
        PROVE  pg[q].keys[i].val = gv2[pg[q].keys[i].key]
    <3>1. /\ pg[q].keys[i].key \in Keys /\ pg[q].keys[i].val = gv[pg[q].keys[i].key]
          /\ On(pg[q], pg[q].keys[i].key)
      BY PageIs DEF Contents, Current, On
    <3>. QED BY <1>1, <3>1 DEF Gives
  <2>2. ASSUME NEW q \in Pages, NEW i \in DOMAIN pg2[q].keys
        PROVE  pg2[q].keys[i].val = gv2[pg2[q].keys[i].key]
    <3>1. CASE q = at
      <4>1. CASE pg2[at].keys[i] = e
        BY <1>1, <3>1, <4>1
      <4>2. CASE pg2[at].keys[i] # e
        <5>1. PICK j \in DOMAIN pg[at].keys : pg2[at].keys[i] = pg[at].keys[j]
          BY <1>2, <3>1, <4>2
        <5>. QED BY <2>1, <3>1, <5>1
      <4>. QED BY <4>1, <4>2
    <3>2. CASE q # at
      BY <2>1, <3>2
    <3>. QED BY <3>1, <3>2
  <2>3. ASSUME NEW i \in DOMAIN todo2
        PROVE  todo2[i].val = gv2[todo2[i].key]
    <3>1. PICK j \in DOMAIN todo : todo2[i] = todo[j] /\ todo[j].key # e.key
      BY DEF Without
    <3>2. todo[j].val = gv[todo[j].key]
      BY DEF Contents, Current
    <3>3. todo[j] \in Entries
      BY <3>1
    <3>4. gv2[todo[j].key] = gv[todo[j].key]
      BY <1>1, <3>1, <3>3 DEF Entries
    <3>. QED BY <3>1, <3>2, <3>4
  <2>. QED BY <2>2, <2>3 DEF Current
<1>6. Once(pg2, hand, todo2)
  <2>1. ASSUME NEW p \in Pages, p # hand PROVE Distinct(pg2[p].keys)
    BY <1>2, <1>4, <2>1 DEF Contents, Once
  <2>2. ASSUME NEW p \in Pages, NEW q \in Pages, NEW k \in Keys, p # hand, q # hand,
               On(pg2[p], k), On(pg2[q], k)
        PROVE  p = q
    <3>1. CASE k = e.key
      BY <1>3, <1>4, <2>2, <3>1
    <3>2. CASE k # e.key
      BY <1>2, <1>3, <2>2, <3>2 DEF Contents, Once
    <3>. QED BY <3>1, <3>2
  <2>3. ASSUME NEW i \in DOMAIN todo2, NEW p \in Pages, p # hand
        PROVE  ~On(pg2[p], todo2[i].key)
    <3>1. PICK j \in DOMAIN todo : todo2[i] = todo[j] /\ todo[j].key # e.key
      BY DEF Without
    <3>2. ~On(pg[p], todo[j].key)
      BY <2>3 DEF Contents, Once
    <3>. QED BY <1>2, <1>3, <3>1, <3>2
  <2>. QED BY <2>1, <2>2, <2>3 DEF Once, Without
<1>7. Kept(pg2, hand, todo2, gv2)
  <2>1. ASSUME NEW k \in Keys
        PROVE  \/ gv2[k] = NoVal
               \/ \E p \in Pages : p # hand /\ On(pg2[p], k)
               \/ \E i \in DOMAIN todo2 : todo2[i].key = k
    <3>1. CASE k = e.key
      BY <1>2, <3>1
    <3>2. CASE k # e.key /\ \E i \in DOMAIN todo : todo[i].key = k
      BY <3>2 DEF Without
    <3>3. CASE k # e.key /\ ~\E i \in DOMAIN todo : todo[i].key = k
      BY <1>1, <1>2, <1>3, <3>3 DEF Contents, Kept
    <3>. QED BY <3>1, <3>2, <3>3
  <2>. QED BY <2>1 DEF Kept
<1>. QED BY <1>5, <1>6, <1>7 DEF Contents

\* Page at is the page of bucket b, or becomes it and was empty.
Owned(pg, own, own2, at, b) ==
  /\ \A q \in Pages : q # at => own2[q] = own[q]
  /\ own2[at] = b
  /\ own2[at] = own[at] \/ pg[at].keys = << >>

\* The same for the places of the keys.
LEMMA GainPlaced ==
  ASSUME NEW pg, NEW gv, NEW own, NEW hand, NEW todo, NEW home, NEW both, NEW from,
         PageTypes(pg, gv), Placed(pg, own, hand, todo, home, both, from),
         NEW e \in Entries, NEW at \in Pages,
         NEW pg2, Added(pg, pg2, at, e), NEW todo2, Without(todo, todo2, e),
         NEW own2, Owned(pg, own, own2, at, home[e.key])
  PROVE  Placed(pg2, own2, hand, todo2, home, both, from)
<1> USE DEF Added, Owned
<1>1. /\ \A k : On(pg2[at], k) <=> On(pg[at], k) \/ k = e.key
      /\ \A i \in DOMAIN pg2[at].keys :
           pg2[at].keys[i] = e \/ \E j \in DOMAIN pg[at].keys : pg2[at].keys[i] = pg[at].keys[j]
      /\ ~On(pg[at], e.key) /\ Distinct(pg[at].keys) => Distinct(pg2[at].keys)
  <2>1. pg[at].keys \in Seq(Entries)
    BY PageIs
  <2>. QED BY <2>1, OnAppend
<1>2. \A q \in Pages : q # at => \A k : On(pg2[q], k) <=> On(pg[q], k)
  BY DEF On
<1>3. pg[at].keys = << >> => \A k : ~On(pg[at], k)
  BY DEF On
<1>4. ASSUME NEW p \in Pages, NEW k \in Keys, p # hand, On(pg2[p], k)
      PROVE  \/ own2[p] = home[k]
             \/ own2[p] \in {Rest, from} /\ home[k] \in both
  BY <1>1, <1>2, <1>3, <1>4 DEF Placed
<1>5. ASSUME NEW i \in DOMAIN todo2 PROVE home[todo2[i].key] \in both
  <2>1. PICK j \in DOMAIN todo : todo2[i] = todo[j]
    BY DEF Without
  <2>. QED BY <2>1 DEF Placed
<1>. QED BY <1>4, <1>5 DEF Placed

\* Only values on page p are different.
SameKeys(pg, pg2, p) ==
  /\ \A q \in Pages : /\ pg2[q].next = pg[q].next
                      /\ pg2[q].keys = << >> => pg[q].keys = << >>
                      /\ \A k : On(pg2[q], k) <=> On(pg[q], k)
  /\ \A q \in Pages : q # p => pg2[q] = pg[q]

\* The i-th key of page p is given value v.
Replaced(pg, gv, pg2, gv2, p, i, v) ==
  /\ pg2 = [pg EXCEPT ![p].keys[i].val = v]
  /\ gv2 = [gv EXCEPT ![pg[p].keys[i].key] = v]

\* The value of one entry changes.
LEMMA ValueChange ==
  ASSUME NEW pg, NEW gv, PageTypes(pg, gv), Contents(pg, NoPage, << >>, gv),
         NEW p \in Pages, NEW i \in DOMAIN pg[p].keys, NEW v \in Values,
         NEW pg2, NEW gv2, Replaced(pg, gv, pg2, gv2, p, i, v)
  PROVE  /\ PageTypes(pg2, gv2) /\ Contents(pg2, NoPage, << >>, gv2)
         /\ SameKeys(pg, pg2, p)
<1> DEFINE k0 == pg[p].keys[i].key
<1> USE DEF Replaced, SameKeys
<1>1. /\ pg[p] \in PageSet /\ k0 \in Keys /\ pg[p].keys[i] \in Entries
      /\ pg[p].keys \in Seq(Entries) /\ Len(pg[p].keys) \in Nat
      /\ DOMAIN pg[p].keys = 1 .. Len(pg[p].keys)
  BY PageIs DEF PageTypes
<1> DEFINE ks == [pg[p].keys EXCEPT ![i].val = v]
<1>2. /\ DOMAIN ks = DOMAIN pg[p].keys /\ ks[i].key = k0 /\ ks[i].val = v
      /\ ks[i] \in Entries
      /\ \A j \in DOMAIN pg[p].keys : j # i => ks[j] = pg[p].keys[j]
  BY <1>1 DEF Entries
<1>3. ks \in Seq(Entries)
  <2>1. \A j \in 1 .. Len(pg[p].keys) : ks[j] \in Entries
    BY <1>1, <1>2
  <2>2. ks = [j \in 1 .. Len(pg[p].keys) |-> ks[j]]
    BY <1>1
  <2> HIDE DEF ks
  <2> DEFINE n == Len(pg[p].keys)
  <2>3. n \in Nat /\ ks \in [1 .. n -> Entries]
    BY <1>1, <2>1, <2>2
  <2> HIDE DEF n
  <2>. QED BY <2>3, SeqDef
<1> HIDE DEF ks
<1>4. /\ pg2[p] = [pg[p] EXCEPT !.keys = ks]
      /\ \A q \in Pages : q # p => pg2[q] = pg[q]
      /\ pg2 = [pg EXCEPT ![p] = [pg[p] EXCEPT !.keys = ks]]
  BY DEF PageTypes, ks
<1>5. pg2[p].keys = ks /\ pg2[p].next = pg[p].next /\ pg2[p] \in PageSet
  <2>1. [pg[p] EXCEPT !.keys = ks] \in PageSet
    BY <1>1, <1>3 DEF PageSet
  <2>. QED BY <1>1, <1>4, <2>1 DEF PageSet
<1>6. PageTypes(pg2, gv2)
  <2>1. pg2 \in [Pages -> PageSet]
    BY <1>4, <1>5 DEF PageTypes
  <2>2. gv2 \in [Keys -> Values \cup {NoVal}]
    BY <1>1 DEF PageTypes
  <2>. QED BY <2>1, <2>2 DEF PageTypes
<1>7. gv2[k0] = v /\ \A k \in Keys : k # k0 => gv2[k] = gv[k]
  BY <1>1 DEF PageTypes
<1>8. \A j \in DOMAIN pg[p].keys : ks[j].key = pg[p].keys[j].key
  BY <1>2
<1>9. \A q \in Pages : \A k : On(pg2[q], k) <=> On(pg[q], k)
  BY <1>2, <1>4, <1>5, <1>8 DEF On
<1>10. Current(pg2, << >>, gv2)
  <2>1. ASSUME NEW q \in Pages, NEW j \in DOMAIN pg2[q].keys
        PROVE  pg2[q].keys[j].val = gv2[pg2[q].keys[j].key]
    <3>1. CASE q = p /\ j = i
      BY <1>2, <1>5, <1>7, <3>1
    <3>2. CASE q = p /\ j # i
      <4>1. j \in DOMAIN pg[p].keys /\ pg2[q].keys[j] = pg[p].keys[j]
        BY <1>2, <1>5, <2>1, <3>2
      <4>2. pg[p].keys[j].key # k0
        <5>1. p # NoPage
          BY Space
        <5>. QED BY <3>2, <4>1, <5>1 DEF Contents, Once, Distinct
      <4>3. pg[p].keys[j].key \in Keys /\ pg[p].keys[j].val = gv[pg[p].keys[j].key]
        BY <4>1, PageIs DEF Contents, Current
      <4>. QED BY <1>7, <4>1, <4>2, <4>3
    <3>3. CASE q # p
      <4>1. pg2[q] = pg[q] /\ j \in DOMAIN pg[q].keys
        BY <1>4, <2>1, <3>3
      <4>2. pg[q].keys[j].key \in Keys /\ pg[q].keys[j].val = gv[pg[q].keys[j].key]
        BY <4>1, PageIs DEF Contents, Current
      <4>3. pg[q].keys[j].key # k0
        <5>1. On(pg[p], k0)
          BY DEF On
        <5>2. ~On(pg[q], k0)
          BY <1>1, <3>3, <5>1, Space DEF Contents, Once
        <5>. QED BY <4>1, <5>2 DEF On
      <4>. QED BY <1>7, <4>1, <4>2, <4>3
    <3>. QED BY <3>1, <3>2, <3>3
  <2>. QED BY <2>1 DEF Current
<1>11. Once(pg2, NoPage, << >>)
  <2>1. ASSUME NEW q \in Pages, q # NoPage PROVE Distinct(pg2[q].keys)
    <3>1. Distinct(pg[q].keys)
      BY <2>1 DEF Contents, Once
    <3>2. CASE q = p
      BY <1>2, <1>5, <1>8, <3>1, <3>2 DEF Distinct
    <3>3. CASE q # p
      BY <1>4, <3>1, <3>3
    <3>. QED BY <3>2, <3>3
  <2>2. \A q, r \in Pages : \A k \in Keys :
          q # NoPage /\ r # NoPage /\ On(pg2[q], k) /\ On(pg2[r], k) => q = r
    BY <1>9 DEF Contents, Once
  <2>. QED BY <2>1, <2>2 DEF Once, Distinct
<1>12. Kept(pg2, NoPage, << >>, gv2)
  <2>1. ASSUME NEW k \in Keys, gv2[k] # NoVal
        PROVE  \E q \in Pages : q # NoPage /\ On(pg2[q], k)
    <3>1. CASE k = k0
      BY <1>9, <3>1, Space DEF On
    <3>2. CASE k # k0
      BY <1>7, <1>9, <2>1, <3>2 DEF Contents, Kept
    <3>. QED BY <3>1, <3>2
  <2>. QED BY <2>1 DEF Kept
<1>13. \A q \in Pages : /\ pg2[q].next = pg[q].next
                        /\ pg2[q].keys = << >> => pg[q].keys = << >>
  <2>1. ks = << >> => pg[p].keys = << >>
    BY <1>1, <1>2
  <2>. QED BY <1>4, <1>5, <2>1
<1>. QED BY <1>4, <1>6, <1>9, <1>10, <1>11, <1>12, <1>13 DEF Contents

\* The old bucket's page is emptied, and its overflow pages are left to deal
\* out.
SplitOff(pg, own, pg2, own2, old) ==
  /\ pg2 = [pg EXCEPT ![old] = EmptyPage]
  /\ own2 = [p \in Pages |-> IF own[p] = old /\ p # old THEN Rest ELSE own[p]]

\* The old bucket's page is emptied; its keys are the list to deal out and the
\* pages behind it are the rest of the old chain.
LEMMA SplitTable ==
  ASSUME NEW pg, NEW gv, NEW own, NEW idx, NEW top, NEW home, NEW both, NEW old \in Buckets,
         PageTypes(pg, gv), Structure(pg, own, idx, NoPage, top),
         Contents(pg, NoPage, << >>, gv), Placed(pg, own, NoPage, << >>, home, both, old),
         old \in both,
         NEW pg2, NEW own2, SplitOff(pg, own, pg2, own2, old)
  PROVE  /\ PageTypes(pg2, gv)
         /\ Structure(pg2, own2, idx, pg[old].next, top)
         /\ Contents(pg2, NoPage, pg[old].keys, gv)
         /\ Placed(pg2, own2, NoPage, pg[old].keys, home, both, Rest)
<1> USE DEF SplitOff
<1> DEFINE nx == pg[old].next
           todo == pg[old].keys
<1>1. /\ own \in [Pages -> Buckets \cup {None, Rest}] /\ idx \in [Pages -> Nat \ {0}]
      /\ \A b \in Buckets : own[b] = b /\ idx[b] = 1
      /\ old \in Pages /\ own[old] = old /\ idx[old] = 1 /\ old # None /\ old # Rest
      /\ \A q \in Pages : idx[q] \in Nat /\ idx[q] # 0 /\ own[q] # Rest
  BY Space DEF Structure, Ghosts, RestOk
<1>2. /\ pg2[old] = EmptyPage /\ \A q \in Pages : q # old => pg2[q] = pg[q]
      /\ pg2 \in [Pages -> PageSet]
  BY <1>1, EmptyIs DEF PageTypes
<1>3. /\ own2[old] = old
      /\ \A q \in Pages : own[q] = old /\ q # old => own2[q] = Rest
      /\ \A q \in Pages : own[q] # old => own2[q] = own[q]
  BY <1>1
<1>4. nx \in Overflow \cup {NoPage} /\ (nx # NoPage => nx \in Pages /\ own[nx] = old /\ idx[nx] = 2)
  BY <1>1, NextIs DEF Structure
<1> HIDE DEF nx, todo
<1>5. PageTypes(pg2, gv)
  BY <1>2 DEF PageTypes
<1>6. Ghosts(own2, idx)
  <2>1. own2 \in [Pages -> Buckets \cup {None, Rest}]
    BY <1>1
  <2>2. \A b \in Buckets : own2[b] = b
    BY <1>1, <1>3, Space
  <2>. QED BY <1>1, <2>1, <2>2 DEF Ghosts
<1>7. \A q \in Pages : own2[q] = None <=> own[q] = None
  BY <1>1, <1>3, Space
<1>8. Links(pg2, own2, idx, nx)
  <2>1. ASSUME NEW q \in Pages, pg2[q].next # NoPage
        PROVE  /\ own2[q] # None /\ own2[pg2[q].next] = own2[q]
               /\ idx[pg2[q].next] = idx[q] + 1
    <3> DEFINE r == pg[q].next
    <3>1. q # old /\ pg2[q] = pg[q]
      BY <1>2, <2>1, EmptyIs
    <3>2. r \in Pages /\ own[r] = own[q] /\ own[q] # None /\ idx[r] = idx[q] + 1
      BY <2>1, <3>1, NextIs DEF Structure
    <3>3. r # old
      BY <1>1, <3>2
    <3>4. own2[r] = own2[q]
      BY <1>3, <3>1, <3>2, <3>3
    <3>. QED BY <1>7, <3>1, <3>2, <3>4
  <2>2. ASSUME NEW q \in Pages, NEW r \in Pages,
               own2[q] # None, own2[q] = own2[r], idx[q] = idx[r]
        PROVE  q = r
    <3>1. own[q] # None
      BY <1>7, <2>2
    <3>2. own[q] = own[r] \/ q = old \/ r = old
      BY <1>1, <1>3, <2>2
    <3>3. q = old => own[r] = old
      BY <1>1, <1>3, <2>2
    <3>4. r = old => own[q] = old
      BY <1>1, <1>3, <2>2
    <3>5. own[q] = own[r]
      BY <1>1, <3>2, <3>3, <3>4
    <3>. QED BY <2>2, <3>1, <3>5 DEF Structure, Links
  <2>3. ASSUME NEW q \in Overflow, own2[q] # None, q # nx
        PROVE  \E r \in Pages : pg2[r].next = q
    <3>1. q \in Pages /\ own[q] # None /\ q # NoPage
      BY <1>7, <2>3, Space
    <3>2. PICK r \in Pages : pg[r].next = q
      BY <3>1 DEF Structure, Links
    <3>3. r # old
      BY <2>3, <3>2 DEF nx
    <3>. QED BY <1>2, <3>2, <3>3
  <2>. QED BY <2>1, <2>2, <2>3 DEF Links
<1>9. RestOk(own2, idx, nx)
  <2>1. CASE nx = NoPage
    <3>1. \A q \in Pages : own[q] = old => idx[q] <= 1
      BY <1>1, <2>1, LastIs, Space DEF Structure, nx
    <3>2. \A q \in Pages : own[q] = old => q = old
      <4>1. ASSUME NEW q \in Pages, own[q] = old PROVE q = old
        <5>1. idx[q] = idx[old]
          BY <1>1, <3>1, <4>1
        <5>. QED BY <1>1, <4>1, <5>1 DEF Structure, Links
      <4>. QED BY <4>1
    <3>. QED BY <1>1, <1>3, <2>1, <3>2 DEF RestOk
  <2>2. CASE nx # NoPage
    <3>1. nx # old
      BY <1>1, <1>4, <2>2
    <3>2. own2[nx] = Rest /\ nx \in Overflow
      BY <1>3, <1>4, <2>2, <3>1
    <3>3. ASSUME NEW q \in Pages, own2[q] = Rest PROVE idx[q] >= idx[nx]
      <4>1. own[q] = old /\ q # old
        BY <1>1, <1>3, <3>3
      <4>2. idx[q] # idx[old]
        BY <1>1, <4>1 DEF Structure, Links
      <4>. QED BY <1>1, <1>4, <2>2, <4>2
    <3>. QED BY <2>2, <3>2, <3>3 DEF RestOk
  <2>. QED BY <2>1, <2>2
<1>10. EmptyOk(pg2, own2, top)
  <2>1. \A q \in Pages : own2[q] = None => pg2[q] = EmptyPage
    BY <1>2, <1>7 DEF Structure, EmptyOk
  <2>2. ASSUME NEW b \in Buckets
        PROVE  /\ pg2[b].keys = << >> => pg2[b].next = NoPage
               /\ b > top => pg2[b] = EmptyPage
    BY <1>2, Space, EmptyIs DEF Structure, EmptyOk
  <2>. QED BY <2>1, <2>2 DEF EmptyOk
<1>11. /\ \A k : ~On(pg2[old], k)
       /\ \A q \in Pages : q # old => \A k : On(pg2[q], k) <=> On(pg[q], k)
       /\ \A i \in DOMAIN todo : todo[i].key \in Keys /\ On(pg[old], todo[i].key)
       /\ \A k : On(pg[old], k) => \E i \in DOMAIN todo : todo[i].key = k
       /\ NoPage \notin Pages
  BY <1>1, <1>2, EmptyIs, PageIs, Space DEF On, todo
<1>12. Contents(pg2, NoPage, todo, gv)
  <2>1. Current(pg2, todo, gv)
    <3>1. \A i \in DOMAIN todo : todo[i].val = gv[todo[i].key]
      BY <1>1 DEF Contents, Current, todo
    <3>2. \A q \in Pages : \A i \in DOMAIN pg2[q].keys :
             pg2[q].keys[i].val = gv[pg2[q].keys[i].key]
      BY <1>2, EmptyIs DEF Contents, Current
    <3>. QED BY <3>1, <3>2 DEF Current
  <2>2. Once(pg2, NoPage, todo)
    <3>1. ASSUME NEW p \in Pages PROVE Distinct(pg2[p].keys)
      <4>1. Distinct(pg[p].keys)
        BY <1>11 DEF Contents, Once
      <4>2. Distinct(<< >>)
        BY DEF Distinct
      <4>. QED BY <1>2, <4>1, <4>2, EmptyIs
    <3>2. Distinct(todo)
      BY <1>1, <1>11 DEF Contents, Once, todo
    <3>3. ASSUME NEW p \in Pages, NEW q \in Pages, NEW k \in Keys, On(pg2[p], k), On(pg2[q], k)
          PROVE  p = q
      <4>1. On(pg[p], k) /\ On(pg[q], k)
        BY <1>11, <3>3
      <4>. QED BY <1>11, <4>1 DEF Contents, Once
    <3>4. ASSUME NEW i \in DOMAIN todo, NEW p \in Pages, On(pg2[p], todo[i].key)
          PROVE  FALSE
      <4>1. p # old /\ On(pg[p], todo[i].key)
        BY <1>11, <3>4
      <4>. QED BY <1>1, <1>11, <4>1 DEF Contents, Once
    <3>. QED BY <3>1, <3>2, <3>3, <3>4 DEF Once
  <2>3. Kept(pg2, NoPage, todo, gv)
    BY <1>11 DEF Contents, Kept
  <2>. QED BY <2>1, <2>2, <2>3 DEF Contents
<1>13. Placed(pg2, own2, NoPage, todo, home, both, Rest)
  <2>1. ASSUME NEW p \in Pages, NEW k \in Keys, On(pg2[p], k)
        PROVE  own2[p] = home[k] \/ (own2[p] = Rest /\ home[k] \in both)
    <3>1. p # old /\ On(pg[p], k)
      BY <1>11, <2>1
    <3>2. own[p] = home[k] \/ (own[p] = old /\ home[k] \in both)
      BY <1>1, <1>11, <3>1 DEF Placed
    <3>. QED BY <1>3, <3>1, <3>2
  <2>2. ASSUME NEW i \in DOMAIN todo PROVE home[todo[i].key] \in both
    BY <1>1, <1>11 DEF Placed
  <2>. QED BY <2>1, <2>2 DEF Placed
<1>. QED BY <1>5, <1>6, <1>8, <1>9, <1>10, <1>12, <1>13 DEF Structure, nx, todo

\* An overflow page in hand is done.
Dropped(pg, own, pg2, own2, h) ==
  pg2 = [pg EXCEPT ![h] = EmptyPage] /\ own2 = [own EXCEPT ![h] = None]

\* A page of the old chain that is done goes; the next one begins the rest.
LEMMA DropPage ==
  ASSUME NEW pg, NEW gv, NEW own, NEW idx, NEW top, NEW home, NEW both, NEW h \in Overflow,
         PageTypes(pg, gv), Structure(pg, own, idx, h, top),
         Contents(pg, h, << >>, gv), Placed(pg, own, h, << >>, home, both, Rest),
         NEW pg2, NEW own2, Dropped(pg, own, pg2, own2, h)
  PROVE  /\ PageTypes(pg2, gv)
         /\ Structure(pg2, own2, idx, pg[h].next, top)
         /\ Contents(pg2, NoPage, << >>, gv)
         /\ Placed(pg2, own2, NoPage, << >>, home, both, Rest)
         /\ own[h] # None /\ own2[h] = None /\ \A q \in Pages : own[q] = None => own2[q] = None
<1> USE DEF Dropped
<1> DEFINE nx == pg[h].next
<1>1. /\ own \in [Pages -> Buckets \cup {None, Rest}] /\ idx \in [Pages -> Nat \ {0}]
      /\ \A b \in Buckets : own[b] = b /\ idx[b] = 1
      /\ h \in Pages /\ h # NoPage /\ h \notin Buckets /\ own[h] = Rest /\ Rest # None
      /\ \A q \in Pages : idx[q] \in Nat /\ idx[q] # 0
      /\ \A q \in Pages : own[q] = Rest => idx[q] >= idx[h]
  BY Space DEF Structure, Ghosts, RestOk
<1>2. /\ pg2[h] = EmptyPage /\ \A q \in Pages : q # h => pg2[q] = pg[q]
      /\ pg2 \in [Pages -> PageSet]
  BY <1>1, EmptyIs DEF PageTypes
<1>3. own2[h] = None /\ \A q \in Pages : q # h => own2[q] = own[q]
  BY <1>1
<1>4. /\ nx \in Overflow \cup {NoPage}
      /\ nx # NoPage => nx \in Pages /\ own[nx] = Rest /\ idx[nx] = idx[h] + 1
  BY <1>1, NextIs DEF Structure
<1> HIDE DEF nx
<1>5. PageTypes(pg2, gv)
  BY <1>2 DEF PageTypes
<1>6. Ghosts(own2, idx)
  <2>1. own2 \in [Pages -> Buckets \cup {None, Rest}]
    BY <1>1
  <2>2. \A b \in Buckets : own2[b] = b
    BY <1>1, <1>3, Space
  <2>. QED BY <1>1, <2>1, <2>2 DEF Ghosts
<1>7. \A q \in Pages : pg[q].next # h
  <2>1. ASSUME NEW q \in Pages, pg[q].next = h PROVE FALSE
    <3>1. own[q] = Rest /\ idx[h] = idx[q] + 1
      BY <1>1, <2>1 DEF Structure, Links
    <3>. QED BY <1>1, <3>1
  <2>. QED BY <2>1
<1>8. Links(pg2, own2, idx, nx)
  <2>1. ASSUME NEW q \in Pages, pg2[q].next # NoPage
        PROVE  /\ own2[q] # None /\ own2[pg2[q].next] = own2[q]
               /\ idx[pg2[q].next] = idx[q] + 1
    <3> DEFINE r == pg[q].next
    <3>1. q # h /\ pg2[q] = pg[q]
      BY <1>2, <2>1, EmptyIs
    <3>2. r \in Pages /\ own[r] = own[q] /\ own[q] # None /\ idx[r] = idx[q] + 1 /\ r # h
      BY <1>7, <2>1, <3>1, NextIs DEF Structure
    <3>. QED BY <1>3, <3>1, <3>2
  <2>2. ASSUME NEW q \in Pages, NEW r \in Pages,
               own2[q] # None, own2[q] = own2[r], idx[q] = idx[r]
        PROVE  q = r
    <3>1. q # h /\ r # h
      BY <1>3, <2>2
    <3>. QED BY <1>3, <2>2, <3>1 DEF Structure, Links
  <2>3. ASSUME NEW q \in Overflow, own2[q] # None, q # nx
        PROVE  \E r \in Pages : pg2[r].next = q
    <3>1. q \in Pages /\ own[q] # None /\ q # NoPage /\ q # h
      BY <1>3, <2>3, Space
    <3>2. PICK r \in Pages : pg[r].next = q
      BY <3>1 DEF Structure, Links
    <3>3. r # h
      BY <2>3, <3>2 DEF nx
    <3>. QED BY <1>2, <3>2, <3>3
  <2>. QED BY <2>1, <2>2, <2>3 DEF Links
<1>9. RestOk(own2, idx, nx)
  <2>1. ASSUME NEW q \in Pages, own2[q] = Rest PROVE own[q] = Rest /\ q # h /\ idx[q] > idx[h]
    <3>1. own[q] = Rest /\ q # h
      BY <1>1, <1>3, <2>1
    <3>2. idx[q] # idx[h]
      BY <1>1, <3>1 DEF Structure, Links
    <3>. QED BY <1>1, <3>1, <3>2
  <2>2. CASE nx = NoPage
    <3>1. \A q \in Pages : own[q] = own[h] => idx[q] <= idx[h]
      BY <1>1, <2>2, LastIs DEF Structure, nx
    <3>2. \A q \in Pages : own2[q] # Rest
      BY <1>1, <2>1, <3>1
    <3>. QED BY <2>2, <3>2 DEF RestOk
  <2>3. CASE nx # NoPage
    <3>1. nx # h
      BY <1>1, <1>4, <2>3
    <3>. QED BY <1>1, <1>3, <1>4, <2>1, <2>3, <3>1 DEF RestOk
  <2>. QED BY <2>2, <2>3
<1>10. EmptyOk(pg2, own2, top)
  <2>1. \A q \in Pages : own2[q] = None => pg2[q] = EmptyPage
    BY <1>2, <1>3 DEF Structure, EmptyOk
  <2>2. ASSUME NEW b \in Buckets
        PROVE  /\ pg2[b].keys = << >> => pg2[b].next = NoPage
               /\ b > top => pg2[b] = EmptyPage
    BY <1>1, <1>2, Space DEF Structure, EmptyOk
  <2>. QED BY <2>1, <2>2 DEF EmptyOk
<1>11. /\ \A k : ~On(pg2[h], k)
       /\ \A q \in Pages : q # h => \A k : On(pg2[q], k) <=> On(pg[q], k)
       /\ NoPage \notin Pages
  BY <1>1, <1>2, EmptyIs, Space
<1>12. Contents(pg2, NoPage, << >>, gv)
  <2>1. Current(pg2, << >>, gv)
    BY <1>2, EmptyIs DEF Contents, Current
  <2>2. Once(pg2, NoPage, << >>)
    <3>1. ASSUME NEW p \in Pages PROVE Distinct(pg2[p].keys)
      <4>1. p # h => Distinct(pg[p].keys)
        BY DEF Contents, Once
      <4>2. Distinct(<< >>)
        BY DEF Distinct
      <4>. QED BY <1>2, <4>1, <4>2, EmptyIs
    <3>2. ASSUME NEW p \in Pages, NEW q \in Pages, NEW k \in Keys, On(pg2[p], k), On(pg2[q], k)
          PROVE  p = q
      <4>1. On(pg[p], k) /\ On(pg[q], k) /\ p # h /\ q # h
        BY <1>11, <3>2
      <4>. QED BY <4>1 DEF Contents, Once
    <3>. QED BY <3>1, <3>2 DEF Once, Distinct
  <2>3. Kept(pg2, NoPage, << >>, gv)
    BY <1>11 DEF Contents, Kept
  <2>. QED BY <2>1, <2>2, <2>3 DEF Contents
<1>13. Placed(pg2, own2, NoPage, << >>, home, both, Rest)
  <2>1. ASSUME NEW p \in Pages, NEW k \in Keys, On(pg2[p], k)
        PROVE  own2[p] = home[k] \/ (own2[p] = Rest /\ home[k] \in both)
    <3>1. p # h /\ On(pg[p], k)
      BY <1>11, <2>1
    <3>. QED BY <1>3, <3>1 DEF Placed
  <2>. QED BY <2>1 DEF Placed
<1>. QED BY <1>1, <1>3, <1>5, <1>6, <1>8, <1>9, <1>10, <1>12, <1>13 DEF Structure, nx

\* The first page of the rest is taken in hand: its keys are the list to deal
\* out.
LEMMA TakeUp ==
  ASSUME NEW pg, NEW gv, NEW own, NEW home, NEW both, NEW h \in Overflow,
         PageTypes(pg, gv), Contents(pg, NoPage, << >>, gv), own[h] = Rest,
         \A k \in Keys : home[k] # Rest,
         Placed(pg, own, NoPage, << >>, home, both, Rest)
  PROVE  /\ Contents(pg, h, pg[h].keys, gv)
         /\ Placed(pg, own, h, pg[h].keys, home, both, Rest)
<1> DEFINE todo == pg[h].keys
<1>1. /\ h \in Pages /\ NoPage \notin Pages
      /\ \A i \in DOMAIN todo : todo[i].key \in Keys /\ On(pg[h], todo[i].key)
      /\ \A k : On(pg[h], k) => \E i \in DOMAIN todo : todo[i].key = k
  BY PageIs, Space DEF On
<1>2. Current(pg, todo, gv)
  BY <1>1 DEF Contents, Current
<1>3. Once(pg, h, todo)
  <2>1. /\ \A p \in Pages : Distinct(pg[p].keys)
        /\ \A p, q \in Pages : \A k \in Keys : On(pg[p], k) /\ On(pg[q], k) => p = q
    BY <1>1 DEF Contents, Once
  <2>2. \A i \in DOMAIN todo : \A p \in Pages : p # h => ~On(pg[p], todo[i].key)
    BY <1>1, <2>1
  <2>3. Distinct(todo)
    BY <1>1, <2>1
  <2> HIDE DEF todo
  <2>. QED BY <2>1, <2>2, <2>3 DEF Once
<1>4. Kept(pg, h, todo, gv)
  BY <1>1 DEF Contents, Kept
<1>5. Placed(pg, own, h, todo, home, both, Rest)
  <2>1. ASSUME NEW i \in DOMAIN todo PROVE home[todo[i].key] \in both
    BY <1>1 DEF Placed
  <2>2. \A p \in Pages, k \in Keys : p # h /\ On(pg[p], k) =>
          own[p] = home[k] \/ (own[p] \in {Rest, Rest} /\ home[k] \in both)
    BY <1>1 DEF Placed
  <2>. QED BY <2>1, <2>2 DEF Placed
<1>. QED BY <1>2, <1>3, <1>4, <1>5 DEF Contents

\* _ffdb_ovfl_page finds a page that nobody owns.
LEMMA TakeFree ==
  ASSUME NEW own, FreeOk(own, free, fresh), TakeOvflPage
  PROVE  /\ OvflPage \in Overflow /\ own[OvflPage] = None
         /\ \A own2 : (\A q \in Pages : q # OvflPage => own2[q] = own[q])
              => FreeOk(own2, FreeLeft, fresh')
<1> DEFINE o == OvflPage
           f == FreeLeft
<1>1. /\ free \in Seq(Overflow) /\ fresh \in Int
      /\ \A i \in DOMAIN free : /\ own[free[i]] = None /\ free[i] < fresh
                                /\ free[i] \in Overflow /\ free[i] \in Pages
      /\ \A p \in Pages : p >= fresh => own[p] = None
      /\ Overflow \subseteq Pages /\ Pages \subseteq Nat
  BY Space DEF FreeOk
<1>2. CASE free # << >>
  <2>1. /\ f = Tail(free) /\ fresh' = fresh /\ o = free[1]
        /\ Len(free) \in Nat \ {0} /\ DOMAIN free = 1 .. Len(free)
        /\ DOMAIN f = 1 .. Len(free) - 1 /\ f \in Seq(Overflow)
        /\ \A i \in 1 .. Len(free) - 1 : f[i] = free[i + 1]
    BY <1>1, <1>2 DEF TakeOvflPage, OvflPage, FreeLeft
  <2>2. 1 \in DOMAIN free
    BY <2>1
  <2> HIDE DEF o, f
  <2>3. \A i \in DOMAIN f : i + 1 \in DOMAIN free /\ i + 1 # 1 /\ f[i] = free[i + 1]
    BY <2>1
  <2>4. \A i \in DOMAIN f : f[i] # o
    BY <2>1, <2>2, <2>3 DEF FreeOk
  <2>5. ASSUME NEW i \in DOMAIN f, NEW j \in DOMAIN f, f[i] = f[j]
        PROVE  i = j
    <3>1. i + 1 = j + 1
      BY <2>3, <2>5 DEF FreeOk
    <3>. QED BY <2>1, <3>1
  <2>6. o \in Overflow /\ own[o] = None /\ o < fresh
    BY <1>1, <2>1, <2>2
  <2>7. ASSUME NEW own2, \A q \in Pages : q # o => own2[q] = own[q]
        PROVE  FreeOk(own2, f, fresh')
    <3>1. \A i \in DOMAIN f : own2[f[i]] = None /\ f[i] < fresh'
      BY <1>1, <2>1, <2>3, <2>4, <2>7
    <3>2. \A p \in Pages : p >= fresh' => own2[p] = None
      BY <1>1, <2>1, <2>6, <2>7
    <3>. QED BY <2>1, <2>5, <3>1, <3>2 DEF FreeOk
  <2>. QED BY <2>6, <2>7 DEF o, f
<1>3. CASE free = << >>
  <2>1. /\ fresh \in Overflow /\ f = << >> /\ fresh' = fresh + 1 /\ o = fresh
    BY <1>3 DEF TakeOvflPage, OvflPage, FreeLeft
  <2> HIDE DEF o, f
  <2>2. own[o] = None
    BY <1>1, <2>1
  <2>3. ASSUME NEW own2, \A q \in Pages : q # o => own2[q] = own[q]
        PROVE  FreeOk(own2, f, fresh')
    <3>1. \A p \in Pages : p >= fresh' => own2[p] = None
      BY <1>1, <2>1, <2>3
    <3>2. fresh' \in MaxBuckets + 1 .. MaxBuckets + MaxOvfl + 1
      BY <2>1, Space
    <3>3. << >> \in Seq(Overflow) /\ DOMAIN << >> = {}
      OBVIOUS
    <3>. QED BY <2>1, <3>1, <3>2, <3>3 DEF FreeOk
  <2>. QED BY <2>1, <2>2, <2>3 DEF o, f
<1>. QED BY <1>2, <1>3

\* _ffdb_data_page takes pages that nobody owns.
LEMMA TakeData ==
  ASSUME NEW own, NEW fr, NEW fs, FreeOk(own, fr, fs), NEW w, NEW D, TakeDataPages(w, fr, D)
  PROVE  /\ FreeOk(own, free', fs)
         /\ \A d \in D : d \in Overflow /\ own[d] = None /\ Available(w, d)
<1>1. PICK n \in 0 .. Len(fr) :
        /\ D = {fr[i] : i \in 1 .. n}
        /\ \A d \in D : Available(w, d)
        /\ free' = SubSeq(fr, n + 1, Len(fr))
  BY DEF TakeDataPages
<1>2. /\ fr \in Seq(Overflow) /\ Len(fr) \in Nat /\ DOMAIN fr = 1 .. Len(fr)
      /\ \A i \in DOMAIN fr : own[fr[i]] = None /\ fr[i] < fs /\ fr[i] \in Overflow
  BY DEF FreeOk
<1>3. n \in Int /\ n + 1 \in Int /\ n >= 0 /\ n <= Len(fr)
  BY <1>2
<1> DEFINE u == Len(fr)
           m == n + 1
<1>3a. \A i \in m .. u : fr[i] \in Overflow
  BY <1>2, <1>3
<1>3b. m \in Int /\ u \in Int /\ m >= 1 /\ u - m + 1 >= 0 /\ m = n + 1
  BY <1>2, <1>3
<1>3c. free' = SubSeq(fr, m, u)
  BY <1>1
<1> HIDE DEF u, m
<1>3d. /\ SubSeq(fr, m, u) \in Seq(Overflow)
       /\ Len(SubSeq(fr, m, u)) = IF m <= u THEN u - m + 1 ELSE 0
       /\ \A i \in 1 .. u - m + 1 : SubSeq(fr, m, u)[i] = fr[m + i - 1]
  BY <1>3a, <1>3b, SubSeqProperties
<1>3e. /\ free' \in Seq(Overflow) /\ DOMAIN free' = 1 .. u - m + 1
       /\ \A i \in 1 .. u - m + 1 : free'[i] = fr[m + i - 1]
  <2>1. Len(free') = u - m + 1
    BY <1>3b, <1>3c, <1>3d
  <2>2. DOMAIN free' = 1 .. Len(free')
    BY <1>3c, <1>3d
  <2>. QED BY <1>3c, <1>3d, <2>1, <2>2
<1>4. \A i \in DOMAIN free' : i + n \in DOMAIN fr /\ free'[i] = fr[i + n] /\ i \in Int
  BY <1>2, <1>3, <1>3b, <1>3e DEF u
<1>5. ASSUME NEW i \in DOMAIN free', NEW j \in DOMAIN free', free'[i] = free'[j] PROVE i = j
  <2>1. i + n = j + n
    BY <1>4, <1>5 DEF FreeOk
  <2>. QED BY <1>3, <1>4, <2>1
<1>6. \A i \in DOMAIN free' : own[free'[i]] = None /\ free'[i] < fs
  BY <1>2, <1>4
<1>7. FreeOk(own, free', fs)
  BY <1>3e, <1>5, <1>6 DEF FreeOk
<1>8. \A d \in D : d \in Overflow /\ own[d] = None
  BY <1>1, <1>2, <1>3
<1>. QED BY <1>1, <1>7, <1>8

\* A new level begins without free pages.
LEMMA NoneFree ==
  ASSUME NEW own, NEW fr, NEW fs, FreeOk(own, fr, fs)
  PROVE  FreeOk(own, << >>, fs)
<1>1. << >> \in Seq(Overflow) /\ DOMAIN << >> = {}
  OBVIOUS
<1>. QED BY <1>1 DEF FreeOk

\* ffdb_delete_page lists the page ...
LEMMA GiveFree ==
  ASSUME NEW own, NEW fr, NEW fs, FreeOk(own, fr, fs), NEW h \in Overflow, own[h] # None,
         NEW own2, own2 = [own EXCEPT ![h] = None], own \in [Pages -> Buckets \cup {None, Rest}]
  PROVE  FreeOk(own2, <<h>> \o fr, fs)
<1> DEFINE f == <<h>> \o fr
<1>1. /\ fr \in Seq(Overflow) /\ fs \in Int /\ Len(fr) \in Nat /\ DOMAIN fr = 1 .. Len(fr)
      /\ \A i \in DOMAIN fr : /\ own[fr[i]] = None /\ fr[i] < fs /\ fr[i] # h
                              /\ fr[i] \in Pages
      /\ \A p \in Pages : p >= fs => own[p] = None
      /\ h \in Pages /\ h \in Nat
  BY Space DEF FreeOk
<1>2. h < fs
  BY <1>1
<1>3. /\ own2[h] = None /\ \A q \in Pages : q # h => own2[q] = own[q]
  BY <1>1
<1>4. /\ f \in Seq(Overflow) /\ DOMAIN f = 1 .. Len(fr) + 1 /\ f[1] = h
      /\ \A i \in 2 .. Len(fr) + 1 : f[i] = fr[i - 1]
  BY <1>1
<1> HIDE DEF f
<1>5. \A i \in DOMAIN f : i = 1 \/ (i \in 2 .. Len(fr) + 1 /\ i - 1 \in DOMAIN fr)
  BY <1>1, <1>4
<1>6. \A i \in DOMAIN f : own2[f[i]] = None /\ f[i] < fs
  BY <1>1, <1>2, <1>3, <1>4, <1>5
<1>7. ASSUME NEW i \in DOMAIN f, NEW j \in DOMAIN f, f[i] = f[j] PROVE i = j
  <2>1. i # 1 /\ j # 1 => i - 1 = j - 1
    BY <1>4, <1>5, <1>7 DEF FreeOk
  <2>2. i = 1 <=> j = 1
    BY <1>1, <1>4, <1>5, <1>7
  <2>3. i \in Int /\ j \in Int
    BY <1>4
  <2>. QED BY <2>1, <2>2, <2>3
<1>8. \A p \in Pages : p >= fs => own2[p] = None
  BY <1>1, <1>3
<1>. QED BY <1>4, <1>6, <1>7, <1>8 DEF FreeOk, f

----------------------------------------------------------------------------
(***************************************************************************)
(* The state of the program.                                               *)
(***************************************************************************)
\* After ffdb_new_page knows its buckets, until the last page is done.
Dealing == {"newpage", "split", "move", "nextpage"}

\* What writer w has in hand, has still to deal out, and has not come to.
InHand(w) == th[w].pc = "move" /\ ~th[w].split.base
HandOf(w) == IF InHand(w) THEN th[w].split.page ELSE NoPage
TodoOf(w) == IF th[w].pc = "move" THEN th[w].split.todo ELSE << >>
RestAt(w) == IF InHand(w) THEN th[w].split.page
             ELSE IF th[w].pc \in {"move", "nextpage"} THEN th[w].split.next ELSE NoPage

\* The last bucket that keys can be in, before and after the masks change.
LimitOf(w) == IF th[w].pc = "masks" THEN maxBucket - 1 ELSE maxBucket
TopOf(w)   == IF th[w].pc \in {"masks", "newpage"} THEN maxBucket - 1 ELSE maxBucket
HomeOf(w)  == [k \in Keys |-> BucketOf(Hash[k], LimitOf(w), lowMask, highMask)]
BothOf(w)  == IF th[w].pc \in Dealing THEN {th[w].split.old, th[w].split.new} ELSE {}
FromOf(w)  == IF th[w].pc \in {"newpage", "split"} THEN th[w].split.old ELSE Rest

MasksOk(w) ==
  /\ MasksOf(LimitOf(w), lowMask, highMask)
  /\ maxBucket \in Buckets
  /\ th[w].pc = "grow" => maxBucket < MaxBuckets

SplitOk(w) ==
  LET s == th[w].split
  IN  /\ th[w].pc \in Dealing \cup {"masks"} => s.new = maxBucket /\ s.old \in 0 .. maxBucket - 1
      /\ th[w].pc = "masks" => s.old = maxBucket % (lowMask + 1)
      /\ th[w].pc = "move" => s.todo \in Seq(Entries)
      /\ th[w].pc = "nextpage" => s.next # NoPage
      /\ InHand(w) => /\ s.page \in Overflow /\ holder[s.page] = w
                      /\ page[s.page].next = s.next

Table(own, idx, w) ==
  /\ PageTypes(page, given)
  /\ Structure(page, own, idx, RestAt(w), TopOf(w))
  /\ FreeOk(own, free, fresh)
  /\ Contents(page, HandOf(w), TodoOf(w), given)
  /\ Placed(page, own, HandOf(w), TodoOf(w), HomeOf(w), BothOf(w), FromOf(w))

\* The pages of the table are pages of keys, and what a get finds on a page
\* given back leads nowhere but to overflow pages.
UseOk(own) ==
  /\ DOMAIN use = Pages /\ DOMAIN left = Pages
  /\ \A p \in Pages : left[p].next \in Overflow \cup {NoPage}
  /\ \A p \in Pages : own[p] # None => use[p] = "hash"

\* The put of the writer: its search runs along the chain of its key's home.
WriterOk(own, idx, w) ==
  LET r == th[w]
  IN  /\ r.op \in {"none", "put"}
      /\ r.pc \in {"seek", "wait", "ok", "nomore"} =>
           r.key \in Keys /\ r.val \in Values /\ r.want \in Pages
      /\ r.pc \in {"seek", "wait"} => /\ r.first => r.want \in Buckets
                                    /\ own[r.want] = HomeOf(w)[r.key]
                                    /\ Passed(page, own, idx, r.want, r.key)
      /\ r.pc \in {"ok", "nomore"} => holder[r.want] = w
      /\ r.pc = "ok" => On(page[r.want], r.key)
      /\ r.pc = "nomore" => /\ own[r.want] = HomeOf(w)[r.key]
                            /\ page[r.want].next = NoPage
                            /\ \A p \in Pages : ~On(page[p], r.key)

\* A get: as long as no split was there and its key had a value all the time,
\* the search runs along the chain of the key's home.  After a split it may be
\* anywhere, also on a page that was given back.
ReaderOk(own, idx, w, t) ==
  LET r == th[t]
  IN  /\ r.op \in {"none", "get"} /\ r.pc \in {"idle", "seek", "wait", "ok", "nomore"}
      /\ r.pc # "idle" => /\ r.key \in Keys /\ r.want \in Pages /\ given[r.key] \in r.seen
                          /\ th[w].pc \in Growing => r.torn
      /\ r.pc \in {"seek", "wait"} =>
           /\ r.first => r.want \in Buckets
           /\ ~r.torn => own[r.want] = HomeOf(w)[r.key]
           /\ r.torn \/ NoVal \in r.seen \/ Passed(page, own, idx, r.want, r.key)
      /\ r.pc \in {"ok", "nomore"} => holder[r.want] = t
      /\ r.pc = "ok" /\ use[r.want] = "hash" => On(page[r.want], r.key)
      /\ r.pc = "nomore" => r.torn \/ NoVal \in r.seen
      /\ r.pc = "idle" /\ r.op = "get" =>
           r.out \in r.seen \cup (IF r.torn THEN {NoVal} ELSE {})

Readable(own, idx, w) == \A t \in Threads \ {w} : ReaderOk(own, idx, w, t)

AccessInv(own, idx, w) ==
  /\ ClaimInv /\ MasksOk(w) /\ SplitOk(w) /\ UseOk(own)
  /\ Table(own, idx, w) /\ WriterOk(own, idx, w) /\ Readable(own, idx, w)

----------------------------------------------------------------------------
\* The home of a key is a bucket, and outside the two statements that change
\* the masks it is where _ffdb_call_hash says.
LEMMA HomeIs ==
  ASSUME NEW w, MasksOk(w), NEW k \in Keys
  PROVE  /\ HomeOf(w)[k] \in Buckets /\ HomeOf(w)[k] <= LimitOf(w) /\ HomeOf(w)[k] # Rest
         /\ CallHash(k) \in Buckets
         /\ th[w].pc # "masks" => CallHash(k) = HomeOf(w)[k]
<1>1. Hash[k] \in Nat
  BY AccessAssumption
<1>2. maxBucket \in Nat /\ maxBucket <= MaxBuckets /\ MaxBuckets \in Nat
  BY Space DEF MasksOk, Buckets
<1>3. /\ HomeOf(w)[k] = BucketOf(Hash[k], LimitOf(w), lowMask, highMask)
      /\ BucketOf(Hash[k], LimitOf(w), lowMask, highMask) \in 0 .. LimitOf(w)
  <2>1. HomeOf(w)[k] = BucketOf(Hash[k], LimitOf(w), lowMask, highMask)
    BY DEF HomeOf
  <2>2. BucketOf(Hash[k], LimitOf(w), lowMask, highMask) \in 0 .. LimitOf(w)
    BY <1>1, BucketRange DEF MasksOk
  <2>. QED BY <2>1, <2>2
<1>4. CallHash(k) = BucketOf(Hash[k], maxBucket, lowMask, highMask)
  BY DEF CallHash, And, BucketOf
<1>5. /\ LimitOf(w) \in Int /\ LimitOf(w) <= maxBucket
      /\ th[w].pc # "masks" => LimitOf(w) = maxBucket
  BY <1>2 DEF LimitOf
<1>6. CallHash(k) \in 0 .. maxBucket
  <2>1. CASE th[w].pc # "masks"
    BY <1>3, <1>4, <1>5, <2>1
  <2>2. CASE th[w].pc = "masks"
    <3>1. LimitOf(w) = maxBucket - 1
      BY <2>2 DEF LimitOf
    <3> DEFINE m == lowMask + 1
    <3>2. /\ m \in Nat \ {0} /\ lowMask \in Nat /\ highMask + 1 = 2 * m
          /\ maxBucket - 1 >= lowMask
      BY <1>2, <3>1 DEF MasksOk, MasksOf
    <3>3. Hash[k] % m \in 0 .. m - 1 /\ Hash[k] % (2 * m) \in 0 .. 2 * m - 1
      BY <1>1, <3>2, ModDouble
    <3>4. CallHash(k) = IF Hash[k] % (2 * m) > maxBucket THEN Hash[k] % m ELSE Hash[k] % (2 * m)
      BY <1>4, <3>2 DEF BucketOf
    <3> HIDE DEF m
    <3>5. m - 1 <= maxBucket
      BY <1>2, <3>2 DEF m
    <3>. QED BY <1>2, <3>2, <3>3, <3>4, <3>5
  <2>. QED BY <2>1, <2>2
<1>7. HomeOf(w)[k] \in 0 .. LimitOf(w)
  BY <1>3
<1>. QED BY <1>2, <1>3, <1>4, <1>5, <1>6, <1>7 DEF Buckets, Rest

\* Outside the expansion of the table every key is at home, and nothing is in
\* hand.
LEMMA AtRest ==
  ASSUME NEW own, NEW idx, NEW w, Table(own, idx, w), MasksOk(w), th[w].pc \notin Growing
  PROVE  /\ ~InHand(w) /\ HandOf(w) = NoPage /\ TodoOf(w) = << >> /\ RestAt(w) = NoPage
         /\ LimitOf(w) = maxBucket /\ TopOf(w) = maxBucket
         /\ BothOf(w) = {} /\ FromOf(w) = Rest
         /\ \A p \in Pages, k \in Keys : On(page[p], k) => own[p] = HomeOf(w)[k]
         /\ \A k \in Keys : given[k] # NoVal => \E p \in Pages : On(page[p], k)
<1>1. /\ ~InHand(w) /\ HandOf(w) = NoPage /\ TodoOf(w) = << >> /\ RestAt(w) = NoPage
      /\ LimitOf(w) = maxBucket /\ TopOf(w) = maxBucket
      /\ BothOf(w) = {} /\ FromOf(w) = Rest
  BY DEF InHand, HandOf, TodoOf, RestAt, LimitOf, TopOf, BothOf, FromOf, Growing, Dealing
<1>2. \A p \in Pages, k \in Keys : On(page[p], k) => own[p] = HomeOf(w)[k]
  BY <1>1, Space DEF Table, Placed
<1>3. \A k \in Keys : given[k] # NoVal => \E p \in Pages : On(page[p], k)
  BY <1>1 DEF Table, Contents, Kept
<1>. QED BY <1>1, <1>2, <1>3

\* A key that is on a page has the value that was put last.
LEMMA ValueIs ==
  ASSUME NEW own, NEW idx, NEW w, Table(own, idx, w), NEW p \in Pages, NEW k, On(page[p], k)
  PROVE  ValOn(page[p], k) = given[k]
<1> DEFINE i == CHOOSE i \in DOMAIN page[p].keys : page[p].keys[i].key = k
<1>1. i \in DOMAIN page[p].keys /\ page[p].keys[i].key = k
  BY DEF On
<1>2. ValOn(page[p], k) = page[p].keys[i].val
  BY DEF ValOn
<1> HIDE DEF i
<1>. QED BY <1>1, <1>2 DEF Table, Contents, Current

\* A search along the chain of the key's home that ends without the key ends
\* on the last page, and no page has the key.
LEMMA SearchIsOver ==
  ASSUME NEW own, NEW idx, NEW w, Table(own, idx, w), MasksOk(w), th[w].pc \notin Growing,
         NEW t, NEW p \in Pages, NEW k \in Keys, th[t].key = k,
         th[t].first => p \in Buckets,
         Found(t, page[p]), ~On(page[p], k),
         own[p] = HomeOf(w)[k], Passed(page, own, idx, p, k)
  PROVE  page[p].next = NoPage /\ \A q \in Pages : ~On(page[q], k)
<1>1. page[p].next = NoPage
  BY DEF Found, Table, Structure, EmptyOk
<1>2. own[p] # None
  BY HomeIs, Space
<1>3. \A q \in Pages : own[q] = own[p] => idx[q] <= idx[p]
  BY <1>1, <1>2, LastIs DEF Table, Structure
<1>4. ASSUME NEW q \in Pages, On(page[q], k) PROVE FALSE
  <2>1. own[q] = own[p]
    BY <1>4, AtRest
  <2>2. idx[q] <= idx[p] /\ ~(idx[q] < idx[p])
    BY <1>3, <1>4, <2>1 DEF Passed
  <2>3. idx[q] \in Nat /\ idx[p] \in Nat
    BY DEF Table, Structure, Ghosts
  <2>4. q = p
    BY <1>2, <2>1, <2>2, <2>3 DEF Table, Structure, Links
  <2>. QED BY <1>4, <2>4
<1>. QED BY <1>1, <1>4

\* A search that goes on has passed one page more.
LEMMA SearchGoesOn ==
  ASSUME NEW own, NEW idx, NEW w, Table(own, idx, w),
         NEW p \in Pages, NEW k, ~On(page[p], k), page[p].next # NoPage,
         Passed(page, own, idx, p, k)
  PROVE  Passed(page, own, idx, page[p].next, k)
<1> DEFINE n == page[p].next
<1>1. n \in Pages /\ own[p] # None /\ own[n] = own[p] /\ idx[n] = idx[p] + 1
  BY NextIs DEF Table, Structure
<1>2. ASSUME NEW q \in Pages, own[q] = own[n], idx[q] < idx[n] PROVE ~On(page[q], k)
  <2>1. idx[q] \in Nat /\ idx[p] \in Nat
    BY DEF Table, Structure, Ghosts
  <2>2. CASE idx[q] = idx[p]
    <3>1. q = p
      BY <1>1, <1>2, <2>2 DEF Table, Structure, Links
    <3>. QED BY <3>1
  <2>3. CASE idx[q] # idx[p]
    BY <1>1, <1>2, <2>1, <2>3 DEF Passed
  <2>. QED BY <2>2, <2>3
<1>. QED BY <1>2 DEF Passed

\* A page that t claims no other thread has.
LEMMA ClaimsFree ==
  ASSUME NEW t, NEW p, Claims(t, p)
  PROVE  holder[p] \in {NoThread, t} /\ th[t].pc \in {"seek", "wait"}
  BY DEF Claims, Available

\* What ffdb_find_item initialises is empty already.
LEMMA SeekLeavesPages ==
  ASSUME NEW own, NEW idx, NEW w, Table(own, idx, w), UseOk(own),
         NEW t, Seek(t), th[t].want \in Pages, th[t].first => th[t].want \in Buckets
  PROVE  page' = page
<1> DEFINE p == th[t].want
<1>0. th[t].first => Sees(p) = page[p]
  <2>1. th[t].first => own[p] # None
    BY Space DEF Table, Structure, Ghosts
  <2>. QED BY <2>1 DEF UseOk, Sees
<1>1. CASE th[t].first /\ page[p].keys = << >>
  <2>1. page[p].next = NoPage
    BY <1>1 DEF Table, Structure, EmptyOk
  <2>2. page[p] = EmptyPage
    BY <1>1, <2>1, PageIs DEF Table, EmptyPage
  <2>3. page' = [page EXCEPT ![p] = EmptyPage]
    BY <1>0, <1>1 DEF Seek
  <2>. QED BY <2>2, <2>3 DEF Table, PageTypes
<1>2. CASE ~(th[t].first /\ page[p].keys = << >>)
  BY <1>0, <1>2 DEF Seek
<1>. QED BY <1>1, <1>2

----------------------------------------------------------------------------
(***************************************************************************)
(* The steps of a get.                                                     *)
(***************************************************************************)
\* What the writer is at depends on its record and the masks only.
LEMMA WriterSame ==
  ASSUME NEW w, th'[w] = th[w], UNCHANGED masks
  PROVE  /\ (InHand(w)' <=> InHand(w)) /\ HandOf(w)' = HandOf(w) /\ TodoOf(w)' = TodoOf(w)
         /\ RestAt(w)' = RestAt(w) /\ LimitOf(w)' = LimitOf(w) /\ TopOf(w)' = TopOf(w)
         /\ HomeOf(w)' = HomeOf(w) /\ BothOf(w)' = BothOf(w) /\ FromOf(w)' = FromOf(w)
<1>1. maxBucket' = maxBucket /\ lowMask' = lowMask /\ highMask' = highMask
  BY DEF masks
<1>2. /\ (InHand(w)' <=> InHand(w)) /\ HandOf(w)' = HandOf(w) /\ TodoOf(w)' = TodoOf(w)
      /\ RestAt(w)' = RestAt(w) /\ LimitOf(w)' = LimitOf(w) /\ TopOf(w)' = TopOf(w)
      /\ BothOf(w)' = BothOf(w) /\ FromOf(w)' = FromOf(w)
  BY <1>1 DEF InHand, HandOf, TodoOf, RestAt, LimitOf, TopOf, BothOf, FromOf
<1>3. HomeOf(w)' = HomeOf(w)
  BY <1>1, <1>2 DEF HomeOf
<1>. QED BY <1>2, <1>3

\* A step of a get leaves the table and the other threads alone.
LEMMA ReaderStep ==
  ASSUME NEW own, NEW idx, NEW w \in Threads, AccessInv(own, idx, w), ClaimInv',
         NEW t \in Threads \ {w}, NEW r, th' = [th EXCEPT ![t] = r],
         UNCHANGED <<masks, page, free, fresh, use, left, given>>,
         \A q \in Pages : \A u \in Threads \ {t} : holder[q] = u => holder'[q] = u,
         ReaderOk(own, idx, w, t)'
  PROVE  AccessInv(own, idx, w)'
<1>1. \A u \in Threads \ {t} : th'[u] = th[u]
  BY DEF AccessInv, ClaimInv, Shape
<1>2. th'[w] = th[w] /\ UNCHANGED masks
  BY <1>1
<1>3. /\ page' = page /\ free' = free /\ fresh' = fresh /\ given' = given
      /\ use' = use /\ left' = left
      /\ maxBucket' = maxBucket /\ lowMask' = lowMask /\ highMask' = highMask
  BY DEF masks
<1>4. /\ (InHand(w)' <=> InHand(w)) /\ HandOf(w)' = HandOf(w) /\ TodoOf(w)' = TodoOf(w)
      /\ RestAt(w)' = RestAt(w) /\ LimitOf(w)' = LimitOf(w) /\ TopOf(w)' = TopOf(w)
      /\ HomeOf(w)' = HomeOf(w) /\ BothOf(w)' = BothOf(w) /\ FromOf(w)' = FromOf(w)
  BY <1>2, WriterSame
<1>5. MasksOk(w)'
  BY <1>2, <1>3, <1>4 DEF AccessInv, MasksOk
<1>6. SplitOk(w)'
  <2>1. InHand(w) => th[w].split.page \in Pages
    BY Space DEF AccessInv, SplitOk
  <2>2. InHand(w) => holder'[th[w].split.page] = w
    BY <2>1 DEF AccessInv, SplitOk
  <2>. QED BY <1>2, <1>3, <1>4, <2>2 DEF AccessInv, SplitOk
<1>7. Table(own, idx, w)'
  BY <1>3, <1>4 DEF AccessInv, Table
<1>8. WriterOk(own, idx, w)'
  <2>1. th[w].pc \in {"ok", "nomore"} => holder'[th[w].want] = w
    BY DEF AccessInv, WriterOk
  <2>. QED BY <1>2, <1>3, <1>4, <2>1 DEF AccessInv, WriterOk
<1>8b. UseOk(own)'
  BY <1>3 DEF AccessInv, UseOk
<1>9. ASSUME NEW u \in Threads \ {w}, u # t PROVE ReaderOk(own, idx, w, u)'
  <2>1. th'[u] = th[u] /\ ReaderOk(own, idx, w, u)
    BY <1>1, <1>9 DEF AccessInv, Readable
  <2>2. th[u].pc \in {"ok", "nomore"} => holder'[th[u].want] = u
    BY <1>9, <2>1 DEF ReaderOk
  <2>. QED BY <1>2, <1>3, <1>4, <2>1, <2>2 DEF ReaderOk
<1>. QED BY <1>5, <1>6, <1>7, <1>8, <1>8b, <1>9 DEF AccessInv, Readable

\* A search begins at the page of the key's home.
LEMMA BeginsHome ==
  ASSUME NEW own, NEW idx, NEW w, Table(own, idx, w), MasksOk(w), NEW k \in Keys
  PROVE  /\ CallHash(k) \in Buckets /\ CallHash(k) \in Pages
         /\ Passed(page, own, idx, CallHash(k), k)
         /\ th[w].pc # "masks" => own[CallHash(k)] = HomeOf(w)[k]
<1>1. CallHash(k) \in Buckets /\ (th[w].pc # "masks" => CallHash(k) = HomeOf(w)[k])
  BY HomeIs
<1>2. /\ own[CallHash(k)] = CallHash(k) /\ idx[CallHash(k)] = 1
      /\ \A q \in Pages : idx[q] \in Nat \ {0}
  BY <1>1 DEF Table, Structure, Ghosts
<1>3. Passed(page, own, idx, CallHash(k), k)
  BY <1>2 DEF Passed
<1>. QED BY <1>1, <1>2, <1>3, Space

LEMMA CallOfGet ==
  ASSUME NEW own, NEW idx, NEW w \in Threads, Writers = {w}, AccessInv(own, idx, w), ClaimInv',
         NEW t \in Threads \ {w}, NEW k \in Keys, Call(t, "get", k, NoVal)
  PROVE  AccessInv(own, idx, w)'
<1> DEFINE b == CallHash(k)
           r == [Resting EXCEPT !.pc = "seek", !.op = "get", !.key = k, !.val = NoVal,
                   !.want = b, !.calls = @ + th[t].calls + 1,
                   !.seen = {given[k]}, !.torn = Splitting]
<1>1. /\ th' = [th EXCEPT ![t] = r] /\ holder' = holder /\ page' = page /\ free' = free
      /\ fresh' = fresh /\ given' = given /\ use' = use /\ left' = left
      /\ UNCHANGED masks
  BY DEF Call, pool, gone
<1>2. /\ r.pc = "seek" /\ r.op = "get" /\ r.key = k /\ r.want = b
      /\ r.first = TRUE /\ r.seen = {given[k]} /\ r.torn = Splitting
  BY DEF Resting
<1>3. /\ b \in Buckets /\ b \in Pages /\ Passed(page, own, idx, b, k)
      /\ th[w].pc # "masks" => own[b] = HomeOf(w)[k]
  BY BeginsHome DEF AccessInv
<1>4. Splitting <=> th[w].pc \in Growing
  BY DEF Splitting
<1> HIDE DEF r, b
<1>5. th'[t] = r /\ th'[w] = th[w]
  BY <1>1 DEF AccessInv, ClaimInv, Shape
<1>6. HomeOf(w)' = HomeOf(w)
  BY <1>1, <1>5, WriterSame
<1>7. "masks" \in Growing
  BY DEF Growing
<1>8. ReaderOk(own, idx, w, t)'
  BY <1>1, <1>2, <1>3, <1>4, <1>5, <1>6, <1>7 DEF ReaderOk
<1>. QED BY <1>1, <1>8, ReaderStep

LEMMA SeekOfGet ==
  ASSUME NEW own, NEW idx, NEW w \in Threads, AccessInv(own, idx, w), ClaimInv',
         NEW t \in Threads \ {w}, Seek(t)
  PROVE  AccessInv(own, idx, w)'
<1> DEFINE p == th[t].want
           k == th[t].key
           pg == Sees(p)
<1>1. /\ th[t].pc \in {"seek", "wait"} /\ holder[p] \in {NoThread, t}
      /\ free' = free /\ fresh' = fresh /\ given' = given /\ use' = use /\ left' = left
      /\ UNCHANGED masks /\ use[p] \in {"hash", "given"}
  BY ClaimsFree DEF Seek, gone
<1>2. ReaderOk(own, idx, w, t) /\ Table(own, idx, w) /\ MasksOk(w) /\ DOMAIN th = Threads
      /\ DOMAIN th[t] = Fields /\ UseOk(own)
  BY DEF AccessInv, Readable, ClaimInv, Shape
<1>3. /\ k \in Keys /\ p \in Pages /\ given[k] \in th[t].seen
      /\ th[w].pc \in Growing => th[t].torn
      /\ th[t].first => p \in Buckets
      /\ ~th[t].torn => own[p] = HomeOf(w)[k]
      /\ th[t].torn \/ NoVal \in th[t].seen \/ Passed(page, own, idx, p, k)
      /\ th[t].op \in {"none", "get"}
  BY <1>1, <1>2 DEF ReaderOk
<1>4. page' = page
  BY <1>2, <1>3, SeekLeavesPages
<1>5. DOMAIN holder = Pages
  BY DEF AccessInv, ClaimInv, Shape
<1>6. th'[w] = th[w] => HomeOf(w)' = HomeOf(w)
  BY <1>1, WriterSame
<1>6b. \/ pg = page[p] /\ use[p] = "hash"
       \/ pg = left[p] /\ use[p] # "hash" /\ th[t].torn
  <2>1. ~th[t].torn => own[p] # None
    BY <1>2, <1>3, HomeIs, Space
  <2>2. ~th[t].torn => use[p] = "hash"
    BY <1>2, <1>3, <2>1 DEF UseOk
  <2>. QED BY <1>1, <2>2 DEF Sees
<1>6c. \A c : \A q \in Pages : \A u \in Threads \ {t} :
         holder' = [holder EXCEPT ![p] = c] /\ holder[q] = u => holder'[q] = u
  BY <1>1, <1>5, AccessAssumption
<1>7. CASE Found(t, pg)
  <2> DEFINE c == IF On(pg, k) THEN "ok" ELSE "nomore"
             r == [th[t] EXCEPT !.pc = c]
  <2>1. /\ holder' = [holder EXCEPT ![p] = t] /\ th' = [th EXCEPT ![t] = r]
    BY <1>2, <1>7 DEF Seek
  <2>2. /\ r.pc = c /\ r.op = th[t].op /\ r.key = k /\ r.want = p /\ r.seen = th[t].seen
        /\ r.torn = th[t].torn /\ r.out = th[t].out
    BY <1>2 DEF Fields
  <2>3. c = "nomore" => th[t].torn \/ NoVal \in th[t].seen
    <3> SUFFICES ASSUME ~On(pg, k), ~th[t].torn, NoVal \notin th[t].seen PROVE FALSE
      OBVIOUS
    <3>1. th[w].pc \notin Growing /\ own[p] = HomeOf(w)[k] /\ Passed(page, own, idx, p, k)
      BY <1>3
    <3>2. Found(t, page[p]) /\ ~On(page[p], k)
      BY <1>6b, <1>7
    <3>3. \A q \in Pages : ~On(page[q], k)
      BY <1>2, <1>3, <3>1, <3>2, SearchIsOver
    <3>4. given[k] # NoVal
      BY <1>3
    <3>. QED BY <1>2, <1>3, <3>1, <3>3, <3>4, AtRest
  <2>4. (c = "ok" /\ On(pg, k)) \/ c = "nomore"
    OBVIOUS
  <2>5. c = "ok" /\ use[p] = "hash" => On(page[p], k)
    BY <1>6b, <2>4
  <2>6. c \in {"ok", "nomore"}
    OBVIOUS
  <2> HIDE DEF r, c, pg
  <2>7. th'[t] = r /\ th'[w] = th[w] /\ holder'[p] = t
    BY <1>2, <1>3, <1>5, <2>1
  <2>8. ReaderOk(own, idx, w, t)'
    BY <1>1, <1>3, <1>4, <2>2, <2>3, <2>5, <2>6, <2>7 DEF ReaderOk
  <2>9. \A q \in Pages : \A u \in Threads \ {t} : holder[q] = u => holder'[q] = u
    BY <1>6c, <2>1
  <2>. QED BY <1>1, <1>4, <2>1, <2>8, <2>9, ReaderStep
<1>8. CASE ~Found(t, pg)
  <2> DEFINE n == pg.next
             r == [th[t] EXCEPT !.pc = "seek", !.want = n, !.first = FALSE]
  <2>1. holder' = [holder EXCEPT ![p] = NoThread] /\ th' = [th EXCEPT ![t] = r]
    BY <1>2, <1>8 DEF Seek
  <2>2. /\ r.pc = "seek" /\ r.op = th[t].op /\ r.key = k /\ r.want = n /\ r.seen = th[t].seen
        /\ r.torn = th[t].torn /\ r.first = FALSE
    BY <1>2 DEF Fields
  <2>3. ~On(pg, k) /\ n # NoPage
    BY <1>8 DEF Found
  <2>4. n \in Pages /\ (~th[t].torn => own[n] = own[p])
    <3>1. CASE pg = page[p]
      BY <1>2, <1>3, <2>3, <3>1, NextIs DEF Table, Structure
    <3>2. CASE pg = left[p] /\ th[t].torn
      BY <1>2, <1>3, <2>3, <3>2, Space DEF UseOk
    <3>. QED BY <1>6b, <3>1, <3>2
  <2>5. ~th[t].torn /\ Passed(page, own, idx, p, k) => Passed(page, own, idx, n, k)
    BY <1>2, <1>3, <1>6b, <2>3, SearchGoesOn
  <2> HIDE DEF r, n, pg
  <2>6. th'[t] = r /\ th'[w] = th[w]
    BY <1>2, <2>1
  <2>7. ReaderOk(own, idx, w, t)'
    BY <1>1, <1>3, <1>4, <1>6, <2>2, <2>4, <2>5, <2>6 DEF ReaderOk
  <2>8. \A q \in Pages : \A u \in Threads \ {t} : holder[q] = u => holder'[q] = u
    BY <1>6c, <2>1
  <2>. QED BY <1>1, <1>4, <2>1, <2>7, <2>8, ReaderStep
<1>. QED BY <1>7, <1>8

\* Waiting for the page changes nothing else.
LEMMA WaitOfGet ==
  ASSUME NEW own, NEW idx, NEW w \in Threads, AccessInv(own, idx, w), ClaimInv',
         NEW t \in Threads \ {w}, Wait(t)
  PROVE  AccessInv(own, idx, w)'
<1> DEFINE r == [th[t] EXCEPT !.pc = "wait"]
<1>1. /\ th[t].pc = "seek" /\ th' = [th EXCEPT ![t] = r]
      /\ page' = page /\ holder' = holder /\ free' = free /\ fresh' = fresh
      /\ given' = given /\ use' = use /\ left' = left /\ UNCHANGED masks
  BY DEF Wait, pool, gone
<1>2. ReaderOk(own, idx, w, t) /\ DOMAIN th = Threads /\ DOMAIN th[t] = Fields
  BY DEF AccessInv, Readable, ClaimInv, Shape
<1>3. /\ r.pc = "wait" /\ r.op = th[t].op /\ r.key = th[t].key /\ r.want = th[t].want
      /\ r.seen = th[t].seen /\ r.torn = th[t].torn /\ r.first = th[t].first
  BY <1>2 DEF Fields
<1> HIDE DEF r
<1>4. th'[t] = r /\ th'[w] = th[w]
  BY <1>1, <1>2
<1>5. HomeOf(w)' = HomeOf(w)
  BY <1>1, <1>4, WriterSame
<1>6. ReaderOk(own, idx, w, t)'
  BY <1>1, <1>2, <1>3, <1>4, <1>5 DEF ReaderOk
<1>. QED BY <1>1, <1>6, ReaderStep

\* A get that takes a map or data for keys was overtaken by a split.
LEMMA MisreadOfGet ==
  ASSUME NEW own, NEW idx, NEW w \in Threads, AccessInv(own, idx, w), ClaimInv',
         NEW t \in Threads \ {w}, Misread(t)
  PROVE  AccessInv(own, idx, w)'
<1> DEFINE p == th[t].want
           r == [th[t] EXCEPT !.pc = "nomore"]
<1>1. /\ th[t].pc \in {"seek", "wait"} /\ holder[p] \in {NoThread, t} /\ use[p] = "other"
      /\ holder' = [holder EXCEPT ![p] = t] /\ th' = [th EXCEPT ![t].pc = "nomore"]
      /\ page' = page /\ free' = free /\ fresh' = fresh
      /\ given' = given /\ use' = use /\ left' = left /\ UNCHANGED masks
  BY ClaimsFree DEF Misread, gone
<1>2. ReaderOk(own, idx, w, t) /\ MasksOk(w) /\ UseOk(own) /\ DOMAIN th = Threads
      /\ DOMAIN th[t] = Fields /\ DOMAIN holder = Pages
  BY DEF AccessInv, Readable, ClaimInv, Shape
<1>3. /\ th[t].key \in Keys /\ p \in Pages /\ given[th[t].key] \in th[t].seen
      /\ th[t].op \in {"none", "get"}
      /\ ~th[t].torn => own[p] = HomeOf(w)[th[t].key]
  BY <1>1, <1>2 DEF ReaderOk
<1>4. th[t].torn
  <2>1. ~th[t].torn => own[p] # None
    BY <1>2, <1>3, HomeIs, Space
  <2>. QED BY <1>1, <1>2, <1>3, <2>1 DEF UseOk
<1>5. th' = [th EXCEPT ![t] = r]
  BY <1>1, <1>2
<1>6. /\ r.pc = "nomore" /\ r.op = th[t].op /\ r.key = th[t].key /\ r.want = p
      /\ r.seen = th[t].seen /\ r.torn
  BY <1>2, <1>4 DEF Fields
<1> HIDE DEF r
<1>7. th'[t] = r /\ th'[w] = th[w] /\ holder'[p] = t
  BY <1>1, <1>2, <1>3, <1>5
<1>8. ReaderOk(own, idx, w, t)'
  BY <1>1, <1>3, <1>6, <1>7 DEF ReaderOk
<1>9. \A q \in Pages : \A u \in Threads \ {t} : holder[q] = u => holder'[q] = u
  BY <1>1, <1>2, AccessAssumption
<1>. QED BY <1>1, <1>5, <1>8, <1>9, ReaderStep

LEMMA DeliverOfGet ==
  ASSUME NEW own, NEW idx, NEW w \in Threads, AccessInv(own, idx, w), ClaimInv',
         NEW t \in Threads \ {w}, Deliver(t)
  PROVE  AccessInv(own, idx, w)'
<1> DEFINE p == th[t].want
           k == th[t].key
           o == IF th[t].pc = "ok" THEN ValOn(page[p], k) ELSE NoVal
           r == [th[t] EXCEPT !.pc = "idle", !.out = o]
<1>1. /\ th[t].op = "get" /\ th[t].pc \in {"ok", "nomore"}
      /\ holder' = [holder EXCEPT ![p] = NoThread] /\ page' = page
      /\ free' = free /\ fresh' = fresh /\ given' = given /\ UNCHANGED masks
      /\ use' = use /\ left' = left /\ (th[t].pc = "ok" => use[p] = "hash")
  BY DEF Deliver, gone
<1>2. /\ ReaderOk(own, idx, w, t) /\ Table(own, idx, w) /\ DOMAIN th = Threads
      /\ DOMAIN th[t] = Fields /\ DOMAIN holder = Pages
  BY DEF AccessInv, Readable, ClaimInv, Shape
<1>3. /\ k \in Keys /\ p \in Pages /\ given[k] \in th[t].seen /\ holder[p] = t
      /\ th[t].pc = "ok" => On(page[p], k)
      /\ th[t].pc = "nomore" => th[t].torn \/ NoVal \in th[t].seen
  BY <1>1, <1>2 DEF ReaderOk
<1>4. th' = [th EXCEPT ![t] = r]
  BY <1>2 DEF Deliver
<1>5. /\ r.pc = "idle" /\ r.op = "get" /\ r.out = o /\ r.seen = th[t].seen
      /\ r.torn = th[t].torn
  BY <1>1, <1>2 DEF Fields
<1>6. o \in th[t].seen \cup (IF th[t].torn THEN {NoVal} ELSE {})
  <2>1. CASE th[t].pc = "ok"
    BY <1>2, <1>3, <2>1, ValueIs
  <2>2. CASE th[t].pc = "nomore"
    BY <1>3, <2>2
  <2>. QED BY <1>1, <2>1, <2>2
<1> HIDE DEF r, o
<1>7. th'[t] = r
  BY <1>2, <1>4
<1>8. ReaderOk(own, idx, w, t)'
  BY <1>5, <1>6, <1>7 DEF ReaderOk
<1>9. \A q \in Pages : \A u \in Threads \ {t} : holder[q] = u => holder'[q] = u
  BY <1>1, <1>2, <1>3
<1>. QED BY <1>1, <1>4, <1>8, <1>9, ReaderStep

----------------------------------------------------------------------------
(***************************************************************************)
(* What the steps of the put leave to the gets.                            *)
(***************************************************************************)
\* Outside the expansion nothing is in hand.
LEMMA RestNow ==
  ASSUME NEW w, th[w].pc \notin Growing
  PROVE  /\ ~InHand(w) /\ HandOf(w) = NoPage /\ TodoOf(w) = << >> /\ RestAt(w) = NoPage
         /\ LimitOf(w) = maxBucket /\ TopOf(w) = maxBucket
         /\ HomeOf(w) = [k \in Keys |-> BucketOf(Hash[k], maxBucket, lowMask, highMask)]
         /\ BothOf(w) = {} /\ FromOf(w) = Rest
  BY DEF InHand, HandOf, TodoOf, RestAt, LimitOf, TopOf, BothOf, FromOf, HomeOf, Growing, Dealing

LEMMA RestThen ==
  ASSUME NEW w, th'[w].pc \notin Growing
  PROVE  /\ ~InHand(w)' /\ HandOf(w)' = NoPage /\ TodoOf(w)' = << >> /\ RestAt(w)' = NoPage
         /\ LimitOf(w)' = maxBucket' /\ TopOf(w)' = maxBucket'
         /\ HomeOf(w)' = [k \in Keys |-> BucketOf(Hash[k], maxBucket', lowMask', highMask')]
         /\ BothOf(w)' = {} /\ FromOf(w)' = Rest
  BY DEF InHand, HandOf, TodoOf, RestAt, LimitOf, TopOf, BothOf, FromOf, HomeOf, Growing, Dealing

\* The pages other threads hold stay theirs, and what they are.
OthersHold(w) ==
  \A q \in Pages : \A u \in Threads \ {w} :
    holder[q] = u => holder'[q] = u /\ use'[q] = use[q]

\* A step of the put before it stores its key.
LEMMA ReadersStay ==
  ASSUME NEW own, NEW idx, NEW w \in Threads, Readable(own, idx, w),
         \A u \in Threads \ {w} : th'[u] = th[u],
         th[w].pc \notin Growing, th'[w].pc \notin Growing,
         UNCHANGED masks, page' = page, given' = given, OthersHold(w)
  PROVE  Readable(own, idx, w)'
<1>1. HomeOf(w)' = HomeOf(w)
  <2>1. maxBucket' = maxBucket /\ lowMask' = lowMask /\ highMask' = highMask
    BY DEF masks
  <2>. QED BY <2>1, RestNow, RestThen
<1>2. ASSUME NEW u \in Threads \ {w} PROVE ReaderOk(own, idx, w, u)'
  <2>1. th'[u] = th[u] /\ ReaderOk(own, idx, w, u)
    BY DEF Readable
  <2>2. th[u].pc \in {"ok", "nomore"} =>
          holder'[th[u].want] = u /\ use'[th[u].want] = use[th[u].want]
    BY <2>1 DEF ReaderOk, OthersHold
  <2>. QED BY <1>1, <2>1, <2>2 DEF ReaderOk
<1>. QED BY <1>2 DEF Readable

\* A step of the expansion: every get in progress knows that a split was
\* there.
LEMMA ReadersTorn ==
  ASSUME NEW own, NEW idx, NEW w \in Threads, Readable(own, idx, w),
         \A u \in Threads \ {w} : th'[u] = th[u],
         th[w].pc \in Growing, given' = given, OthersHold(w),
         \A q \in Pages : holder[q] \in Threads \ {w} => page'[q] = page[q],
         NEW own2, NEW idx2
  PROVE  Readable(own2, idx2, w)'
<1>1. ASSUME NEW u \in Threads \ {w} PROVE ReaderOk(own2, idx2, w, u)'
  <2>1. th'[u] = th[u] /\ ReaderOk(own, idx, w, u)
    BY DEF Readable
  <2>2. th[u].pc \in {"ok", "nomore"} => /\ holder'[th[u].want] = u
                                         /\ use'[th[u].want] = use[th[u].want]
                                         /\ page'[th[u].want] = page[th[u].want]
    BY <2>1 DEF ReaderOk, OthersHold
  <2>3. th[u].pc # "idle" => th[u].torn
    BY <2>1 DEF ReaderOk
  <2>. QED BY <2>1, <2>2, <2>3 DEF ReaderOk
<1>. QED BY <1>1 DEF Readable

\* The record of a get that may see a value more.
LEMMA SeenIs ==
  ASSUME ClaimInv, NEW u \in Threads, NEW k, NEW v
  PROVE  /\ DOMAIN Seen(k, v)[u] = Fields
         /\ Seen(k, v)[u].pc = th[u].pc /\ Seen(k, v)[u].op = th[u].op
         /\ Seen(k, v)[u].key = th[u].key /\ Seen(k, v)[u].val = th[u].val
         /\ Seen(k, v)[u].want = th[u].want /\ Seen(k, v)[u].first = th[u].first
         /\ Seen(k, v)[u].torn = th[u].torn /\ Seen(k, v)[u].out = th[u].out
         /\ Seen(k, v)[u].split = th[u].split
         /\ Seen(k, v)[u].seen = IF th[u].pc # "idle" /\ th[u].key = k
                                 THEN th[u].seen \cup {v} ELSE th[u].seen
<1>1. DOMAIN th[u] = Fields
  BY DEF ClaimInv, Shape
<1>2. CASE th[u].pc # "idle" /\ th[u].key = k
  <2>1. Seen(k, v)[u] = [th[u] EXCEPT !.seen = @ \cup {v}]
    BY <1>2 DEF Seen
  <2>. QED BY <1>1, <1>2, <2>1 DEF Fields
<1>3. CASE ~(th[u].pc # "idle" /\ th[u].key = k)
  <2>1. Seen(k, v)[u] = th[u]
    BY <1>3 DEF Seen
  <2>. QED BY <1>1, <1>3, <2>1
<1>. QED BY <1>2, <1>3

\* No page loses a key, and only a key without a value is new.
KeysStay(w) ==
  /\ \A q \in Pages : \A x : On(page[q], x) => On(page'[q], x)
  /\ \A q \in Pages : \A x :
       On(page'[q], x) => On(page[q], x) \/ (x = th[w].key /\ given[x] = NoVal)

\* The put stores value v for key k on a page that is there.
LEMMA ReadersSee ==
  ASSUME NEW own, NEW idx, NEW w \in Threads, Readable(own, idx, w), ClaimInv,
         PageTypes(page, given), th[w].key \in Keys,
         \A u \in Threads \ {w} : th'[u] = Seen(th[w].key, th[w].val)[u],
         th[w].pc \notin Growing, th'[w].pc \notin Growing,
         UNCHANGED masks, given' = [given EXCEPT ![th[w].key] = th[w].val], OthersHold(w),
         KeysStay(w)
  PROVE  Readable(own, idx, w)'
<1> DEFINE k == th[w].key
           v == th[w].val
<1>1. HomeOf(w)' = HomeOf(w)
  <2>1. maxBucket' = maxBucket /\ lowMask' = lowMask /\ highMask' = highMask
    BY DEF masks
  <2>. QED BY <2>1, RestNow, RestThen
<1>2. given'[k] = v /\ \A x \in Keys : x # k => given'[x] = given[x]
  BY DEF PageTypes
<1>3. ASSUME NEW u \in Threads \ {w} PROVE ReaderOk(own, idx, w, u)'
  <2> DEFINE r == th[u]
             s == th'[u]
  <2>1. /\ s.pc = r.pc /\ s.op = r.op /\ s.key = r.key /\ s.want = r.want
        /\ s.first = r.first /\ s.torn = r.torn /\ s.out = r.out
        /\ s.seen = IF r.pc # "idle" /\ r.key = k THEN r.seen \cup {v} ELSE r.seen
    BY SeenIs
  <2>2. ReaderOk(own, idx, w, u)
    BY DEF Readable
  <2>3. r.pc \in {"ok", "nomore"} => holder'[r.want] = u /\ use'[r.want] = use[r.want]
    BY <2>2 DEF ReaderOk, OthersHold
  <2>4. r.pc # "idle" => given'[r.key] \in s.seen
    BY <1>2, <2>1, <2>2 DEF ReaderOk
  <2>5. r.pc \in {"seek", "wait"} =>
          r.torn \/ NoVal \in s.seen \/ Passed(page', own, idx, r.want, r.key)
    <3> SUFFICES ASSUME r.pc \in {"seek", "wait"}, ~r.torn, NoVal \notin s.seen
                 PROVE  Passed(page', own, idx, r.want, r.key)
      OBVIOUS
    <3>1. Passed(page, own, idx, r.want, r.key) /\ NoVal \notin r.seen
      BY <2>1, <2>2 DEF ReaderOk
    <3>2. r.key = k => given[k] # NoVal
      BY <2>2, <3>1 DEF ReaderOk
    <3>. QED BY <3>1, <3>2 DEF Passed, KeysStay
  <2>6. r.pc = "ok" /\ use'[r.want] = "hash" => On(page'[r.want], r.key)
    BY <2>2, <2>3 DEF ReaderOk, KeysStay
  <2>7. r.pc = "nomore" => r.torn \/ NoVal \in s.seen
    BY <2>1, <2>2 DEF ReaderOk
  <2>8. r.pc = "idle" => s.seen = r.seen
    BY <2>1
  <2> HIDE DEF s
  <2>9. /\ s.op \in {"none", "get"} /\ s.pc \in {"idle", "seek", "wait", "ok", "nomore"}
        /\ s.pc # "idle" => /\ s.key \in Keys /\ s.want \in Pages /\ given'[s.key] \in s.seen
                            /\ th'[w].pc \in Growing => s.torn
        /\ s.pc \in {"seek", "wait"} =>
             /\ s.first => s.want \in Buckets
             /\ ~s.torn => own[s.want] = HomeOf(w)'[s.key]
             /\ s.torn \/ NoVal \in s.seen \/ Passed(page', own, idx, s.want, s.key)
        /\ s.pc \in {"ok", "nomore"} => holder'[s.want] = u
        /\ s.pc = "ok" /\ use'[s.want] = "hash" => On(page'[s.want], s.key)
        /\ s.pc = "nomore" => s.torn \/ NoVal \in s.seen
        /\ s.pc = "idle" /\ s.op = "get" =>
             s.out \in s.seen \cup (IF s.torn THEN {NoVal} ELSE {})
    BY <1>1, <2>1, <2>2, <2>3, <2>4, <2>5, <2>6, <2>7, <2>8 DEF ReaderOk
  <2>. QED BY <2>9 DEF ReaderOk, s
<1>. QED BY <1>3 DEF Readable

\* The put stores value v for key k on a new page: a split is coming.
LEMMA ReadersSeeTorn ==
  ASSUME NEW own, NEW idx, NEW w \in Threads, Readable(own, idx, w), ClaimInv,
         PageTypes(page, given), th[w].key \in Keys,
         \A u \in Threads \ {w} : th'[u] = [Seen(th[w].key, th[w].val)[u] EXCEPT !.torn = TRUE],
         given' = [given EXCEPT ![th[w].key] = th[w].val], OthersHold(w),
         \A q \in Pages : holder[q] \in Threads \ {w} => page'[q] = page[q],
         NEW own2, NEW idx2
  PROVE  Readable(own2, idx2, w)'
<1> DEFINE k == th[w].key
           v == th[w].val
<1>1. given'[k] = v /\ \A x \in Keys : x # k => given'[x] = given[x]
  BY DEF PageTypes
<1>2. ASSUME NEW u \in Threads \ {w} PROVE ReaderOk(own2, idx2, w, u)'
  <2> DEFINE r == th[u]
             s == th'[u]
  <2>1. /\ s.pc = r.pc /\ s.op = r.op /\ s.key = r.key /\ s.want = r.want
        /\ s.first = r.first /\ s.torn = TRUE /\ s.out = r.out
        /\ s.seen = IF r.pc # "idle" /\ r.key = k THEN r.seen \cup {v} ELSE r.seen
    <3> DEFINE q == Seen(k, v)[u]
    <3>1. /\ DOMAIN q = Fields
          /\ q.pc = r.pc /\ q.op = r.op /\ q.key = r.key /\ q.want = r.want
          /\ q.first = r.first /\ q.out = r.out
          /\ q.seen = IF r.pc # "idle" /\ r.key = k THEN r.seen \cup {v} ELSE r.seen
      BY SeenIs
    <3>2. s = [q EXCEPT !.torn = TRUE]
      OBVIOUS
    <3> HIDE DEF q, s, r
    <3>3. /\ s.pc = q.pc /\ s.op = q.op /\ s.key = q.key /\ s.want = q.want
          /\ s.first = q.first /\ s.torn = TRUE /\ s.out = q.out /\ s.seen = q.seen
      BY <3>1, <3>2 DEF Fields
    <3>. QED BY <3>1, <3>3
  <2>2. ReaderOk(own, idx, w, u)
    BY DEF Readable
  <2>3. r.pc \in {"ok", "nomore"} => /\ holder'[r.want] = u /\ use'[r.want] = use[r.want]
                                   /\ page'[r.want] = page[r.want]
    BY <2>2 DEF ReaderOk, OthersHold
  <2>4. r.pc # "idle" => given'[r.key] \in s.seen
    BY <1>1, <2>1, <2>2 DEF ReaderOk
  <2>5. r.pc = "idle" => s.seen = r.seen
    BY <2>1
  <2> HIDE DEF s
  <2>6. /\ s.op \in {"none", "get"} /\ s.pc \in {"idle", "seek", "wait", "ok", "nomore"}
        /\ s.pc # "idle" => /\ s.key \in Keys /\ s.want \in Pages /\ given'[s.key] \in s.seen
                            /\ th'[w].pc \in Growing => s.torn
        /\ s.pc \in {"seek", "wait"} => (s.first => s.want \in Buckets) /\ s.torn
        /\ s.pc \in {"ok", "nomore"} => holder'[s.want] = u
        /\ s.pc = "ok" /\ use'[s.want] = "hash" => On(page'[s.want], s.key)
        /\ s.pc = "nomore" => s.torn
        /\ s.pc = "idle" /\ s.op = "get" =>
             s.out \in s.seen \cup (IF s.torn THEN {NoVal} ELSE {})
    BY <2>1, <2>2, <2>3, <2>4, <2>5 DEF ReaderOk
  <2>. QED BY <2>6 DEF ReaderOk, s
<1>. QED BY <1>2 DEF Readable

----------------------------------------------------------------------------
(***************************************************************************)
(* The steps of the put before the table grows.                            *)
(***************************************************************************)
\* A step that is outside the expansion before and after and leaves the pages
\* alone.
LEMMA TableStays ==
  ASSUME NEW own, NEW idx, NEW w \in Threads, Table(own, idx, w), MasksOk(w),
         th[w].pc \notin Growing, th'[w].pc \notin Growing,
         UNCHANGED <<masks, page, free, fresh, given>>
  PROVE  /\ Table(own, idx, w)' /\ MasksOk(w)' /\ SplitOk(w)' /\ HomeOf(w)' = HomeOf(w)
<1>1. /\ page' = page /\ free' = free /\ fresh' = fresh /\ given' = given
      /\ maxBucket' = maxBucket /\ lowMask' = lowMask /\ highMask' = highMask
  BY DEF masks
<1>2. /\ HandOf(w)' = HandOf(w) /\ TodoOf(w)' = TodoOf(w)
      /\ RestAt(w)' = RestAt(w) /\ LimitOf(w)' = LimitOf(w) /\ TopOf(w)' = TopOf(w)
      /\ HomeOf(w)' = HomeOf(w) /\ BothOf(w)' = BothOf(w) /\ FromOf(w)' = FromOf(w)
  BY <1>1, RestNow, RestThen
<1>3. Table(own, idx, w)'
  BY <1>1, <1>2 DEF Table
<1>4. MasksOk(w)'
  BY <1>1, <1>2 DEF MasksOk, Growing
<1>5. SplitOk(w)'
  BY DEF SplitOk, InHand, Growing, Dealing
<1>. QED BY <1>2, <1>3, <1>4, <1>5

\* A page that w can claim no other thread has.
LEMMA NotOthers ==
  ASSUME NEW w, NEW q, Available(w, q)
  PROVE  holder[q] \notin Threads \ {w}
  BY AccessAssumption DEF Available

\* The other threads' pages when w claims or gives back its own.
LEMMA HoldsOthers ==
  ASSUME ClaimInv, NEW w \in Threads, NEW p, NEW c \in {w, NoThread},
         holder[p] \in {NoThread, w}, use' = use, holder' = [holder EXCEPT ![p] = c]
  PROVE  OthersHold(w)
  BY AccessAssumption DEF ClaimInv, Shape, OthersHold

LEMMA CallOfPut ==
  ASSUME NEW own, NEW idx, NEW w \in Threads, AccessInv(own, idx, w), ClaimInv',
         NEW k \in Keys, NEW v \in Values, Call(w, "put", k, v)
  PROVE  AccessInv(own, idx, w)'
<1> DEFINE b == CallHash(k)
           r == [Resting EXCEPT !.pc = "seek", !.op = "put", !.key = k, !.val = v,
                   !.want = b, !.calls = @ + th[w].calls + 1,
                   !.seen = {given[k]}, !.torn = Splitting]
<1>1. /\ th' = [th EXCEPT ![w] = r] /\ holder' = holder /\ page' = page /\ free' = free
      /\ fresh' = fresh /\ given' = given /\ UNCHANGED masks /\ th[w].pc = "idle"
      /\ use' = use /\ left' = left
  BY DEF Call, pool, gone
<1>2. /\ r.pc = "seek" /\ r.op = "put" /\ r.key = k /\ r.val = v /\ r.want = b
      /\ r.first = TRUE
  BY DEF Resting
<1>3. /\ b \in Buckets /\ b \in Pages /\ Passed(page, own, idx, b, k)
      /\ own[b] = HomeOf(w)[k]
  BY <1>1, BeginsHome DEF AccessInv
<1> HIDE DEF r, b
<1>4. th'[w] = r /\ \A u \in Threads \ {w} : th'[u] = th[u]
  BY <1>1 DEF AccessInv, ClaimInv, Shape
<1>5. th[w].pc \notin Growing /\ th'[w].pc \notin Growing
  BY <1>1, <1>2, <1>4 DEF Growing
<1>6. Table(own, idx, w)' /\ MasksOk(w)' /\ SplitOk(w)' /\ HomeOf(w)' = HomeOf(w)
  BY <1>1, <1>5, TableStays DEF AccessInv
<1>7. Readable(own, idx, w)'
  BY <1>1, <1>4, <1>5, ReadersStay DEF AccessInv, OthersHold
<1>8. WriterOk(own, idx, w)'
  BY <1>1, <1>2, <1>3, <1>4, <1>6 DEF WriterOk
<1>9. UseOk(own)'
  BY <1>1 DEF AccessInv, UseOk
<1>. QED BY <1>6, <1>7, <1>8, <1>9 DEF AccessInv

LEMMA SeekOfPut ==
  ASSUME NEW own, NEW idx, NEW w \in Threads, w \notin Readers, AccessInv(own, idx, w),
         ClaimInv', Seek(w)
  PROVE  AccessInv(own, idx, w)'
<1> DEFINE p == th[w].want
           k == th[w].key
           pg == page[p]
<1>1. /\ th[w].pc \in {"seek", "wait"} /\ holder[p] \in {NoThread, w}
      /\ free' = free /\ fresh' = fresh /\ given' = given /\ UNCHANGED masks
      /\ use' = use /\ left' = left /\ Sees(p) = page[p]
  BY ClaimsFree DEF Seek, gone, Sees
<1>2. /\ WriterOk(own, idx, w) /\ Table(own, idx, w) /\ MasksOk(w) /\ DOMAIN th = Threads
      /\ DOMAIN th[w] = Fields /\ DOMAIN holder = Pages /\ ClaimInv /\ Readable(own, idx, w)
      /\ UseOk(own)
  BY DEF AccessInv, ClaimInv, Shape
<1>3. /\ k \in Keys /\ p \in Pages /\ th[w].val \in Values
      /\ th[w].first => p \in Buckets
      /\ own[p] = HomeOf(w)[k] /\ Passed(page, own, idx, p, k)
      /\ th[w].op \in {"none", "put"}
  BY <1>1, <1>2 DEF WriterOk
<1>4. page' = page
  BY <1>2, <1>3, SeekLeavesPages
<1>5. th[w].pc \notin Growing
  BY <1>1 DEF Growing
<1>6. PICK r : /\ th' = [th EXCEPT ![w] = r] /\ OthersHold(w)
               /\ r.pc \in {"seek", "ok", "nomore"}
               /\ WriterOk(own, idx, w)' \/ HomeOf(w)' # HomeOf(w)
  <2>1. CASE Found(w, pg)
    <3> DEFINE c == IF On(pg, k) THEN "ok" ELSE "nomore"
               r == [th[w] EXCEPT !.pc = c]
    <3>1. /\ holder' = [holder EXCEPT ![p] = w] /\ th' = [th EXCEPT ![w] = r]
      BY <1>1, <1>2, <2>1 DEF Seek
    <3>2. /\ r.pc = c /\ r.op = th[w].op /\ r.key = k /\ r.want = p /\ r.val = th[w].val
      BY <1>2 DEF Fields
    <3>3. (c = "ok" /\ On(pg, k)) \/ (c = "nomore" /\ ~On(pg, k))
      OBVIOUS
    <3>4. c = "nomore" => page[p].next = NoPage /\ \A q \in Pages : ~On(page[q], k)
      BY <1>2, <1>3, <1>5, <2>1, <3>3, SearchIsOver
    <3> HIDE DEF c, r
    <3>5. th'[w] = r /\ holder'[p] = w
      BY <1>2, <1>3, <3>1
    <3>6. HomeOf(w)' = HomeOf(w) => WriterOk(own, idx, w)'
      BY <1>3, <1>4, <3>2, <3>3, <3>4, <3>5 DEF WriterOk
    <3>7. OthersHold(w)
      BY <1>1, <1>2, <3>1, HoldsOthers
    <3>. QED BY <3>1, <3>2, <3>3, <3>6, <3>7
  <2>2. CASE ~Found(w, pg)
    <3> DEFINE n == pg.next
               r == [th[w] EXCEPT !.pc = "seek", !.want = n, !.first = FALSE]
    <3>1. holder' = [holder EXCEPT ![p] = NoThread] /\ th' = [th EXCEPT ![w] = r]
      BY <1>1, <1>2, <2>2 DEF Seek
    <3>2. /\ r.pc = "seek" /\ r.op = th[w].op /\ r.key = k /\ r.want = n /\ r.val = th[w].val
          /\ r.first = FALSE
      BY <1>1, <1>2 DEF Fields
    <3>3. ~On(pg, k) /\ n # NoPage
      BY <2>2 DEF Found
    <3>4. n \in Pages /\ own[n] = own[p]
      BY <1>2, <1>3, <3>3, NextIs DEF Table, Structure
    <3>5. Passed(page, own, idx, n, k)
      BY <1>2, <1>3, <3>3, SearchGoesOn
    <3> HIDE DEF r, n
    <3>6. th'[w] = r
      BY <1>2, <3>1
    <3>7. HomeOf(w)' = HomeOf(w) => WriterOk(own, idx, w)'
      BY <1>3, <1>4, <3>2, <3>4, <3>5, <3>6 DEF WriterOk
    <3>8. OthersHold(w)
      BY <1>1, <1>2, <3>1, HoldsOthers
    <3>. QED BY <3>1, <3>2, <3>7, <3>8
  <2>. QED BY <2>1, <2>2
<1>7. th'[w] = r /\ \A u \in Threads \ {w} : th'[u] = th[u]
  BY <1>2, <1>6
<1>8. th'[w].pc \notin Growing
  BY <1>6, <1>7 DEF Growing
<1>9. Table(own, idx, w)' /\ MasksOk(w)' /\ SplitOk(w)' /\ HomeOf(w)' = HomeOf(w)
  BY <1>1, <1>2, <1>4, <1>5, <1>8, TableStays
<1>10. Readable(own, idx, w)'
  BY <1>1, <1>2, <1>4, <1>5, <1>6, <1>7, <1>8, ReadersStay
<1>11. UseOk(own)'
  BY <1>1, <1>2 DEF UseOk
<1>. QED BY <1>6, <1>9, <1>10, <1>11 DEF AccessInv

\* Nor does waiting for the page change anything.
LEMMA WaitOfPut ==
  ASSUME NEW own, NEW idx, NEW w \in Threads, AccessInv(own, idx, w), ClaimInv', Wait(w)
  PROVE  AccessInv(own, idx, w)'
<1> DEFINE r == [th[w] EXCEPT !.pc = "wait"]
<1>1. /\ th[w].pc = "seek" /\ th' = [th EXCEPT ![w] = r]
      /\ page' = page /\ holder' = holder /\ free' = free /\ fresh' = fresh
      /\ given' = given /\ use' = use /\ left' = left /\ UNCHANGED masks
  BY DEF Wait, pool, gone
<1>2. /\ WriterOk(own, idx, w) /\ Table(own, idx, w) /\ MasksOk(w) /\ DOMAIN th = Threads
      /\ DOMAIN th[w] = Fields /\ Readable(own, idx, w) /\ UseOk(own)
  BY DEF AccessInv, ClaimInv, Shape
<1>3. /\ r.pc = "wait" /\ r.op = th[w].op /\ r.key = th[w].key /\ r.val = th[w].val
      /\ r.want = th[w].want /\ r.first = th[w].first
  BY <1>2 DEF Fields
<1> HIDE DEF r
<1>4. th'[w] = r /\ \A u \in Threads \ {w} : th'[u] = th[u]
  BY <1>1, <1>2
<1>5. th[w].pc \notin Growing /\ th'[w].pc \notin Growing
  BY <1>1, <1>3, <1>4 DEF Growing
<1>6. Table(own, idx, w)' /\ MasksOk(w)' /\ SplitOk(w)' /\ HomeOf(w)' = HomeOf(w)
  BY <1>1, <1>2, <1>5, TableStays
<1>7. Readable(own, idx, w)'
  BY <1>1, <1>2, <1>4, <1>5, ReadersStay DEF OthersHold
<1>8. WriterOk(own, idx, w)'
  BY <1>1, <1>2, <1>3, <1>4, <1>6 DEF WriterOk
<1>9. UseOk(own)'
  BY <1>1, <1>2 DEF UseOk
<1>. QED BY <1>6, <1>7, <1>8, <1>9 DEF AccessInv

\* A put that is done.
LEMMA PutIsDone ==
  ASSUME NEW own, NEW idx, NEW w \in Threads, ClaimInv, WriterOk(own, idx, w), MasksOk(w),
         th' = [Seen(th[w].key, th[w].val) EXCEPT ![w].pc = "idle"],
         th[w].pc \notin Growing, UNCHANGED masks
  PROVE  /\ th'[w].pc \notin Growing
         /\ \A u \in Threads \ {w} : th'[u] = Seen(th[w].key, th[w].val)[u]
         /\ WriterOk(own, idx, w)' /\ MasksOk(w)' /\ SplitOk(w)'
<1> DEFINE k == th[w].key
           v == th[w].val
<1>1. DOMAIN Seen(k, v) = Threads
  BY DEF Seen
<1>2. /\ th'[w] = [Seen(k, v)[w] EXCEPT !.pc = "idle"]
      /\ \A u \in Threads \ {w} : th'[u] = Seen(k, v)[u]
  BY <1>1
<1>3. DOMAIN Seen(k, v)[w] = Fields /\ Seen(k, v)[w].op = th[w].op
  <2>1. DOMAIN th[w] = Fields
    BY DEF ClaimInv, Shape
  <2>2. \/ Seen(k, v)[w] = th[w]
        \/ Seen(k, v)[w] = [th[w] EXCEPT !.seen = @ \cup {v}]
    BY DEF Seen
  <2>. QED BY <2>1, <2>2 DEF Fields
<1>4. th'[w].pc = "idle" /\ th'[w].op = th[w].op
  BY <1>2, <1>3 DEF Fields
<1>5. th'[w].pc \notin Growing
  BY <1>4 DEF Growing
<1>6. WriterOk(own, idx, w)'
  BY <1>4 DEF WriterOk
<1>7. SplitOk(w)'
  BY <1>4 DEF SplitOk, InHand, Dealing
<1>8. MasksOk(w)'
  <2>1. maxBucket' = maxBucket /\ lowMask' = lowMask /\ highMask' = highMask
    BY DEF masks
  <2>2. LimitOf(w) = maxBucket /\ LimitOf(w)' = maxBucket'
    BY <1>5, RestNow, RestThen
  <2>. QED BY <1>4, <2>1, <2>2 DEF MasksOk
<1>. QED BY <1>2, <1>5, <1>6, <1>7, <1>8

LEMMA ReplaceOfPut ==
  ASSUME NEW own, NEW idx, NEW w \in Threads, AccessInv(own, idx, w), ClaimInv', Replace(w)
  PROVE  AccessInv(own, idx, w)'
<1> DEFINE p == th[w].want
           k == th[w].key
           v == th[w].val
           i == CHOOSE i \in DOMAIN page[p].keys : page[p].keys[i].key = k
<1>1. /\ th[w].pc = "ok" /\ page' = [page EXCEPT ![p].keys[i].val = v]
      /\ holder' = [holder EXCEPT ![p] = NoThread]
      /\ given' = [given EXCEPT ![k] = v]
      /\ th' = [Seen(k, v) EXCEPT ![w].pc = "idle"]
      /\ free' = free /\ fresh' = fresh /\ UNCHANGED masks
      /\ use' = use /\ left' = left
  BY DEF Replace, Putting, gone
<1> HIDE DEF i
<1>2. /\ WriterOk(own, idx, w) /\ Table(own, idx, w) /\ MasksOk(w) /\ ClaimInv
      /\ Readable(own, idx, w) /\ DOMAIN holder = Pages
  BY DEF AccessInv, ClaimInv, Shape
<1>3. /\ k \in Keys /\ v \in Values /\ p \in Pages /\ holder[p] = w /\ On(page[p], k)
  BY <1>1, <1>2 DEF WriterOk
<1>4. th[w].pc \notin Growing
  BY <1>1 DEF Growing
<1>5. /\ th'[w].pc \notin Growing /\ \A u \in Threads \ {w} : th'[u] = Seen(k, v)[u]
      /\ WriterOk(own, idx, w)' /\ MasksOk(w)' /\ SplitOk(w)'
  BY <1>1, <1>2, <1>4, PutIsDone
<1>6. i \in DOMAIN page[p].keys /\ page[p].keys[i].key = k
  BY <1>3 DEF On, i
<1>7. Contents(page, NoPage, << >>, given) /\ PageTypes(page, given)
  BY <1>2, <1>4, AtRest DEF Table
<1>8. /\ PageTypes(page', given') /\ Contents(page', NoPage, << >>, given')
      /\ \A q \in Pages : /\ page'[q].next = page[q].next
                          /\ page'[q].keys = << >> => page[q].keys = << >>
                          /\ \A x : On(page'[q], x) <=> On(page[q], x)
      /\ \A q \in Pages : q # p => page'[q] = page[q]
  <2>1. Replaced(page, given, page', given', p, i, v)
    BY <1>1, <1>6 DEF Replaced
  <2>2. /\ PageTypes(page', given') /\ Contents(page', NoPage, << >>, given')
        /\ SameKeys(page, page', p)
    <3> HIDE DEF p, v
    <3>. QED BY <1>3, <1>6, <1>7, <2>1, ValueChange
  <2>. QED BY <2>2 DEF SameKeys
<1>9. /\ HandOf(w)' = HandOf(w) /\ TodoOf(w)' = TodoOf(w)
      /\ RestAt(w)' = RestAt(w) /\ TopOf(w)' = TopOf(w)
      /\ HomeOf(w)' = HomeOf(w) /\ BothOf(w)' = BothOf(w) /\ FromOf(w)' = FromOf(w)
      /\ HandOf(w) = NoPage /\ TodoOf(w) = << >> /\ TopOf(w) = maxBucket
  BY <1>1, <1>4, <1>5, RestNow, RestThen DEF masks
<1>10. own[p] = HomeOf(w)[k] /\ own[p] # None /\ own[p] <= maxBucket
  <2>1. own[p] = HomeOf(w)[k]
    BY <1>2, <1>3, <1>4, AtRest
  <2>2. HomeOf(w)[k] \in Buckets /\ HomeOf(w)[k] <= LimitOf(w) /\ LimitOf(w) = maxBucket
    BY <1>2, <1>3, <1>4, HomeIs, RestNow
  <2>. QED BY <2>1, <2>2, Space
<1>11. Structure(page', own, idx, RestAt(w), TopOf(w))
  <2>1. p \in Buckets => p <= TopOf(w)
    BY <1>2, <1>9, <1>10 DEF Table, Structure, Ghosts
  <2>2. TopOf(w) \in Int
    BY <1>2, <1>9 DEF MasksOk, Buckets
  <2>. QED BY <1>2, <1>3, <1>8, <1>10, <2>1, <2>2, KeysChange DEF Table
<1>12. Placed(page', own, NoPage, << >>, HomeOf(w), BothOf(w), FromOf(w))
  BY <1>2, <1>8, <1>9 DEF Table, Placed
<1>13. Table(own, idx, w)'
  BY <1>1, <1>2, <1>8, <1>9, <1>11, <1>12 DEF Table
<1>14. OthersHold(w)
  BY <1>1, <1>2, <1>3, HoldsOthers
<1>15. Readable(own, idx, w)'
  <2>1. KeysStay(w)
    BY <1>8 DEF KeysStay
  <2>. QED BY <1>1, <1>2, <1>3, <1>4, <1>5, <1>7, <1>14, <2>1, ReadersSee
<1>16. UseOk(own)'
  BY <1>1 DEF AccessInv, UseOk
<1>. QED BY <1>5, <1>13, <1>15, <1>16 DEF AccessInv


\* One key more on a page.
OneMore(pg, pg2, p, e) ==
  /\ pg2[p].keys = Append(pg[p].keys, e) /\ pg2[p].keys # << >>
  /\ \A q \in Pages : pg2[q].next = pg[q].next
  /\ \A q \in Pages : q # p => pg2[q] = pg[q]
  /\ \A k : On(pg2[p], k) <=> On(pg[p], k) \/ k = e.key

LEMMA AppendKey ==
  ASSUME NEW pg, NEW gv, PageTypes(pg, gv), NEW p \in Pages, NEW e \in Entries,
         NEW pg2, pg2 = [pg EXCEPT ![p] = [pg[p] EXCEPT !.keys = Append(pg[p].keys, e)]]
  PROVE  PageTypes(pg2, gv) /\ OneMore(pg, pg2, p, e)
<1> DEFINE ks == Append(pg[p].keys, e)
<1>1. /\ pg[p] \in PageSet /\ pg[p].keys \in Seq(Entries)
      /\ Len(pg[p].keys) \in Nat /\ DOMAIN pg = Pages
  BY PageIs DEF PageTypes
<1>2. ks \in Seq(Entries) /\ Len(ks) = Len(pg[p].keys) + 1
  BY <1>1
<1>3. ks # << >>
  BY <1>1, <1>2
<1> HIDE DEF ks
<1>4. pg2[p] = [pg[p] EXCEPT !.keys = ks]
  BY <1>1 DEF ks
<1>5. pg2[p].keys = ks /\ pg2[p].next = pg[p].next /\ pg2[p] \in PageSet
  BY <1>1, <1>2, <1>4 DEF PageSet
<1>6. \A q \in Pages : q # p => pg2[q] = pg[q]
  BY <1>1
<1>7. PageTypes(pg2, gv)
  <2>1. DOMAIN pg2 = Pages /\ pg2 = [q \in Pages |-> pg2[q]]
    BY <1>1
  <2>2. \A q \in Pages : pg2[q] \in PageSet
    BY <1>5, <1>6 DEF PageTypes
  <2>3. pg2 \in [Pages -> PageSet]
    BY <2>1, <2>2
  <2>. QED BY <2>3 DEF PageTypes
<1>8. \A k : On(pg2[p], k) <=> On(pg[p], k) \/ k = e.key
  <2>1. pg2[p].keys = Append(pg[p].keys, e)
    BY <1>5 DEF ks
  <2>2. pg[p].keys \in Seq(Entries)
    BY <1>1
  <2> HIDE DEF ks
  <2> DEFINE a == pg[p]
             c == pg2[p]
  <2>3. a.keys \in Seq(Entries) /\ c.keys = Append(a.keys, e)
    BY <2>1, <2>2
  <2> HIDE DEF a, c
  <2>4. MoreOn(a, c, e)
    BY <2>3, AppendMoreOn
  <2>5. \A k : On(c, k) <=> On(a, k) \/ k = e.key
    BY <2>4 DEF MoreOn
  <2>. QED BY <2>5 DEF a, c
<1>. QED BY <1>3, <1>5, <1>6, <1>7, <1>8 DEF ks, OneMore

\* A list without keys stays one.
LEMMA WithoutNone ==
  ASSUME NEW e
  PROVE  Without(<< >>, << >>, e) /\ << >> \in Seq(Entries)
<1>1. DOMAIN << >> = {}
  OBVIOUS
<1>2. \A s : s = << >> => Without(s, s, e)
  BY <1>1 DEF Without, Distinct
<1>. QED BY <1>2

LEMMA AddOfPut ==
  ASSUME NEW own, NEW idx, NEW w \in Threads, AccessInv(own, idx, w), ClaimInv', Add(w)
  PROVE  AccessInv(own, idx, w)'
<1> DEFINE p == th[w].want
           k == th[w].key
           v == th[w].val
           e == [key |-> k, val |-> v]
<1>1. /\ th[w].pc = "nomore" /\ page' = [page EXCEPT ![p] = WithKey(page[p], w)]
      /\ left' = left
      /\ given' = [given EXCEPT ![k] = v]
      /\ th' = [Seen(k, v) EXCEPT ![w].pc = "idle"]
      /\ fresh' = fresh /\ UNCHANGED masks
  BY DEF Add, Putting
<1>1b. PICK D \in SUBSET Overflow :
         /\ TakeDataPages(w, free, D)
         /\ use' = [q \in Pages |-> IF q \in D THEN "other" ELSE use[q]]
         /\ holder' = [q \in Pages |-> IF q \in D \cup {p} THEN NoThread ELSE holder[q]]
  BY DEF Add
<1>2. /\ WriterOk(own, idx, w) /\ Table(own, idx, w) /\ MasksOk(w) /\ ClaimInv
      /\ Readable(own, idx, w) /\ DOMAIN holder = Pages /\ UseOk(own)
  BY DEF AccessInv, ClaimInv, Shape
<1>3. /\ k \in Keys /\ v \in Values /\ p \in Pages /\ holder[p] = w
      /\ own[p] = HomeOf(w)[k] /\ page[p].next = NoPage
      /\ \A q \in Pages : ~On(page[q], k)
  BY <1>1, <1>2 DEF WriterOk
<1>4. th[w].pc \notin Growing
  BY <1>1 DEF Growing
<1>5. /\ th'[w].pc \notin Growing /\ \A u \in Threads \ {w} : th'[u] = Seen(k, v)[u]
      /\ WriterOk(own, idx, w)' /\ MasksOk(w)' /\ SplitOk(w)'
  BY <1>1, <1>2, <1>4, PutIsDone
<1>6. e \in Entries /\ e.key = k /\ e.val = v
  BY <1>3 DEF Entries
<1>7. Contents(page, NoPage, << >>, given) /\ PageTypes(page, given)
  BY <1>2, <1>4, AtRest DEF Table
<1>8. page' = [page EXCEPT ![p] = [page[p] EXCEPT !.keys = Append(page[p].keys, e)]]
  BY <1>1 DEF WithKey
<1> HIDE DEF e
<1>9. /\ PageTypes(page', given)
      /\ page'[p].keys = Append(page[p].keys, e) /\ page'[p].keys # << >>
      /\ \A q \in Pages : page'[q].next = page[q].next
      /\ \A q \in Pages : q # p => page'[q] = page[q]
      /\ \A x : On(page'[p], x) <=> On(page[p], x) \/ x = e.key
  <2>1. PageTypes(page', given) /\ OneMore(page, page', p, e)
    BY <1>3, <1>6, <1>7, <1>8, AppendKey
  <2>. QED BY <2>1 DEF OneMore
<1>10. /\ HandOf(w)' = HandOf(w) /\ TodoOf(w)' = TodoOf(w)
       /\ RestAt(w)' = RestAt(w) /\ TopOf(w)' = TopOf(w)
       /\ HomeOf(w)' = HomeOf(w) /\ BothOf(w)' = BothOf(w) /\ FromOf(w)' = FromOf(w)
       /\ HandOf(w) = NoPage /\ TodoOf(w) = << >> /\ TopOf(w) = maxBucket
  BY <1>1, <1>4, <1>5, RestNow, RestThen DEF masks
<1>11. own[p] # None /\ own[p] <= maxBucket
  <2>1. HomeOf(w)[k] \in Buckets /\ HomeOf(w)[k] <= LimitOf(w) /\ LimitOf(w) = maxBucket
    BY <1>2, <1>3, <1>4, HomeIs, RestNow
  <2>. QED BY <1>3, <2>1, Space
<1>12. Structure(page', own, idx, RestAt(w), TopOf(w))
  <2>1. p \in Buckets => p <= TopOf(w)
    BY <1>2, <1>10, <1>11 DEF Table, Structure, Ghosts
  <2>2. TopOf(w) \in Int
    BY <1>2, <1>10 DEF MasksOk, Buckets
  <2>3. Structure(page, own, idx, RestAt(w), TopOf(w))
    BY <1>2 DEF Table
  <2>. QED BY <1>3, <1>9, <1>11, <2>1, <2>2, <2>3, KeysChange
<1>13. Without(<< >>, << >>, e) /\ << >> \in Seq(Entries)
  BY WithoutNone
<1>14. Elsewhere(page, NoPage, e) /\ Gives(page, given, given', e)
  BY <1>1, <1>3, <1>6 DEF Elsewhere, Gives
<1>15. Added(page, page', p, e)
  BY <1>9 DEF Added
<1>16. p # NoPage
  BY <1>3, Space
<1>17. Contents(page', NoPage, << >>, given')
  BY <1>3, <1>6, <1>7, <1>13, <1>14, <1>15, <1>16, Gain
<1>18. Placed(page', own, NoPage, << >>, HomeOf(w), BothOf(w), FromOf(w))
  <2>1. Placed(page, own, NoPage, << >>, HomeOf(w), BothOf(w), FromOf(w))
    BY <1>2, <1>10 DEF Table
  <2>2. own[p] = HomeOf(w)[e.key]
    BY <1>3, <1>6
  <2>3. Owned(page, own, own, p, HomeOf(w)[e.key])
    BY <2>2 DEF Owned
  <2>. QED BY <1>3, <1>6, <1>7, <1>13, <1>15, <2>1, <2>3, GainPlaced
<1>19. PageTypes(page', given')
  <2>1. given' \in [Keys -> Values \cup {NoVal}]
    BY <1>1, <1>3, <1>7 DEF PageTypes
  <2>. QED BY <1>9, <2>1 DEF PageTypes
<1>19b. /\ FreeOk(own, free', fresh)
        /\ \A d \in D : d \in Overflow /\ own[d] = None /\ Available(w, d)
  BY <1>1b, <1>2, TakeData DEF Table
<1>20. Table(own, idx, w)'
  BY <1>19b, <1>1, <1>2, <1>10, <1>12, <1>17, <1>18, <1>19 DEF Table
<1>21. OthersHold(w)
  BY <1>1b, <1>3, <1>19b, NotOthers DEF OthersHold
<1>22. Readable(own, idx, w)'
  <2>1. given[k] = NoVal
    BY <1>2, <1>3, <1>4, AtRest
  <2>2. KeysStay(w)
    BY <1>6, <1>9, <2>1 DEF KeysStay
  <2>. QED BY <1>1, <1>2, <1>3, <1>4, <1>5, <1>7, <1>21, <2>2, ReadersSee
<1>23. UseOk(own)'
  BY <1>1, <1>1b, <1>2, <1>19b DEF UseOk
<1>. QED BY <1>5, <1>20, <1>22, <1>23 DEF AccessInv

----------------------------------------------------------------------------
(***************************************************************************)
(* An overflow page with one key.                                          *)
(***************************************************************************)
\* What the new page changes.
NewPage(pg, pg2, own, own2, p, o, e) ==
  /\ \A q \in Pages \ {o} : pg2[q].keys = pg[q].keys
  /\ pg[o].keys = << >> /\ pg2[o].keys = Append(pg[o].keys, e)
  /\ \A q \in Pages : q \notin {p, o} => pg2[q] = pg[q]
  /\ own2[o] = own[p] /\ \A q \in Pages : q # o => own2[q] = own[q]

LEMMA ChainKey ==
  ASSUME NEW pg, NEW gv, NEW own, NEW idx, NEW rest, NEW top,
         PageTypes(pg, gv), Structure(pg, own, idx, rest, top),
         NEW p \in Pages, own[p] \in Buckets, pg[p].next = NoPage, pg[p].keys # << >>,
         NEW o \in Overflow, own[o] = None, NEW e \in Entries,
         NEW pg2, NEW own2, NEW idx2, Linked(pg, own, idx, pg2, own2, idx2, p, o, <<e>>)
  PROVE  /\ PageTypes(pg2, gv) /\ Structure(pg2, own2, idx2, rest, top)
         /\ NewPage(pg, pg2, own, own2, p, o, e)
<1>1. /\ Structure(pg2, own2, idx2, rest, top)
      /\ \A q \in Pages \ {o} : pg2[q].keys = pg[q].keys
      /\ pg2[o].keys = <<e>> /\ pg[o].keys = << >>
  BY LinkPage
<1>2. <<e>> \in Seq(Entries) /\ <<e>> = Append(<< >>, e)
  OBVIOUS
<1> USE DEF Linked
<1>3. o \in Pages /\ o # p /\ DOMAIN pg = Pages /\ pg[p] \in PageSet
  BY Space DEF PageTypes
<1>4. [EmptyPage EXCEPT !.keys = <<e>>] \in PageSet
  BY <1>2, EmptyIs DEF PageSet
<1>5. [pg[p] EXCEPT !.next = o] \in PageSet
  BY <1>3 DEF PageSet
<1>6. /\ pg2[p] = [pg[p] EXCEPT !.next = o] /\ pg2[o] = [EmptyPage EXCEPT !.keys = <<e>>]
      /\ \A q \in Pages : q \notin {p, o} => pg2[q] = pg[q]
      /\ DOMAIN pg2 = Pages /\ pg2 = [q \in Pages |-> pg2[q]]
  BY <1>3
<1>7. PageTypes(pg2, gv)
  <2>1. \A q \in Pages : pg2[q] \in PageSet
    BY <1>4, <1>5, <1>6 DEF PageTypes
  <2>2. pg2 \in [Pages -> PageSet]
    BY <1>6, <2>1
  <2>. QED BY <2>2 DEF PageTypes
<1>8. own2[o] = own[p] /\ \A q \in Pages : q # o => own2[q] = own[q]
  BY <1>3 DEF Structure, Ghosts
<1>. QED BY <1>1, <1>2, <1>6, <1>7, <1>8 DEF NewPage

LEMMA AddOverflowOfPut ==
  ASSUME NEW own, NEW idx, NEW w \in Threads, AccessInv(own, idx, w), ClaimInv', AddOverflow(w)
  PROVE  \E own2, idx2 : AccessInv(own2, idx2, w)'
<1> DEFINE p == th[w].want
           k == th[w].key
           v == th[w].val
           o == OvflPage
           e == [key |-> k, val |-> v]
<1>1. /\ th[w].pc = "nomore" /\ ~Fits(page[p]) /\ maxBucket < MaxBuckets
      /\ Available(w, o) /\ TakeOvflPage
      /\ page' = [page EXCEPT ![p].next = o, ![o] = WithKey(EmptyPage, w)]
      /\ left' = left
      /\ given' = [given EXCEPT ![k] = v]
      /\ th' = [u \in Threads |-> IF u = w THEN [th[w] EXCEPT !.pc = "grow"]
                                  ELSE [Seen(k, v)[u] EXCEPT !.torn = TRUE]]
      /\ UNCHANGED masks
  BY DEF AddOverflow, Putting
<1>1b. PICK D \in SUBSET Overflow :
         /\ TakeDataPages(w, FreeLeft, D)
         /\ use' = [q \in Pages |-> IF q \in D THEN "other" ELSE IF q = o THEN "hash" ELSE use[q]]
         /\ holder' = [q \in Pages |-> IF q \in D \cup {p, o} THEN NoThread ELSE holder[q]]
  BY DEF AddOverflow
<1>2. /\ WriterOk(own, idx, w) /\ Table(own, idx, w) /\ MasksOk(w) /\ ClaimInv
      /\ Readable(own, idx, w) /\ DOMAIN holder = Pages /\ DOMAIN th[w] = Fields
      /\ UseOk(own)
  BY DEF AccessInv, ClaimInv, Shape
<1>3. /\ k \in Keys /\ v \in Values /\ p \in Pages /\ holder[p] = w
      /\ own[p] = HomeOf(w)[k] /\ page[p].next = NoPage
      /\ \A q \in Pages : ~On(page[q], k)
  BY <1>1, <1>2 DEF WriterOk
<1>4. th[w].pc \notin Growing
  BY <1>1 DEF Growing
<1>5. e \in Entries /\ e.key = k /\ e.val = v
  BY <1>3 DEF Entries
<1>6. Contents(page, NoPage, << >>, given) /\ PageTypes(page, given) /\ FreeOk(own, free, fresh)
  BY <1>2, <1>4, AtRest DEF Table
<1>7. WithKey(EmptyPage, w) = [EmptyPage EXCEPT !.keys = <<e>>]
  <2>1. WithKey(EmptyPage, w) = [EmptyPage EXCEPT !.keys = Append(EmptyPage.keys, e)]
    BY DEF WithKey
  <2>2. Append(EmptyPage.keys, e) = <<e>>
    BY EmptyIs
  <2>. QED BY <2>1, <2>2
<1> HIDE DEF e
<1>8. page[p].keys # << >>
  <2>1. Len(page[p].keys) >= Cap /\ Cap > 0
    BY <1>1, <1>3, <1>6, PageIs, Space DEF Fits
  <2>. QED BY <2>1, Space
<1>9. own[p] \in Buckets
  BY <1>2, <1>3, HomeIs
<1>10. /\ o \in Overflow /\ own[o] = None
       /\ \A f : (\A q \in Pages : q # o => f[q] = own[q]) => FreeOk(f, FreeLeft, fresh')
  BY <1>1, <1>6, TakeFree
<1>11. page' = [page EXCEPT ![p].next = o, ![o] = [EmptyPage EXCEPT !.keys = <<e>>]]
  BY <1>1, <1>7
<1> HIDE DEF o
<1>12. Structure(page, own, idx, NoPage, maxBucket)
  BY <1>2, <1>4, AtRest DEF Table
<1>12b. PICK own2, idx2 : Linked(page, own, idx, page', own2, idx2, p, o, <<e>>)
  BY <1>11 DEF Linked
<1>13. /\ PageTypes(page', given) /\ Structure(page', own2, idx2, NoPage, maxBucket)
       /\ NewPage(page, page', own, own2, p, o, e)
  BY <1>3, <1>5, <1>6, <1>8, <1>9, <1>10, <1>12, <1>12b, ChainKey
<1>14. /\ th'[w] = [th[w] EXCEPT !.pc = "grow"]
       /\ \A u \in Threads \ {w} : th'[u] = [Seen(k, v)[u] EXCEPT !.torn = TRUE]
  BY <1>1
<1>15. th'[w].pc = "grow" /\ th'[w].op = th[w].op
  BY <1>2, <1>14 DEF Fields
<1>16. /\ ~InHand(w)' /\ HandOf(w)' = NoPage /\ TodoOf(w)' = << >> /\ RestAt(w)' = NoPage
       /\ LimitOf(w)' = maxBucket' /\ TopOf(w)' = maxBucket'
       /\ BothOf(w)' = {} /\ FromOf(w)' = Rest
  BY <1>15 DEF InHand, HandOf, TodoOf, RestAt, LimitOf, TopOf, BothOf, FromOf, Dealing
<1>16b. BothOf(w)' = BothOf(w) /\ FromOf(w)' = FromOf(w)
  BY <1>4, <1>16, RestNow
<1>17. maxBucket' = maxBucket /\ lowMask' = lowMask /\ highMask' = highMask
  BY <1>1 DEF masks
<1>18. HomeOf(w)' = HomeOf(w)
  BY <1>4, <1>16, <1>17, RestNow DEF HomeOf
<1>19. o \in Pages /\ o # NoPage
  BY <1>10, Space
<1>20. Without(<< >>, << >>, e) /\ << >> \in Seq(Entries)
  BY WithoutNone
<1>21. Elsewhere(page, NoPage, e) /\ Gives(page, given, given', e)
  BY <1>1, <1>3, <1>5 DEF Elsewhere, Gives
<1>22. /\ \A q \in Pages \ {o} : page'[q].keys = page[q].keys
       /\ page[o].keys = << >> /\ page'[o].keys = Append(page[o].keys, e)
       /\ own2[o] = own[p] /\ \A q \in Pages : q # o => own2[q] = own[q]
       /\ \A q \in Pages : q \notin {p, o} => page'[q] = page[q]
  BY <1>13 DEF NewPage
<1>23. Contents(page', NoPage, << >>, given')
  <2>1. Added(page, page', o, e)
    BY <1>22 DEF Added
  <2>. QED BY <1>5, <1>6, <1>19, <1>20, <1>21, <2>1, Gain
<1>24. Placed(page', own2, NoPage, << >>, HomeOf(w), BothOf(w), FromOf(w))
  <2>1. Placed(page, own, NoPage, << >>, HomeOf(w), BothOf(w), FromOf(w))
    BY <1>2, <1>4, AtRest DEF Table
  <2>2. own2[o] = HomeOf(w)[e.key]
    BY <1>3, <1>5, <1>22
  <2>3. \A q \in Pages : q # o => own2[q] = own[q]
    BY <1>22
  <2>4. Added(page, page', o, e)
    BY <1>22 DEF Added
  <2>5. page[o].keys = << >>
    BY <1>22
  <2>6. Owned(page, own, own2, o, HomeOf(w)[e.key])
    BY <2>2, <2>3, <2>5 DEF Owned
  <2>. QED BY <1>5, <1>6, <1>19, <1>20, <2>1, <2>4, <2>6, GainPlaced
<1>25. PageTypes(page', given')
  <2>1. given' \in [Keys -> Values \cup {NoVal}]
    BY <1>1, <1>3, <1>6 DEF PageTypes
  <2>. QED BY <1>13, <2>1 DEF PageTypes
<1>26. /\ FreeOk(own2, free', fresh')
       /\ \A d \in D : d \in Overflow /\ own2[d] = None /\ Available(w, d)
  <2>1. FreeOk(own2, FreeLeft, fresh')
    BY <1>10, <1>22
  <2>. QED BY <1>1b, <2>1, TakeData
<1>27. Table(own2, idx2, w)'
  <2>1. Structure(page', own2, idx2, RestAt(w)', TopOf(w)')
    BY <1>13, <1>16, <1>17
  <2>2. Contents(page', HandOf(w)', TodoOf(w)', given')
    BY <1>16, <1>23
  <2>3. Placed(page', own2, HandOf(w)', TodoOf(w)', HomeOf(w)', BothOf(w)', FromOf(w)')
    BY <1>16, <1>16b, <1>18, <1>24
  <2>. QED BY <1>25, <1>26, <2>1, <2>2, <2>3 DEF Table
<1>28. MasksOk(w)'
  BY <1>1, <1>2, <1>4, <1>16, <1>17, RestNow DEF MasksOk
<1>29. SplitOk(w)'
  BY <1>15, <1>16 DEF SplitOk, Dealing
<1>30. WriterOk(own2, idx2, w)'
  BY <1>2, <1>15 DEF WriterOk
<1>31. OthersHold(w)
  <2>1. o \notin D
    BY <1>9, <1>22, <1>26, Space
  <2>2. \A q \in D \cup {o} : holder[q] \notin Threads \ {w}
    BY <1>1, <1>26, NotOthers
  <2>3. \A q \in Pages \ (D \cup {p, o}) : holder'[q] = holder[q] /\ use'[q] = use[q]
    BY <1>1b
  <2>. QED BY <1>3, <2>2, <2>3 DEF OthersHold
<1>32. Readable(own2, idx2, w)'
  <2>1. \A q \in Pages : holder[q] \in Threads \ {w} => page'[q] = page[q]
    BY <1>1, <1>3, <1>22, NotOthers
  <2>. QED BY <1>1, <1>2, <1>3, <1>6, <1>14, <1>31, <2>1, ReadersSeeTorn
<1>32b. UseOk(own2)'
  <2>1. \A q \in Pages : own2[q] # None => use'[q] = "hash"
    BY <1>1b, <1>2, <1>22, <1>26 DEF UseOk
  <2>. QED BY <1>1, <1>1b, <1>2, <2>1 DEF UseOk
<1>33. AccessInv(own2, idx2, w)'
  BY <1>32b, <1>27, <1>28, <1>29, <1>30, <1>32 DEF AccessInv
<1>. QED BY <1>33

----------------------------------------------------------------------------
(***************************************************************************)
(* The expansion of the table.                                             *)
(***************************************************************************)
LEMMA ExpansionStep ==
  ASSUME NEW own, NEW idx, NEW w \in Threads, AccessInv(own, idx, w), ClaimInv',
         th[w].pc \in Growing, NEW r, th' = [th EXCEPT ![w] = r], r.op = th[w].op,
         r.pc \notin {"seek", "wait", "ok", "nomore"}, given' = given, OthersHold(w),
         \A q \in Pages : holder[q] \in Threads \ {w} => page'[q] = page[q],
         MasksOk(w)', SplitOk(w)', NEW own2, NEW idx2, Table(own2, idx2, w)', UseOk(own2)'
  PROVE  AccessInv(own2, idx2, w)'
<1>1. th'[w] = r /\ \A u \in Threads \ {w} : th'[u] = th[u]
  BY DEF AccessInv, ClaimInv, Shape
<1>2. Readable(own2, idx2, w)'
  BY <1>1, ReadersTorn DEF AccessInv
<1>3. WriterOk(own2, idx2, w)'
  <2>1. WriterOk(own, idx, w)
    BY DEF AccessInv
  <2>. QED BY <1>1, <2>1 DEF WriterOk
<1>. QED BY <1>2, <1>3 DEF AccessInv

\* What the expansion steps know of the writer.
LEMMA InExpansion ==
  ASSUME NEW own, NEW idx, NEW w \in Threads, AccessInv(own, idx, w)
  PROVE  /\ WriterOk(own, idx, w) /\ Table(own, idx, w) /\ MasksOk(w) /\ SplitOk(w)
         /\ UseOk(own)
         /\ DOMAIN th[w] = Fields /\ DOMAIN th[w].split = SplitFields
         /\ DOMAIN th = Threads /\ DOMAIN holder = Pages
         /\ BeginsAtBase(th[w]) /\ maxBucket \in Nat /\ maxBucket <= MaxBuckets
         /\ MaxBuckets \in Nat
<1>1. maxBucket \in Nat /\ maxBucket <= MaxBuckets /\ MaxBuckets \in Nat
  BY Space DEF AccessInv, MasksOk, Buckets
<1>. QED BY <1>1 DEF AccessInv, ClaimInv, Shape, Good

LEMMA GrowMaxOfPut ==
  ASSUME NEW own, NEW idx, NEW w \in Threads, AccessInv(own, idx, w), ClaimInv', GrowMax(w)
  PROVE  AccessInv(own, idx, w)'
<1> DEFINE s == [NoSplit EXCEPT !.old = OldBucket(maxBucket + 1), !.new = maxBucket + 1]
           r == [th[w] EXCEPT !.pc = "masks", !.split = s]
<1>1. /\ th[w].pc = "grow" /\ maxBucket' = maxBucket + 1
      /\ lowMask' = lowMask /\ highMask' = highMask
      /\ page' = page /\ free' = free /\ fresh' = fresh /\ holder' = holder /\ given' = given
      /\ use' = use /\ left' = left
  BY DEF GrowMax, pool, gone
<1>2. /\ WriterOk(own, idx, w) /\ Table(own, idx, w) /\ MasksOk(w) /\ SplitOk(w)
      /\ DOMAIN th[w] = Fields /\ DOMAIN th = Threads
      /\ maxBucket \in Nat /\ maxBucket <= MaxBuckets /\ MaxBuckets \in Nat
  BY InExpansion
<1>3. th' = [th EXCEPT ![w] = r]
  BY <1>2 DEF GrowMax
<1>4. r.pc = "masks" /\ r.op = th[w].op /\ r.split = s
  BY <1>2 DEF Fields
<1>5. s.old = (maxBucket + 1) % (lowMask + 1) /\ s.new = maxBucket + 1
  BY DEF NoSplit, OldBucket, And
<1> HIDE DEF s, r
<1>6. th'[w] = r
  BY <1>2, <1>3
<1>7. th'[w].pc = "masks" /\ th'[w].split = s
  BY <1>4, <1>6
<1>8. /\ HandOf(w) = NoPage /\ TodoOf(w) = << >> /\ RestAt(w) = NoPage
      /\ LimitOf(w) = maxBucket /\ TopOf(w) = maxBucket
      /\ BothOf(w) = {} /\ FromOf(w) = Rest
  BY <1>1 DEF InHand, HandOf, TodoOf, RestAt, LimitOf, TopOf, BothOf, FromOf, Dealing
<1>9. /\ HandOf(w)' = NoPage /\ TodoOf(w)' = << >> /\ RestAt(w)' = NoPage /\ ~InHand(w)'
      /\ LimitOf(w)' = maxBucket' - 1 /\ TopOf(w)' = maxBucket' - 1
      /\ BothOf(w)' = {} /\ FromOf(w)' = Rest
  BY <1>7 DEF InHand, HandOf, TodoOf, RestAt, LimitOf, TopOf, BothOf, FromOf, Dealing
<1>10. LimitOf(w)' = maxBucket /\ TopOf(w)' = maxBucket
  BY <1>1, <1>2, <1>9
<1>11. HomeOf(w)' = HomeOf(w)
  BY <1>1, <1>8, <1>10 DEF HomeOf
<1>12. Table(own, idx, w)'
  <2>1. Structure(page', own, idx, RestAt(w)', TopOf(w)')
    BY <1>1, <1>2, <1>8, <1>9, <1>10 DEF Table
  <2>2. Contents(page', HandOf(w)', TodoOf(w)', given')
    BY <1>1, <1>2, <1>8, <1>9 DEF Table
  <2>3. Placed(page', own, HandOf(w)', TodoOf(w)', HomeOf(w)', BothOf(w)', FromOf(w)')
    BY <1>1, <1>2, <1>8, <1>9, <1>11 DEF Table
  <2>. QED BY <1>1, <1>2, <2>1, <2>2, <2>3 DEF Table
<1>13. MasksOf(maxBucket, lowMask, highMask) /\ maxBucket < MaxBuckets
  BY <1>1, <1>2, <1>8 DEF MasksOk
<1>14. MasksOk(w)'
  <2>1. MasksOf(LimitOf(w)', lowMask', highMask')
    BY <1>1, <1>10, <1>13
  <2>2. maxBucket' \in Buckets
    BY <1>1, <1>2, <1>13 DEF Buckets
  <2>. QED BY <1>7, <2>1, <2>2 DEF MasksOk
<1>15. SplitOk(w)'
  <2>1. (maxBucket + 1) % (lowMask + 1) \in 0 .. maxBucket
    <3>1. CASE maxBucket < highMask
      BY <1>13, <3>1, GrowInLevel
    <3>2. CASE maxBucket = highMask
      BY <1>13, <3>2, GrowLevel
    <3>. QED BY <1>13, <3>1, <3>2 DEF MasksOf
  <2>2. s.new = maxBucket' /\ s.old \in 0 .. maxBucket' - 1 /\ s.old = maxBucket' % (lowMask' + 1)
    BY <1>1, <1>2, <1>5, <2>1
  <2>. QED BY <1>7, <1>9, <2>2 DEF SplitOk, Dealing
<1>16. OthersHold(w)
  BY <1>1 DEF OthersHold
<1>17. UseOk(own)'
  BY <1>1, InExpansion DEF UseOk
<1>. QED BY <1>17, <1>1, <1>3, <1>4, <1>12, <1>14, <1>15, <1>16, ExpansionStep DEF Growing

LEMMA GrowMasksOfPut ==
  ASSUME NEW own, NEW idx, NEW w \in Threads, AccessInv(own, idx, w), ClaimInv', GrowMasks(w)
  PROVE  AccessInv(own, idx, w)'
<1> DEFINE r == [th[w] EXCEPT !.pc = "newpage"]
           s == th[w].split
           max == maxBucket - 1
<1>1. /\ th[w].pc = "masks" /\ maxBucket' = maxBucket
      /\ lowMask'  = IF maxBucket > highMask THEN highMask ELSE lowMask
      /\ highMask' = IF maxBucket > highMask THEN Or(maxBucket, highMask) ELSE highMask
      /\ page' = page /\ free' \in {free, << >>} /\ fresh' = fresh /\ holder' = holder
      /\ given' = given /\ use' = use /\ left' = left
  BY DEF GrowMasks
<1>2. /\ WriterOk(own, idx, w) /\ Table(own, idx, w) /\ MasksOk(w) /\ SplitOk(w)
      /\ DOMAIN th[w] = Fields /\ DOMAIN th = Threads
      /\ maxBucket \in Nat /\ maxBucket <= MaxBuckets /\ MaxBuckets \in Nat
  BY InExpansion
<1>3. th' = [th EXCEPT ![w] = r]
  BY <1>2 DEF GrowMasks
<1>4. r.pc = "newpage" /\ r.op = th[w].op /\ r.split = s
  BY <1>2 DEF Fields
<1> HIDE DEF r
<1>5. th'[w] = r
  BY <1>2, <1>3
<1>6. th'[w].pc = "newpage" /\ th'[w].split = s
  BY <1>4, <1>5
<1>7. /\ HandOf(w) = NoPage /\ TodoOf(w) = << >> /\ RestAt(w) = NoPage
      /\ LimitOf(w) = max /\ TopOf(w) = max
      /\ BothOf(w) = {} /\ FromOf(w) = Rest
  BY <1>1 DEF InHand, HandOf, TodoOf, RestAt, LimitOf, TopOf, BothOf, FromOf, Dealing
<1>8. /\ HandOf(w)' = NoPage /\ TodoOf(w)' = << >> /\ RestAt(w)' = NoPage /\ ~InHand(w)'
      /\ LimitOf(w)' = maxBucket /\ TopOf(w)' = max
      /\ BothOf(w)' = {s.old, s.new} /\ FromOf(w)' = s.old
  BY <1>1, <1>6 DEF InHand, HandOf, TodoOf, RestAt, LimitOf, TopOf, BothOf, FromOf, Dealing
<1>9. s.new = maxBucket /\ s.old \in 0 .. max /\ s.old = maxBucket % (lowMask + 1)
  BY <1>1, <1>2 DEF SplitOk, Dealing
<1>10. MasksOf(max, lowMask, highMask) /\ max + 1 = maxBucket /\ max \in Nat
  <2>1. MasksOf(max, lowMask, highMask)
    BY <1>2, <1>7 DEF MasksOk
  <2>. QED BY <1>2, <2>1 DEF MasksOf
<1> HIDE DEF max
<1>11. /\ MasksOf(maxBucket, lowMask', highMask')
       /\ \A n \in Nat :
            \/ BucketOf(n, maxBucket, lowMask', highMask') = BucketOf(n, max, lowMask, highMask)
            \/ /\ BucketOf(n, max, lowMask, highMask) = s.old
               /\ BucketOf(n, maxBucket, lowMask', highMask') = s.new
  <2>1. CASE max < highMask
    <3>1. lowMask' = lowMask /\ highMask' = highMask
      BY <1>1, <1>10, <2>1 DEF MasksOf
    <3>. QED BY <1>9, <1>10, <2>1, <3>1, GrowInLevel
  <2>2. CASE max = highMask
    <3>1. lowMask' = highMask /\ highMask' = 2 * highMask + 1
      <4>1. highMask \in Nat /\ maxBucket = highMask + 1
        BY <1>10, <2>2
      <4>2. Or(maxBucket, highMask) = 2 * highMask + 1
        BY <4>1, LevelMask DEF Or
      <4>. QED BY <1>1, <4>1, <4>2
    <3>. QED BY <1>9, <1>10, <2>2, <3>1, GrowLevel
  <2>. QED BY <1>10, <2>1, <2>2 DEF MasksOf
<1>12. \A k \in Keys : \/ HomeOf(w)'[k] = HomeOf(w)[k]
                       \/ HomeOf(w)[k] = s.old /\ HomeOf(w)'[k] = s.new
  <2>1. \A k \in Keys : Hash[k] \in Nat
    BY AccessAssumption
  <2>2. \A k \in Keys : /\ HomeOf(w)[k] = BucketOf(Hash[k], max, lowMask, highMask)
                        /\ HomeOf(w)'[k] = BucketOf(Hash[k], maxBucket, lowMask', highMask')
    BY <1>7, <1>8 DEF HomeOf
  <2>. QED BY <1>11, <2>1, <2>2
<1>13. Table(own, idx, w)'
  <2>1. Structure(page', own, idx, RestAt(w)', TopOf(w)')
    BY <1>1, <1>2, <1>7, <1>8 DEF Table
  <2>2. Contents(page', HandOf(w)', TodoOf(w)', given')
    BY <1>1, <1>2, <1>7, <1>8 DEF Table
  <2>3. Placed(page', own, HandOf(w)', TodoOf(w)', HomeOf(w)', BothOf(w)', FromOf(w)')
    <3>1. Placed(page, own, NoPage, << >>, HomeOf(w), {}, Rest)
      BY <1>2, <1>7 DEF Table
    <3>2. \A p \in Pages, k \in Keys : On(page[p], k) => own[p] = HomeOf(w)[k]
      BY <3>1, Space DEF Placed
    <3>3. Placed(page, own, NoPage, << >>, HomeOf(w)', {s.old, s.new}, s.old)
      BY <1>12, <3>2 DEF Placed
    <3>. QED BY <1>1, <1>8, <3>3
  <2>4. FreeOk(own, free', fresh')
    BY <1>1, <1>2, NoneFree DEF Table
  <2>. QED BY <1>1, <1>2, <2>1, <2>2, <2>3, <2>4 DEF Table
<1>14. MasksOk(w)'
  BY <1>1, <1>2, <1>6, <1>8, <1>11 DEF MasksOk
<1>15. SplitOk(w)'
  <2>1. s.old \in 0 .. maxBucket - 1
    BY <1>9 DEF max
  <2>. QED BY <1>1, <1>6, <1>8, <1>9, <2>1 DEF SplitOk, Dealing
<1>16. OthersHold(w)
  BY <1>1 DEF OthersHold
<1>17. UseOk(own)'
  BY <1>1, InExpansion DEF UseOk
<1>. QED BY <1>17, <1>1, <1>3, <1>4, <1>13, <1>14, <1>15, <1>16, ExpansionStep DEF Growing

LEMMA NewBucketOfPut ==
  ASSUME NEW own, NEW idx, NEW w \in Threads, AccessInv(own, idx, w), ClaimInv', NewBucket(w)
  PROVE  AccessInv(own, idx, w)'
<1> DEFINE r == [th[w] EXCEPT !.pc = "split"]
           s == th[w].split
<1>1. /\ th[w].pc = "newpage" /\ page' = [page EXCEPT ![s.new] = EmptyPage]
      /\ maxBucket' = maxBucket /\ lowMask' = lowMask /\ highMask' = highMask
      /\ free' = free /\ fresh' = fresh /\ holder' = holder /\ given' = given
      /\ use' = use /\ left' = left
  BY DEF NewBucket, masks, gone
<1>2. /\ WriterOk(own, idx, w) /\ Table(own, idx, w) /\ MasksOk(w) /\ SplitOk(w)
      /\ DOMAIN th[w] = Fields /\ DOMAIN th = Threads
      /\ maxBucket \in Nat /\ maxBucket <= MaxBuckets /\ MaxBuckets \in Nat
  BY InExpansion
<1>3. th' = [th EXCEPT ![w] = r]
  BY <1>2 DEF NewBucket
<1>4. r.pc = "split" /\ r.op = th[w].op /\ r.split = s
  BY <1>2 DEF Fields
<1> HIDE DEF r
<1>5. th'[w] = r
  BY <1>2, <1>3
<1>6. th'[w].pc = "split" /\ th'[w].split = s
  BY <1>4, <1>5
<1>7. /\ HandOf(w) = NoPage /\ TodoOf(w) = << >> /\ RestAt(w) = NoPage
      /\ LimitOf(w) = maxBucket /\ TopOf(w) = maxBucket - 1
      /\ BothOf(w) = {s.old, s.new} /\ FromOf(w) = s.old
  BY <1>1 DEF InHand, HandOf, TodoOf, RestAt, LimitOf, TopOf, BothOf, FromOf, Dealing
<1>8. /\ HandOf(w)' = NoPage /\ TodoOf(w)' = << >> /\ RestAt(w)' = NoPage /\ ~InHand(w)'
      /\ LimitOf(w)' = maxBucket /\ TopOf(w)' = maxBucket
      /\ BothOf(w)' = {s.old, s.new} /\ FromOf(w)' = s.old
  BY <1>1, <1>6 DEF InHand, HandOf, TodoOf, RestAt, LimitOf, TopOf, BothOf, FromOf, Dealing
<1>9. s.new = maxBucket /\ s.old \in 0 .. maxBucket - 1
  BY <1>1, <1>2 DEF SplitOk, Dealing
<1>10. page' = page
  <2>1. maxBucket \in Buckets /\ maxBucket > TopOf(w)
    BY <1>2, <1>7 DEF MasksOk
  <2>2. page[maxBucket] = EmptyPage
    BY <1>2, <2>1 DEF Table, Structure, EmptyOk
  <2>. QED BY <1>1, <1>2, <1>9, <2>2 DEF Table, PageTypes
<1>11. HomeOf(w)' = HomeOf(w)
  BY <1>1, <1>7, <1>8 DEF HomeOf
<1>12. Table(own, idx, w)'
  <2>1. Structure(page', own, idx, RestAt(w)', TopOf(w)')
    <3>1. Structure(page, own, idx, NoPage, maxBucket - 1)
      BY <1>2, <1>7 DEF Table
    <3>2. EmptyOk(page, own, maxBucket)
      BY <1>2, <3>1 DEF Structure, EmptyOk, Buckets
    <3>3. Structure(page, own, idx, NoPage, maxBucket)
      BY <3>1, <3>2 DEF Structure
    <3>. QED BY <1>8, <1>10, <3>3
  <2>2. Contents(page', HandOf(w)', TodoOf(w)', given')
    BY <1>1, <1>2, <1>7, <1>8, <1>10 DEF Table
  <2>3. Placed(page', own, HandOf(w)', TodoOf(w)', HomeOf(w)', BothOf(w)', FromOf(w)')
    BY <1>2, <1>7, <1>8, <1>10, <1>11 DEF Table
  <2>. QED BY <1>1, <1>2, <1>10, <2>1, <2>2, <2>3 DEF Table
<1>13. MasksOk(w)'
  BY <1>1, <1>2, <1>6, <1>7, <1>8 DEF MasksOk
<1>14. SplitOk(w)'
  BY <1>1, <1>6, <1>8, <1>9 DEF SplitOk, Dealing
<1>15. OthersHold(w)
  BY <1>1 DEF OthersHold
<1>16. UseOk(own)'
  BY <1>1, InExpansion DEF UseOk
<1>. QED BY <1>16, <1>1, <1>3, <1>4, <1>10, <1>12, <1>13, <1>14, <1>15, ExpansionStep DEF Growing

LEMMA SplitOfPut ==
  ASSUME NEW own, NEW idx, NEW w \in Threads, AccessInv(own, idx, w), ClaimInv', Split(w)
  PROVE  \E own2 : AccessInv(own2, idx, w)'
<1> DEFINE s == th[w].split
           old == s.old
           s2 == [s EXCEPT !.page = old, !.todo = page[old].keys, !.next = page[old].next]
           r == [th[w] EXCEPT !.pc = "move", !.split = s2]
<1>1. /\ th[w].pc = "split" /\ page' = [page EXCEPT ![old] = EmptyPage] /\ Available(w, old)
      /\ maxBucket' = maxBucket /\ lowMask' = lowMask /\ highMask' = highMask
      /\ free' = free /\ fresh' = fresh /\ holder' = holder /\ given' = given
      /\ use' = use /\ left' = left
  BY DEF Split, masks, gone
<1>2. /\ WriterOk(own, idx, w) /\ Table(own, idx, w) /\ MasksOk(w) /\ SplitOk(w)
      /\ DOMAIN th[w] = Fields /\ DOMAIN th = Threads /\ DOMAIN s = SplitFields
      /\ BeginsAtBase(th[w])
      /\ maxBucket \in Nat /\ maxBucket <= MaxBuckets /\ MaxBuckets \in Nat
  BY InExpansion
<1>3. th' = [th EXCEPT ![w] = r]
  <2>1. th' = SplitTo(th, w, old, page[old].keys, page[old].next)
    BY DEF Split, SplitTo
  <2>2. w \in DOMAIN th
    BY <1>2
  <2>3. th' = [th EXCEPT ![w] = Divided(th[w], old, page[old].keys, page[old].next)]
    BY <2>1, <2>2, SplitRecord
  <2>. QED BY <2>3 DEF Divided
<1>4. r.pc = "move" /\ r.op = th[w].op /\ r.split = s2
  BY <1>2 DEF Fields
<1>5. /\ s2.old = old /\ s2.new = s.new /\ s2.base = s.base
      /\ s2.todo = page[old].keys /\ s2.next = page[old].next
  BY <1>2 DEF SplitFields
<1>6. s.base
  BY <1>1, <1>2 DEF BeginsAtBase
<1> HIDE DEF r, s2
<1>7. th'[w] = r
  BY <1>2, <1>3
<1>8. th'[w].pc = "move" /\ th'[w].split = s2
  BY <1>4, <1>7
<1>9. /\ HandOf(w) = NoPage /\ TodoOf(w) = << >> /\ RestAt(w) = NoPage
      /\ LimitOf(w) = maxBucket /\ TopOf(w) = maxBucket
      /\ BothOf(w) = {old, s.new} /\ FromOf(w) = old
  BY <1>1 DEF InHand, HandOf, TodoOf, RestAt, LimitOf, TopOf, BothOf, FromOf, Dealing
<1>10. ~InHand(w)'
  BY <1>5, <1>6, <1>8 DEF InHand
<1>11. /\ HandOf(w)' = NoPage /\ TodoOf(w)' = page[old].keys /\ RestAt(w)' = page[old].next
       /\ LimitOf(w)' = maxBucket /\ TopOf(w)' = maxBucket
       /\ BothOf(w)' = {old, s.new} /\ FromOf(w)' = Rest
  BY <1>1, <1>5, <1>8, <1>10 DEF HandOf, TodoOf, RestAt, LimitOf, TopOf, BothOf, FromOf, Dealing
<1>12. s.new = maxBucket /\ old \in 0 .. maxBucket - 1 /\ old \in Buckets
  <2>1. s.new = maxBucket /\ old \in 0 .. maxBucket - 1
    BY <1>1, <1>2 DEF SplitOk, Dealing
  <2>. QED BY <1>2, <2>1 DEF Buckets
<1>13. HomeOf(w)' = HomeOf(w)
  BY <1>1, <1>9, <1>11 DEF HomeOf
<1>14. PICK own2 : SplitOff(page, own, page', own2, old)
  BY <1>1 DEF SplitOff
<1>15. /\ PageTypes(page', given)
       /\ Structure(page', own2, idx, page[old].next, maxBucket)
       /\ Contents(page', NoPage, page[old].keys, given)
       /\ Placed(page', own2, NoPage, page[old].keys, HomeOf(w), {old, s.new}, Rest)
  <2>1. /\ PageTypes(page, given) /\ Structure(page, own, idx, NoPage, maxBucket)
        /\ Contents(page, NoPage, << >>, given)
        /\ Placed(page, own, NoPage, << >>, HomeOf(w), {old, s.new}, old)
    BY <1>2, <1>9 DEF Table
  <2>2. old \in {old, s.new}
    OBVIOUS
  <2>. QED BY <1>12, <1>14, <2>1, <2>2, SplitTable
<1>15b. \A p \in Pages : own[p] = None <=> own2[p] = None
  BY <1>2, <1>12, <1>14, Space DEF SplitOff, Table, Structure, Ghosts
<1>16. FreeOk(own2, free, fresh)
  BY <1>2, <1>15b, Space DEF Table, FreeOk
<1>16b. UseOk(own2)'
  BY <1>1, <1>15b, InExpansion DEF UseOk
<1>17. Table(own2, idx, w)'
  <2>1. Structure(page', own2, idx, RestAt(w)', TopOf(w)')
    BY <1>11, <1>15
  <2>2. Contents(page', HandOf(w)', TodoOf(w)', given')
    BY <1>1, <1>11, <1>15
  <2>3. Placed(page', own2, HandOf(w)', TodoOf(w)', HomeOf(w)', BothOf(w)', FromOf(w)')
    BY <1>11, <1>13, <1>15
  <2>. QED BY <1>1, <1>15, <1>16, <2>1, <2>2, <2>3 DEF Table
<1>18. MasksOk(w)'
  BY <1>1, <1>2, <1>8, <1>9, <1>11 DEF MasksOk
<1>19. SplitOk(w)'
  <2>1. page[old].keys \in Seq(Entries)
    BY <1>2, <1>12, Space, PageIs DEF Table
  <2>. QED BY <1>1, <1>5, <1>8, <1>10, <1>12, <2>1 DEF SplitOk, Dealing
<1>20. OthersHold(w)
  BY <1>1 DEF OthersHold
<1>21. \A q \in Pages : holder[q] \in Threads \ {w} => page'[q] = page[q]
  <2>1. \A q \in Pages : q # old => page'[q] = page[q]
    BY <1>1, <1>2 DEF Table, PageTypes
  <2>. QED BY <1>1, <2>1, NotOthers
<1>22. AccessInv(own2, idx, w)'
  BY <1>16b, <1>1, <1>3, <1>4, <1>17, <1>18, <1>19, <1>20, <1>21, ExpansionStep DEF Growing
<1>. QED BY <1>22

LEMMA NextPageOfPut ==
  ASSUME NEW own, NEW idx, NEW w \in Threads, AccessInv(own, idx, w), ClaimInv', NextPage(w)
  PROVE  AccessInv(own, idx, w)'
<1> DEFINE s == th[w].split
           p == s.next
           s2 == [s EXCEPT !.base = FALSE, !.page = p,
                           !.todo = page[p].keys, !.next = page[p].next]
           r == [th[w] EXCEPT !.pc = "move", !.split = s2]
<1>1. /\ th[w].pc = "nextpage" /\ holder' = [holder EXCEPT ![p] = w] /\ Available(w, p)
      /\ maxBucket' = maxBucket /\ lowMask' = lowMask /\ highMask' = highMask
      /\ free' = free /\ fresh' = fresh /\ page' = page /\ given' = given
      /\ use' = use /\ left' = left
  BY DEF NextPage, masks, gone
<1>2. /\ WriterOk(own, idx, w) /\ Table(own, idx, w) /\ MasksOk(w) /\ SplitOk(w)
      /\ DOMAIN th[w] = Fields /\ DOMAIN th = Threads /\ DOMAIN s = SplitFields
      /\ DOMAIN holder = Pages
  BY InExpansion
<1>3. th' = [th EXCEPT ![w] = r]
  BY <1>2 DEF NextPage, Fields
<1>4. r.pc = "move" /\ r.op = th[w].op /\ r.split = s2
  BY <1>2 DEF Fields
<1>5. /\ s2.old = s.old /\ s2.new = s.new /\ s2.base = FALSE /\ s2.page = p
      /\ s2.todo = page[p].keys /\ s2.next = page[p].next
  BY <1>2 DEF SplitFields
<1> HIDE DEF r, s2
<1>6. th'[w].pc = "move" /\ th'[w].split = s2
  BY <1>2, <1>3, <1>4
<1>7. /\ HandOf(w) = NoPage /\ TodoOf(w) = << >> /\ RestAt(w) = p
      /\ LimitOf(w) = maxBucket /\ TopOf(w) = maxBucket
      /\ BothOf(w) = {s.old, s.new} /\ FromOf(w) = Rest
  BY <1>1 DEF InHand, HandOf, TodoOf, RestAt, LimitOf, TopOf, BothOf, FromOf, Dealing
<1>8. InHand(w)'
  BY <1>5, <1>6 DEF InHand
<1>9. /\ HandOf(w)' = p /\ TodoOf(w)' = page[p].keys /\ RestAt(w)' = p
      /\ LimitOf(w)' = maxBucket /\ TopOf(w)' = maxBucket
      /\ BothOf(w)' = {s.old, s.new} /\ FromOf(w)' = Rest
  BY <1>1, <1>5, <1>6, <1>8 DEF HandOf, TodoOf, RestAt, LimitOf, TopOf, BothOf, FromOf, Dealing
<1>10. p \in Overflow /\ p \in Pages /\ own[p] = Rest
  <2>1. p # NoPage
    BY <1>1, <1>2 DEF SplitOk
  <2>2. RestOk(own, idx, p)
    BY <1>2, <1>7 DEF Table, Structure
  <2>. QED BY <2>1, <2>2, Space DEF RestOk
<1>11. HomeOf(w)' = HomeOf(w)
  BY <1>1, <1>7, <1>9 DEF HomeOf
<1>12. /\ Contents(page, p, page[p].keys, given)
       /\ Placed(page, own, p, page[p].keys, HomeOf(w), {s.old, s.new}, Rest)
  <2>1. /\ PageTypes(page, given) /\ Contents(page, NoPage, << >>, given)
        /\ Placed(page, own, NoPage, << >>, HomeOf(w), {s.old, s.new}, Rest)
    BY <1>2, <1>7 DEF Table
  <2>2. \A k \in Keys : HomeOf(w)[k] # Rest
    BY <1>2, HomeIs
  <2>. QED BY <1>10, <2>1, <2>2, TakeUp
<1>13. Table(own, idx, w)'
  <2>1. Structure(page', own, idx, RestAt(w)', TopOf(w)')
    BY <1>1, <1>2, <1>7, <1>9 DEF Table
  <2>2. Contents(page', HandOf(w)', TodoOf(w)', given')
    BY <1>1, <1>9, <1>12
  <2>3. Placed(page', own, HandOf(w)', TodoOf(w)', HomeOf(w)', BothOf(w)', FromOf(w)')
    BY <1>1, <1>9, <1>11, <1>12
  <2>. QED BY <1>1, <1>2, <2>1, <2>2, <2>3 DEF Table
<1>14. MasksOk(w)'
  BY <1>1, <1>2, <1>6, <1>7, <1>9 DEF MasksOk
<1>15. SplitOk(w)'
  <2>1. page[p].keys \in Seq(Entries)
    BY <1>2, <1>10, PageIs DEF Table
  <2>2. s.new = maxBucket /\ s.old \in 0 .. maxBucket - 1
    BY <1>1, <1>2 DEF SplitOk, Dealing
  <2>3. holder'[p] = w
    BY <1>1, <1>2, <1>10
  <2>. QED BY <1>1, <1>5, <1>6, <1>10, <2>1, <2>2, <2>3 DEF SplitOk
<1>16. OthersHold(w)
  BY <1>1, HoldsOthers DEF AccessInv, Available
<1>17. UseOk(own)'
  BY <1>1, InExpansion DEF UseOk
<1>. QED BY <1>17, <1>1, <1>3, <1>4, <1>13, <1>14, <1>15, <1>16, ExpansionStep DEF Growing

\* A page that is done is given back; the rest of the old chain is then what
\* is behind it.
LEMMA DoneWithPage ==
  ASSUME NEW own, NEW idx, NEW w \in Threads, AccessInv(own, idx, w),
         th[w].pc = "move", th[w].split.todo = << >>, Deleted(w), fresh' = fresh
  PROVE  LET s == th[w].split
         IN  /\ \E own2 : /\ PageTypes(page', given)
                          /\ Structure(page', own2, idx, s.next, maxBucket)
                          /\ Contents(page', NoPage, << >>, given)
                          /\ Placed(page', own2, NoPage, << >>, HomeOf(w), {s.old, s.new}, Rest)
                          /\ FreeOk(own2, free', fresh') /\ UseOk(own2)'
             /\ OthersHold(w) /\ \A q \in Pages : holder[q] \in Threads \ {w} => page'[q] = page[q]
<1> DEFINE s == th[w].split
           h == s.page
<1>1. /\ Table(own, idx, w) /\ SplitOk(w) /\ MasksOk(w) /\ ClaimInv
      /\ DOMAIN holder = Pages /\ UseOk(own)
  BY InExpansion DEF AccessInv
<1>2. /\ TodoOf(w) = << >> /\ LimitOf(w) = maxBucket /\ TopOf(w) = maxBucket
      /\ BothOf(w) = {s.old, s.new} /\ FromOf(w) = Rest
      /\ PageTypes(page, given) /\ FreeOk(own, free, fresh)
  BY <1>1 DEF TodoOf, LimitOf, TopOf, BothOf, FromOf, Dealing, Table
<1>3. CASE s.base
  <2>1. page' = page /\ free' = free /\ holder' = holder /\ use' = use /\ left' = left
    BY <1>3 DEF Deleted, gone
  <2>2. HandOf(w) = NoPage /\ RestAt(w) = s.next
    BY <1>3 DEF InHand, HandOf, RestAt
  <2>3. /\ PageTypes(page, given) /\ Structure(page, own, idx, s.next, maxBucket)
        /\ Contents(page, NoPage, << >>, given)
        /\ Placed(page, own, NoPage, << >>, HomeOf(w), {s.old, s.new}, Rest)
        /\ FreeOk(own, free, fresh) /\ UseOk(own)'
    BY <1>1, <1>2, <2>1, <2>2 DEF Table, UseOk
  <2>. QED BY <2>1, <2>3 DEF OthersHold
<1>4. CASE ~s.base
  <2>1. /\ page' = [page EXCEPT ![h] = EmptyPage] /\ free' \in {<<h>> \o free, free}
        /\ holder' \in {[holder EXCEPT ![h] = NoThread], holder}
        /\ use' \in {[use EXCEPT ![h] = "other"], [use EXCEPT ![h] = "given"]}
        /\ left' \in {left, [left EXCEPT ![h] = EmptyPage], [left EXCEPT ![h] = page[h]]}
    BY <1>4 DEF Deleted, FreePage
  <2>2. InHand(w) /\ HandOf(w) = h /\ RestAt(w) = h
    BY <1>4 DEF InHand, HandOf, RestAt
  <2>3. h \in Overflow /\ h \in Pages /\ holder[h] = w /\ page[h].next = s.next
    BY <1>1, <2>2, Space DEF SplitOk
  <2>4. /\ Structure(page, own, idx, h, maxBucket)
        /\ Contents(page, h, << >>, given)
        /\ Placed(page, own, h, << >>, HomeOf(w), {s.old, s.new}, Rest)
    BY <1>1, <1>2, <2>2 DEF Table
  <2>5. PICK own2 : Dropped(page, own, page', own2, h)
    BY <2>1 DEF Dropped
  <2>6. /\ PageTypes(page', given) /\ Structure(page', own2, idx, page[h].next, maxBucket)
        /\ Contents(page', NoPage, << >>, given)
        /\ Placed(page', own2, NoPage, << >>, HomeOf(w), {s.old, s.new}, Rest)
        /\ own[h] # None /\ own2[h] = None
        /\ \A q \in Pages : own[q] = None => own2[q] = None
    BY <1>2, <2>3, <2>4, <2>5, DropPage
  <2>7. FreeOk(own2, free', fresh)
    <3>1. own \in [Pages -> Buckets \cup {None, Rest}]
      BY <2>4 DEF Structure, Ghosts
    <3>2. FreeOk(own2, <<h>> \o free, fresh)
      BY <1>2, <2>3, <2>5, <2>6, <3>1, GiveFree DEF Dropped
    <3>3. FreeOk(own2, free, fresh)
      <4>1. \A i \in DOMAIN free : free[i] \in Pages /\ own[free[i]] = None
        BY <1>2, Space DEF FreeOk
      <4>2. \A i \in DOMAIN free : own2[free[i]] = None
        BY <4>1, <2>6
      <4>3. \A p \in Pages : p >= fresh => own2[p] = None
        BY <1>2, <2>6 DEF FreeOk
      <4>. QED BY <1>2, <4>2, <4>3 DEF FreeOk
    <3>. QED BY <2>1, <3>2, <3>3
  <2>7b. UseOk(own2)'
    <3>1. /\ DOMAIN use' = Pages /\ DOMAIN left' = Pages
          /\ \A q \in Pages : q # h => use'[q] = use[q] /\ left'[q] = left[q]
          /\ left'[h] \in {left[h], EmptyPage, page[h]}
      BY <1>1, <2>1, <2>3 DEF UseOk
    <3>2. left'[h].next \in Overflow \cup {NoPage}
      BY <1>1, <1>2, <2>3, <3>1, PageIs, EmptyIs DEF UseOk
    <3>3. \A q \in Pages : own2[q] # None => q # h /\ own[q] # None
      BY <2>6
    <3>. QED BY <1>1, <3>1, <3>2, <3>3 DEF UseOk
  <2>8. OthersHold(w)
    <3>1. \A q \in Pages : q # h => holder'[q] = holder[q] /\ use'[q] = use[q]
      BY <1>1, <2>1 DEF UseOk
    <3>2. \A q \in Pages : \A u \in Threads \ {w} : holder[q] = u => q # h
      BY <2>3
    <3>. QED BY <3>1, <3>2 DEF OthersHold
  <2>9. \A q \in Pages : holder[q] \in Threads \ {w} => page'[q] = page[q]
    BY <2>1, <2>3
  <2>. QED BY <2>3, <2>6, <2>7, <2>7b, <2>8, <2>9
<1>. QED BY <1>3, <1>4

LEMMA PageDoneOfPut ==
  ASSUME NEW own, NEW idx, NEW w \in Threads, AccessInv(own, idx, w), ClaimInv', PageDone(w)
  PROVE  \E own2 : AccessInv(own2, idx, w)'
<1> DEFINE s == th[w].split
<1>1. /\ th[w].pc = "move" /\ s.todo = << >> /\ Deleted(w)
      /\ maxBucket' = maxBucket /\ lowMask' = lowMask /\ highMask' = highMask
      /\ fresh' = fresh /\ given' = given
  BY DEF PageDone, masks
<1>2. /\ WriterOk(own, idx, w) /\ MasksOk(w) /\ SplitOk(w)
      /\ DOMAIN th[w] = Fields /\ DOMAIN th = Threads
  BY InExpansion
<1>3. PICK own2 : /\ PageTypes(page', given)
                  /\ Structure(page', own2, idx, s.next, maxBucket)
                  /\ Contents(page', NoPage, << >>, given)
                  /\ Placed(page', own2, NoPage, << >>, HomeOf(w), {s.old, s.new}, Rest)
                  /\ FreeOk(own2, free', fresh') /\ UseOk(own2)'
  BY <1>1, DoneWithPage
<1>4. OthersHold(w) /\ \A q \in Pages : holder[q] \in Threads \ {w} => page'[q] = page[q]
  BY <1>1, DoneWithPage
<1>5. LimitOf(w) = maxBucket
  BY <1>1 DEF LimitOf
<1>6. s.new = maxBucket /\ s.old \in 0 .. maxBucket - 1
  BY <1>1, <1>2 DEF SplitOk, Dealing
<1>7. CASE s.next = NoPage
  <2> DEFINE r == [th[w] EXCEPT !.pc = "idle", !.split = NoSplit]
  <2>1. th' = [th EXCEPT ![w] = r]
    BY <1>2, <1>7 DEF PageDone
  <2>2. r.pc = "idle" /\ r.op = th[w].op
    BY <1>2 DEF Fields
  <2> HIDE DEF r
  <2>3. th'[w].pc = "idle"
    BY <1>2, <2>1, <2>2
  <2>4. /\ ~InHand(w)' /\ HandOf(w)' = NoPage /\ TodoOf(w)' = << >> /\ RestAt(w)' = NoPage
        /\ LimitOf(w)' = maxBucket /\ TopOf(w)' = maxBucket
        /\ BothOf(w)' = {} /\ FromOf(w)' = Rest
    BY <1>1, <2>3 DEF InHand, HandOf, TodoOf, RestAt, LimitOf, TopOf, BothOf, FromOf, Dealing
  <2>5. HomeOf(w)' = HomeOf(w)
    BY <1>1, <1>5, <2>4 DEF HomeOf
  <2>6. Table(own2, idx, w)'
    <3>1. Structure(page', own2, idx, RestAt(w)', TopOf(w)')
      BY <1>3, <1>7, <2>4
    <3>2. Contents(page', HandOf(w)', TodoOf(w)', given')
      BY <1>1, <1>3, <2>4
    <3>3. \A p \in Pages : own2[p] # Rest
      BY <1>3, <1>7 DEF Structure, RestOk
    <3>4. Placed(page', own2, NoPage, << >>, HomeOf(w), {}, Rest)
      BY <1>3, <3>3 DEF Placed
    <3>5. Placed(page', own2, HandOf(w)', TodoOf(w)', HomeOf(w)', BothOf(w)', FromOf(w)')
      BY <2>4, <2>5, <3>4
    <3>. QED BY <1>1, <1>3, <3>1, <3>2, <3>5 DEF Table
  <2>7. MasksOk(w)'
    BY <1>1, <1>2, <1>5, <2>3, <2>4 DEF MasksOk
  <2>8. SplitOk(w)'
    BY <2>3, <2>4 DEF SplitOk, Dealing
  <2>. QED BY <1>3, <1>1, <1>4, <2>1, <2>2, <2>6, <2>7, <2>8, ExpansionStep DEF Growing
<1>8. CASE s.next # NoPage
  <2> DEFINE r == [th[w] EXCEPT !.pc = "nextpage"]
  <2>1. th' = [th EXCEPT ![w] = r]
    BY <1>2, <1>8 DEF PageDone
  <2>2. r.pc = "nextpage" /\ r.op = th[w].op /\ r.split = s
    BY <1>2 DEF Fields
  <2> HIDE DEF r
  <2>3. th'[w].pc = "nextpage" /\ th'[w].split = s
    BY <1>2, <2>1, <2>2
  <2>4. /\ ~InHand(w)' /\ HandOf(w)' = NoPage /\ TodoOf(w)' = << >> /\ RestAt(w)' = s.next
        /\ LimitOf(w)' = maxBucket /\ TopOf(w)' = maxBucket
        /\ BothOf(w)' = {s.old, s.new} /\ FromOf(w)' = Rest
    BY <1>1, <2>3 DEF InHand, HandOf, TodoOf, RestAt, LimitOf, TopOf, BothOf, FromOf, Dealing
  <2>5. HomeOf(w)' = HomeOf(w)
    BY <1>1, <1>5, <2>4 DEF HomeOf
  <2>6. Table(own2, idx, w)'
    <3>1. Structure(page', own2, idx, RestAt(w)', TopOf(w)')
      BY <1>3, <2>4
    <3>2. Contents(page', HandOf(w)', TodoOf(w)', given')
      BY <1>1, <1>3, <2>4
    <3>3. Placed(page', own2, HandOf(w)', TodoOf(w)', HomeOf(w)', BothOf(w)', FromOf(w)')
      BY <1>3, <2>4, <2>5
    <3>. QED BY <1>1, <1>3, <3>1, <3>2, <3>3 DEF Table
  <2>7. MasksOk(w)'
    BY <1>1, <1>2, <1>5, <2>3, <2>4 DEF MasksOk
  <2>8. SplitOk(w)'
    BY <1>1, <1>6, <1>8, <2>3, <2>4 DEF SplitOk
  <2>. QED BY <1>3, <1>1, <1>4, <2>1, <2>2, <2>6, <2>7, <2>8, ExpansionStep DEF Growing
<1>. QED BY <1>7, <1>8

\* The first entry of the list leaves it.
LEMMA WithoutHead ==
  ASSUME NEW todo \in Seq(Entries), todo # << >>, Distinct(todo)
  PROVE  /\ Head(todo) \in Entries /\ Tail(todo) \in Seq(Entries)
         /\ 1 \in DOMAIN todo /\ Head(todo) = todo[1]
         /\ Without(todo, Tail(todo), Head(todo))
<1> DEFINE n == Len(todo)
           t == Tail(todo)
<1>1. n \in Nat /\ n # 0 /\ DOMAIN todo = 1 .. n /\ Head(todo) = todo[1]
  OBVIOUS
<1>2. /\ t \in Seq(Entries) /\ DOMAIN t = 1 .. n - 1
      /\ \A i \in 1 .. n - 1 : t[i] = todo[i + 1]
  BY <1>1
<1>3. Head(todo) \in Entries /\ 1 \in DOMAIN todo
  BY <1>1
<1> HIDE DEF n, t
<1>4. Distinct(t)
  <2>1. ASSUME NEW i \in DOMAIN t, NEW j \in DOMAIN t, t[i].key = t[j].key PROVE i = j
    <3>1. /\ i + 1 \in DOMAIN todo /\ t[i] = todo[i + 1] /\ i \in Nat
          /\ j + 1 \in DOMAIN todo /\ t[j] = todo[j + 1] /\ j \in Nat
      BY <1>1, <1>2
    <3>2. i + 1 = j + 1
      BY <2>1, <3>1 DEF Distinct
    <3>. QED BY <3>1, <3>2
  <2>. QED BY <2>1 DEF Distinct
<1>5. ASSUME NEW i \in DOMAIN t
      PROVE  t[i].key # todo[1].key /\ \E j \in DOMAIN todo : t[i] = todo[j]
  <2>1. i + 1 \in DOMAIN todo /\ t[i] = todo[i + 1] /\ i + 1 # 1
    BY <1>1, <1>2
  <2>. QED BY <1>1, <1>3, <2>1 DEF Distinct
<1>6. ASSUME NEW j \in DOMAIN todo
      PROVE  todo[j].key = todo[1].key \/ \E i \in DOMAIN t : t[i] = todo[j]
  <2>1. CASE j = 1
    BY <2>1
  <2>2. CASE j # 1
    <3>1. j - 1 \in DOMAIN t /\ t[j - 1] = todo[(j - 1) + 1] /\ (j - 1) + 1 = j
      BY <1>1, <1>2, <2>2
    <3>. QED BY <3>1
  <2>. QED BY <2>1, <2>2
<1>7. Without(todo, t, Head(todo))
  BY <1>1, <1>4, <1>5, <1>6 DEF Without
<1>. QED BY <1>1, <1>2, <1>3, <1>7 DEF t

\* What a move leaves behind: the table with one entry less to deal out.
Moved(own2, idx2, w) ==
  LET s == th[w].split
  IN  /\ PageTypes(page', given)
      /\ Structure(page', own2, idx2, RestAt(w), maxBucket)
      /\ Contents(page', HandOf(w), Tail(s.todo), given)
      /\ Placed(page', own2, HandOf(w), Tail(s.todo), HomeOf(w), {s.old, s.new}, Rest)
      /\ FreeOk(own2, free', fresh') /\ UseOk(own2)' /\ OthersHold(w)
      /\ \A q \in Pages : holder[q] \in Threads \ {w} => page'[q] = page[q]
      /\ InHand(w) => page'[s.page] = page[s.page] /\ holder'[s.page] = holder[s.page]

\* Writer w has put the entry it deals out at the end of the chain of its
\* bucket: on the last page p, or on a page added behind p.
Lands(own, w, p) ==
  LET s == th[w].split
      e == Head(s.todo)
  IN  /\ own[p] = HomeOf(w)[e.key] /\ Available(w, p)
      /\ IF Fits(page[p])
         THEN /\ page' = [page EXCEPT
                     ![p] = [page[p] EXCEPT !.keys = Append(page[p].keys, e)]]
              /\ UNCHANGED <<free, fresh, holder, use>>
         ELSE /\ page[p].next = NoPage
              /\ TakeOvflPage /\ Available(w, OvflPage) /\ free' = FreeLeft
              /\ holder' = [holder EXCEPT ![OvflPage] = NoThread]
              /\ use' = [use EXCEPT ![OvflPage] = "hash"]
              /\ page' = [page EXCEPT ![p].next = OvflPage,
                            ![OvflPage] = [EmptyPage EXCEPT !.keys = <<e>>]]

\* Where an entry goes: to a page p of its home that is not in hand, and that
\* has room or is the last one.
LEMMA MoveTo ==
  ASSUME NEW own, NEW idx, NEW w \in Threads, AccessInv(own, idx, w), Move(w)
  PROVE  \E p \in Pages : Lands(own, w, p)
<1> DEFINE s == th[w].split
           e == Head(s.todo)
           b == IF CallHash(e.key) = s.old THEN s.old ELSE s.new
           c == Walk(ChainOf(b))
           p == c[Len(c)]
<1>1. /\ th[w].pc = "move" /\ s.todo # << >>
      /\ \A i \in DOMAIN c : Available(w, c[i])
      /\ IF Fits(page[p])
         THEN /\ page' = [page EXCEPT ![p].keys = Append(page[p].keys, e)]
              /\ UNCHANGED <<free, fresh, holder, use>>
         ELSE /\ TakeOvflPage /\ Available(w, OvflPage)
              /\ free' = FreeLeft /\ holder' = [holder EXCEPT ![OvflPage] = NoThread]
              /\ use' = [use EXCEPT ![OvflPage] = "hash"]
              /\ page' = [page EXCEPT ![p].next = OvflPage,
                                      ![OvflPage] = [EmptyPage EXCEPT !.keys = <<e>>]]
  BY DEF Move
<1>2. Table(own, idx, w) /\ MasksOk(w) /\ SplitOk(w)
  BY InExpansion
<1>3. TodoOf(w) = s.todo /\ BothOf(w) = {s.old, s.new}
  BY <1>1 DEF TodoOf, BothOf, Dealing
<1>4. s.todo \in Seq(Entries)
  BY <1>1, <1>2 DEF SplitOk
<1>5. 1 \in DOMAIN s.todo /\ e = s.todo[1] /\ e \in Entries /\ e.key \in Keys
  <2>1. Head(s.todo) \in Entries /\ 1 \in DOMAIN s.todo /\ Head(s.todo) = s.todo[1]
    <3> DEFINE todo == s.todo
    <3>1. todo \in Seq(Entries) /\ todo # << >>
      BY <1>1, <1>4
    <3> HIDE DEF todo
    <3>2. Head(todo) \in Entries /\ 1 \in DOMAIN todo /\ Head(todo) = todo[1]
      BY <3>1
    <3>. QED BY <3>2 DEF todo
  <2>. QED BY <2>1 DEF Entries
<1>6. HomeOf(w)[e.key] \in {s.old, s.new}
  BY <1>2, <1>3, <1>5 DEF Table, Placed
<1>7. CallHash(e.key) = HomeOf(w)[e.key] /\ HomeOf(w)[e.key] \in Buckets
  BY <1>1, <1>2, <1>5, HomeIs
<1>8. b = HomeOf(w)[e.key] /\ b \in Buckets
  BY <1>6, <1>7
<1> HIDE DEF b, e
<1>9. ChainAs(ChainOf(b), own, idx, b)
  BY <1>2, <1>8, ChainIs DEF Table, Structure
<1>10. /\ Len(c) \in DOMAIN c /\ p \in Pages /\ own[p] = b
       /\ Fits(page[p]) \/ page[p].next = NoPage
  BY <1>2, <1>8, <1>9, WalkEnds DEF Table, Structure
<1> HIDE DEF c
<1>11. Available(w, p)
  BY <1>1, <1>10
<1>12. [page EXCEPT ![p].keys = Append(page[p].keys, e)]
         = [page EXCEPT ![p] = [page[p] EXCEPT !.keys = Append(page[p].keys, e)]]
  OBVIOUS
<1> HIDE DEF p
<1>. QED BY <1>1, <1>8, <1>10, <1>11, <1>12 DEF e, Lands

\* An entry that goes to a page with room, and one that goes to a new page.
LEMMA MovesOne ==
  ASSUME NEW own, NEW idx, NEW w \in Threads, AccessInv(own, idx, w), Move(w)
  PROVE  \E own2, idx2 : Moved(own2, idx2, w)
<1> DEFINE s == th[w].split
           e == Head(s.todo)
           hand == HandOf(w)
           rest == RestAt(w)
           home == HomeOf(w)
           both == {s.old, s.new}
<1>1. th[w].pc = "move" /\ s.todo # << >>
  BY DEF Move
<1>2. Table(own, idx, w) /\ MasksOk(w) /\ SplitOk(w) /\ maxBucket \in Nat /\ UseOk(own)
      /\ DOMAIN holder = Pages /\ left' = left
  BY InExpansion DEF Move
<1>3. /\ TodoOf(w) = s.todo /\ TopOf(w) = maxBucket /\ LimitOf(w) = maxBucket
      /\ BothOf(w) = both /\ FromOf(w) = Rest
  BY <1>1 DEF TodoOf, TopOf, LimitOf, BothOf, FromOf, Dealing
<1>4. /\ PageTypes(page, given) /\ Structure(page, own, idx, rest, maxBucket)
      /\ FreeOk(own, free, fresh) /\ Contents(page, hand, s.todo, given)
      /\ Placed(page, own, hand, s.todo, home, both, Rest)
  BY <1>2, <1>3 DEF Table
<1>5. PICK p \in Pages :
        /\ own[p] = home[e.key] /\ Available(w, p)
        /\ IF Fits(page[p])
           THEN /\ page' = [page EXCEPT ![p] = [page[p] EXCEPT !.keys = Append(page[p].keys, e)]]
                /\ UNCHANGED <<free, fresh, holder, use>>
           ELSE /\ page[p].next = NoPage
                /\ TakeOvflPage /\ Available(w, OvflPage) /\ free' = FreeLeft
                /\ holder' = [holder EXCEPT ![OvflPage] = NoThread]
                /\ use' = [use EXCEPT ![OvflPage] = "hash"]
                /\ page' = [page EXCEPT ![p].next = OvflPage,
                              ![OvflPage] = [EmptyPage EXCEPT !.keys = <<e>>]]
  <2>1. PICK p \in Pages : Lands(own, w, p)
    BY MoveTo
  <2>. QED BY <2>1 DEF Lands
<1>6. s.todo \in Seq(Entries) /\ Distinct(s.todo)
  BY <1>1, <1>2, <1>4 DEF SplitOk, Contents, Once
<1>7. /\ e \in Entries /\ e.key \in Keys /\ 1 \in DOMAIN s.todo /\ e = s.todo[1]
      /\ Without(s.todo, Tail(s.todo), e)
  <2>1. /\ Head(s.todo) \in Entries /\ 1 \in DOMAIN s.todo /\ Head(s.todo) = s.todo[1]
        /\ Without(s.todo, Tail(s.todo), Head(s.todo))
    BY <1>1, <1>6, WithoutHead
  <2>. QED BY <2>1 DEF Entries
<1>8. Elsewhere(page, hand, e) /\ Gives(page, given, given, e)
  <2>1. Elsewhere(page, hand, e)
    BY <1>4, <1>7 DEF Contents, Once, Elsewhere
  <2>2. given[e.key] = e.val
    BY <1>4, <1>7 DEF Contents, Current
  <2>. QED BY <2>1, <2>2 DEF Gives
<1> HIDE DEF e
<1>9. own[p] \in Buckets /\ own[p] <= maxBucket /\ own[p] # None /\ own[p] # Rest
  <2>1. home[e.key] \in Buckets /\ home[e.key] <= maxBucket
    BY <1>2, <1>3, <1>7, HomeIs
  <2>. QED BY <1>5, <2>1, Space
<1>10. InHand(w) => hand = s.page /\ s.page \in Pages /\ own[s.page] = Rest
  <2>1. SUFFICES ASSUME InHand(w) PROVE hand = s.page /\ s.page \in Pages /\ own[s.page] = Rest
    OBVIOUS
  <2>2. hand = s.page /\ rest = s.page /\ s.page \in Overflow
    BY <1>2, <2>1 DEF HandOf, RestAt, SplitOk
  <2>3. RestOk(own, idx, s.page)
    BY <1>4, <2>2 DEF Structure
  <2>. QED BY <2>2, <2>3, Space DEF RestOk
<1>11. ~InHand(w) => hand = NoPage
  BY DEF HandOf
<1>12. p # hand /\ (InHand(w) => p # s.page)
  BY <1>9, <1>10, <1>11, Space
<1> HIDE DEF hand, rest, home, both
<1>13. CASE Fits(page[p])
  <2>1. /\ page' = [page EXCEPT ![p] = [page[p] EXCEPT !.keys = Append(page[p].keys, e)]]
        /\ free' = free /\ fresh' = fresh /\ holder' = holder /\ use' = use
    BY <1>5, <1>13
  <2>2. PageTypes(page', given) /\ OneMore(page, page', p, e)
    BY <1>4, <1>7, <2>1, AppendKey
  <2>3. /\ page'[p].keys = Append(page[p].keys, e) /\ page'[p].keys # << >>
        /\ \A q \in Pages : page'[q].next = page[q].next
        /\ \A q \in Pages : q # p => page'[q] = page[q]
        /\ \A q \in Pages \ {p} : page'[q].keys = page[q].keys
    BY <2>2 DEF OneMore
  <2>4. Structure(page', own, idx, rest, maxBucket)
    <3>1. p \in Buckets => p <= maxBucket
      BY <1>4, <1>9 DEF Structure, Ghosts
    <3>. QED BY <1>2, <1>4, <1>9, <2>3, <3>1, KeysChange
  <2>5. Added(page, page', p, e)
    BY <2>3 DEF Added
  <2>5b. Contents(page', hand, Tail(s.todo), given)
    BY <1>4, <1>6, <1>7, <1>8, <1>12, <2>5, Gain
  <2>6. Placed(page', own, hand, Tail(s.todo), home, both, Rest)
    <3>1. Owned(page, own, own, p, home[e.key])
      BY <1>5 DEF Owned
    <3>. QED BY <1>4, <1>7, <2>5, <3>1, GainPlaced
  <2>7. \A q \in Pages : holder[q] \in Threads \ {w} => page'[q] = page[q]
    BY <1>5, <2>3, NotOthers
  <2>8. InHand(w) => page'[s.page] = page[s.page] /\ holder'[s.page] = holder[s.page]
    BY <1>10, <1>12, <2>1, <2>3
  <2>8b. UseOk(own)' /\ OthersHold(w)
    BY <1>2, <2>1 DEF UseOk, OthersHold
  <2>9. Moved(own, idx, w)
    BY <2>8b, <1>4, <2>1, <2>2, <2>4, <2>5b, <2>6, <2>7, <2>8 DEF Moved, hand, rest, home, both
  <2>. QED BY <2>9
<1>14. CASE ~Fits(page[p])
  <2> DEFINE o == OvflPage
  <2>1. /\ page[p].next = NoPage /\ TakeOvflPage /\ Available(w, o)
        /\ page' = [page EXCEPT ![p].next = o, ![o] = [EmptyPage EXCEPT !.keys = <<e>>]]
        /\ free' = FreeLeft /\ holder' = [holder EXCEPT ![o] = NoThread]
        /\ use' = [use EXCEPT ![o] = "hash"]
    BY <1>5, <1>14
  <2>2. page[p].keys # << >>
    <3>1. Len(page[p].keys) >= Cap /\ Cap > 0
      BY <1>4, <1>14, PageIs, Space DEF Fits
    <3>. QED BY <3>1, Space
  <2>3. /\ o \in Overflow /\ own[o] = None
        /\ \A f : (\A q \in Pages : q # o => f[q] = own[q]) => FreeOk(f, FreeLeft, fresh')
    BY <1>4, <2>1, TakeFree
  <2> HIDE DEF o
  <2>4. PICK own2, idx2 : Linked(page, own, idx, page', own2, idx2, p, o, <<e>>)
    BY <2>1 DEF Linked
  <2>5. /\ PageTypes(page', given) /\ Structure(page', own2, idx2, rest, maxBucket)
        /\ NewPage(page, page', own, own2, p, o, e)
    BY <1>4, <1>7, <1>9, <2>1, <2>2, <2>3, <2>4, ChainKey
  <2>6. /\ \A q \in Pages \ {o} : page'[q].keys = page[q].keys
        /\ page[o].keys = << >> /\ page'[o].keys = Append(page[o].keys, e)
        /\ own2[o] = own[p] /\ \A q \in Pages : q # o => own2[q] = own[q]
        /\ \A q \in Pages : q \notin {p, o} => page'[q] = page[q]
    BY <2>5 DEF NewPage
  <2>7. o \in Pages /\ o # hand /\ (InHand(w) => o # s.page)
    BY <1>10, <1>11, <2>3, Space
  <2>7b. Added(page, page', o, e)
    BY <2>6 DEF Added
  <2>8. Contents(page', hand, Tail(s.todo), given)
    BY <1>4, <1>6, <1>7, <1>8, <2>7, <2>7b, Gain
  <2>9. Placed(page', own2, hand, Tail(s.todo), home, both, Rest)
    <3>1. Owned(page, own, own2, o, home[e.key])
      BY <1>5, <2>6 DEF Owned
    <3>. QED BY <1>4, <1>7, <2>7, <2>7b, <3>1, GainPlaced
  <2>10. FreeOk(own2, free', fresh')
    BY <2>1, <2>3, <2>6
  <2>10b. UseOk(own2)'
    <3>1. /\ DOMAIN use' = Pages /\ use'[o] = "hash"
          /\ \A q \in Pages : q # o => use'[q] = use[q]
      BY <1>2, <2>1, <2>7 DEF UseOk
    <3>. QED BY <1>2, <2>6, <3>1 DEF UseOk
  <2>10c. OthersHold(w)
    <3>1. holder[o] \notin Threads \ {w}
      BY <2>1, NotOthers
    <3>2. \A q \in Pages : q # o => holder'[q] = holder[q] /\ use'[q] = use[q]
      BY <1>2, <2>1 DEF UseOk
    <3>. QED BY <3>1, <3>2 DEF OthersHold
  <2>11. \A q \in Pages : holder[q] \in Threads \ {w} => page'[q] = page[q]
    BY <1>5, <2>1, <2>6, NotOthers
  <2>12. InHand(w) => page'[s.page] = page[s.page] /\ holder'[s.page] = holder[s.page]
    BY <1>2, <1>10, <1>12, <2>1, <2>6, <2>7
  <2>13. Moved(own2, idx2, w)
    BY <2>5, <2>8, <2>9, <2>10, <2>10b, <2>10c, <2>11, <2>12 DEF Moved, hand, rest, home, both
  <2>. QED BY <2>13
<1>. QED BY <1>13, <1>14

LEMMA MoveOfPut ==
  ASSUME NEW own, NEW idx, NEW w \in Threads, AccessInv(own, idx, w), ClaimInv', Move(w)
  PROVE  \E own2, idx2 : AccessInv(own2, idx2, w)'
<1> DEFINE s == th[w].split
           s2 == [s EXCEPT !.todo = Tail(s.todo)]
           r == [th[w] EXCEPT !.split = s2]
<1>1. /\ th[w].pc = "move" /\ s.todo # << >>
      /\ maxBucket' = maxBucket /\ lowMask' = lowMask /\ highMask' = highMask
      /\ given' = given
  BY DEF Move, masks
<1>2. /\ WriterOk(own, idx, w) /\ Table(own, idx, w) /\ MasksOk(w) /\ SplitOk(w)
      /\ DOMAIN th[w] = Fields /\ DOMAIN th = Threads /\ DOMAIN s = SplitFields
  BY InExpansion
<1>3. th' = [th EXCEPT ![w] = r]
  <2>1. th' = [th EXCEPT ![w].split.todo = Tail(th[w].split.todo)]
    BY DEF Move
  <2>. QED BY <1>2, <2>1
<1>4. r.pc = "move" /\ r.op = th[w].op /\ r.split = s2
  BY <1>1, <1>2 DEF Fields
<1>5. /\ s2.old = s.old /\ s2.new = s.new /\ s2.base = s.base /\ s2.page = s.page
      /\ s2.todo = Tail(s.todo) /\ s2.next = s.next
  BY <1>2 DEF SplitFields
<1> HIDE DEF r, s2
<1>6. th'[w].pc = "move" /\ th'[w].split = s2
  BY <1>2, <1>3, <1>4
<1>7. LimitOf(w) = maxBucket
  BY <1>1 DEF LimitOf
<1>8. InHand(w)' <=> InHand(w)
  BY <1>1, <1>5, <1>6 DEF InHand
<1>9. /\ HandOf(w)' = HandOf(w) /\ TodoOf(w)' = Tail(s.todo) /\ RestAt(w)' = RestAt(w)
      /\ LimitOf(w)' = maxBucket /\ TopOf(w)' = maxBucket
      /\ BothOf(w)' = {s.old, s.new} /\ FromOf(w)' = Rest
  BY <1>1, <1>5, <1>6, <1>8 DEF HandOf, TodoOf, RestAt, LimitOf, TopOf, BothOf, FromOf, Dealing
<1>10. HomeOf(w)' = HomeOf(w)
  BY <1>1, <1>7, <1>9 DEF HomeOf
<1>11. PICK own2, idx2 : Moved(own2, idx2, w)
  BY MovesOne
<1>12. /\ PageTypes(page', given)
       /\ Structure(page', own2, idx2, RestAt(w), maxBucket)
       /\ Contents(page', HandOf(w), Tail(s.todo), given)
       /\ Placed(page', own2, HandOf(w), Tail(s.todo), HomeOf(w), {s.old, s.new}, Rest)
       /\ FreeOk(own2, free', fresh') /\ UseOk(own2)' /\ OthersHold(w)
       /\ \A q \in Pages : holder[q] \in Threads \ {w} => page'[q] = page[q]
       /\ InHand(w) => page'[s.page] = page[s.page] /\ holder'[s.page] = holder[s.page]
  BY <1>11 DEF Moved
<1>13. Table(own2, idx2, w)'
  <2>1. Structure(page', own2, idx2, RestAt(w)', TopOf(w)')
    BY <1>9, <1>12
  <2>2. Contents(page', HandOf(w)', TodoOf(w)', given')
    BY <1>1, <1>9, <1>12
  <2>3. Placed(page', own2, HandOf(w)', TodoOf(w)', HomeOf(w)', BothOf(w)', FromOf(w)')
    BY <1>9, <1>10, <1>12
  <2>. QED BY <1>1, <1>12, <2>1, <2>2, <2>3 DEF Table
<1>14. MasksOk(w)'
  BY <1>1, <1>2, <1>6, <1>7, <1>9 DEF MasksOk
<1>15. SplitOk(w)'
  <2>1. s.new = maxBucket /\ s.old \in 0 .. maxBucket - 1
    BY <1>1, <1>2 DEF SplitOk, Dealing
  <2>2. Tail(s.todo) \in Seq(Entries)
    <3>1. s.todo \in Seq(Entries)
      BY <1>1, <1>2 DEF SplitOk
    <3>. QED BY <1>1, <3>1
  <2>3. InHand(w) => /\ s.page \in Overflow /\ holder'[s.page] = w
                     /\ page'[s.page].next = s.next
    BY <1>1, <1>2, <1>12 DEF SplitOk
  <2>. QED BY <1>1, <1>5, <1>6, <1>8, <2>1, <2>2, <2>3 DEF SplitOk
<1>17. AccessInv(own2, idx2, w)'
  BY <1>1, <1>3, <1>4, <1>12, <1>13, <1>14, <1>15, ExpansionStep DEF Growing
<1>. QED BY <1>17

----------------------------------------------------------------------------
(***************************************************************************)
(* The invariant of one writer's table.                                    *)
(***************************************************************************)
TableInv(w) == \E own, idx : AccessInv(own, idx, w)

\* A new table is empty, and every bucket is its own page.
LEMMA NewTable ==
  ASSUME Init, ClaimInv, NEW w \in Threads
  PROVE  TableInv(w)
<1> DEFINE own == [p \in Pages |-> IF p \in Buckets THEN p ELSE None]
           idx == [p \in Pages |-> 1]
<1>1. /\ page = [p \in Pages |-> EmptyPage] /\ given = [k \in Keys |-> NoVal]
      /\ free = << >> /\ fresh = MaxBuckets + 1
      /\ maxBucket = NBuckets - 1 /\ highMask = NBuckets - 1 /\ lowMask = NBuckets \div 2 - 1
      /\ \A t \in Threads : th[t] = Resting
  BY DEF Init
<1>2. \A t \in Threads : th[t].pc = "idle" /\ th[t].op = "none"
  BY <1>1 DEF Resting
<1>3. /\ ~InHand(w) /\ HandOf(w) = NoPage /\ TodoOf(w) = << >> /\ RestAt(w) = NoPage
      /\ LimitOf(w) = maxBucket /\ TopOf(w) = maxBucket
      /\ BothOf(w) = {} /\ FromOf(w) = Rest
  BY <1>2, RestNow DEF Growing
<1>4. /\ \A p \in Pages : page[p] = EmptyPage /\ page[p].keys = << >> /\ page[p].next = NoPage
      /\ \A p \in Pages : DOMAIN page[p].keys = {} /\ \A k : ~On(page[p], k)
      /\ \A k \in Keys : given[k] = NoVal
  BY <1>1, EmptyIs
<1>5. DOMAIN << >> = {}
  OBVIOUS
<1>6. MasksOk(w)
  <2> DEFINE m == NBuckets \div 2
  <2>1. NBuckets \in 2 .. MaxBuckets + 1 /\ NBuckets % 2 = 0 /\ MaxBuckets \in Nat
    BY AccessAssumption
  <2>2. m \in Nat \ {0} /\ NBuckets = 2 * m
    BY <2>1
  <2> HIDE DEF m
  <2>3. /\ lowMask = m - 1 /\ highMask = 2 * m - 1 /\ maxBucket = 2 * m - 1
        /\ 2 * m - 1 <= MaxBuckets
    BY <1>1, <2>1, <2>2 DEF m
  <2>4. MasksOf(maxBucket, lowMask, highMask)
    BY <2>2, <2>3 DEF MasksOf
  <2>5. maxBucket \in Buckets
    BY <2>1, <2>2, <2>3 DEF Buckets
  <2>. QED BY <1>2, <1>3, <2>4, <2>5 DEF MasksOk
<1>7. SplitOk(w)
  BY <1>2, <1>3 DEF SplitOk, Dealing
<1>8. /\ \A p \in Pages : own[p] = IF p \in Buckets THEN p ELSE None
      /\ \A p \in Pages : idx[p] = 1 /\ own[p] # Rest /\ (own[p] # None => p \in Buckets)
      /\ own \in [Pages -> Buckets \cup {None, Rest}] /\ idx \in [Pages -> Nat \ {0}]
  BY Space
<1>9. \E o, i : AccessInv(o, i, w)
  <2>1. PICK o, i : o = own /\ i = idx
    OBVIOUS
  <2> HIDE DEF own, idx
  <2>2. PageTypes(page, given)
    <3>1. EmptyPage \in PageSet
      BY EmptyIs
    <3>. QED BY <1>1, <3>1 DEF PageTypes
  <2>3. Structure(page, own, idx, NoPage, maxBucket)
    <3>1. Ghosts(own, idx)
      BY <1>8, Space DEF Ghosts
    <3>2. Links(page, own, idx, NoPage)
      BY <1>4, <1>8, Space DEF Links
    <3>3. RestOk(own, idx, NoPage)
      BY <1>8 DEF RestOk
    <3>4. EmptyOk(page, own, maxBucket)
      BY <1>4, Space DEF EmptyOk
    <3>. QED BY <3>1, <3>2, <3>3, <3>4 DEF Structure
  <2>4. FreeOk(own, free, fresh)
    <3>1. free \in Seq(Overflow) /\ DOMAIN free = {}
      BY <1>1
    <3>2. \A p \in Pages : p >= MaxBuckets + 1 => p \notin Buckets
      BY Space DEF Buckets
    <3>3. fresh \in MaxBuckets + 1 .. MaxBuckets + MaxOvfl + 1
      BY <1>1, Space
    <3>. QED BY <1>1, <1>8, <3>1, <3>2, <3>3 DEF FreeOk
  <2>5. Contents(page, NoPage, << >>, given)
    BY <1>4, <1>5 DEF Contents, Current, Once, Distinct, Kept
  <2>6. Placed(page, own, NoPage, << >>, HomeOf(w), {}, Rest)
    BY <1>4, <1>5 DEF Placed
  <2>7. Table(own, idx, w)
    BY <1>3, <2>2, <2>3, <2>4, <2>5, <2>6 DEF Table
  <2>7b. UseOk(own)
    BY EmptyIs DEF Init, UseOk
  <2>8. WriterOk(own, idx, w)
    BY <1>2 DEF WriterOk
  <2>9. Readable(own, idx, w)
    BY <1>2 DEF Readable, ReaderOk
  <2>. QED BY <1>6, <1>7, <2>1, <2>7, <2>7b, <2>8, <2>9 DEF AccessInv
<1>. QED BY <1>9 DEF TableInv

\* Every step of the writer's put, and of a get.
LEMMA StepOfPut ==
  ASSUME NEW own, NEW idx, NEW w \in Threads, w \notin Readers, AccessInv(own, idx, w),
         ClaimInv', Step(w), ~Ends(w)
  PROVE  TableInv(w)'
<1>1. th[w].op \in {"none", "put"}
  BY DEF AccessInv, WriterOk
<1>2. ~Deliver(w) /\ ~Misread(w)
  BY <1>1 DEF Deliver, Misread
<1>3. (\E own2, idx2 : AccessInv(own2, idx2, w)') => TableInv(w)'
  BY DEF TableInv
<1>4. CASE Seek(w)
  BY <1>3, <1>4, SeekOfPut
<1>4b. CASE Wait(w)
  BY <1>3, <1>4b, WaitOfPut
<1>5. CASE Replace(w)
  BY <1>3, <1>5, ReplaceOfPut
<1>6. CASE Add(w)
  BY <1>3, <1>6, AddOfPut
<1>7. CASE AddOverflow(w)
  BY <1>3, <1>7, AddOverflowOfPut
<1>8. CASE GrowMax(w)
  BY <1>3, <1>8, GrowMaxOfPut
<1>9. CASE GrowMasks(w)
  BY <1>3, <1>9, GrowMasksOfPut
<1>10. CASE NewBucket(w)
  BY <1>3, <1>10, NewBucketOfPut
<1>11. CASE Split(w)
  BY <1>3, <1>11, SplitOfPut
<1>12. CASE Move(w)
  BY <1>3, <1>12, MoveOfPut
<1>13. CASE PageDone(w)
  BY <1>3, <1>13, PageDoneOfPut
<1>14. CASE NextPage(w)
  BY <1>3, <1>14, NextPageOfPut
<1>. QED
  BY <1>2, <1>4, <1>4b, <1>5, <1>6, <1>7, <1>8, <1>9, <1>10, <1>11, <1>12, <1>13, <1>14
  DEF Step, Ends

LEMMA StepOfGet ==
  ASSUME NEW own, NEW idx, NEW w \in Threads, AccessInv(own, idx, w), ClaimInv',
         NEW t \in Threads \ {w}, Step(t), ~Ends(t)
  PROVE  TableInv(w)'
<1>1. /\ th[t].op \in {"none", "get"}
      /\ th[t].pc \in {"idle", "seek", "wait", "ok", "nomore"}
  BY DEF AccessInv, Readable, ReaderOk
<1>2. ~(Replace(t) \/ Add(t) \/ AddOverflow(t))
  BY <1>1 DEF Replace, Add, AddOverflow, Putting
<1>3. ~(GrowMax(t) \/ GrowMasks(t) \/ NewBucket(t) \/ Split(t))
  BY <1>1 DEF GrowMax, GrowMasks, NewBucket, Split
<1>4. ~(Move(t) \/ PageDone(t) \/ NextPage(t))
  BY <1>1 DEF Move, PageDone, NextPage
<1>5. AccessInv(own, idx, w)'
  BY <1>2, <1>3, <1>4, SeekOfGet, WaitOfGet, MisreadOfGet, DeliverOfGet DEF Step, Ends
<1>. QED BY <1>5 DEF TableInv

\* The table of one writer keeps its invariant, whatever gets run beside it,
\* up to the end.
LEMMA TableInvariant ==
  ASSUME NEW w, Writers = {w}
  PROVE  Spec => [](TableInv(w) \/ Dead)
<1>1. w \in Threads /\ w \notin Readers /\ Threads = Readers \cup {w}
  BY AccessAssumption DEF Threads
<1>2. Init /\ ClaimInv => TableInv(w)
  BY <1>1, NewTable
<1>3. (TableInv(w) \/ Dead) /\ (ClaimInv \/ Dead)' /\ [Next]_vars => (TableInv(w) \/ Dead)'
  <2> SUFFICES ASSUME TableInv(w), ClaimInv', [Next]_vars PROVE TableInv(w)' \/ Dead'
    BY DeadStays
  <2>1. PICK own, idx : AccessInv(own, idx, w)
    BY DEF TableInv
  <2>2. AccessInv(own, idx, w)' => TableInv(w)'
    BY DEF TableInv
  <2>3. CASE UNCHANGED vars
    <3>1. /\ page' = page /\ free' = free /\ fresh' = fresh /\ given' = given
          /\ holder' = holder /\ th' = th /\ use' = use /\ left' = left
          /\ maxBucket' = maxBucket /\ lowMask' = lowMask /\ highMask' = highMask
      BY <2>3 DEF vars, pool, masks, gone
    <3>2. UNCHANGED masks /\ th'[w] = th[w]
      BY <3>1 DEF masks
    <3>3. /\ (InHand(w)' <=> InHand(w)) /\ HandOf(w)' = HandOf(w) /\ TodoOf(w)' = TodoOf(w)
          /\ RestAt(w)' = RestAt(w) /\ LimitOf(w)' = LimitOf(w) /\ TopOf(w)' = TopOf(w)
          /\ HomeOf(w)' = HomeOf(w) /\ BothOf(w)' = BothOf(w) /\ FromOf(w)' = FromOf(w)
      BY <3>2, WriterSame
    <3>4. MasksOk(w)' /\ SplitOk(w)'
      BY <2>1, <3>1, <3>3 DEF AccessInv, MasksOk, SplitOk
    <3>5. Table(own, idx, w)'
      BY <2>1, <3>1, <3>3 DEF AccessInv, Table
    <3>6. WriterOk(own, idx, w)'
      BY <2>1, <3>1, <3>3 DEF AccessInv, WriterOk
    <3>7. Readable(own, idx, w)'
      BY <2>1, <3>1, <3>3 DEF AccessInv, Readable, ReaderOk
    <3>8. UseOk(own)'
      BY <2>1, <3>1 DEF AccessInv, UseOk
    <3>. QED BY <2>2, <3>4, <3>5, <3>6, <3>7, <3>8 DEF AccessInv
  <2>4. ASSUME NEW t \in Readers, NEW k \in Keys, Call(t, "get", k, NoVal)
        PROVE  TableInv(w)'
    BY <1>1, <2>1, <2>2, <2>4, CallOfGet
  <2>5. ASSUME NEW t \in Writers, NEW k \in Keys, NEW v \in Values, Call(t, "put", k, v)
        PROVE  TableInv(w)'
    BY <1>1, <2>1, <2>2, <2>5, CallOfPut
  <2>6. ASSUME NEW t \in Threads, Step(t) PROVE TableInv(w)' \/ Dead'
    <3>1. CASE Ends(t)
      BY <2>1, <2>6, <3>1, EndsDead DEF AccessInv
    <3>2. CASE ~Ends(t)
      BY <1>1, <2>1, <2>6, <3>2, StepOfPut, StepOfGet
    <3>. QED BY <3>1, <3>2
  <2>. QED BY <2>3, <2>4, <2>5, <2>6 DEF Next
<1>. QED BY <1>2, <1>3, ClaimInvariant, PTL DEF Spec

\* What a search finds that nobody disturbs.
LEMMA LookupIs ==
  ASSUME NEW own, NEW idx, NEW w, Table(own, idx, w), MasksOk(w), th[w].pc \notin Growing,
         NEW k \in Keys
  PROVE  Lookup(k) = given[k]
<1> DEFINE b == CallHash(k)
           c == ChainOf(b)
           S == {i \in DOMAIN c : On(page[c[i]], k)}
<1>1. /\ b = HomeOf(w)[k] /\ b \in Buckets /\ b \in Pages /\ b # None
  <2>1. th[w].pc # "masks"
    BY DEF Growing
  <2>. QED BY <2>1, HomeIs, Space
<1>2. /\ PageTypes(page, given) /\ Ghosts(own, idx) /\ Links(page, own, idx, NoPage)
      /\ RestOk(own, idx, NoPage) /\ EmptyOk(page, own, maxBucket)
  BY AtRest DEF Table, Structure
<1> HIDE DEF b
<1>3. ChainAs(c, own, idx, b) /\ c[1] = b
  BY <1>1, <1>2, ChainIs
<1>4. Lookup(k) = IF page[c[1]].keys = << >> \/ S = {} THEN NoVal
                  ELSE ValOn(page[c[CHOOSE i \in S : TRUE]], k)
  BY DEF Lookup, b
<1>5. \A p \in Pages : On(page[p], k) => own[p] = b
  BY <1>1, AtRest
<1>6. own[b] = b /\ idx[b] = 1 /\ \A p \in Pages : idx[p] \in Nat /\ idx[p] # 0
  BY <1>1, <1>2 DEF Ghosts
<1> HIDE DEF c
<1>7. CASE page[b].keys = << >>
  <2>1. page[b].next = NoPage
    BY <1>1, <1>2, <1>7 DEF EmptyOk
  <2>2. \A p \in Pages : own[p] = own[b] => idx[p] <= idx[b]
    BY <1>1, <1>2, <1>6, <2>1, LastIs
  <2>3. ASSUME NEW p \in Pages, On(page[p], k) PROVE FALSE
    <3>1. own[p] = b /\ idx[p] = 1
      BY <1>5, <1>6, <2>2, <2>3
    <3>2. p = b
      BY <1>1, <1>2, <1>6, <3>1 DEF Links
    <3>. QED BY <1>7, <2>3, <3>2 DEF On
  <2>4. given[k] = NoVal
    BY <2>3, AtRest
  <2>. QED BY <1>3, <1>4, <1>7, <2>4
<1>8. CASE page[b].keys # << >> /\ S = {}
  <2>1. ASSUME NEW p \in Pages, On(page[p], k) PROVE FALSE
    <3>1. idx[p] \in DOMAIN c /\ c[idx[p]] = p
      BY <1>3, <1>5, <2>1 DEF ChainAs
    <3>. QED BY <1>8, <2>1, <3>1
  <2>2. given[k] = NoVal
    BY <2>1, AtRest
  <2>. QED BY <1>4, <1>8, <2>2
<1>9. CASE page[b].keys # << >> /\ S # {}
  <2> DEFINE i == CHOOSE i \in S : TRUE
  <2>1. i \in S
    BY <1>9
  <2>2. Lookup(k) = ValOn(page[c[i]], k)
    BY <1>3, <1>4, <1>9
  <2> HIDE DEF i
  <2>3. i \in DOMAIN c /\ On(page[c[i]], k)
    BY <2>1
  <2>4. c[i] \in Pages
    BY <1>3, <2>3 DEF ChainAs
  <2>. QED BY <2>2, <2>3, <2>4, ValueIs
<1>. QED BY <1>7, <1>8, <1>9

\* A put that returned, with the split it may have made, leaves every key
\* where _ffdb_hash_get looks for it, with the value put last
\* (ffdb_split_bucket deals out all pages of the old bucket): for one writer,
\* any number of readers, any table and any hash function, as long as no
\* failed assertion, no second copy of a page and no bytes of a foreign page
\* end the behaviour.
THEOREM PutsAreFound ==
  ASSUME NEW w, Writers = {w}
  PROVE  Spec => []AllFound
<1>1. w \in Writers
  OBVIOUS
<1>2. TableInv(w) => AllFound
  <2> SUFFICES ASSUME TableInv(w), ~Splitting, NEW k \in Keys PROVE Lookup(k) = given[k]
    BY DEF AllFound
  <2>1. PICK own, idx : Table(own, idx, w) /\ MasksOk(w)
    BY DEF TableInv, AccessInv
  <2>2. th[w].pc \notin Growing
    BY <1>1 DEF Splitting
  <2>. QED BY <2>1, <2>2, LookupIs
<1>3. Dead => AllFound
  BY DEF Dead, Running, AllFound
<1>. QED BY <1>2, <1>3, TableInvariant, PTL

\* A get beside the put returns a value that its key had during the call, and
\* misses a key only when it was not there or a split overlapped the call
\* (_ffdb_hash_get takes no lock), also when it comes to a page that the split
\* gave back and finds there what was on it, or the free map: for one writer
\* and any number of readers, up to the same ends.
THEOREM GetsAreRight ==
  ASSUME NEW w, Writers = {w}
  PROVE  Spec => []GetIsRight
<1>1. Readers \subseteq Threads \ {w}
  BY AccessAssumption DEF Threads
<1>2. TableInv(w) => GetIsRight
  <2> SUFFICES ASSUME TableInv(w), NEW t \in Readers, th[t].op = "get", th[t].pc = "idle"
               PROVE  th[t].out \in th[t].seen \cup (IF th[t].torn THEN {NoVal} ELSE {})
    BY DEF GetIsRight
  <2>1. PICK own, idx : ReaderOk(own, idx, w, t)
    BY <1>1 DEF TableInv, AccessInv, Readable
  <2>. QED BY <2>1 DEF ReaderOk
<1>3. Dead => GetIsRight
  BY <1>1 DEF Dead, Over, GetIsRight
<1>. QED BY <1>2, <1>3, TableInvariant, PTL
=============================================================================
