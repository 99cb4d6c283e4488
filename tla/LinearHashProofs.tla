-------------------------- MODULE LinearHashProofs --------------------------
(***************************************************************************)
(* What LinearHash checks on small tables, for every table: a lookup finds *)
(* every key that was put (the arithmetic of the masks, and an invariant   *)
(* that follows the keys of the bucket being split); every key is on one   *)
(* page, once; and every page of the file has one use (the free maps, the  *)
(* levels, and the sets of pages by kind of use).  The hash function, the  *)
(* keys and their sizes, the page sizes and the number of splits are any.  *)
(***************************************************************************)
EXTENDS LinearHash, ListLemmas, FiniteSetTheorems

(***************************************************************************)
(* Keys on pages.                                                          *)
(***************************************************************************)
InSeq(s, k) == \E j \in 1 .. Len(s) : s[j] = k
On(c, k)    == \E i \in 1 .. Len(c) : InSeq(c[i].keys, k)

\* Adding a key to a list keeps the others.
LEMMA InAppend ==
  ASSUME NEW s \in Seq(Keys), NEW k \in Keys
  PROVE  /\ InSeq(Append(s, k), k)
         /\ \A x : InSeq(s, x) => InSeq(Append(s, k), x)
<1>1. /\ Len(s) \in Nat
      /\ Len(Append(s, k)) = Len(s) + 1
      /\ \A j \in 1 .. Len(s) : Append(s, k)[j] = s[j]
      /\ Append(s, k)[Len(s) + 1] = k
  BY AppendProperties, LenProperties
<1>. QED BY <1>1 DEF InSeq

\* A key of a list is its first one or in the rest.
LEMMA InTail ==
  ASSUME NEW s \in Seq(Keys), s # << >>
  PROVE  /\ Head(s) \in Keys
         /\ Tail(s) \in Seq(Keys)
         /\ \A x : InSeq(s, x) => x = Head(s) \/ InSeq(Tail(s), x)
<1>1. /\ Head(s) \in Keys /\ Tail(s) \in Seq(Keys)
      /\ Len(s) \in Nat /\ Len(Tail(s)) = Len(s) - 1
      /\ \A i \in 1 .. Len(Tail(s)) : Tail(s)[i] = s[i + 1]
  BY HeadTailProperties, LenProperties
<1>2. Head(s) = s[1]
  OBVIOUS
<1>3. ASSUME NEW x, NEW j \in 1 .. Len(s), s[j] = x
      PROVE  x = Head(s) \/ InSeq(Tail(s), x)
  <2>1. CASE j = 1
    BY <1>2, <1>3, <2>1
  <2>2. CASE j # 1
    <3>1. j - 1 \in 1 .. Len(Tail(s)) /\ Tail(s)[j - 1] = x
      BY <1>1, <1>3, <2>2
    <3>. QED BY <3>1 DEF InSeq
  <2>. QED BY <2>1, <2>2
<1>. QED BY <1>1, <1>3 DEF InSeq

LEMMA PageAdded ==
  ASSUME NEW pg \in HashPage, NEW k \in Keys
  PROVE  /\ Added(pg, k) \in HashPage
         /\ Added(pg, k).keys # << >>
         /\ InSeq(Added(pg, k).keys, k)
         /\ \A x : InSeq(pg.keys, x) => InSeq(Added(pg, k).keys, x)
<1>1. pg.keys \in Seq(Keys) /\ pg.used \in Nat /\ Size[k] \in Nat
  BY HashAssumption DEF HashPage
<1>2. Append(pg.keys, k) \in Seq(Keys) /\ Append(pg.keys, k) # << >>
  BY <1>1, AppendProperties
<1>3. /\ Added(pg, k).keys = Append(pg.keys, k)
      /\ Added(pg, k) \in HashPage
  BY <1>1, <1>2 DEF Added, HashPage
<1>. QED BY <1>1, <1>2, <1>3, InAppend

\* A page of a chain gets a key.
LEMMA ChainAdded ==
  ASSUME NEW c \in Seq(HashPage), NEW i \in 1 .. Len(c), NEW k \in Keys
  PROVE  LET d == [c EXCEPT ![i] = Added(c[i], k)]
         IN  /\ d \in Seq(HashPage) /\ Len(d) = Len(c)
             /\ d[1] = IF i = 1 THEN Added(c[1], k) ELSE c[1]
             /\ On(d, k)
             /\ \A x : On(c, x) => On(d, x)
<1> DEFINE d == [c EXCEPT ![i] = Added(c[i], k)]
<1>1. c[i] \in HashPage /\ Len(c) \in Nat
  BY ElementOfSeq, LenProperties
<1>2. /\ Added(c[i], k) \in HashPage
      /\ InSeq(Added(c[i], k).keys, k)
      /\ \A x : InSeq(c[i].keys, x) => InSeq(Added(c[i], k).keys, x)
  BY <1>1, PageAdded
<1>3. /\ d \in Seq(HashPage) /\ Len(d) = Len(c)
      /\ \A j \in 1 .. Len(c) : d[j] = IF j = i THEN Added(c[i], k) ELSE c[j]
  BY <1>1, <1>2, ExceptSeq
<1> HIDE DEF d
<1>4. 1 \in 1 .. Len(c)
  BY <1>1
<1>5. On(d, k)
  BY <1>2, <1>3 DEF On
<1>6. ASSUME NEW x, NEW j \in 1 .. Len(c), InSeq(c[j].keys, x)
      PROVE  On(d, x)
  BY <1>2, <1>3, <1>6 DEF On
<1>7. \A x : On(c, x) => On(d, x)
  BY <1>6 DEF On
<1>8. d[1] = IF i = 1 THEN Added(c[1], k) ELSE c[1]
  BY <1>3, <1>4
<1>. QED BY <1>3, <1>5, <1>7, <1>8 DEF d

\* A chain gets another page.
LEMMA ChainLonger ==
  ASSUME NEW c \in Seq(HashPage), NEW pg \in HashPage
  PROVE  /\ Append(c, pg) \in Seq(HashPage)
         /\ Len(Append(c, pg)) = Len(c) + 1
         /\ Len(c) >= 1 => Append(c, pg)[1] = c[1]
         /\ \A x : On(c, x) => On(Append(c, pg), x)
         /\ \A x : InSeq(pg.keys, x) => On(Append(c, pg), x)
<1>1. /\ Len(c) \in Nat
      /\ Append(c, pg) \in Seq(HashPage)
      /\ Len(Append(c, pg)) = Len(c) + 1
      /\ \A j \in 1 .. Len(c) : Append(c, pg)[j] = c[j]
      /\ Append(c, pg)[Len(c) + 1] = pg
  BY AppendProperties, LenProperties
<1>2. Len(c) + 1 \in 1 .. Len(Append(c, pg))
  BY <1>1
<1>3. \A x : InSeq(pg.keys, x) => On(Append(c, pg), x)
  BY <1>1, <1>2 DEF On
<1>4. \A x : On(c, x) => On(Append(c, pg), x)
  BY <1>1 DEF On
<1>. QED BY <1>1, <1>3, <1>4

\* A key of a chain is on its first page or on the rest.
LEMMA ChainTail ==
  ASSUME NEW c \in Seq(HashPage), c # << >>
  PROVE  /\ Head(c) = c[1]
         /\ c[1] \in HashPage
         /\ Tail(c) \in Seq(HashPage)
         /\ \A x : On(c, x) => InSeq(c[1].keys, x) \/ On(Tail(c), x)
<1>1. /\ Head(c) \in HashPage /\ Tail(c) \in Seq(HashPage)
      /\ Len(c) \in Nat /\ Len(Tail(c)) = Len(c) - 1
      /\ \A i \in 1 .. Len(Tail(c)) : Tail(c)[i] = c[i + 1]
  BY HeadTailProperties, LenProperties
<1>2. Head(c) = c[1]
  OBVIOUS
<1>3. ASSUME NEW x, NEW i \in 1 .. Len(c), InSeq(c[i].keys, x)
      PROVE  InSeq(c[1].keys, x) \/ On(Tail(c), x)
  <2>1. CASE i = 1
    BY <1>3, <2>1
  <2>2. CASE i # 1
    <3>1. i - 1 \in 1 .. Len(Tail(c)) /\ Tail(c)[i - 1] = c[i]
      BY <1>1, <2>2
    <3>. QED BY <1>3, <3>1 DEF On
  <2>. QED BY <2>1, <2>2
<1>. QED BY <1>1, <1>2, <1>3 DEF On

(***************************************************************************)
(* The inductive invariant.  KeysReachable speaks of the moments between   *)
(* two puts; inside a put the keys of the bucket being split are in        *)
(* split_buf and on the pages of the old chain (split), and each of them   *)
(* still has to go to the bucket _ffdb_call_hash names (Placed).  That the *)
(* search does not cut a chain off rests on BaseFirst, which needs keys    *)
(* that fit on an empty page.                                              *)
(***************************************************************************)
\* Every key fits on an empty page.
SmallKeys == \A k \in Keys : Size[k] <= Cap

KeyTypes ==
  /\ maxBucket \in Buckets
  /\ chain \in [Buckets -> Seq(HashPage)]
  /\ stored \subseteq Keys
  /\ phase \in {"idle", "data", "expand", "split"}
  /\ item \in [key : Keys, bucket : Buckets, ovfl : BOOLEAN, more : Nat]
  /\ split \in [old : Buckets, new : Buckets, base : BOOLEAN,
                page : {split.page}, todo : Seq(Keys),
                pages : {split.pages}, chain : Seq(HashPage)]

Masks == MasksOf(maxBucket, lowMask, highMask)

\* A chain begins with the bucket's own page, and an empty one ends there.
BaseFirst ==
  \A b \in 0 .. maxBucket :
    /\ Len(chain[b]) >= 1
    /\ chain[b][1].keys = << >> => chain[b] = <<EmptyPage>>

\* The put in progress works on the bucket of its key, and the table has
\* room to grow when it will.
PutAt ==
  /\ phase = "data" => item.bucket = CallHash(item.key)
  /\ phase = "data" /\ item.ovfl => maxBucket < MaxBuckets
  /\ phase = "expand" => maxBucket < MaxBuckets

SplitAt == phase = "split" => {split.old, split.new} \subseteq 0 .. maxBucket

Pending(k) ==
  /\ phase = "split"
  /\ InSeq(split.todo, k) \/ On(split.chain, k)
  /\ CallHash(k) \in {split.old, split.new}

Placed == \A k \in stored : On(chain[CallHash(k)], k) \/ Pending(k)

HashInv == KeyTypes /\ Masks /\ BaseFirst /\ PutAt /\ SplitAt /\ Placed

LEMMA HashOfKey ==
  ASSUME Masks, NEW k \in Keys
  PROVE  /\ Hash[k] \in Nat
         /\ CallHash(k) = BucketOf(Hash[k], maxBucket, lowMask, highMask)
         /\ CallHash(k) \in 0 .. maxBucket
<1>1. Hash[k] \in Nat
  BY HashAssumption
<1>2. CallHash(k) = BucketOf(Hash[k], maxBucket, lowMask, highMask)
  BY DEF CallHash, BucketOf, And
<1>. QED BY <1>1, <1>2, BucketRange DEF Masks

\* The buckets in use are buckets.
LEMMA InUse ==
  ASSUME KeyTypes
  PROVE  /\ maxBucket \in Nat
         /\ 0 .. maxBucket \subseteq Buckets
         /\ \A b \in 0 .. maxBucket : chain[b] \in Seq(HashPage)
<1>1. maxBucket \in 0 .. MaxBuckets /\ MaxBuckets \in Nat
  BY HashAssumption DEF KeyTypes, Buckets
<1>2. 0 .. maxBucket \subseteq Buckets
  BY <1>1 DEF Buckets
<1>. QED BY <1>1, <1>2 DEF KeyTypes

LEMMA EmptyIsPage == EmptyPage \in HashPage /\ EmptyPage.keys = << >>
  BY DEF EmptyPage, HashPage

LEMMA InitInv == ASSUME TwoBuckets, Init PROVE HashInv
<1>1. /\ InitBuckets \in Nat /\ InitLowMask \in Nat /\ MaxBuckets \in Nat
      /\ InitBuckets = 2 * (InitLowMask + 1)
      /\ InitBuckets <= MaxBuckets + 1
  BY HashAssumption DEF TwoBuckets
<1>2. Masks /\ maxBucket \in Buckets
  BY <1>1 DEF Init, Masks, MasksOf, Buckets
<1>3. <<EmptyPage>> \in Seq(HashPage) /\ << >> \in Seq(HashPage)
  BY EmptyIsPage
<1>4. chain \in [Buckets -> Seq(HashPage)]
  BY <1>3 DEF Init
<1>5. item \in [key : Keys, bucket : Buckets, ovfl : BOOLEAN, more : Nat]
  <2>1. 0 \in Buckets
    BY <1>1 DEF Buckets
  <2>2. (CHOOSE k \in Keys : TRUE) \in Keys
    BY HashAssumption
  <2>. QED BY <2>1, <2>2 DEF Init, NoItem
<1>6. split \in [old : Buckets, new : Buckets, base : BOOLEAN,
                page : {split.page}, todo : Seq(Keys),
                pages : {split.pages}, chain : Seq(HashPage)]
  <2>1. 0 \in Buckets
    BY <1>1 DEF Buckets
  <2>. QED BY <2>1 DEF Init, NoSplit
<1>7. KeyTypes
  BY <1>2, <1>4, <1>5, <1>6 DEF Init, KeyTypes
<1>8. BaseFirst
  <2>1. \A b \in 0 .. maxBucket : b \in Buckets /\ b < InitBuckets
    BY <1>1 DEF Init, Buckets
  <2>2. \A b \in 0 .. maxBucket : chain[b] = <<EmptyPage>>
    BY <2>1 DEF Init
  <2>. QED BY <2>2 DEF BaseFirst
<1>. QED BY <1>2, <1>7, <1>8 DEF HashInv, Init, PutAt, SplitAt, Placed

\* ffdb_find_item leaves every chain as it is.
LEMMA SoughtSame ==
  ASSUME HashInv, NEW b \in 0 .. maxBucket
  PROVE  Sought(b) = chain[b]
  BY DEF HashInv, BaseFirst, Sought

LEMMA SoughtAll ==
  ASSUME HashInv, NEW b \in 0 .. maxBucket
  PROVE  [chain EXCEPT ![b] = Sought(b)] = chain
  BY SoughtSame, InUse DEF HashInv, KeyTypes

LEMMA PutStep ==
  ASSUME HashInv, NEW k \in Keys, Put(k)
  PROVE  HashInv'
<1> DEFINE b == CallHash(k)
<1>1. b \in 0 .. maxBucket /\ b \in Buckets
  BY HashOfKey, InUse DEF HashInv
<1>2. /\ chain' = chain
      /\ UNCHANGED <<maxBucket, lowMask, highMask, stored, split>>
      /\ phase' = "data"
      /\ item' = [key |-> k, bucket |-> b, ovfl |-> FALSE, more |-> 0]
      /\ phase = "idle"
  BY <1>1, SoughtAll DEF Put, masks
<1>3. \A x : CallHash(x)' = CallHash(x)
  BY <1>2 DEF CallHash, And
<1>4. KeyTypes'
  BY <1>1, <1>2 DEF HashInv, KeyTypes
<1>5. Masks' /\ BaseFirst' /\ SplitAt'
  BY <1>2 DEF HashInv, Masks, BaseFirst, SplitAt
<1>6. PutAt'
  BY <1>2, <1>3 DEF PutAt
<1>7. Placed'
  BY <1>2, <1>3 DEF HashInv, Placed, Pending
<1>. QED BY <1>4, <1>5, <1>6, <1>7 DEF HashInv

LEMMA PutOverflowStep ==
  ASSUME SmallKeys, HashInv, NEW k \in Keys, PutOverflow(k)
  PROVE  HashInv'
<1> DEFINE b == CallHash(k)
           d == Append(chain[b], EmptyPage)
<1>1. b \in 0 .. maxBucket /\ b \in Buckets /\ chain[b] \in Seq(HashPage)
  BY HashOfKey, InUse DEF HashInv
<1>2. /\ chain' = [chain EXCEPT ![b] = d]
      /\ UNCHANGED <<maxBucket, lowMask, highMask, stored, split>>
      /\ phase' = "data"
      /\ item' = [key |-> k, bucket |-> b, ovfl |-> TRUE, more |-> 0]
      /\ phase = "idle" /\ maxBucket < MaxBuckets
  BY <1>1, SoughtSame DEF PutOverflow, masks
<1>3. \A x : CallHash(x)' = CallHash(x)
  BY <1>2 DEF CallHash, And
<1>4. /\ d \in Seq(HashPage) /\ Len(d) = Len(chain[b]) + 1
      /\ Len(chain[b]) >= 1 => d[1] = chain[b][1]
      /\ \A x : On(chain[b], x) => On(d, x)
  BY <1>1, EmptyIsPage, ChainLonger
<1> HIDE DEF d
<1>5. chain' \in [Buckets -> Seq(HashPage)]
  BY <1>1, <1>2, <1>4 DEF HashInv, KeyTypes
<1>6. \A c \in Buckets : chain'[c] = IF c = b THEN d ELSE chain[c]
  BY <1>2 DEF HashInv, KeyTypes
<1>7. KeyTypes'
  BY <1>1, <1>2, <1>5 DEF HashInv, KeyTypes
<1>8. Masks' /\ SplitAt'
  BY <1>2 DEF HashInv, Masks, SplitAt
<1>9. PutAt'
  BY <1>2, <1>3 DEF PutAt
<1>10. chain[b][1].keys # << >>
  <2>1. ~PairFits(Last(chain[b]), k)
    BY <1>1, SoughtSame DEF PutOverflow
  <2>2. Last(<<EmptyPage>>) = EmptyPage
    BY DEF Last
  <2>3. PairFits(EmptyPage, k)
    BY HashAssumption DEF SmallKeys, PairFits, EmptyPage
  <2>. QED BY <1>1, <2>1, <2>2, <2>3 DEF HashInv, BaseFirst
<1>11. BaseFirst'
  <2> SUFFICES ASSUME NEW c \in 0 .. maxBucket
               PROVE  /\ Len(chain'[c]) >= 1
                      /\ chain'[c][1].keys = << >> => chain'[c] = <<EmptyPage>>
    BY <1>2 DEF BaseFirst
  <2>1. c \in Buckets
    BY InUse DEF HashInv
  <2>2. CASE c = b
    <3>1. Len(chain[b]) \in Nat /\ Len(chain[b]) >= 1
      BY <1>1 DEF HashInv, BaseFirst
    <3>. QED BY <1>4, <1>6, <1>10, <2>1, <2>2, <3>1
  <2>3. CASE c # b
    BY <1>6, <2>1, <2>3 DEF HashInv, BaseFirst
  <2>. QED BY <2>2, <2>3
<1>12. Placed'
  <2> SUFFICES ASSUME NEW x \in stored PROVE On(chain'[CallHash(x)], x)
    BY <1>2, <1>3 DEF Placed
  <2>1. On(chain[CallHash(x)], x)
    BY <1>2 DEF HashInv, Placed, Pending
  <2>2. CallHash(x) \in Buckets
    BY HashOfKey, InUse DEF HashInv, KeyTypes
  <2>. QED BY <1>4, <1>6, <2>1, <2>2
<1>. QED BY <1>7, <1>8, <1>9, <1>11, <1>12 DEF HashInv

\* Data pages, and opening the database again, do not concern the keys.
LEMMA MoreDataStep == ASSUME HashInv, MoreData PROVE HashInv'
<1>1. /\ UNCHANGED <<maxBucket, lowMask, highMask, chain, stored, phase, split>>
      /\ item' = [item EXCEPT !.more = item.more + 1]
  BY DEF MoreData, masks
<1>2. \A x : CallHash(x)' = CallHash(x)
  BY <1>1 DEF CallHash, And
<1>3. /\ item' \in [key : Keys, bucket : Buckets, ovfl : BOOLEAN, more : Nat]
      /\ item'.key = item.key /\ item'.bucket = item.bucket
      /\ item'.ovfl = item.ovfl
  <2>1. item \in [key : Keys, bucket : Buckets, ovfl : BOOLEAN, more : Nat]
    BY DEF HashInv, KeyTypes
  <2>2. item' \in [key : Keys, bucket : Buckets, ovfl : BOOLEAN, more : Nat]
    BY <1>1, <2>1
  <2>3. item'.key = item.key /\ item'.bucket = item.bucket
    BY <1>1, <2>1
  <2>4. item'.ovfl = item.ovfl
    BY <1>1, <2>1, Zenon
  <2>. QED BY <2>2, <2>3, <2>4
<1>4. KeyTypes'
  BY <1>1, <1>3 DEF HashInv, KeyTypes
<1>5. Masks' /\ BaseFirst' /\ SplitAt'
  BY <1>1 DEF HashInv, Masks, BaseFirst, SplitAt
<1>6. PutAt'
  BY <1>1, <1>2, <1>3 DEF HashInv, PutAt
<1>7. Placed'
  BY <1>1, <1>2 DEF HashInv, Placed, Pending
<1>. QED BY <1>4, <1>5, <1>6, <1>7 DEF HashInv

LEMMA SameStep ==
  ASSUME HashInv,
         UNCHANGED <<maxBucket, lowMask, highMask, chain, stored, phase, item,
                     split>>
  PROVE  HashInv'
<1>1. \A x : CallHash(x)' = CallHash(x)
  BY DEF CallHash, And
<1>2. KeyTypes' /\ Masks' /\ BaseFirst' /\ SplitAt'
  BY DEF HashInv, KeyTypes, Masks, BaseFirst, SplitAt
<1>3. PutAt' /\ Placed'
  BY <1>1 DEF HashInv, PutAt, Placed, Pending
<1>. QED BY <1>2, <1>3 DEF HashInv

\* A bucket whose chain gets a key, on one of its pages or on another one,
\* keeps BaseFirst, and no other key is lost.
LEMMA ChainStep ==
  ASSUME HashInv, NEW b \in 0 .. maxBucket, NEW d \in Seq(HashPage),
         Len(d) >= 1, d[1].keys # << >>,
         \A x : On(chain[b], x) => On(d, x),
         chain' = [chain EXCEPT ![b] = d], maxBucket' = maxBucket
  PROVE  /\ chain' \in [Buckets -> Seq(HashPage)]
         /\ BaseFirst'
         /\ chain'[b] = d
         /\ \A c \in Buckets : \A x : On(chain[c], x) => On(chain'[c], x)
<1>1. b \in Buckets
  BY InUse DEF HashInv
<1>2. chain' \in [Buckets -> Seq(HashPage)]
  BY <1>1 DEF HashInv, KeyTypes
<1>3. \A c \in Buckets : chain'[c] = IF c = b THEN d ELSE chain[c]
  BY DEF HashInv, KeyTypes
<1>4. BaseFirst'
  <2> SUFFICES ASSUME NEW c \in 0 .. maxBucket
               PROVE  /\ Len(chain'[c]) >= 1
                      /\ chain'[c][1].keys = << >> => chain'[c] = <<EmptyPage>>
    BY DEF BaseFirst
  <2>1. c \in Buckets
    BY InUse DEF HashInv
  <2>. QED BY <1>3, <2>1 DEF HashInv, BaseFirst
<1>. QED BY <1>1, <1>2, <1>3, <1>4

LEMMA StoreStep == ASSUME HashInv, Store PROVE HashInv'
<1> DEFINE b == item.bucket
           c == chain[b]
           d == [c EXCEPT ![Len(c)] = Added(c[Len(c)], item.key)]
<1>1. /\ UNCHANGED <<maxBucket, lowMask, highMask, item, split>>
      /\ chain' = [chain EXCEPT ![b] = d]
      /\ stored' = stored \cup {item.key}
      /\ phase' = IF item.ovfl THEN "expand" ELSE "idle"
      /\ phase = "data"
  BY DEF Store, masks
<1>2. \A x : CallHash(x)' = CallHash(x)
  BY <1>1 DEF CallHash, And
<1>3. /\ item.key \in Keys /\ item.ovfl \in BOOLEAN
      /\ b = CallHash(item.key) /\ b \in 0 .. maxBucket
      /\ c \in Seq(HashPage)
  <2>1. item.key \in Keys /\ item.ovfl \in BOOLEAN
    BY DEF HashInv, KeyTypes
  <2>2. b = CallHash(item.key)
    BY <1>1 DEF HashInv, PutAt
  <2>. QED BY <2>1, <2>2, HashOfKey, InUse DEF HashInv
<1>4. Len(c) \in 1 .. Len(c) /\ Len(c) \in Nat
  <2>1. Len(c) \in Nat /\ Len(c) >= 1
    BY <1>3 DEF HashInv, BaseFirst
  <2>. QED BY <2>1
<1>5. /\ d \in Seq(HashPage) /\ Len(d) = Len(c)
      /\ d[1] = IF Len(c) = 1 THEN Added(c[1], item.key) ELSE c[1]
      /\ On(d, item.key)
      /\ \A x : On(c, x) => On(d, x)
  BY <1>3, <1>4, ChainAdded, ZenonT(40)
<1> HIDE DEF d
<1>6. d[1].keys # << >>
  <2>1. CASE Len(c) = 1
    <3>1. c[1] \in HashPage
      BY <1>3, <2>1
    <3>. QED BY <1>3, <1>5, <2>1, <3>1, PageAdded
  <2>2. CASE Len(c) # 1
    <3>1. Len(<<EmptyPage>>) = 1
      OBVIOUS
    <3>2. c[1].keys # << >>
      BY <1>3, <2>2, <3>1 DEF HashInv, BaseFirst
    <3>. QED BY <1>5, <2>2, <3>2
  <2>. QED BY <2>1, <2>2
<1>7. /\ chain' \in [Buckets -> Seq(HashPage)]
      /\ BaseFirst'
      /\ chain'[b] = d
      /\ \A e \in Buckets : \A x : On(chain[e], x) => On(chain'[e], x)
  <2>1. Len(d) >= 1
    BY <1>4, <1>5
  <2>2. maxBucket' = maxBucket /\ chain' = [chain EXCEPT ![b] = d]
    BY <1>1
  <2>. QED BY <1>3, <1>5, <1>6, <2>1, <2>2, ChainStep
<1>8. phase' \in {"expand", "idle"} /\ (phase' = "expand" => item.ovfl)
  BY <1>1, <1>3
<1>9. KeyTypes'
  BY <1>1, <1>3, <1>7, <1>8 DEF HashInv, KeyTypes
<1>10. Masks' /\ SplitAt'
  BY <1>1, <1>8 DEF HashInv, Masks, SplitAt
<1>11. PutAt'
  <2>1. item.ovfl => maxBucket < MaxBuckets
    BY <1>1 DEF HashInv, PutAt
  <2>2. phase' # "data" /\ (phase' = "expand" => maxBucket' < MaxBuckets)
    BY <1>1, <1>8, <2>1
  <2>. QED BY <2>2 DEF PutAt
<1>12. Placed'
  <2> SUFFICES ASSUME NEW x \in stored' PROVE On(chain'[CallHash(x)], x)
    BY <1>2 DEF Placed
  <2>1. CASE x = item.key
    BY <1>3, <1>5, <1>7, <2>1
  <2>2. CASE x # item.key
    <3>1. x \in stored
      BY <1>1, <2>2
    <3>2. On(chain[CallHash(x)], x)
      BY <1>1, <3>1 DEF HashInv, Placed, Pending
    <3>3. CallHash(x) \in Buckets
      BY <3>1, HashOfKey, InUse DEF HashInv, KeyTypes
    <3>. QED BY <1>7, <3>2, <3>3
  <2>. QED BY <2>1, <2>2
<1>. QED BY <1>7, <1>9, <1>10, <1>11, <1>12 DEF HashInv

\* In this step k stays in its bucket or goes from the old to the new one.
Moves(k, old, new) ==
  \/ CallHash(k)' = CallHash(k)
  \/ CallHash(k) = old /\ CallHash(k)' = new

\* Growing by a bucket: the masks fit together again, the old bucket is one
\* that exists, and only its keys are sent elsewhere.
LEMMA MasksGrow ==
  ASSUME HashInv, Expand
  PROVE  LET new == maxBucket + 1
             old == OldBucket(new)
         IN  /\ Masks'
             /\ maxBucket' = new
             /\ old \in 0 .. maxBucket
             /\ \A k \in Keys : Moves(k, old, new)
<1> DEFINE new == maxBucket + 1
           old == OldBucket(new)
<1>1. /\ maxBucket' = new
      /\ lowMask'  = IF new > highMask THEN highMask ELSE lowMask
      /\ highMask' = IF new > highMask THEN Or(new, highMask) ELSE highMask
  BY DEF Expand, Doubles
<1>2. old = (maxBucket + 1) % (lowMask + 1)
  BY DEF OldBucket, And
<1>3. /\ MasksOf(maxBucket, lowMask, highMask)
      /\ maxBucket \in Nat /\ highMask \in Nat /\ maxBucket <= highMask
  BY DEF HashInv, Masks, MasksOf
<1>4. ASSUME NEW k \in Keys
      PROVE  /\ Hash[k] \in Nat
             /\ CallHash(k) = BucketOf(Hash[k], maxBucket, lowMask, highMask)
             /\ CallHash(k)' = BucketOf(Hash[k], maxBucket', lowMask', highMask')
  BY HashAssumption DEF CallHash, BucketOf, And
<1>5. PICK any \in Keys : TRUE
  BY HashAssumption
<1>6. CASE maxBucket < highMask
  <2>1. /\ maxBucket' = maxBucket + 1 /\ lowMask' = lowMask
        /\ highMask' = highMask
    BY <1>1, <1>3, <1>6
  <2>2. MasksOf(maxBucket + 1, lowMask, highMask) /\ old \in 0 .. maxBucket
    <3>1. Hash[any] \in Nat
      BY <1>4
    <3>2. /\ MasksOf(maxBucket + 1, lowMask, highMask)
          /\ (maxBucket + 1) % (lowMask + 1) \in 0 .. maxBucket
      BY <1>3, <1>6, <3>1, GrowInLevel, Zenon
    <3>. QED BY <1>2, <3>2
  <2>3. \A k \in Keys : Moves(k, old, new)
    BY <1>2, <1>3, <1>4, <1>6, <2>1, GrowInLevel DEF Moves
  <2>4. Masks'
    BY <2>1, <2>2 DEF Masks
  <2>. QED BY <1>1, <2>2, <2>3, <2>4
<1>7. CASE maxBucket = highMask
  <2> DEFINE top == 2 * highMask + 1
  <2>1. /\ maxBucket' = maxBucket + 1 /\ lowMask' = highMask
        /\ highMask' = top
    <3>1. Or(maxBucket + 1, highMask) = top
      BY <1>3, <1>7, LevelMask DEF Or
    <3>. QED BY <1>1, <1>3, <1>7, <3>1
  <2>2. MasksOf(maxBucket + 1, highMask, top) /\ old \in 0 .. maxBucket
    <3>1. Hash[any] \in Nat
      BY <1>4
    <3>2. /\ MasksOf(maxBucket + 1, highMask, top)
          /\ (maxBucket + 1) % (lowMask + 1) \in 0 .. maxBucket
      BY <1>3, <1>7, <3>1, GrowLevel, Zenon
    <3>. QED BY <1>2, <3>2
  <2>3. \A k \in Keys : Moves(k, old, new)
    BY <1>2, <1>3, <1>4, <1>7, <2>1, GrowLevel DEF Moves
  <2>4. Masks'
    BY <2>1, <2>2 DEF Masks
  <2>. QED BY <1>1, <2>2, <2>3, <2>4
<1>. QED BY <1>3, <1>6, <1>7

LEMMA ExpandStep == ASSUME HashInv, Expand PROVE HashInv'
<1> DEFINE new == maxBucket + 1
           old == OldBucket(new)
           c   == chain[old]
<1>1. /\ Masks' /\ maxBucket' = new
      /\ old \in 0 .. maxBucket
      /\ \A k \in Keys : Moves(k, old, new)
  BY MasksGrow
<1>2. /\ maxBucket \in Nat /\ MaxBuckets \in Nat /\ maxBucket < MaxBuckets
      /\ new \in Buckets /\ old \in Buckets /\ new # old
      /\ \A b \in 0 .. new : b \in Buckets
      /\ c \in Seq(HashPage)
  <2>1. maxBucket \in Nat /\ MaxBuckets \in Nat /\ maxBucket < MaxBuckets
    BY InUse, HashAssumption DEF HashInv, PutAt, Expand
  <2>2. c \in Seq(HashPage)
    BY <1>1, InUse DEF HashInv
  <2>. QED BY <1>1, <2>1, <2>2 DEF Buckets
<1> HIDE DEF old
<1>3. /\ chain' = [[chain EXCEPT ![new] = <<EmptyPage>>]
                     EXCEPT ![old] = <<EmptyPage>>]
      /\ phase = "expand" /\ phase' = "split"
      /\ UNCHANGED <<stored, item>>
  BY DEF Expand, Emptied, old
<1>4. \A b \in Buckets :
        chain'[b] = IF b \in {new, old} THEN <<EmptyPage>> ELSE chain[b]
  BY <1>2, <1>3 DEF HashInv, KeyTypes
<1>5. /\ split'.old = old /\ split'.new = new
      /\ split'.todo = c[1].keys /\ split'.chain = Tail(c)
      /\ split' \in [old : {old}, new : {new}, base : {TRUE},
                     page : {split'.page}, todo : {c[1].keys},
                     pages : {split'.pages}, chain : {Tail(c)}]
  <2>1. [chain EXCEPT ![new] = <<EmptyPage>>][old] = c
    BY <1>2 DEF HashInv, KeyTypes
  <2>. QED BY <2>1 DEF Expand, old
<1>6. Len(c) >= 1 /\ c # << >>
  <2>1. Len(c) >= 1 /\ Len(c) \in Nat
    BY <1>1, <1>2 DEF HashInv, BaseFirst
  <2>. QED BY <2>1
<1>7. /\ c[1] \in HashPage /\ Tail(c) \in Seq(HashPage)
      /\ \A x : On(c, x) => InSeq(c[1].keys, x) \/ On(Tail(c), x)
  BY <1>2, <1>6, ChainTail
<1>8. chain' \in [Buckets -> Seq(HashPage)]
  <2>1. <<EmptyPage>> \in Seq(HashPage)
    BY EmptyIsPage
  <2>. QED BY <1>2, <1>3, <2>1 DEF HashInv, KeyTypes
<1>9. split' \in [old : Buckets, new : Buckets, base : BOOLEAN,
                  page : {split'.page}, todo : Seq(Keys),
                  pages : {split'.pages}, chain : Seq(HashPage)]
  <2>1. c[1].keys \in Seq(Keys)
    BY <1>7 DEF HashPage
  <2>. QED BY <1>2, <1>5, <1>7, <2>1
<1>10. KeyTypes'
  BY <1>1, <1>2, <1>3, <1>8, <1>9 DEF HashInv, KeyTypes
<1>11. BaseFirst'
  <2> SUFFICES ASSUME NEW b \in 0 .. new
               PROVE  /\ Len(chain'[b]) >= 1
                      /\ chain'[b][1].keys = << >> => chain'[b] = <<EmptyPage>>
    BY <1>1 DEF BaseFirst
  <2>1. CASE b \in {new, old}
    <3>1. chain'[b] = <<EmptyPage>>
      BY <1>2, <1>4, <2>1
    <3>. QED BY <3>1
  <2>2. CASE b \notin {new, old}
    <3>1. b \in 0 .. maxBucket
      BY <1>2, <2>2
    <3>. QED BY <1>2, <1>4, <2>2, <3>1 DEF HashInv, BaseFirst
  <2>. QED BY <2>1, <2>2
<1>12. PutAt'
  BY <1>3 DEF PutAt
<1>13. SplitAt'
  BY <1>1, <1>2, <1>5 DEF SplitAt
<1>14. Placed'
  <2> SUFFICES ASSUME NEW x \in stored
               PROVE  On(chain'[CallHash(x)'], x) \/ Pending(x)'
    BY <1>3 DEF Placed
  <2>1. x \in Keys /\ On(chain[CallHash(x)], x)
    BY <1>3 DEF HashInv, KeyTypes, Placed, Pending
  <2>2. CallHash(x) \in 0 .. maxBucket
    BY <2>1, HashOfKey DEF HashInv
  <2>3. CASE CallHash(x) = old
    <3>1. CallHash(x)' \in {old, new}
      BY <1>1, <2>1, <2>3 DEF Moves
    <3>2. InSeq(c[1].keys, x) \/ On(Tail(c), x)
      BY <1>7, <2>1, <2>3
    <3>. QED BY <1>3, <1>5, <3>1, <3>2 DEF Pending
  <2>4. CASE CallHash(x) # old
    <3>1. CallHash(x)' = CallHash(x)
      BY <1>1, <2>1, <2>4 DEF Moves
    <3>2. CallHash(x) \in Buckets /\ CallHash(x) # new
      BY <1>2, <2>2
    <3>. QED BY <1>4, <2>1, <2>4, <3>1, <3>2
  <2>. QED BY <2>3, <2>4
<1>. QED BY <1>1, <1>10, <1>11, <1>12, <1>13, <1>14 DEF HashInv

\* The key at the head of split_buf is on the chain of its bucket now: no
\* other key of the split is touched, and none on a chain is lost.
LEMMA MovedStep ==
  ASSUME HashInv, phase = "split", split.todo # << >>,
         UNCHANGED <<maxBucket, lowMask, highMask, stored, phase, item>>,
         split' = [split EXCEPT !.todo = Tail(split.todo)],
         NEW d \in Seq(HashPage), Len(d) >= 1, d[1].keys # << >>,
         On(d, Head(split.todo)),
         \A x : On(chain[Target(Head(split.todo))], x) => On(d, x),
         chain' = [chain EXCEPT ![Target(Head(split.todo))] = d]
  PROVE  HashInv'
<1> DEFINE k == Head(split.todo)
           b == Target(k)
<1>1. \A x : CallHash(x)' = CallHash(x)
  BY DEF CallHash, And
<1>2. /\ split.old \in 0 .. maxBucket /\ split.new \in 0 .. maxBucket
      /\ b \in 0 .. maxBucket
  BY DEF HashInv, SplitAt, Target
<1>3. split \in [old : Buckets, new : Buckets, base : BOOLEAN,
                page : {split.page}, todo : Seq(Keys),
                pages : {split.pages}, chain : Seq(HashPage)]
  BY DEF HashInv, KeyTypes
<1>4. /\ k \in Keys /\ Tail(split.todo) \in Seq(Keys)
      /\ \A x : InSeq(split.todo, x) => x = k \/ InSeq(Tail(split.todo), x)
  BY <1>3, InTail
<1>5. /\ split' \in [old : Buckets, new : Buckets, base : BOOLEAN,
                      page : {split.page}, todo : Seq(Keys),
                      pages : {split.pages}, chain : Seq(HashPage)]
      /\ split'.old = split.old /\ split'.new = split.new
      /\ split'.todo = Tail(split.todo) /\ split'.chain = split.chain
      /\ split'.page = split.page /\ split'.pages = split.pages
  BY <1>3, <1>4
<1>6. /\ chain' \in [Buckets -> Seq(HashPage)]
      /\ BaseFirst'
      /\ chain'[b] = d
      /\ \A c \in Buckets : \A x : On(chain[c], x) => On(chain'[c], x)
  BY <1>2, ChainStep
<1>7. KeyTypes'
  BY <1>5, <1>6 DEF HashInv, KeyTypes
<1>8. Masks' /\ SplitAt' /\ PutAt'
  BY <1>2, <1>5 DEF HashInv, Masks, SplitAt, PutAt
<1>9. Placed'
  <2> SUFFICES ASSUME NEW x \in stored
               PROVE  On(chain'[CallHash(x)], x) \/ Pending(x)'
    BY <1>1 DEF Placed
  <2>1. x \in Keys /\ CallHash(x) \in Buckets
    BY HashOfKey, InUse DEF HashInv, KeyTypes
  <2>2. CASE On(chain[CallHash(x)], x)
    BY <1>6, <2>1, <2>2
  <2>3. CASE Pending(x) /\ x = k
    <3>1. CallHash(x) = b
      BY <2>3 DEF Pending, Target
    <3>. QED BY <1>6, <2>3, <3>1
  <2>4. CASE Pending(x) /\ x # k
    <3>1. InSeq(split'.todo, x) \/ On(split'.chain, x)
      BY <1>4, <1>5, <2>4 DEF Pending
    <3>2. CallHash(x)' \in {split'.old, split'.new}
      BY <1>1, <1>5, <2>4 DEF Pending
    <3>. QED BY <3>1, <3>2 DEF Pending
  <2>. QED BY <2>2, <2>3, <2>4 DEF HashInv, Placed
<1>. QED BY <1>6, <1>7, <1>8, <1>9 DEF HashInv

\* The bucket a key of the split goes to.
LEMMA TargetChain ==
  ASSUME HashInv, phase = "split", split.todo # << >>
  PROVE  /\ Head(split.todo) \in Keys
         /\ Target(Head(split.todo)) \in 0 .. maxBucket
         /\ chain[Target(Head(split.todo))] \in Seq(HashPage)
         /\ Len(chain[Target(Head(split.todo))]) \in Nat \ {0}
<1> DEFINE b == Target(Head(split.todo))
<1>1. split.todo \in Seq(Keys)
  BY DEF HashInv, KeyTypes
<1>2. Head(split.todo) \in Keys
  BY <1>1, InTail
<1>3. b \in 0 .. maxBucket
  BY DEF HashInv, SplitAt, Target
<1>4. chain[b] \in Seq(HashPage)
  BY <1>3, InUse DEF HashInv
<1>5. Len(chain[b]) \in Nat /\ Len(chain[b]) >= 1
  BY <1>3, <1>4 DEF HashInv, BaseFirst
<1>. QED BY <1>2, <1>3, <1>4, <1>5

LEMMA MoveKeyStep == ASSUME HashInv, MoveKey PROVE HashInv'
<1> DEFINE k == Head(split.todo)
           b == Target(k)
           c == chain[b]
           i == Min(Room(b, k))
           d == [c EXCEPT ![i] = Added(c[i], k)]
<1>1. /\ phase = "split" /\ split.todo # << >>
      /\ UNCHANGED <<maxBucket, lowMask, highMask, stored, phase, item>>
      /\ split' = [split EXCEPT !.todo = Tail(split.todo)]
      /\ chain' = [chain EXCEPT ![b] = d]
      /\ Room(b, k) # {}
  BY DEF MoveKey, masks
<1>2. /\ k \in Keys /\ b \in 0 .. maxBucket
      /\ c \in Seq(HashPage) /\ Len(c) \in Nat \ {0}
  BY <1>1, TargetChain
<1>3. i \in 1 .. Len(c)
  <2>1. Room(b, k) \in SUBSET Nat /\ Room(b, k) \subseteq 1 .. Len(c)
    BY <1>2 DEF Room
  <2>2. \E x \in Room(b, k) : \A y \in Room(b, k) : x <= y
    BY <1>1, <2>1, LeastExists
  <2>3. i \in Room(b, k)
    BY <2>2 DEF Min
  <2>. QED BY <2>1, <2>3
<1> HIDE DEF i
<1>4. /\ d \in Seq(HashPage) /\ Len(d) = Len(c)
      /\ d[1] = IF i = 1 THEN Added(c[1], k) ELSE c[1]
      /\ On(d, k)
      /\ \A x : On(c, x) => On(d, x)
  BY <1>2, <1>3, ChainAdded
<1> HIDE DEF d
<1>5. d[1].keys # << >>
  <2>1. CASE i = 1
    <3>1. c[1] \in HashPage
      BY <1>2, <1>3, <2>1
    <3>. QED BY <1>2, <1>4, <2>1, <3>1, PageAdded
  <2>2. CASE i # 1
    <3>0. Len(<<EmptyPage>>) = 1
      OBVIOUS
    <3>1. \A n \in Nat : i \in 1 .. n => n # 1
      BY <2>2
    <3>2. c[1].keys # << >>
      <4>1. Len(c) # 1
        BY <1>2, <1>3, <3>1
      <4>. QED BY <1>2, <3>0, <4>1 DEF HashInv, BaseFirst
    <3>. QED BY <1>4, <2>2, <3>2
  <2>. QED BY <2>1, <2>2
<1>6. Len(d) >= 1
  BY <1>2, <1>4
<1>. QED BY <1>1, <1>4, <1>5, <1>6, MovedStep

LEMMA MoveOverflowStep == ASSUME SmallKeys, HashInv, MoveOverflow PROVE HashInv'
<1> DEFINE k == Head(split.todo)
           b == Target(k)
           c == chain[b]
           d == Append(c, Added(EmptyPage, k))
<1>1. /\ phase = "split" /\ split.todo # << >>
      /\ UNCHANGED <<maxBucket, lowMask, highMask, stored, phase, item>>
      /\ split' = [split EXCEPT !.todo = Tail(split.todo)]
      /\ chain' = [chain EXCEPT ![b] = d]
      /\ Room(b, k) = {}
  BY DEF MoveOverflow, masks
<1>2. /\ k \in Keys /\ b \in 0 .. maxBucket
      /\ c \in Seq(HashPage) /\ Len(c) \in Nat \ {0}
  BY <1>1, TargetChain
<1>3. Added(EmptyPage, k) \in HashPage /\ InSeq(Added(EmptyPage, k).keys, k)
  BY <1>2, EmptyIsPage, PageAdded
<1>4. /\ d \in Seq(HashPage) /\ Len(d) = Len(c) + 1
      /\ d[1] = c[1]
      /\ On(d, k)
      /\ \A x : On(c, x) => On(d, x)
  BY <1>2, <1>3, ChainLonger
<1> HIDE DEF d
<1>5. d[1].keys # << >>
  <2>1. 1 \in DOMAIN c
    BY <1>2
  <2>2. ~PairFits(c[1], k)
    BY <1>1, <2>1 DEF Room
  <2>3. PairFits(EmptyPage, k)
    BY <1>2, HashAssumption DEF SmallKeys, PairFits, EmptyPage
  <2>4. <<EmptyPage>>[1] = EmptyPage
    OBVIOUS
  <2>5. c[1].keys # << >>
    BY <1>2, <2>2, <2>3, <2>4 DEF HashInv, BaseFirst
  <2>. QED BY <1>4, <2>5
<1>6. Len(d) >= 1
  BY <1>2, <1>4
<1>. QED BY <1>1, <1>4, <1>5, <1>6, MovedStep

LEMMA NextPageStep == ASSUME HashInv, NextPage PROVE HashInv'
<1>1. /\ phase = "split" /\ split.todo = << >>
      /\ UNCHANGED <<maxBucket, lowMask, highMask, chain, stored, item>>
  BY DEF NextPage, masks
<1>2. \A x : CallHash(x)' = CallHash(x)
  BY <1>1 DEF CallHash, And
<1>3. split \in [old : Buckets, new : Buckets, base : BOOLEAN,
                page : {split.page}, todo : Seq(Keys),
                pages : {split.pages}, chain : Seq(HashPage)]
  BY DEF HashInv, KeyTypes
<1>4. \A x : ~InSeq(split.todo, x)
  BY <1>1 DEF InSeq
<1>5. Masks' /\ BaseFirst'
  BY <1>1 DEF HashInv, Masks, BaseFirst
<1>6. CASE split.chain = << >>
  <2>1. phase' = "idle" /\ split' = NoSplit
    BY <1>6 DEF NextPage
  <2>2. split' \in [old : Buckets, new : Buckets, base : BOOLEAN,
                   page : {split'.page}, todo : Seq(Keys),
                   pages : {split'.pages}, chain : Seq(HashPage)]
    <3>1. 0 \in Buckets
      BY HashAssumption DEF Buckets
    <3>. QED BY <2>1, <3>1 DEF NoSplit
  <2>3. KeyTypes'
    BY <1>1, <2>1, <2>2 DEF HashInv, KeyTypes
  <2>4. PutAt' /\ SplitAt'
    BY <2>1 DEF PutAt, SplitAt
  <2>5. \A x : ~On(split.chain, x)
    BY <1>6 DEF On
  <2>6. Placed'
    BY <1>1, <1>2, <1>4, <2>5 DEF HashInv, Placed, Pending
  <2>. QED BY <1>5, <2>3, <2>4, <2>6 DEF HashInv
<1>7. CASE split.chain # << >>
  <2>1. /\ phase' = "split"
        /\ split' = [split EXCEPT !.base = FALSE, !.page = Head(split.pages),
                       !.pages = Tail(split.pages),
                       !.todo = Head(split.chain).keys,
                       !.chain = Tail(split.chain)]
    BY <1>1, <1>7 DEF NextPage
  <2>2. /\ Head(split.chain) = split.chain[1]
        /\ split.chain[1] \in HashPage /\ Tail(split.chain) \in Seq(HashPage)
        /\ \A x : On(split.chain, x) =>
                    InSeq(split.chain[1].keys, x) \/ On(Tail(split.chain), x)
    BY <1>3, <1>7, ChainTail
  <2>3. split.chain[1].keys \in Seq(Keys)
    BY <2>2 DEF HashPage
  <2>4. /\ split' \in [old : Buckets, new : Buckets, base : BOOLEAN,
                        page : {split'.page}, todo : Seq(Keys),
                        pages : {split'.pages}, chain : Seq(HashPage)]
        /\ split'.old = split.old /\ split'.new = split.new
        /\ split'.todo = split.chain[1].keys
        /\ split'.chain = Tail(split.chain)
    BY <1>3, <2>1, <2>2, <2>3
  <2>5. KeyTypes'
    BY <1>1, <2>1, <2>4 DEF HashInv, KeyTypes
  <2>6. PutAt' /\ SplitAt'
    BY <1>1, <2>1, <2>4 DEF HashInv, PutAt, SplitAt
  <2>7. Placed'
    <3> SUFFICES ASSUME NEW x \in stored
                 PROVE  On(chain[CallHash(x)], x) \/ Pending(x)'
      BY <1>1, <1>2 DEF Placed
    <3>1. ASSUME Pending(x) PROVE Pending(x)'
      <4>1. InSeq(split'.todo, x) \/ On(split'.chain, x)
        BY <1>4, <2>2, <2>4, <3>1 DEF Pending
      <4>2. CallHash(x)' \in {split'.old, split'.new}
        BY <1>2, <2>4, <3>1 DEF Pending
      <4>. QED BY <2>1, <4>1, <4>2 DEF Pending
    <3>. QED BY <3>1 DEF HashInv, Placed
  <2>. QED BY <1>5, <2>5, <2>6, <2>7 DEF HashInv
<1>. QED BY <1>6, <1>7

LEMMA StepInv ==
  ASSUME SmallKeys, HashInv, [Next]_vars
  PROVE  HashInv'
<1>1. ASSUME NEW k \in Keys, Put(k) PROVE HashInv'
  BY <1>1, PutStep
<1>2. ASSUME NEW k \in Keys, PutOverflow(k) PROVE HashInv'
  BY <1>2, PutOverflowStep
<1>3. ASSUME Working PROVE HashInv'
  BY <1>3, MoreDataStep, StoreStep, ExpandStep, MoveKeyStep,
     MoveOverflowStep, NextPageStep DEF Working
<1>4. ASSUME UNCHANGED vars PROVE HashInv'
  BY <1>4, SameStep DEF vars, masks
<1>. QED BY <1>1, <1>2, <1>3, <1>4 DEF Next

LEMMA InvReaches ==
  ASSUME HashInv
  PROVE  KeysReachable /\ NoEmptyBase
<1>1. ASSUME phase = "idle", NEW k \in stored PROVE Found(k)
  <2>1. k \in Keys /\ On(chain[CallHash(k)], k)
    BY <1>1 DEF HashInv, KeyTypes, Placed, Pending
  <2>2. CallHash(k) \in 0 .. maxBucket
    BY <2>1, HashOfKey DEF HashInv
  <2>3. Sought(CallHash(k)) = chain[CallHash(k)]
    BY <2>2, SoughtSame
  <2>4. chain[CallHash(k)] \in Seq(HashPage)
    BY <2>2, InUse DEF HashInv
  <2>5. DOMAIN chain[CallHash(k)] = 1 .. Len(chain[CallHash(k)])
    BY <2>4
  <2>6. \A i \in 1 .. Len(chain[CallHash(k)]) :
          /\ chain[CallHash(k)][i].keys \in Seq(Keys)
          /\ DOMAIN chain[CallHash(k)][i].keys
                = 1 .. Len(chain[CallHash(k)][i].keys)
    <3>1. TAKE i \in 1 .. Len(chain[CallHash(k)])
    <3>2. chain[CallHash(k)][i] \in HashPage
      BY <2>4, <3>1, ElementOfSeq
    <3>3. chain[CallHash(k)][i].keys \in Seq(Keys)
      BY <3>2 DEF HashPage
    <3>. QED BY <3>3
  <2>. QED BY <2>1, <2>3, <2>5, <2>6 DEF On, InSeq, Found
<1>2. NoEmptyBase
  <2>1. Len(<<EmptyPage>>) = 1
    OBVIOUS
  <2>. QED BY <2>1 DEF HashInv, BaseFirst, NoEmptyBase
<1>. QED BY <1>1, <1>2 DEF KeysReachable

\* In a table that starts with at least two buckets, and with keys that fit
\* on an empty page, a lookup between two puts finds every key that was put:
\* _ffdb_expand_table splits the bucket that loses keys, ffdb_split_bucket
\* moves all of them, and ffdb_find_item never drops a chain.
THEOREM LookupFindsEveryKey ==
  ASSUME TwoBuckets, SmallKeys
  PROVE  Spec => [](KeysReachable /\ NoEmptyBase)
<1>1. Init => HashInv
  BY InitInv
<1>2. HashInv /\ [Next]_vars => HashInv'
  BY StepInv
<1>3. HashInv => KeysReachable /\ NoEmptyBase
  BY InvReaches
<1>. QED BY <1>1, <1>2, <1>3, PTL DEF Spec

-----------------------------------------------------------------------------
(***************************************************************************)
(* Every key is on one page, once.  Inside a put the places of a key are   *)
(* the chains, the keys still in split_buf and the pages of the old chain  *)
(* that follow it; no key is at two of them, and none was not put.         *)
(***************************************************************************)
Once(s) == \A i, j \in 1 .. Len(s) : s[i] = s[j] => i = j

ChainOnce(c) ==
  /\ \A i \in 1 .. Len(c) : Once(c[i].keys)
  /\ \A i, j \in 1 .. Len(c) : \A k : InSeq(c[i].keys, k) /\ InSeq(c[j].keys, k) => i = j

\* Without a split there is nothing left to move.
SplitDone == phase # "split" => split.todo = << >> /\ split.chain = << >>

OnePlace ==
  /\ \A b \in Buckets : ChainOnce(chain[b])
  /\ \A b, c \in Buckets : \A k : On(chain[b], k) /\ On(chain[c], k) => b = c
  /\ Once(split.todo) /\ ChainOnce(split.chain)
  /\ \A k : ~(InSeq(split.todo, k) /\ On(split.chain, k))
  /\ \A b \in Buckets : \A k :
       On(chain[b], k) => ~InSeq(split.todo, k) /\ ~On(split.chain, k)

OnlyStored ==
  /\ \A b \in Buckets : \A k : On(chain[b], k) => k \in stored
  /\ \A k : InSeq(split.todo, k) \/ On(split.chain, k) => k \in stored
  /\ phase = "data" => item.key \notin stored
  /\ IsFiniteSet(stored)

OnceInv == SplitDone /\ OnePlace /\ OnlyStored

\* A key added to a list that did not have it.
LEMMA AppendOnce ==
  ASSUME NEW s \in Seq(Keys), NEW k \in Keys
  PROVE  /\ Once(s) /\ ~InSeq(s, k) => Once(Append(s, k))
         /\ \A x : InSeq(Append(s, k), x) => InSeq(s, x) \/ x = k
<1>1. /\ Len(s) \in Nat
      /\ Len(Append(s, k)) = Len(s) + 1
      /\ \A j \in 1 .. Len(s) : Append(s, k)[j] = s[j]
      /\ Append(s, k)[Len(s) + 1] = k
  BY AppendProperties, LenProperties
<1>. QED BY <1>1 DEF Once, InSeq

\* The rest of a list.
LEMMA TailOnce ==
  ASSUME NEW s \in Seq(Keys), s # << >>
  PROVE  /\ InSeq(s, Head(s))
         /\ \A x : InSeq(Tail(s), x) => InSeq(s, x)
         /\ Once(s) => Once(Tail(s)) /\ ~InSeq(Tail(s), Head(s))
<1>1. /\ Head(s) \in Keys /\ Tail(s) \in Seq(Keys)
      /\ Len(s) \in Nat /\ Len(s) >= 1 /\ Len(Tail(s)) = Len(s) - 1
      /\ \A i \in 1 .. Len(Tail(s)) : Tail(s)[i] = s[i + 1]
  BY HeadTailProperties, LenProperties, EmptySeq
<1>2. Head(s) = s[1]
  OBVIOUS
<1>. QED BY <1>1, <1>2 DEF Once, InSeq

\* A page of a chain gets a key that is not on the chain.
LEMMA ChainAddedOnce ==
  ASSUME NEW c \in Seq(HashPage), NEW i \in 1 .. Len(c), NEW k \in Keys,
         ChainOnce(c), ~On(c, k)
  PROVE  LET d == [c EXCEPT ![i] = Added(c[i], k)]
         IN  ChainOnce(d) /\ \A x : On(d, x) => On(c, x) \/ x = k
<1> DEFINE d == [c EXCEPT ![i] = Added(c[i], k)]
<1>1. c[i] \in HashPage /\ Len(c) \in Nat
  BY ElementOfSeq, LenProperties
<1>2. c[i].keys \in Seq(Keys) /\ Added(c[i], k) \in HashPage
      /\ Added(c[i], k).keys = Append(c[i].keys, k)
  BY <1>1, PageAdded DEF HashPage, Added
<1>3. /\ Len(d) = Len(c)
      /\ \A j \in 1 .. Len(c) : d[j] = IF j = i THEN Added(c[i], k) ELSE c[j]
  BY <1>1, <1>2, ExceptSeq
<1> HIDE DEF d
<1>4. Once(c[i].keys) /\ ~InSeq(c[i].keys, k)
  BY DEF ChainOnce, On
<1>5. /\ Once(d[i].keys)
      /\ \A x : InSeq(d[i].keys, x) => InSeq(c[i].keys, x) \/ x = k
  <2> DEFINE s == c[i].keys
  <2>1. d[i].keys = Append(s, k) /\ s \in Seq(Keys) /\ Once(s) /\ ~InSeq(s, k)
    BY <1>2, <1>3, <1>4
  <2> HIDE DEF s
  <2>2. Once(Append(s, k)) /\ \A x : InSeq(Append(s, k), x) => InSeq(s, x) \/ x = k
    BY <2>1, AppendOnce
  <2>. QED BY <2>1, <2>2 DEF s
<1>6. \A j \in 1 .. Len(c) : \A x : InSeq(d[j].keys, x) => InSeq(c[j].keys, x) \/ (x = k /\ j = i)
  BY <1>3, <1>5
<1>7. \A j \in 1 .. Len(c) : Once(d[j].keys)
  BY <1>3, <1>5 DEF ChainOnce
<1>8. ChainOnce(d)
  <2> SUFFICES ASSUME NEW j \in 1 .. Len(c), NEW e \in 1 .. Len(c), NEW x,
                      InSeq(d[j].keys, x), InSeq(d[e].keys, x)
               PROVE  j = e
    BY <1>3, <1>7 DEF ChainOnce
  <2>1. ~InSeq(c[j].keys, k) /\ ~InSeq(c[e].keys, k)
    BY DEF On
  <2>. QED BY <1>6, <2>1, ZenonT(40) DEF ChainOnce
<1>9. \A x : On(d, x) => On(c, x) \/ x = k
  BY <1>3, <1>6 DEF On
<1>. QED BY <1>8, <1>9 DEF d

\* A chain gets a page whose keys are not on it.
LEMMA ChainLongerOnce ==
  ASSUME NEW c \in Seq(HashPage), NEW pg \in HashPage,
         ChainOnce(c), Once(pg.keys), \A x : InSeq(pg.keys, x) => ~On(c, x)
  PROVE  /\ ChainOnce(Append(c, pg))
         /\ \A x : On(Append(c, pg), x) => On(c, x) \/ InSeq(pg.keys, x)
<1> DEFINE d == Append(c, pg)
<1>1. /\ Len(c) \in Nat /\ Len(d) = Len(c) + 1
      /\ \A j \in 1 .. Len(c) : d[j] = c[j]
      /\ d[Len(c) + 1] = pg
  BY AppendProperties, LenProperties
<1> HIDE DEF d
<1>2. \A j \in 1 .. Len(d) : j \in 1 .. Len(c) \/ j = Len(c) + 1
  BY <1>1
<1>3. \A j \in 1 .. Len(d) : Once(d[j].keys)
  BY <1>1, <1>2 DEF ChainOnce
<1>4. ChainOnce(d)
  <2> SUFFICES ASSUME NEW j \in 1 .. Len(d), NEW e \in 1 .. Len(d), NEW x,
                      InSeq(d[j].keys, x), InSeq(d[e].keys, x)
               PROVE  j = e
    BY <1>3 DEF ChainOnce
  <2>1. InSeq(pg.keys, x) => \A i \in 1 .. Len(c) : ~InSeq(c[i].keys, x)
    BY DEF On
  <2>. QED BY <1>1, <1>2, <2>1 DEF ChainOnce
<1>5. \A x : On(d, x) => On(c, x) \/ InSeq(pg.keys, x)
  BY <1>1, <1>2 DEF On
<1>. QED BY <1>4, <1>5 DEF d

\* The first page of a chain and the rest share no key.
LEMMA ChainTailOnce ==
  ASSUME NEW c \in Seq(HashPage), c # << >>, ChainOnce(c)
  PROVE  /\ Once(c[1].keys) /\ ChainOnce(Tail(c))
         /\ \A x : InSeq(c[1].keys, x) => On(c, x) /\ ~On(Tail(c), x)
         /\ \A x : On(Tail(c), x) => On(c, x)
<1>1. /\ Len(c) \in Nat /\ Len(c) >= 1 /\ Len(Tail(c)) = Len(c) - 1
      /\ \A i \in 1 .. Len(Tail(c)) : Tail(c)[i] = c[i + 1]
  BY HeadTailProperties, LenProperties, EmptySeq
<1>2. /\ 1 \in 1 .. Len(c)
      /\ \A i \in 1 .. Len(Tail(c)) : i + 1 \in 1 .. Len(c) /\ i + 1 # 1
  BY <1>1
<1>3. Once(c[1].keys)
  BY <1>2 DEF ChainOnce
<1>4. \A i \in 1 .. Len(Tail(c)) : Once(Tail(c)[i].keys)
  BY <1>1, <1>2 DEF ChainOnce
<1>5. ASSUME NEW i \in 1 .. Len(Tail(c)), NEW j \in 1 .. Len(Tail(c)), NEW x,
             InSeq(Tail(c)[i].keys, x), InSeq(Tail(c)[j].keys, x)
      PROVE  i = j
  <2>1. i + 1 = j + 1
    BY <1>1, <1>2, <1>5 DEF ChainOnce
  <2>. QED BY <2>1
<1>6. ChainOnce(Tail(c))
  BY <1>4, <1>5 DEF ChainOnce
<1>7. \A x : On(Tail(c), x) => On(c, x)
  BY <1>1, <1>2 DEF On
<1>8. \A x : InSeq(c[1].keys, x) => On(c, x)
  BY <1>2 DEF On
<1>9. ASSUME NEW x, InSeq(c[1].keys, x), On(Tail(c), x) PROVE FALSE
  <2>1. PICK i \in 1 .. Len(Tail(c)) : InSeq(Tail(c)[i].keys, x)
    BY <1>9 DEF On
  <2>2. InSeq(c[i + 1].keys, x) /\ i + 1 \in 1 .. Len(c) /\ i + 1 # 1
    BY <1>1, <1>2, <2>1
  <2>. QED BY <1>2, <1>9, <2>2 DEF ChainOnce
<1>. QED BY <1>3, <1>6, <1>7, <1>8, <1>9

\* Lists and chains without keys.
LEMMA EmptyOnce ==
  /\ Once(<< >>) /\ ChainOnce(<< >>) /\ ChainOnce(<<EmptyPage>>)
  /\ \A k : ~InSeq(<< >>, k) /\ ~On(<< >>, k) /\ ~On(<<EmptyPage>>, k)
<1>1. Once(<< >>) /\ \A k : ~InSeq(<< >>, k)
  BY DEF Once, InSeq
<1>2. ChainOnce(<< >>) /\ \A k : ~On(<< >>, k)
  BY DEF ChainOnce, On
<1>3. /\ Len(<<EmptyPage>>) = 1
      /\ \A i \in 1 .. 1 : i = 1 /\ <<EmptyPage>>[i].keys = << >>
  BY EmptyIsPage
<1>4. ChainOnce(<<EmptyPage>>) /\ \A k : ~On(<<EmptyPage>>, k)
  <2> DEFINE c == <<EmptyPage>>
  <2>1. Len(c) = 1 /\ \A i \in 1 .. 1 : i = 1 /\ c[i].keys = << >>
    BY <1>3
  <2> HIDE DEF c
  <2>2. ChainOnce(c) /\ \A k : ~On(c, k)
    BY <1>1, <2>1 DEF ChainOnce, On
  <2>. QED BY <2>2 DEF c
<1>. QED BY <1>1, <1>2, <1>4

\* A new table.
LEMMA OnceInit ==
  ASSUME Init PROVE OnceInv
<1>1. \A b \in Buckets : chain[b] = << >> \/ chain[b] = <<EmptyPage>>
  BY DEF Init
<1>2. split.todo = << >> /\ split.chain = << >> /\ stored = {} /\ phase = "idle"
  BY DEF Init, NoSplit
<1>3. \A b \in Buckets : ChainOnce(chain[b]) /\ \A k : ~On(chain[b], k)
  BY <1>1, EmptyOnce
<1>4. OnePlace
  BY <1>2, <1>3, EmptyOnce DEF OnePlace
<1>5. OnlyStored
  BY <1>2, <1>3, EmptyOnce, FS_EmptySet DEF OnlyStored
<1>. QED BY <1>2, <1>4, <1>5 DEF OnceInv, SplitDone

\* One chain is replaced by another that has the same keys, or one more that
\* was nowhere on a chain.
LEMMA ChainReplaced ==
  ASSUME chain \in [Buckets -> Seq(HashPage)], OnceInv, NEW b \in Buckets, NEW d, NEW k,
         chain' = [chain EXCEPT ![b] = d],
         ChainOnce(d),
         \A x : On(d, x) => \/ On(chain[b], x)
                            \/ x = k /\ \A c \in Buckets : ~On(chain[c], k)
  PROVE  /\ \A c \in Buckets : ChainOnce(chain'[c])
         /\ \A c, e \in Buckets : \A x : On(chain'[c], x) /\ On(chain'[e], x) => c = e
         /\ \A c \in Buckets : \A x : On(chain'[c], x) => On(chain[c], x) \/ x = k
<1>1. \A c \in Buckets : chain'[c] = IF c = b THEN d ELSE chain[c]
  OBVIOUS
<1>2. /\ \A c \in Buckets : ChainOnce(chain[c])
      /\ \A c, e \in Buckets : \A x : On(chain[c], x) /\ On(chain[e], x) => c = e
  BY DEF OnceInv, OnePlace
<1>3. \A c \in Buckets : ChainOnce(chain'[c])
  BY <1>1, <1>2
<1>4. \A c \in Buckets : \A x :
        On(chain'[c], x) => \/ On(chain[c], x)
                            \/ x = k /\ c = b /\ \A e \in Buckets : ~On(chain[e], k)
  BY <1>1
<1>5. ASSUME NEW c \in Buckets, NEW e \in Buckets, NEW x, On(chain'[c], x), On(chain'[e], x)
      PROVE  c = e
  BY <1>2, <1>4, <1>5
<1>. QED BY <1>3, <1>4, <1>5

\* A put that finds room on its page changes no chain.
LEMMA PutOnce ==
  ASSUME HashInv, OnceInv, NEW k \in Keys, Put(k)
  PROVE  OnceInv'
<1> DEFINE b == CallHash(k)
<1>1. b \in 0 .. maxBucket
  BY HashOfKey DEF HashInv
<1>2. /\ chain' = chain /\ stored' = stored /\ split' = split
      /\ phase = "idle" /\ phase' = "data" /\ item'.key = k /\ k \notin stored
  BY <1>1, SoughtAll DEF Put
<1>. QED BY <1>2 DEF OnceInv, SplitDone, OnePlace, OnlyStored

\* A put that chains an empty page.
LEMMA PutOverflowOnce ==
  ASSUME HashInv, OnceInv, NEW k \in Keys, PutOverflow(k)
  PROVE  OnceInv'
<1> DEFINE b == CallHash(k)
           d == Append(chain[b], EmptyPage)
<1>1. /\ b \in 0 .. maxBucket /\ b \in Buckets /\ chain[b] \in Seq(HashPage)
      /\ chain \in [Buckets -> Seq(HashPage)]
  BY HashOfKey, InUse DEF HashInv, KeyTypes
<1>2. /\ chain' = [chain EXCEPT ![b] = d] /\ stored' = stored /\ split' = split
      /\ phase = "idle" /\ phase' = "data" /\ item'.key = k /\ k \notin stored
  BY <1>1, SoughtSame DEF PutOverflow
<1>3. ChainOnce(d) /\ \A x : On(d, x) => On(chain[b], x)
  <2>1. ChainOnce(chain[b]) /\ Once(EmptyPage.keys) /\ \A x : ~InSeq(EmptyPage.keys, x)
    BY <1>1, EmptyIsPage, EmptyOnce DEF OnceInv, OnePlace
  <2>. QED BY <1>1, <2>1, EmptyIsPage, ChainLongerOnce
<1> HIDE DEF b, d
<1>4. /\ \A c \in Buckets : ChainOnce(chain'[c])
      /\ \A c, e \in Buckets : \A x : On(chain'[c], x) /\ On(chain'[e], x) => c = e
      /\ \A c \in Buckets : \A x : On(chain'[c], x) => On(chain[c], x) \/ x = k
  <2>1. \A c \in Buckets : ~On(chain[c], k)
    BY <1>2 DEF OnceInv, OnlyStored
  <2>. QED BY <1>1, <1>2, <1>3, <2>1, ChainReplaced
<1>5. \A c \in Buckets : \A x : On(chain'[c], x) => On(chain[c], x)
  <2>1. \A c \in Buckets : chain'[c] = IF c = b THEN d ELSE chain[c]
    BY <1>1, <1>2
  <2>. QED BY <1>3, <2>1
<1>. QED BY <1>2, <1>4, <1>5 DEF OnceInv, SplitDone, OnePlace, OnlyStored

\* The new key is written on the page.
LEMMA StoreOnce ==
  ASSUME HashInv, OnceInv, Store
  PROVE  OnceInv'
<1> DEFINE b == item.bucket
           c == chain[b]
           k == item.key
           d == [c EXCEPT ![Len(c)] = Added(c[Len(c)], k)]
<1>1. /\ chain' = [chain EXCEPT ![b] = d] /\ stored' = stored \cup {k}
      /\ split' = split /\ phase = "data" /\ phase' \notin {"split", "data"}
  BY DEF Store
<1>2. /\ k \in Keys /\ b \in 0 .. maxBucket /\ c \in Seq(HashPage)
      /\ b \in Buckets /\ chain \in [Buckets -> Seq(HashPage)]
  <2>1. k \in Keys /\ b = CallHash(k) /\ chain \in [Buckets -> Seq(HashPage)]
    BY <1>1 DEF HashInv, KeyTypes, PutAt
  <2>. QED BY <2>1, HashOfKey, InUse DEF HashInv
<1>3. Len(c) \in 1 .. Len(c)
  <2>1. Len(c) \in Nat /\ Len(c) >= 1
    BY <1>2 DEF HashInv, BaseFirst
  <2>. QED BY <2>1
<1>4. k \notin stored /\ \A e \in Buckets : ~On(chain[e], k)
  BY <1>1 DEF OnceInv, OnlyStored
<1>5. ChainOnce(d) /\ \A x : On(d, x) => On(c, x) \/ x = k
  <2>1. ChainOnce(c) /\ ~On(c, k)
    BY <1>2, <1>4 DEF OnceInv, OnePlace
  <2>. QED BY <1>2, <1>3, <2>1, ChainAddedOnce
<1> HIDE DEF d, k, b
<1>6. /\ \A e \in Buckets : ChainOnce(chain'[e])
      /\ \A e, f \in Buckets : \A x : On(chain'[e], x) /\ On(chain'[f], x) => e = f
      /\ \A e \in Buckets : \A x : On(chain'[e], x) => On(chain[e], x) \/ x = k
  BY <1>1, <1>2, <1>4, <1>5, ChainReplaced
<1>7. split.todo = << >> /\ split.chain = << >>
  BY <1>1 DEF OnceInv, SplitDone
<1>8. SplitDone'
  BY <1>1, <1>7 DEF SplitDone
<1>9. OnePlace'
  BY <1>1, <1>6, <1>7, EmptyOnce DEF OnePlace
<1>10. OnlyStored'
  <2>1. IsFiniteSet(stored')
    BY <1>1, FS_AddElement DEF OnceInv, OnlyStored
  <2>. QED BY <1>1, <1>6, <1>7, <2>1, EmptyOnce DEF OnceInv, OnlyStored
<1>. QED BY <1>8, <1>9, <1>10 DEF OnceInv

\* The old bucket is emptied; its keys are on the pages of the split.
LEMMA ExpandOnce ==
  ASSUME HashInv, OnceInv, Expand
  PROVE  OnceInv'
<1> DEFINE new == maxBucket + 1
           old == OldBucket(new)
           c   == chain[old]
<1>1. old \in 0 .. maxBucket
  BY MasksGrow
<1>2. /\ new \in Buckets /\ old \in Buckets /\ new # old /\ c \in Seq(HashPage)
      /\ c # << >> /\ chain \in [Buckets -> Seq(HashPage)]
  <2>1. maxBucket \in Nat /\ MaxBuckets \in Nat /\ maxBucket < MaxBuckets
    BY InUse, HashAssumption DEF HashInv, PutAt, Expand
  <2>2. c \in Seq(HashPage) /\ chain \in [Buckets -> Seq(HashPage)]
    BY <1>1, InUse DEF HashInv, KeyTypes
  <2>3. Len(c) >= 1 /\ Len(c) \in Nat
    BY <1>1, <2>2 DEF HashInv, BaseFirst
  <2>. QED BY <1>1, <2>1, <2>2, <2>3 DEF Buckets
<1> HIDE DEF old
<1>3. /\ chain' = [[chain EXCEPT ![new] = <<EmptyPage>>] EXCEPT ![old] = <<EmptyPage>>]
      /\ phase = "expand" /\ phase' = "split" /\ stored' = stored
  BY DEF Expand, Emptied, old
<1>4. split'.todo = c[1].keys /\ split'.chain = Tail(c)
  <2>1. [chain EXCEPT ![new] = <<EmptyPage>>][old] = c
    BY <1>2
  <2>. QED BY <2>1 DEF Expand, old
<1>5. \A b \in Buckets : chain'[b] = IF b \in {new, old} THEN <<EmptyPage>> ELSE chain[b]
  BY <1>2, <1>3
<1>6. /\ Once(c[1].keys) /\ ChainOnce(Tail(c))
      /\ \A x : InSeq(c[1].keys, x) => On(c, x) /\ ~On(Tail(c), x)
      /\ \A x : On(Tail(c), x) => On(c, x)
  <2>1. ChainOnce(c)
    BY <1>2 DEF OnceInv, OnePlace
  <2>. QED BY <1>2, <2>1, ChainTailOnce
<1>7. \A b \in Buckets : \A x : On(chain'[b], x) => On(chain[b], x) /\ b # old
  BY <1>5, EmptyOnce
<1>8. \A b \in Buckets : ChainOnce(chain'[b])
  BY <1>5, EmptyOnce DEF OnceInv, OnePlace
<1> HIDE DEF new, c
<1>9. OnePlace'
  <2>1. \A b, e \in Buckets : \A x : On(chain'[b], x) /\ On(chain'[e], x) => b = e
    BY <1>7 DEF OnceInv, OnePlace
  <2>2. \A b \in Buckets : \A x : On(chain'[b], x) => ~On(c, x)
    BY <1>2, <1>7 DEF OnceInv, OnePlace, c
  <2>. QED BY <1>4, <1>6, <1>8, <2>1, <2>2 DEF OnePlace
<1>10. OnlyStored'
  <2>1. \A x : On(c, x) => x \in stored
    BY <1>2 DEF OnceInv, OnlyStored, c
  <2>. QED BY <1>3, <1>4, <1>6, <1>7, <2>1 DEF OnceInv, OnlyStored
<1>11. SplitDone'
  BY <1>3 DEF SplitDone
<1>. QED BY <1>9, <1>10, <1>11 DEF OnceInv

\* The key at the head of split_buf goes to a chain.
LEMMA MovedOnce ==
  ASSUME HashInv, OnceInv, phase = "split", split.todo # << >>,
         UNCHANGED <<stored, phase, item>>,
         split' = [split EXCEPT !.todo = Tail(split.todo)],
         NEW b \in Buckets, NEW d, ChainOnce(d),
         \A x : On(d, x) => On(chain[b], x) \/ x = Head(split.todo),
         chain' = [chain EXCEPT ![b] = d]
  PROVE  OnceInv'
<1> DEFINE k == Head(split.todo)
<1>1. split.todo \in Seq(Keys) /\ chain \in [Buckets -> Seq(HashPage)]
  BY DEF HashInv, KeyTypes
<1>2. split'.todo = Tail(split.todo) /\ split'.chain = split.chain
  BY DEF HashInv, KeyTypes
<1>3. /\ InSeq(split.todo, k)
      /\ \A x : InSeq(Tail(split.todo), x) => InSeq(split.todo, x)
      /\ Once(Tail(split.todo)) /\ ~InSeq(Tail(split.todo), k)
  BY <1>1, TailOnce DEF OnceInv, OnePlace
<1>4. k \in stored /\ ~On(split.chain, k) /\ \A c \in Buckets : ~On(chain[c], k)
  BY <1>3 DEF OnceInv, OnePlace, OnlyStored
<1> HIDE DEF k
<1>5. /\ \A c \in Buckets : ChainOnce(chain'[c])
      /\ \A c, e \in Buckets : \A x : On(chain'[c], x) /\ On(chain'[e], x) => c = e
      /\ \A c \in Buckets : \A x : On(chain'[c], x) => On(chain[c], x) \/ x = k
  <2>1. \A x : On(d, x) => \/ On(chain[b], x)
                           \/ x = k /\ \A c \in Buckets : ~On(chain[c], k)
    BY <1>4 DEF k
  <2>. QED BY <1>1, <2>1, ChainReplaced
<1>6. OnePlace'
  <2>1. Once(split'.todo) /\ ChainOnce(split'.chain)
    BY <1>2, <1>3 DEF OnceInv, OnePlace
  <2>2. \A x : ~(InSeq(split'.todo, x) /\ On(split'.chain, x))
    BY <1>2, <1>3 DEF OnceInv, OnePlace
  <2>3. ASSUME NEW c \in Buckets, NEW x, On(chain'[c], x)
        PROVE  ~InSeq(split'.todo, x) /\ ~On(split'.chain, x)
    <3>1. CASE On(chain[c], x)
      BY <1>2, <1>3, <3>1 DEF OnceInv, OnePlace
    <3>2. CASE x = k
      BY <1>2, <1>3, <1>4, <3>2
    <3>. QED BY <1>5, <2>3, <3>1, <3>2
  <2>. QED BY <1>5, <2>1, <2>2, <2>3 DEF OnePlace
<1>7. OnlyStored'
  BY <1>2, <1>3, <1>4, <1>5 DEF OnceInv, OnlyStored
<1>8. SplitDone'
  BY DEF SplitDone
<1>. QED BY <1>6, <1>7, <1>8 DEF OnceInv

\* It goes on the first page with room.
LEMMA MoveKeyOnce ==
  ASSUME HashInv, OnceInv, MoveKey
  PROVE  OnceInv'
<1> DEFINE k == Head(split.todo)
           b == Target(k)
           c == chain[b]
           i == Min(Room(b, k))
           d == [c EXCEPT ![i] = Added(c[i], k)]
<1>1. /\ phase = "split" /\ split.todo # << >> /\ Room(b, k) # {}
      /\ UNCHANGED <<stored, phase, item>>
      /\ split' = [split EXCEPT !.todo = Tail(split.todo)]
      /\ chain' = [chain EXCEPT ![b] = d]
  BY DEF MoveKey
<1>2. /\ k \in Keys /\ b \in Buckets /\ c \in Seq(HashPage)
  BY <1>1, TargetChain, InUse DEF HashInv
<1>3. i \in 1 .. Len(c)
  <2>1. Room(b, k) \in SUBSET Nat /\ Room(b, k) \subseteq 1 .. Len(c)
    BY <1>2 DEF Room
  <2>2. \E x \in Room(b, k) : \A y \in Room(b, k) : x <= y
    BY <1>1, <2>1, LeastExists
  <2>3. i \in Room(b, k)
    BY <2>2 DEF Min
  <2>. QED BY <2>1, <2>3
<1>4. ChainOnce(c) /\ ~On(c, k)
  <2>1. InSeq(split.todo, k)
    BY <1>1, TailOnce DEF HashInv, KeyTypes
  <2>. QED BY <1>2, <2>1 DEF OnceInv, OnePlace
<1> HIDE DEF i
<1>5. ChainOnce(d) /\ \A x : On(d, x) => On(c, x) \/ x = k
  BY <1>2, <1>3, <1>4, ChainAddedOnce
<1> HIDE DEF d
<1>. QED BY <1>1, <1>2, <1>5, MovedOnce

\* It goes on a page chained for it.
LEMMA MoveOverflowOnce ==
  ASSUME HashInv, OnceInv, MoveOverflow
  PROVE  OnceInv'
<1> DEFINE k  == Head(split.todo)
           b  == Target(k)
           c  == chain[b]
           pg == Added(EmptyPage, k)
           d  == Append(c, pg)
<1>1. /\ phase = "split" /\ split.todo # << >>
      /\ UNCHANGED <<stored, phase, item>>
      /\ split' = [split EXCEPT !.todo = Tail(split.todo)]
      /\ chain' = [chain EXCEPT ![b] = d]
  BY DEF MoveOverflow
<1>2. /\ k \in Keys /\ b \in Buckets /\ c \in Seq(HashPage)
  BY <1>1, TargetChain, InUse DEF HashInv
<1>3. ChainOnce(c) /\ ~On(c, k)
  <2>1. InSeq(split.todo, k)
    BY <1>1, TailOnce DEF HashInv, KeyTypes
  <2>. QED BY <1>2, <2>1 DEF OnceInv, OnePlace
<1>4. pg \in HashPage /\ Once(pg.keys) /\ \A x : InSeq(pg.keys, x) => x = k
  <2>1. pg \in HashPage
    BY <1>2, EmptyIsPage, PageAdded
  <2>2. pg.keys = Append(<< >>, k) /\ << >> \in Seq(Keys)
    BY EmptyIsPage DEF Added
  <2>. QED BY <1>2, <2>1, <2>2, AppendOnce, EmptyOnce
<1> HIDE DEF pg
<1>5. ChainOnce(d) /\ \A x : On(d, x) => On(c, x) \/ x = k
  <2>1. \A x : InSeq(pg.keys, x) => ~On(c, x)
    BY <1>3, <1>4
  <2>2. ChainOnce(d) /\ \A x : On(d, x) => On(c, x) \/ InSeq(pg.keys, x)
    BY <1>2, <1>3, <1>4, <2>1, ChainLongerOnce
  <2>. QED BY <1>4, <2>2
<1> HIDE DEF d
<1>. QED BY <1>1, <1>2, <1>5, MovedOnce

\* The next page of the old chain.
LEMMA NextPageOnce ==
  ASSUME HashInv, OnceInv, NextPage
  PROVE  OnceInv'
<1>1. phase = "split" /\ UNCHANGED <<chain, stored, item>> /\ split.todo = << >>
  BY DEF NextPage
<1>2. CASE split.chain = << >>
  <2>1. phase' = "idle" /\ split'.todo = << >> /\ split'.chain = << >>
    BY <1>2 DEF NextPage, NoSplit
  <2>. QED BY <1>1, <1>2, <2>1 DEF OnceInv, OnePlace, OnlyStored, SplitDone
<1>3. CASE split.chain # << >>
  <2> DEFINE c == split.chain
  <2>1. c \in Seq(HashPage) /\ Head(c) = c[1]
    BY <1>3, ChainTail DEF HashInv, KeyTypes
  <2>2. phase' = "split" /\ split'.todo = c[1].keys /\ split'.chain = Tail(c)
    BY <1>1, <1>3, <2>1 DEF NextPage, HashInv, KeyTypes
  <2>3. /\ Once(c[1].keys) /\ ChainOnce(Tail(c))
        /\ \A x : InSeq(c[1].keys, x) => On(c, x) /\ ~On(Tail(c), x)
        /\ \A x : On(Tail(c), x) => On(c, x)
    BY <1>3, <2>1, ChainTailOnce DEF OnceInv, OnePlace
  <2>4. OnePlace'
    BY <1>1, <2>2, <2>3 DEF OnceInv, OnePlace
  <2>5. OnlyStored'
    BY <1>1, <2>2, <2>3 DEF OnceInv, OnlyStored
  <2>. QED BY <2>2, <2>4, <2>5 DEF OnceInv, SplitDone
<1>. QED BY <1>2, <1>3

\* Every step keeps every key at one place.
LEMMA OnceNext ==
  ASSUME HashInv, OnceInv, [Next]_vars
  PROVE  OnceInv'
<1>1. ASSUME NEW k \in Keys, Put(k) PROVE OnceInv'
  BY <1>1, PutOnce
<1>2. ASSUME NEW k \in Keys, PutOverflow(k) PROVE OnceInv'
  BY <1>2, PutOverflowOnce
<1>3. ASSUME MoreData PROVE OnceInv'
  <2>1. UNCHANGED <<chain, stored, phase, split>> /\ item'.key = item.key
    BY <1>3 DEF MoreData, HashInv, KeyTypes
  <2>. QED BY <2>1 DEF OnceInv, OnePlace, OnlyStored, SplitDone
<1>4. ASSUME Working PROVE OnceInv'
  BY <1>3, <1>4, StoreOnce, ExpandOnce, MoveKeyOnce, MoveOverflowOnce,
     NextPageOnce DEF Working
<1>5. ASSUME UNCHANGED vars PROVE OnceInv'
  BY <1>5 DEF vars, OnceInv, OnePlace, OnlyStored, SplitDone
<1>. QED BY <1>1, <1>2, <1>4, <1>5 DEF Next


\* Between two puts the places of the chains are as many as the keys put.
LEMMA OnceIsOnce ==
  ASSUME HashInv, OnceInv
  PROVE  KeysOnce
<1> SUFFICES ASSUME phase = "idle" PROVE KeysOnce
  BY DEF KeysOnce
<1> DEFINE At(b) == UNION {{<<b, i, j>> : j \in DOMAIN chain[b][i].keys}
                             : i \in DOMAIN chain[b]}
           All   == UNION {At(b) : b \in Buckets}
           f     == [u \in All |-> chain[u[1]][u[2]].keys[u[3]]]
<1>1. \A b \in Buckets : /\ chain[b] \in Seq(HashPage)
                         /\ \A i \in DOMAIN chain[b] : chain[b][i].keys \in Seq(Keys)
  <2>1. chain \in [Buckets -> Seq(HashPage)]
    BY DEF HashInv, KeyTypes
  <2>2. ASSUME NEW b \in Buckets, NEW i \in DOMAIN chain[b]
        PROVE  chain[b][i].keys \in Seq(Keys)
    <3>1. chain[b] \in Seq(HashPage) /\ i \in 1 .. Len(chain[b])
      BY <2>1
    <3>2. chain[b][i] \in HashPage
      BY <3>1, ElementOfSeq
    <3>. QED BY <3>2 DEF HashPage
  <2>. QED BY <2>1, <2>2
<1>2. ASSUME NEW u \in All
      PROVE  \E b \in Buckets : \E i \in 1 .. Len(chain[b]) :
               \E j \in 1 .. Len(chain[b][i].keys) :
                 u = <<b, i, j>> /\ f[u] = chain[b][i].keys[j]
  <2>1. PICK b \in Buckets : u \in At(b)
    BY <1>2
  <2>2. PICK i \in DOMAIN chain[b] : \E j \in DOMAIN chain[b][i].keys : u = <<b, i, j>>
    BY <2>1
  <2>3. PICK j \in DOMAIN chain[b][i].keys : u = <<b, i, j>>
    BY <2>2
  <2>4. i \in 1 .. Len(chain[b]) /\ j \in 1 .. Len(chain[b][i].keys)
    BY <1>1
  <2>5. f[u] = chain[b][i].keys[j]
    BY <2>3
  <2>. QED BY <2>3, <2>4, <2>5
<1>3. ASSUME NEW b \in Buckets, NEW i \in 1 .. Len(chain[b]),
             NEW j \in 1 .. Len(chain[b][i].keys)
      PROVE  <<b, i, j>> \in All
  <2>1. i \in DOMAIN chain[b] /\ j \in DOMAIN chain[b][i].keys
    BY <1>1
  <2>2. <<b, i, j>> \in At(b)
    BY <2>1
  <2>. QED BY <2>2
<1>4. DOMAIN f = All /\ {chain[u[1]][u[2]].keys[u[3]] : u \in All} = {f[u] : u \in All}
      /\ f = [u \in All |-> f[u]]
  OBVIOUS
<1>5. KeysOnce <=> {f[u] : u \in All} = stored /\ Cardinality(All) = Cardinality(stored)
  BY <1>4 DEF KeysOnce
<1> HIDE DEF f, All
<1>6. \A u \in All : f[u] \in stored
  BY <1>2 DEF OnceInv, OnlyStored, On, InSeq
<1>7. \A u, v \in All : f[u] = f[v] => u = v
  <2> SUFFICES ASSUME NEW u \in All, NEW v \in All, f[u] = f[v] PROVE u = v
    OBVIOUS
  <2>1. PICK b \in Buckets : \E i \in 1 .. Len(chain[b]) :
          \E j \in 1 .. Len(chain[b][i].keys) :
            u = <<b, i, j>> /\ f[u] = chain[b][i].keys[j]
    BY <1>2
  <2>2. PICK c \in Buckets : \E i \in 1 .. Len(chain[c]) :
          \E j \in 1 .. Len(chain[c][i].keys) :
            v = <<c, i, j>> /\ f[v] = chain[c][i].keys[j]
    BY <1>2
  <2>3. PICK i \in 1 .. Len(chain[b]) : \E j \in 1 .. Len(chain[b][i].keys) :
          u = <<b, i, j>> /\ f[u] = chain[b][i].keys[j]
    BY <2>1
  <2>4. PICK m \in 1 .. Len(chain[c]) : \E n \in 1 .. Len(chain[c][m].keys) :
          v = <<c, m, n>> /\ f[v] = chain[c][m].keys[n]
    BY <2>2
  <2>5. PICK j \in 1 .. Len(chain[b][i].keys) :
          u = <<b, i, j>> /\ f[u] = chain[b][i].keys[j]
    BY <2>3
  <2>6. PICK n \in 1 .. Len(chain[c][m].keys) :
          v = <<c, m, n>> /\ f[v] = chain[c][m].keys[n]
    BY <2>4
  <2>7. InSeq(chain[b][i].keys, f[u]) /\ InSeq(chain[c][m].keys, f[u])
    BY <2>5, <2>6 DEF InSeq
  <2>8. On(chain[b], f[u]) /\ On(chain[c], f[u])
    BY <2>7 DEF On
  <2>9. b = c
    BY <2>8 DEF OnceInv, OnePlace
  <2>10. ChainOnce(chain[b])
    BY DEF OnceInv, OnePlace
  <2>11. i = m
    BY <2>7, <2>9, <2>10 DEF ChainOnce
  <2>12. j = n
    BY <2>5, <2>6, <2>9, <2>10, <2>11 DEF ChainOnce, Once
  <2>. QED BY <2>5, <2>6, <2>9, <2>11, <2>12
<1>8. ASSUME NEW k \in stored
      PROVE  \E u \in All : f[u] = k
  <2>1. k \in Keys /\ ~InSeq(split.todo, k) /\ ~On(split.chain, k)
    BY DEF HashInv, KeyTypes, OnceInv, SplitDone, InSeq, On
  <2>2. CallHash(k) \in Buckets
    BY <2>1, HashOfKey, InUse DEF HashInv
  <2>3. On(chain[CallHash(k)], k)
    BY <2>1 DEF HashInv, Placed, Pending
  <2>4. PICK b \in Buckets : On(chain[b], k)
    BY <2>2, <2>3
  <2>5. PICK i \in 1 .. Len(chain[b]) : \E j \in 1 .. Len(chain[b][i].keys) : 
          chain[b][i].keys[j] = k
    BY <2>4 DEF On, InSeq
  <2>6. PICK j \in 1 .. Len(chain[b][i].keys) : chain[b][i].keys[j] = k
    BY <2>5
  <2>7. <<b, i, j>> \in All
    BY <1>3
  <2>8. f[<<b, i, j>>] = k
    BY <2>6, <2>7 DEF f
  <2>. QED BY <2>7, <2>8
<1>9. f \in [All -> stored]
  BY <1>4, <1>6
<1>10. f \in Injection(All, stored) /\ f \in Surjection(All, stored)
  BY <1>4, <1>7, <1>8, <1>9 DEF Injection, Surjection, IsInjective
<1>11. Cardinality(All) = Cardinality(stored)
  BY <1>10, FS_Injection DEF OnceInv, OnlyStored
<1>. QED BY <1>5, <1>6, <1>8, <1>11

\* A split neither copies a key nor forgets one: between two puts every key
\* that was put is on one page of its chain, once, and no other key is on
\* any page (ffdb_split_bucket and _ffdb_add_key_datap_to_bucket).
THEOREM SplitKeepsKeysOnce ==
  ASSUME TwoBuckets, SmallKeys
  PROVE  Spec => []KeysOnce
<1>1. Init => HashInv /\ OnceInv
  BY InitInv, OnceInit
<1>2. HashInv /\ OnceInv /\ [Next]_vars => HashInv' /\ OnceInv'
  BY StepInv, OnceNext
<1>3. HashInv /\ OnceInv => KeysOnce
  BY OnceIsOnce
<1>. QED BY <1>1, <1>2, <1>3, PTL DEF Spec


-----------------------------------------------------------------------------
(***************************************************************************)
(* Powers of two.  A function with the recursion of Pow2 exists (it is put *)
(* together from finite beginnings), so Pow2 satisfies its own equation.   *)
(***************************************************************************)
Doubling(g, n) ==
  /\ g \in [0 .. n -> Nat \ {0}]
  /\ g[0] = 1
  /\ \A i \in 0 .. n - 1 : g[i + 1] = 2 * g[i]

LEMMA DoublingExists ==
  ASSUME NEW n \in Nat
  PROVE  \E g : Doubling(g, n)
<1> DEFINE T == {m \in Nat : ~\E g : Doubling(g, m)}
<1>1. ASSUME T # {} PROVE FALSE
  <2>1. T \in SUBSET Nat
    OBVIOUS
  <2>. HIDE DEF T
  <2>2. PICK m \in T : \A y \in T : m <= y
    BY <1>1, <2>1, LeastExists
  <2>3. m \in Nat /\ ~\E g : Doubling(g, m)
    BY DEF T
  <2>4. CASE m = 0
    <3>. DEFINE g == [i \in 0 .. 0 |-> 1]
    <3>1. Doubling(g, 0)
      BY DEF Doubling
    <3>. QED BY <2>3, <2>4, <3>1
  <2>5. CASE m # 0
    <3>. DEFINE l == m - 1
    <3>1. l \in Nat /\ l + 1 = m /\ ~(m <= l)
      BY <2>3, <2>5
    <3>. HIDE DEF l
    <3>2. \E g : Doubling(g, l)
      <4>1. l \notin T
        BY <2>2, <3>1
      <4>. QED BY <3>1, <4>1 DEF T
    <3>3. PICK g : Doubling(g, l)
      BY <3>2
    <3>. DEFINE h == [i \in 0 .. m |-> IF i = m THEN 2 * g[l] ELSE g[i]]
    <3>4. /\ g \in [0 .. l -> Nat \ {0}] /\ g[0] = 1
          /\ \A i \in 0 .. l - 1 : g[i + 1] = 2 * g[i]
      BY <3>3 DEF Doubling
    <3>5. h[0] = 1
      BY <2>3, <2>5, <3>4
    <3>6. h \in [0 .. m -> Nat \ {0}]
      <4>1. \A i \in 0 .. m : i = m \/ i \in 0 .. l
        BY <3>1
      <4>2. g[l] \in Nat \ {0}
        BY <3>1, <3>4
      <4>3. 2 * g[l] \in Nat \ {0}
        BY <4>2
      <4>. QED BY <3>4, <4>1, <4>3
    <3>7. \A i \in 0 .. m - 1 : h[i + 1] = 2 * h[i]
      <4>. TAKE i \in 0 .. m - 1
      <4>1. i \in 0 .. m /\ i + 1 \in 0 .. m /\ i # m /\ h[i] = g[i]
        BY <2>3
      <4>2. CASE i = l
        BY <3>1, <4>1, <4>2
      <4>3. CASE i # l
        <5>1. i \in 0 .. l - 1 /\ i + 1 # m
          BY <3>1, <4>3
        <5>. QED BY <3>4, <4>1, <5>1
      <4>. QED BY <4>2, <4>3
    <3>. HIDE DEF h
    <3>8. Doubling(h, m)
      BY <3>5, <3>6, <3>7 DEF Doubling
    <3>. QED BY <2>3, <3>8
  <2>. QED BY <2>4, <2>5
<1>. QED BY <1>1

LEMMA DoublingSame ==
  ASSUME NEW n \in Nat, NEW m \in Nat, n <= m, NEW g, NEW h,
         Doubling(g, n), Doubling(h, m)
  PROVE  g[n] = h[n]
<1> DEFINE T == {i \in 0 .. n : g[i] # h[i]}
<1>1. ASSUME T # {} PROVE FALSE
  <2>1. T \in SUBSET Nat
    OBVIOUS
  <2>. HIDE DEF T
  <2>2. PICK i \in T : \A y \in T : i <= y
    BY <1>1, <2>1, LeastExists
  <2>3. i \in 0 .. n /\ g[i] # h[i]
    BY DEF T
  <2>4. i # 0
    BY <2>3 DEF Doubling
  <2>. DEFINE l == i - 1
  <2>5. l \in 0 .. n /\ l + 1 = i /\ ~(i <= l)
        /\ l \in 0 .. n - 1 /\ l \in 0 .. m - 1
    BY <2>3, <2>4
  <2>. HIDE DEF l
  <2>6. g[l] = h[l]
    <3>1. l \notin T
      BY <2>2, <2>5
    <3>. QED BY <2>5, <3>1 DEF T
  <2>7. g[l + 1] = 2 * g[l] /\ h[l + 1] = 2 * h[l]
    BY <2>5 DEF Doubling
  <2>. QED BY <2>3, <2>5, <2>6, <2>7
<1>. QED BY <1>1

\* What Pow2 is.
LEMMA Pow2Is ==
  /\ Pow2[0] = 1
  /\ \A n \in Nat : Pow2[n] \in Nat \ {0} /\ Pow2[n + 1] = 2 * Pow2[n]
<1> DEFINE F == [n \in Nat |-> (CHOOSE g : Doubling(g, n))[n]]
           Is(f) == f = [n \in Nat |-> IF n = 0 THEN 1 ELSE 2 * f[n - 1]]
<1>1. ASSUME NEW n \in Nat
      PROVE  \E g : Doubling(g, n) /\ F[n] = g[n]
  <2>1. Doubling(CHOOSE g : Doubling(g, n), n)
    BY DoublingExists
  <2>. QED BY <2>1
<1>. HIDE DEF F
<1>2. F[0] = 1
  BY <1>1 DEF Doubling
<1>3. ASSUME NEW n \in Nat PROVE F[n] \in Nat \ {0} /\ F[n + 1] = 2 * F[n]
  <2>1. PICK g : Doubling(g, n) /\ F[n] = g[n]
    BY <1>1
  <2>2. PICK h : Doubling(h, n + 1) /\ F[n + 1] = h[n + 1]
    BY <1>1
  <2>3. g[n] = h[n]
    BY <2>1, <2>2, DoublingSame
  <2>4. h[n + 1] = 2 * h[n]
    BY <2>2 DEF Doubling
  <2>5. g[n] \in Nat \ {0}
    BY <2>1 DEF Doubling
  <2>. QED BY <2>1, <2>2, <2>3, <2>4, <2>5
<1>4. Is(F)
  <2>1. F = [n \in Nat |-> F[n]]
    BY DEF F
  <2>2. ASSUME NEW n \in Nat PROVE F[n] = IF n = 0 THEN 1 ELSE 2 * F[n - 1]
    <3>1. CASE n = 0
      BY <1>2, <3>1
    <3>2. CASE n # 0
      <4>1. n - 1 \in Nat /\ (n - 1) + 1 = n
        BY <3>2
      <4>. QED BY <1>3, <3>2, <4>1
    <3>. QED BY <3>1, <3>2
  <2>. QED BY <2>1, <2>2, Zenon
<1>5. Pow2 = CHOOSE f : Is(f)
  BY DEF Pow2
<1>6. Is(Pow2)
  BY <1>4, <1>5
<1>7. \A n \in Nat : Pow2[n] = IF n = 0 THEN 1 ELSE 2 * Pow2[n - 1]
  BY <1>6
<1>8. ASSUME NEW n \in Nat PROVE Pow2[n + 1] = 2 * Pow2[n]
  <2>1. n + 1 \in Nat /\ n + 1 # 0 /\ (n + 1) - 1 = n
    OBVIOUS
  <2>. QED BY <1>7, <2>1
<1>9. Pow2[0] = 1
  BY <1>7
<1>10. \A n \in Nat : Pow2[n] = F[n]
  <2>. DEFINE T == {n \in Nat : Pow2[n] # F[n]}
  <2>1. ASSUME T # {} PROVE FALSE
    <3>1. T \in SUBSET Nat
      OBVIOUS
    <3>. HIDE DEF T
    <3>2. PICK i \in T : \A y \in T : i <= y
      BY <2>1, <3>1, LeastExists
    <3>3. i \in Nat /\ Pow2[i] # F[i]
      BY DEF T
    <3>4. i # 0
      BY <1>2, <1>9, <3>3
    <3>. DEFINE l == i - 1
    <3>5. l \in Nat /\ l + 1 = i /\ ~(i <= l)
      BY <3>3, <3>4
    <3>. HIDE DEF l
    <3>6. Pow2[l] = F[l]
      <4>1. l \notin T
        BY <3>2, <3>5
      <4>. QED BY <3>5, <4>1 DEF T
    <3>. QED BY <1>3, <1>8, <3>3, <3>5, <3>6
  <2>. QED BY <2>1
<1>. QED BY <1>3, <1>8, <1>9, <1>10

\* Powers of two grow.
LEMMA Pow2Grows ==
  ASSUME NEW n \in Nat, NEW m \in Nat, n < m
  PROVE  Pow2[n] < Pow2[m]
<1> DEFINE T == {i \in Nat : i > n /\ ~(Pow2[n] < Pow2[i])}
<1>1. ASSUME T # {} PROVE FALSE
  <2>1. T \in SUBSET Nat
    OBVIOUS
  <2>. HIDE DEF T
  <2>2. PICK i \in T : \A y \in T : i <= y
    BY <1>1, <2>1, LeastExists
  <2>3. i \in Nat /\ i > n /\ ~(Pow2[n] < Pow2[i])
    BY DEF T
  <2>. DEFINE l == i - 1
  <2>4. l \in Nat /\ l + 1 = i /\ ~(i <= l) /\ (l = n \/ l > n)
    BY <2>3
  <2>. HIDE DEF l
  <2>5. Pow2[i] = 2 * Pow2[l] /\ Pow2[l] \in Nat \ {0} /\ Pow2[n] \in Nat
    BY <2>4, Pow2Is
  <2>6. l # n
    <3>1. l = n => Pow2[n] < Pow2[i]
      BY <2>5
    <3>. QED BY <2>3, <3>1
  <2>7. Pow2[n] < Pow2[l]
    <3>1. l \notin T
      BY <2>2, <2>4
    <3>. QED BY <2>4, <2>6, <3>1 DEF T
  <2>. QED BY <2>3, <2>5, <2>7
<1>. QED BY <1>1

LEMMA Pow2Order ==
  ASSUME NEW n \in Nat, NEW m \in Nat
  PROVE  /\ Pow2[n] < Pow2[m] => n < m
         /\ n <= m => Pow2[n] <= Pow2[m]
<1>1. Pow2[n] \in Nat /\ Pow2[m] \in Nat
  BY Pow2Is
<1>2. CASE n < m
  BY <1>1, <1>2, Pow2Grows
<1>3. CASE n = m
  BY <1>1, <1>3
<1>4. CASE m < n
  BY <1>1, <1>4, Pow2Grows
<1>. QED BY <1>2, <1>3, <1>4

\* __ffdb_log2 rounds up.
LEMMA Log2Is ==
  ASSUME NEW n \in Nat, NEW l \in Nat, l <= WordBits, n <= Pow2[l],
         l = 0 \/ n > Pow2[l - 1]
  PROVE  Log2(n) = l
<1> DEFINE S == {j \in 0 .. WordBits - 1 : Pow2[j] < n}
<1>0. WordBits \in Nat
  BY HashAssumption
<1>1. ASSUME NEW j \in 0 .. WordBits - 1
      PROVE  Pow2[j] < n <=> j \in 0 .. l - 1
  <2>1. j \in Nat /\ Pow2[j] \in Nat /\ Pow2[l] \in Nat
    BY Pow2Is
  <2>2. CASE j \in 0 .. l - 1
    <3>1. l # 0 /\ l - 1 \in Nat /\ j <= l - 1
      BY <2>2
    <3>2. Pow2[j] <= Pow2[l - 1] /\ Pow2[l - 1] \in Nat
      BY <2>1, <3>1, Pow2Order, Pow2Is
    <3>. QED BY <2>1, <2>2, <3>1, <3>2
  <2>3. CASE j \notin 0 .. l - 1
    <3>1. l <= j
      BY <2>1, <2>3
    <3>2. Pow2[l] <= Pow2[j]
      BY <2>1, <3>1, Pow2Order
    <3>. QED BY <2>1, <2>3, <3>2
  <2>. QED BY <2>2, <2>3
<1>2. S = 0 .. l - 1
  BY <1>0, <1>1
<1>3. Cardinality(0 .. l - 1) = l
  <2>1. 0 \in Int /\ l - 1 \in Int
    OBVIOUS
  <2>2. Cardinality(0 .. l - 1) = IF 0 > l - 1 THEN 0 ELSE (l - 1) - 0 + 1
    BY <2>1, FS_Interval
  <2>. QED BY <2>2
<1>. QED BY <1>2, <1>3 DEF Log2

\* A bucket below 2^l is on level l at the most; one from 2^l on, below
\* 2^(l+1), is on level l + 1.
LEMMA LevelOfBucket ==
  ASSUME NEW l \in Nat, l <= WordBits, NEW b \in 0 .. Pow2[l] - 1
  PROVE  /\ Log2(b + 1) \in 0 .. l
         /\ b > 0 => Log2(b + 1) >= 1
         /\ l > 0 /\ b >= Pow2[l - 1] => Log2(b + 1) = l
<1> DEFINE T == {i \in Nat : b + 1 <= Pow2[i]}
<1>1. b \in Nat /\ Pow2[l] \in Nat /\ l \in T
  BY Pow2Is
<1>2. T \in SUBSET Nat /\ T # {}
  BY <1>1
<1>. HIDE DEF T
<1>3. PICK i \in T : \A y \in T : i <= y
  BY <1>2, LeastExists
<1>4. i \in Nat /\ b + 1 <= Pow2[i] /\ i <= l
  BY <1>1, <1>3 DEF T
<1>5. i = 0 \/ b + 1 > Pow2[i - 1]
  <2>1. CASE i # 0
    <3>1. i - 1 \in Nat /\ ~(i <= i - 1)
      BY <1>4, <2>1
    <3>2. i - 1 \notin T
      BY <1>3, <3>1
    <3>3. Pow2[i - 1] \in Nat
      BY <3>1, Pow2Is
    <3>. QED BY <1>1, <3>1, <3>2, <3>3 DEF T
  <2>. QED BY <2>1
<1>6. Log2(b + 1) = i
  <2>1. b + 1 \in Nat /\ i <= WordBits
    BY <1>1, <1>4, HashAssumption
  <2>. QED BY <1>4, <1>5, <2>1, Log2Is
<1>7. b > 0 => i >= 1
  <2>1. i = 0 => b + 1 <= 1
    BY <1>4, Pow2Is
  <2>. QED BY <1>1, <1>4, <2>1
<1>8. l > 0 /\ b >= Pow2[l - 1] => i = l
  <2>. SUFFICES ASSUME l > 0, b >= Pow2[l - 1], i # l PROVE FALSE
    OBVIOUS
  <2>1. l - 1 \in Nat /\ i <= l - 1
    BY <1>4
  <2>2. Pow2[i] <= Pow2[l - 1] /\ Pow2[i] \in Nat /\ Pow2[l - 1] \in Nat
    BY <1>4, <2>1, Pow2Order, Pow2Is
  <2>. QED BY <1>1, <1>4, <2>2
<1>. QED BY <1>4, <1>6, <1>7, <1>8


-----------------------------------------------------------------------------
(***************************************************************************)
(* The pages of the file.  NoPageShared and NoPageLost together say that   *)
(* the uses of pages and the pages of the file correspond one to one; each *)
(* alone is not inductive.  The invariant keeps them by kind of use: the   *)
(* pages of the header and of the buckets, the overflow pages, the pages a *)
(* split still deals out, the data pages and the free ones are sets that   *)
(* have no page in common and together are the file, and within a kind no  *)
(* page is listed twice.                                                   *)
(***************************************************************************)
\* Where the free maps list pages: the map page itself, or a place on it.
FreeSlots(free) ==
  {x \in Levels \X Nat \X Nat : /\ x[2] \in 1 .. Len(free[x[1]])
                                /\ x[3] \in 0 .. Len(free[x[1]][x[2]].list)}

FreeAt(free, x) == IF x[3] = 0 THEN free[x[1]][x[2]].map
                   ELSE free[x[1]][x[2]].list[x[3]]

FreePages(free) == {FreeAt(free, x) : x \in FreeSlots(free)}

FreeOnce(free) ==
  \A x, y \in FreeSlots(free) : FreeAt(free, x) = FreeAt(free, y) => x = y

\* The overflow pages of all chains.
OvflSlots(P) == {x \in Buckets \X Nat : x[2] \in 2 .. Len(P[x[1]])}
OvflAt(P, x) == P[x[1]][x[2]]
OvflPages(P) == {OvflAt(P, x) : x \in OvflSlots(P)}
OvflOnce(P)  == \A x, y \in OvflSlots(P) : OvflAt(P, x) = OvflAt(P, y) => x = y

\* The overflow pages of the old chain that a split has not given back.
OnHand     == IF phase = "split" /\ ~split.base THEN {split.page} ELSE {}
SplitPages == Range(split.pages) \cup OnHand
SplitOnce  == /\ IsInjective(split.pages)
              /\ OnHand \cap Range(split.pages) = {}

\* Header and bucket pages.
FixedPages(s, high) ==
  (0 .. HdrPages - 1) \cup {BucketToPage(s, b) : b \in 0 .. high}
FixedOnce(s, high) ==
  \A b, c \in 0 .. high : /\ BucketToPage(s, b) = BucketToPage(s, c) => b = c
                          /\ BucketToPage(s, b) >= HdrPages

\* Five sets of pages are the file of n pages, and have no page in common.
Parts(K, O, S, D, F, n) ==
  /\ K \cup O \cup S \cup D \cup F = 0 .. n - 1
  /\ K \cap (O \cup S \cup D \cup F) = {}
  /\ O \cap (S \cup D \cup F) = {}
  /\ S \cap (D \cup F) = {}
  /\ D \cap F = {}

\* Where the pages of the file end, and the page data goes to.
EndOf(s, high) ==
  LET end == s.spares[s.ovfl + 1]
  IN  IF end = 0 THEN BucketToPage(s, high) + 1 ELSE end

DataPageOf(s) == {s.dpage} \ {NoPage}

\* The level and the masks; a level has no page behind its buckets until
\* something was allocated on it, and levels to come have none.
SpaceInv(s, high) ==
  /\ s \in Space
  /\ s.ovfl \in 1 .. NCached - 2
  /\ high = Pow2[s.ovfl] - 1
  /\ s.spares[0] = HdrPages
  /\ \A l \in Levels : l > s.ovfl + 1 => s.spares[l] = 0
  /\ s.dpage = NoPage <=> s.spares[s.ovfl + 1] = 0
  /\ FixedOnce(s, high) /\ FreeOnce(s.free)

LevelInv ==
  /\ SpaceInv(space, highMask)
  /\ phase \in {"data", "expand"} => space.dpage # NoPage

\* Uses of pages that share none and leave none of the file's out.
SpaceParts(O, S, D, s, high) ==
  Parts(FixedPages(s, high), O, S, D \cup DataPageOf(s), FreePages(s.free),
        EndOf(s, high))

\* A chain has a number for each of its pages.
ChainInv ==
  /\ pages \in [Buckets -> Seq(Nat)]
  /\ \A b \in Buckets : Len(pages[b]) = Len(chain[b])
  /\ \A b \in Buckets : b > maxBucket => pages[b] = << >>
  /\ split.page \in Nat \cup {NoPage} /\ split.pages \in Seq(Nat)
  /\ Len(split.pages) = Len(split.chain)
  /\ phase # "split" => split = NoSplit
  /\ phase = "split" => split.page \in Nat

\* The links of data pages: the page a put writes on is there.
DataInv ==
  /\ \A p \in DOMAIN dnext : {p, dnext[p]} \subseteq Nat \cup {NoPage}
  /\ NoPage \notin DOMAIN dnext
  /\ phase \in {"data", "expand"} => space.dpage \in DOMAIN dnext

PagesInv ==
  /\ SpaceParts(OvflPages(pages), SplitPages, DOMAIN dnext, space, highMask)
  /\ OvflOnce(pages) /\ SplitOnce

AllocInv == LevelInv /\ ChainInv /\ DataInv /\ PagesInv


-----------------------------------------------------------------------------
(***************************************************************************)
(* Pages go to the free maps and come from them.                           *)
(***************************************************************************)
FreeMap  == [map : Nat, list : Seq(Nat)]
FreeMaps == [Levels -> Seq(FreeMap)]

LEMMA SlotType ==
  ASSUME NEW free \in FreeMaps, NEW x \in FreeSlots(free)
  PROVE  /\ x \in Levels \X Nat \X Nat
         /\ x = <<x[1], x[2], x[3]>> /\ x[1] \in Levels
         /\ x[2] \in 1 .. Len(free[x[1]])
         /\ x[3] \in 0 .. Len(free[x[1]][x[2]].list)
  BY DEF FreeSlots

LEMMA SlotIs ==
  ASSUME NEW free \in FreeMaps, NEW l \in Levels, NEW i \in Nat, NEW j \in Nat
  PROVE  /\ <<l, i, j>> \in FreeSlots(free) <=>
              i \in 1 .. Len(free[l]) /\ j \in 0 .. Len(free[l][i].list)
         /\ FreeAt(free, <<l, i, j>>)
              = IF j = 0 THEN free[l][i].map ELSE free[l][i].list[j]
  BY DEF FreeSlots, FreeAt

\* What is listed of a level.
LEMMA MapsOf ==
  ASSUME NEW free \in FreeMaps, NEW l \in Levels
  PROVE  /\ free[l] \in Seq(FreeMap)
         /\ Len(free[l]) \in Nat
         /\ \A i \in 1 .. Len(free[l]) :
              /\ free[l][i] \in FreeMap
              /\ free[l][i].map \in Nat /\ free[l][i].list \in Seq(Nat)
              /\ Len(free[l][i].list) \in Nat
<1>1. free[l] \in Seq(FreeMap)
  BY DEF FreeMaps
<1>2. Len(free[l]) \in Nat
  BY <1>1
<1>3. ASSUME NEW i \in 1 .. Len(free[l])
      PROVE  free[l][i] \in FreeMap
  BY <1>1
<1>4. ASSUME NEW r \in FreeMap
      PROVE  r.map \in Nat /\ r.list \in Seq(Nat) /\ Len(r.list) \in Nat
  BY DEF FreeMap
<1>. QED BY <1>1, <1>2, <1>3, <1>4

\* Slots are compared place by place: A has one that B has not.
OneSlotMore(A, B, w) ==
  \A m \in Levels : \A i, j \in Nat :
    <<m, i, j>> \in B <=> <<m, i, j>> \in A /\ <<m, i, j>> # w

LEMMA SlotsByPlace ==
  ASSUME NEW free \in FreeMaps, NEW free2 \in FreeMaps, NEW w,
         OneSlotMore(FreeSlots(free), FreeSlots(free2), w)
  PROVE  FreeSlots(free2) = FreeSlots(free) \ {w}
<1>1. ASSUME NEW x \in Levels \X Nat \X Nat
      PROVE  x \in FreeSlots(free2) <=> x \in FreeSlots(free) \ {w}
  <2>1. x = <<x[1], x[2], x[3]>> /\ x[1] \in Levels /\ x[2] \in Nat /\ x[3] \in Nat
    OBVIOUS
  <2>2. <<x[1], x[2], x[3]>> \in FreeSlots(free2) <=>
          <<x[1], x[2], x[3]>> \in FreeSlots(free) /\ <<x[1], x[2], x[3]>> # w
    BY <2>1 DEF OneSlotMore
  <2>. QED BY <2>1, <2>2, Zenon
<1>2. /\ FreeSlots(free) \subseteq Levels \X Nat \X Nat
      /\ FreeSlots(free2) \subseteq Levels \X Nat \X Nat
  BY DEF FreeSlots
<1>. QED BY <1>1, <1>2

LEMMA FreeFewer ==
  ASSUME NEW free, NEW free2, NEW w \in FreeSlots(free), FreeOnce(free),
         FreeSlots(free2) = FreeSlots(free) \ {w},
         \A x \in FreeSlots(free2) : FreeAt(free2, x) = FreeAt(free, x)
  PROVE  /\ FreeOnce(free2)
         /\ FreePages(free2) = FreePages(free) \ {FreeAt(free, w)}
         /\ FreeAt(free, w) \in FreePages(free)
  BY DEF FreeOnce, FreePages

LEMMA FreeMore ==
  ASSUME NEW free, NEW free2, NEW w, FreeOnce(free),
         FreeSlots(free2) = FreeSlots(free) \cup {w}, w \notin FreeSlots(free),
         \A x \in FreeSlots(free) : FreeAt(free2, x) = FreeAt(free, x),
         FreeAt(free2, w) \notin FreePages(free)
  PROVE  /\ FreeOnce(free2)
         /\ FreePages(free2) = FreePages(free) \cup {FreeAt(free2, w)}
  BY DEF FreeOnce, FreePages

\* Another list s for the map page i of level l.
ListSet(free, free2, l, i, s) ==
  /\ free2 \in FreeMaps
  /\ \A m \in Levels \ {l} : free2[m] = free[m]
  /\ Len(free2[l]) = Len(free[l])
  /\ \A k \in 1 .. Len(free[l]) : k # i => free2[l][k] = free[l][k]
  /\ free2[l][i].map = free[l][i].map
  /\ free2[l][i].list = s

LEMMA ListIsSet ==
  ASSUME NEW free \in FreeMaps, NEW l \in Levels, NEW i \in 1 .. Len(free[l]),
         NEW s \in Seq(Nat)
  PROVE  ListSet(free, [free EXCEPT ![l][i].list = s], l, i, s)
<1> DEFINE c == free[l]
           r == c[i]
           r2 == [r EXCEPT !.list = s]
           c2 == [c EXCEPT ![i] = r2]
           free2 == [free EXCEPT ![l] = c2]
<1>1. c \in Seq(FreeMap) /\ Len(c) \in Nat /\ r \in FreeMap
  BY MapsOf
<1>2. r2 \in FreeMap /\ r2.map = r.map /\ r2.list = s
  <2>. HIDE DEF r
  <2>. QED BY <1>1 DEF FreeMap
<1>. HIDE DEF r2
<1>3. /\ c2 \in Seq(FreeMap) /\ Len(c2) = Len(c) /\ c2[i] = r2
      /\ \A k \in 1 .. Len(c) : k # i => c2[k] = c[k]
  <2>. HIDE DEF c, r
  <2>1. i \in 1 .. Len(c)
    BY DEF c
  <2>2. c2 \in Seq(FreeMap) /\ c2[i] = r2
        /\ \A k \in 1 .. Len(c) : k # i => c2[k] = c[k]
    BY <1>1, <1>2, <2>1
  <2>3. Len(c2) = Len(c)
    BY <1>1
  <2>. QED BY <2>2, <2>3
<1>. HIDE DEF c2
<1>4. /\ free2 \in FreeMaps /\ free2[l] = c2
      /\ \A m \in Levels \ {l} : free2[m] = free[m]
  BY <1>3 DEF FreeMaps
<1>5. [free EXCEPT ![l][i].list = s] = free2
  BY DEF c2, r2
<1>. HIDE DEF free2
<1>6. ListSet(free, free2, l, i, s)
  BY <1>2, <1>3, <1>4 DEF ListSet
<1>. QED BY <1>5, <1>6

LEMMA FrontIs ==
  ASSUME NEW s \in Seq(Nat), NEW n \in Nat, n = Len(s), n # 0
  PROVE  /\ Front(s) \in Seq(Nat) /\ Len(Front(s)) = n - 1
         /\ \A j \in 1 .. n - 1 : Front(s)[j] = s[j]
         /\ Last(s) = s[n]
<1>1. Front(s) = SubSeq(s, 1, n - 1) /\ Last(s) = s[n]
  BY DEF Front, Last
<1>2. n - 1 \in Nat /\ n - 1 <= Len(s)
  OBVIOUS
<1>3. /\ SubSeq(s, 1, n - 1) \in Seq(Nat) /\ Len(SubSeq(s, 1, n - 1)) = n - 1
      /\ \A j \in 1 .. n - 1 : SubSeq(s, 1, n - 1)[j] = s[j]
  BY <1>2, SubSeqProperties
<1>. QED BY <1>1, <1>3

\* A page taken from the end of the list of map page h.
Taking(free, free2, l, h) ==
  /\ free \in FreeMaps /\ FreeOnce(free) /\ l \in Levels
  /\ h \in 1 .. Len(free[l]) /\ free[l][h].list # << >>
  /\ ListSet(free, free2, l, h, Front(free[l][h].list))

LEMMA TakeListed ==
  ASSUME NEW free, NEW free2, NEW l, NEW h, Taking(free, free2, l, h)
  PROVE  /\ FreeOnce(free2)
         /\ Last(free[l][h].list) \in FreePages(free)
         /\ FreePages(free2) = FreePages(free) \ {Last(free[l][h].list)}
<1>0. /\ free \in FreeMaps /\ FreeOnce(free) /\ l \in Levels
      /\ h \in 1 .. Len(free[l]) /\ free[l][h].list # << >>
      /\ ListSet(free, free2, l, h, Front(free[l][h].list))
  BY DEF Taking
<1>. USE <1>0
<1> DEFINE c == free[l]
           r == c[h]
           s == r.list
           n == Len(s)
           c2 == free2[l]
           w == <<l, h, n>>
<1>1. /\ c \in Seq(FreeMap) /\ Len(c) \in Nat /\ h \in 1 .. Len(c) /\ h \in Nat
      /\ s \in Seq(Nat) /\ n \in Nat /\ n # 0
  <2>1. c \in Seq(FreeMap) /\ Len(c) \in Nat
    BY MapsOf
  <2>2. s \in Seq(Nat) /\ n \in Nat
    BY MapsOf
  <2>3. n # 0
    BY <2>2
  <2>4. h \in Nat
    BY <2>1
  <2>. QED BY <2>1, <2>2, <2>3, <2>4
<1>2. /\ Front(s) \in Seq(Nat) /\ Len(Front(s)) = n - 1
      /\ \A j \in 1 .. n - 1 : Front(s)[j] = s[j]
      /\ Last(s) = s[n]
  <2>1. n = Len(s)
    OBVIOUS
  <2>. HIDE DEF s, n
  <2>. QED BY <1>1, <2>1, FrontIs
<1>6. /\ free2 \in FreeMaps /\ Len(c2) = Len(c)
      /\ c2[h].map = r.map /\ c2[h].list = Front(s)
      /\ \A k \in 1 .. Len(c) : k # h => c2[k] = c[k]
      /\ \A m \in Levels \ {l} : free2[m] = free[m]
  BY DEF ListSet
<1>7. ASSUME NEW m \in Levels, NEW i \in Nat, NEW j \in Nat
      PROVE  /\ <<m, i, j>> \in FreeSlots(free2) <=>
                  <<m, i, j>> \in FreeSlots(free) /\ <<m, i, j>> # w
             /\ <<m, i, j>> \in FreeSlots(free2) =>
                  FreeAt(free2, <<m, i, j>>) = FreeAt(free, <<m, i, j>>)
  <2>1. /\ <<m, i, j>> \in FreeSlots(free) <=>
             i \in 1 .. Len(free[m]) /\ j \in 0 .. Len(free[m][i].list)
        /\ FreeAt(free, <<m, i, j>>)
             = IF j = 0 THEN free[m][i].map ELSE free[m][i].list[j]
    BY SlotIs
  <2>2. /\ <<m, i, j>> \in FreeSlots(free2) <=>
             i \in 1 .. Len(free2[m]) /\ j \in 0 .. Len(free2[m][i].list)
        /\ FreeAt(free2, <<m, i, j>>)
             = IF j = 0 THEN free2[m][i].map ELSE free2[m][i].list[j]
    BY <1>6, SlotIs
  <2>3. <<m, i, j>> = w <=> m = l /\ i = h /\ j = n
    OBVIOUS
  <2>4. r = free[l][h] /\ s = r.list /\ n = Len(s) /\ c = free[l]
        /\ c2 = free2[l]
    OBVIOUS
  <2>. HIDE DEF w, c, r, s, n, c2
  <2>5. CASE m # l
    <3>1. free2[m] = free[m]
      BY <1>6, <2>5
    <3>. QED BY <2>1, <2>2, <2>3, <2>5, <3>1
  <2>6. CASE m = l /\ i # h
    BY <1>6, <2>1, <2>2, <2>3, <2>4, <2>6
  <2>7. CASE m = l /\ i = h
    <3>1. <<m, i, j>> \in FreeSlots(free) <=> j \in 0 .. n
      BY <1>1, <2>1, <2>4, <2>7
    <3>2. <<m, i, j>> \in FreeSlots(free2) <=> j \in 0 .. n - 1
      BY <1>1, <1>2, <1>6, <2>2, <2>4, <2>7
    <3>3. FreeAt(free2, <<m, i, j>>) = IF j = 0 THEN r.map ELSE Front(s)[j]
      BY <1>6, <2>2, <2>4, <2>7
    <3>4. FreeAt(free, <<m, i, j>>) = IF j = 0 THEN r.map ELSE s[j]
      BY <2>1, <2>4, <2>7
    <3>5. j \in 0 .. n - 1 <=> j \in 0 .. n /\ j # n
      BY <1>1
    <3>6. j \in 0 .. n - 1 /\ j # 0 => Front(s)[j] = s[j]
      BY <1>1, <1>2
    <3>. QED BY <2>3, <2>7, <3>1, <3>2, <3>3, <3>4, <3>5, <3>6
  <2>. QED BY <2>5, <2>6, <2>7
<1>8. w \in FreeSlots(free) /\ FreeAt(free, w) = s[n]
  <2>1. n \in 0 .. n
    BY <1>1
  <2>. HIDE DEF n, s
  <2>2. <<l, h, n>> \in FreeSlots(free) <=>
             h \in 1 .. Len(free[l]) /\ n \in 0 .. Len(free[l][h].list)
    BY <1>1, SlotIs
  <2>3. FreeAt(free, <<l, h, n>>)
             = IF n = 0 THEN free[l][h].map ELSE free[l][h].list[n]
    BY <1>1, SlotIs
  <2>. QED BY <1>1, <2>1, <2>2, <2>3 DEF s, n
<1>. HIDE DEF w, n, s, r, c, c2
<1>9. FreeSlots(free2) = FreeSlots(free) \ {w}
  <2>1. OneSlotMore(FreeSlots(free), FreeSlots(free2), w)
    BY <1>7, Zenon DEF OneSlotMore
  <2>2. free2 \in FreeMaps
    BY <1>6
  <2>. QED BY <2>1, <2>2, SlotsByPlace, Zenon
<1>10. \A x \in FreeSlots(free2) : FreeAt(free2, x) = FreeAt(free, x)
  <2>. TAKE x \in FreeSlots(free2)
  <2>1. x = <<x[1], x[2], x[3]>> /\ x \in Levels \X Nat \X Nat
    BY <1>6, SlotType
  <2>. QED BY <1>7, <2>1
<1>11. FreeAt(free, w) = Last(s)
  BY <1>2, <1>8
<1>12. /\ FreeOnce(free2)
       /\ FreePages(free2) = FreePages(free) \ {Last(s)}
       /\ Last(s) \in FreePages(free)
  BY <1>8, <1>9, <1>10, <1>11, FreeFewer
<1>. QED BY <1>12 DEF s, r, c

\* Other map pages c for level l.
MapsSet(free, free2, l, c) ==
  /\ free2 \in FreeMaps
  /\ \A m \in Levels \ {l} : free2[m] = free[m]
  /\ free2[l] = c

LEMMA MapsAreSet ==
  ASSUME NEW free \in FreeMaps, NEW l \in Levels, NEW c \in Seq(FreeMap)
  PROVE  MapsSet(free, [free EXCEPT ![l] = c], l, c)
  BY DEF FreeMaps, MapsSet

\* The first map page of a level lists nothing: it is taken itself.
LEMMA TakeMap ==
  ASSUME NEW free \in FreeMaps, FreeOnce(free), NEW l \in Levels,
         free[l] # << >>, free[l][1].list = << >>, NEW free2,
         MapsSet(free, free2, l, Tail(free[l]))
  PROVE  /\ FreeOnce(free2)
         /\ free[l][1].map \in FreePages(free)
         /\ FreePages(free2) = FreePages(free) \ {free[l][1].map}
<1> DEFINE c == free[l]
           w == <<l, 1, 0>>
           R(x) == IF x[1] = l THEN <<l, x[2] + 1, x[3]>> ELSE x
<1>1. c \in Seq(FreeMap) /\ Len(c) \in Nat /\ Len(c) # 0 /\ c = free[l]
  <2>1. c \in Seq(FreeMap) /\ c # << >>
    BY MapsOf
  <2>. HIDE DEF c
  <2>2. Len(c) \in Nat /\ Len(c) # 0
    BY <2>1
  <2>. QED BY <2>1, <2>2 DEF c
<1>2. /\ free2 \in FreeMaps /\ free2[l] = Tail(c)
      /\ \A m \in Levels \ {l} : free2[m] = free[m]
  BY DEF MapsSet
<1>. HIDE DEF c
<1>3. /\ Len(free2[l]) = Len(c) - 1
      /\ \A i \in 1 .. Len(c) - 1 : free2[l][i] = c[i + 1]
  BY <1>1, <1>2
<1>4. w \in FreeSlots(free) /\ FreeAt(free, w) = free[l][1].map
  <2>1. 1 \in 1 .. Len(free[l]) /\ Len(free[l][1].list) = 0
    BY <1>1
  <2>2. /\ <<l, 1, 0>> \in FreeSlots(free) <=>
             1 \in 1 .. Len(free[l]) /\ 0 \in 0 .. Len(free[l][1].list)
        /\ FreeAt(free, <<l, 1, 0>>)
             = IF 0 = 0 THEN free[l][1].map ELSE free[l][1].list[0]
    BY SlotIs
  <2>. QED BY <2>1, <2>2
<1>5. ASSUME NEW m \in Levels, NEW i \in Nat, NEW j \in Nat,
             <<m, i, j>> \in FreeSlots(free2)
      PROVE  /\ R(<<m, i, j>>) \in FreeSlots(free) \ {w}
             /\ FreeAt(free2, <<m, i, j>>) = FreeAt(free, R(<<m, i, j>>))
  <2>0. free2 \in FreeMaps
    BY <1>2
  <2>1. /\ i \in 1 .. Len(free2[m]) /\ j \in 0 .. Len(free2[m][i].list)
        /\ FreeAt(free2, <<m, i, j>>)
             = IF j = 0 THEN free2[m][i].map ELSE free2[m][i].list[j]
    BY <1>5, <2>0, SlotIs
  <2>2. CASE m = l
    <3>1. i + 1 \in Nat /\ i + 1 \in 1 .. Len(free[l]) /\ i \in 1 .. Len(c) - 1
          /\ i + 1 # 1
      BY <1>1, <1>3, <2>1, <2>2
    <3>2. free2[l][i] = free[l][i + 1]
      BY <1>1, <1>3, <3>1
    <3>3. R(<<m, i, j>>) = <<l, i + 1, j>> /\ <<l, i + 1, j>> # w
      BY <2>2, <3>1
    <3>4. /\ <<l, i + 1, j>> \in FreeSlots(free) <=>
               i + 1 \in 1 .. Len(free[l]) /\ j \in 0 .. Len(free[l][i + 1].list)
          /\ FreeAt(free, <<l, i + 1, j>>)
               = IF j = 0 THEN free[l][i + 1].map ELSE free[l][i + 1].list[j]
      BY <3>1, SlotIs
    <3>. HIDE DEF R, w
    <3>. QED BY <2>1, <2>2, <3>1, <3>2, <3>3, <3>4
  <2>3. CASE m # l
    <3>1. free2[m] = free[m]
      BY <1>2, <2>3
    <3>2. R(<<m, i, j>>) = <<m, i, j>> /\ <<m, i, j>> # w
      BY <2>3
    <3>3. /\ <<m, i, j>> \in FreeSlots(free) <=>
               i \in 1 .. Len(free[m]) /\ j \in 0 .. Len(free[m][i].list)
          /\ FreeAt(free, <<m, i, j>>)
               = IF j = 0 THEN free[m][i].map ELSE free[m][i].list[j]
      BY SlotIs
    <3>. HIDE DEF R, w
    <3>. QED BY <2>1, <3>1, <3>2, <3>3
  <2>. QED BY <2>2, <2>3
<1>6. ASSUME NEW m \in Levels, NEW i \in Nat, NEW j \in Nat,
             <<m, i, j>> \in FreeSlots(free), <<m, i, j>> # w
      PROVE  \E y \in FreeSlots(free2) : R(y) = <<m, i, j>>
  <2>1. i \in 1 .. Len(free[m]) /\ j \in 0 .. Len(free[m][i].list)
    BY <1>6, SlotIs
  <2>2. CASE m = l
    <3>1. i # 1
      <4>1. i = 1 => j \in 0 .. 0
        BY <1>1, <2>1, <2>2
      <4>. QED BY <1>6, <2>2, <4>1
    <3>2. i - 1 \in Nat /\ i - 1 \in 1 .. Len(c) - 1 /\ (i - 1) + 1 = i
      BY <1>1, <2>1, <2>2, <3>1
    <3>3. i - 1 \in 1 .. Len(free2[l]) /\ free2[l][i - 1] = free[l][i]
      BY <1>1, <1>3, <3>2
    <3>0. free2 \in FreeMaps
      BY <1>2
    <3>4. <<l, i - 1, j>> \in FreeSlots(free2) <=>
               i - 1 \in 1 .. Len(free2[l]) /\ j \in 0 .. Len(free2[l][i - 1].list)
      BY <3>0, <3>2, SlotIs
    <3>5. R(<<l, i - 1, j>>) = <<m, i, j>>
      BY <2>2, <3>2
    <3>. QED BY <2>1, <2>2, <3>3, <3>4, <3>5
  <2>3. CASE m # l
    <3>1. free2[m] = free[m]
      BY <1>2, <2>3
    <3>2. <<m, i, j>> \in FreeSlots(free2) <=>
               i \in 1 .. Len(free2[m]) /\ j \in 0 .. Len(free2[m][i].list)
      BY <1>2, SlotIs
    <3>3. R(<<m, i, j>>) = <<m, i, j>>
      BY <2>3
    <3>. QED BY <2>1, <3>1, <3>2, <3>3
  <2>. QED BY <2>2, <2>3
<1>7. ASSUME NEW x \in Levels \X Nat \X Nat, NEW y \in Levels \X Nat \X Nat,
             R(x) = R(y)
      PROVE  x = y
  BY <1>7
<1>. HIDE DEF w, R
<1>8. ASSUME NEW x \in FreeSlots(free2)
      PROVE  /\ x \in Levels \X Nat \X Nat
             /\ R(x) \in FreeSlots(free) \ {w}
             /\ FreeAt(free2, x) = FreeAt(free, R(x))
  <2>1. x = <<x[1], x[2], x[3]>> /\ x \in Levels \X Nat \X Nat
    BY <1>2, SlotType
  <2>2. x[1] \in Levels /\ x[2] \in Nat /\ x[3] \in Nat
    BY <2>1
  <2>. QED BY <1>5, <2>1, <2>2
<1>9. ASSUME NEW x \in FreeSlots(free), x # w
      PROVE  \E y \in FreeSlots(free2) : R(y) = x
  <2>1. x = <<x[1], x[2], x[3]>> /\ x \in Levels \X Nat \X Nat
    BY SlotType
  <2>2. x[1] \in Levels /\ x[2] \in Nat /\ x[3] \in Nat
    BY <2>1
  <2>. QED BY <1>6, <1>9, <2>1, <2>2
<1>10. FreeOnce(free2)
  BY <1>7, <1>8 DEF FreeOnce
<1>11. FreePages(free2) = FreePages(free) \ {FreeAt(free, w)}
  <2>1. ASSUME NEW p \in FreePages(free2)
        PROVE  p \in FreePages(free) \ {FreeAt(free, w)}
    <3>1. PICK x \in FreeSlots(free2) : p = FreeAt(free2, x)
      BY DEF FreePages
    <3>2. R(x) \in FreeSlots(free) /\ R(x) # w /\ p = FreeAt(free, R(x))
      BY <1>8, <3>1
    <3>3. p # FreeAt(free, w)
      BY <1>4, <3>2 DEF FreeOnce
    <3>. QED BY <3>2, <3>3 DEF FreePages
  <2>2. ASSUME NEW p \in FreePages(free), p # FreeAt(free, w)
        PROVE  p \in FreePages(free2)
    <3>1. PICK x \in FreeSlots(free) : p = FreeAt(free, x)
      BY DEF FreePages
    <3>2. PICK y \in FreeSlots(free2) : R(y) = x
      BY <1>9, <2>2, <3>1
    <3>3. p = FreeAt(free2, y)
      BY <1>8, <3>1, <3>2
    <3>. QED BY <3>3 DEF FreePages
  <2>. QED BY <2>1, <2>2
<1>. QED BY <1>4, <1>10, <1>11 DEF FreePages

\* A page added at the end of the list of map page h.
LEMMA AddListed ==
  ASSUME NEW free \in FreeMaps, FreeOnce(free), NEW l \in Levels,
         NEW h \in 1 .. Len(free[l]), NEW p \in Nat, p \notin FreePages(free),
         NEW free2, ListSet(free, free2, l, h, Append(free[l][h].list, p))
  PROVE  /\ FreeOnce(free2)
         /\ FreePages(free2) = FreePages(free) \cup {p}
<1> DEFINE c == free[l]
           r == c[h]
           s == r.list
           n == Len(s)
           c2 == free2[l]
           w == <<l, h, n + 1>>
<1>1. /\ c \in Seq(FreeMap) /\ Len(c) \in Nat /\ h \in 1 .. Len(c) /\ h \in Nat
      /\ s \in Seq(Nat) /\ n \in Nat
  <2>1. c \in Seq(FreeMap) /\ Len(c) \in Nat
    BY MapsOf
  <2>2. s \in Seq(Nat) /\ n \in Nat
    BY MapsOf
  <2>4. h \in Nat
    BY <2>1
  <2>. QED BY <2>1, <2>2, <2>4
<1>2. /\ Append(s, p) \in Seq(Nat) /\ Len(Append(s, p)) = n + 1
      /\ \A j \in 1 .. n : Append(s, p)[j] = s[j]
      /\ Append(s, p)[n + 1] = p
  <2>1. n = Len(s)
    OBVIOUS
  <2>. HIDE DEF s, n
  <2>. QED BY <1>1, <2>1
<1>6. /\ free2 \in FreeMaps /\ Len(c2) = Len(c)
      /\ c2[h].map = r.map /\ c2[h].list = Append(s, p)
      /\ \A k \in 1 .. Len(c) : k # h => c2[k] = c[k]
      /\ \A m \in Levels \ {l} : free2[m] = free[m]
  BY DEF ListSet
<1>7. ASSUME NEW m \in Levels, NEW i \in Nat, NEW j \in Nat
      PROVE  /\ <<m, i, j>> \in FreeSlots(free) <=>
                  <<m, i, j>> \in FreeSlots(free2) /\ <<m, i, j>> # w
             /\ <<m, i, j>> \in FreeSlots(free) =>
                  FreeAt(free2, <<m, i, j>>) = FreeAt(free, <<m, i, j>>)
  <2>1. /\ <<m, i, j>> \in FreeSlots(free) <=>
             i \in 1 .. Len(free[m]) /\ j \in 0 .. Len(free[m][i].list)
        /\ FreeAt(free, <<m, i, j>>)
             = IF j = 0 THEN free[m][i].map ELSE free[m][i].list[j]
    BY SlotIs
  <2>0. free2 \in FreeMaps
    BY <1>6
  <2>2. /\ <<m, i, j>> \in FreeSlots(free2) <=>
             i \in 1 .. Len(free2[m]) /\ j \in 0 .. Len(free2[m][i].list)
        /\ FreeAt(free2, <<m, i, j>>)
             = IF j = 0 THEN free2[m][i].map ELSE free2[m][i].list[j]
    BY <2>0, SlotIs
  <2>3. <<m, i, j>> = w <=> m = l /\ i = h /\ j = n + 1
    OBVIOUS
  <2>4. r = free[l][h] /\ s = r.list /\ n = Len(s) /\ c = free[l]
        /\ c2 = free2[l]
    OBVIOUS
  <2>. HIDE DEF w, c, r, s, n, c2
  <2>5. CASE m # l
    <3>1. free2[m] = free[m]
      BY <1>6, <2>5
    <3>. QED BY <2>1, <2>2, <2>3, <2>5, <3>1
  <2>6. CASE m = l /\ i # h
    BY <1>6, <2>1, <2>2, <2>3, <2>4, <2>6
  <2>7. CASE m = l /\ i = h
    <3>1. <<m, i, j>> \in FreeSlots(free) <=> j \in 0 .. n
      BY <1>1, <2>1, <2>4, <2>7
    <3>2. <<m, i, j>> \in FreeSlots(free2) <=> j \in 0 .. n + 1
      BY <1>1, <1>2, <1>6, <2>2, <2>4, <2>7
    <3>3. FreeAt(free2, <<m, i, j>>) = IF j = 0 THEN r.map ELSE Append(s, p)[j]
      BY <1>6, <2>2, <2>4, <2>7
    <3>4. FreeAt(free, <<m, i, j>>) = IF j = 0 THEN r.map ELSE s[j]
      BY <2>1, <2>4, <2>7
    <3>5. j \in 0 .. n <=> j \in 0 .. n + 1 /\ j # n + 1
      BY <1>1
    <3>6. j \in 0 .. n /\ j # 0 => Append(s, p)[j] = s[j]
      BY <1>1, <1>2
    <3>. QED BY <2>3, <2>7, <3>1, <3>2, <3>3, <3>4, <3>5, <3>6
  <2>. QED BY <2>5, <2>6, <2>7
<1>8. w \in FreeSlots(free2) /\ FreeAt(free2, w) = p
  <2>0. free2 \in FreeMaps
    BY <1>6
  <2>. DEFINE q == n + 1
  <2>1. q \in Nat /\ q \in 0 .. q /\ q # 0 /\ w = <<l, h, q>>
    BY <1>1
  <2>2. /\ h \in 1 .. Len(free2[l]) /\ free2[l][h].list = Append(s, p)
        /\ Len(Append(s, p)) = q /\ Append(s, p)[q] = p
    BY <1>1, <1>2, <1>6
  <2>. HIDE DEF n, s, q, w
  <2>3. /\ <<l, h, q>> \in FreeSlots(free2) <=>
             h \in 1 .. Len(free2[l]) /\ q \in 0 .. Len(free2[l][h].list)
        /\ FreeAt(free2, <<l, h, q>>)
             = IF q = 0 THEN free2[l][h].map ELSE free2[l][h].list[q]
    <3>1. h \in Nat /\ q \in Nat
      BY <1>1, <2>1
    <3>2. <<l, h, q>> \in FreeSlots(free2) <=>
             h \in 1 .. Len(free2[l]) /\ q \in 0 .. Len(free2[l][h].list)
      BY <2>0, <3>1, SlotIs
    <3>3. FreeAt(free2, <<l, h, q>>)
             = IF q = 0 THEN free2[l][h].map ELSE free2[l][h].list[q]
      BY <2>0, <3>1, SlotIs
    <3>. QED BY <3>2, <3>3
  <2>. QED BY <2>1, <2>2, <2>3
<1>. HIDE DEF w, n, s, r, c, c2
<1>9. FreeSlots(free) = FreeSlots(free2) \ {w}
  <2>1. OneSlotMore(FreeSlots(free2), FreeSlots(free), w)
    BY <1>7, Zenon DEF OneSlotMore
  <2>2. free2 \in FreeMaps
    BY <1>6
  <2>. QED BY <2>1, <2>2, SlotsByPlace, Zenon
<1>10. \A x \in FreeSlots(free) : FreeAt(free2, x) = FreeAt(free, x)
  <2>. TAKE x \in FreeSlots(free)
  <2>1. x = <<x[1], x[2], x[3]>> /\ x \in Levels \X Nat \X Nat
    BY <1>6, SlotType
  <2>. QED BY <1>7, <2>1
<1>. QED BY <1>8, <1>9, <1>10, FreeMore

\* A page that becomes a map page, the last one of its level.
LEMMA AddMap ==
  ASSUME NEW free \in FreeMaps, FreeOnce(free), NEW l \in Levels,
         NEW p \in Nat, p \notin FreePages(free), NEW free2,
         MapsSet(free, free2, l, Append(free[l], [map |-> p, list |-> << >>]))
  PROVE  /\ FreeOnce(free2)
         /\ FreePages(free2) = FreePages(free) \cup {p}
<1> DEFINE c == free[l]
           n == Len(c)
           r == [map |-> p, list |-> << >>]
           w == <<l, n + 1, 0>>
<1>1. c \in Seq(FreeMap) /\ n \in Nat /\ n = Len(c) /\ c = free[l]
  BY MapsOf
<1>2. r \in FreeMap /\ r.map = p /\ r.list = << >> /\ Len(r.list) = 0
  <2>1. << >> \in Seq(Nat)
    OBVIOUS
  <2>. QED BY <2>1 DEF FreeMap
<1>3. /\ free2 \in FreeMaps /\ free2[l] = Append(c, r)
      /\ \A m \in Levels \ {l} : free2[m] = free[m]
  BY DEF MapsSet
<1>. HIDE DEF r, c, n
<1>4. /\ Len(free2[l]) = n + 1
      /\ \A i \in 1 .. n : free2[l][i] = free[l][i]
      /\ free2[l][n + 1] = r
  <2>1. /\ Len(Append(c, r)) = n + 1 /\ Append(c, r)[n + 1] = r
        /\ \A i \in 1 .. n : Append(c, r)[i] = c[i]
    BY <1>1, <1>2
  <2>. QED BY <1>1, <1>3, <2>1
<1>5. w \in FreeSlots(free2) /\ FreeAt(free2, w) = p
  <2>1. n + 1 \in Nat /\ n + 1 \in 1 .. Len(free2[l])
    BY <1>1, <1>4
  <2>2. /\ <<l, n + 1, 0>> \in FreeSlots(free2) <=>
             n + 1 \in 1 .. Len(free2[l]) /\ 0 \in 0 .. Len(free2[l][n + 1].list)
        /\ FreeAt(free2, <<l, n + 1, 0>>)
             = IF 0 = 0 THEN free2[l][n + 1].map ELSE free2[l][n + 1].list[0]
    BY <1>3, <2>1, SlotIs
  <2>. QED BY <1>2, <1>4, <2>1, <2>2
<1>6. ASSUME NEW m \in Levels, NEW i \in Nat, NEW j \in Nat
      PROVE  /\ <<m, i, j>> \in FreeSlots(free) <=>
                  <<m, i, j>> \in FreeSlots(free2) /\ <<m, i, j>> # w
             /\ <<m, i, j>> \in FreeSlots(free) =>
                  FreeAt(free2, <<m, i, j>>) = FreeAt(free, <<m, i, j>>)
  <2>1. /\ <<m, i, j>> \in FreeSlots(free) <=>
             i \in 1 .. Len(free[m]) /\ j \in 0 .. Len(free[m][i].list)
        /\ FreeAt(free, <<m, i, j>>)
             = IF j = 0 THEN free[m][i].map ELSE free[m][i].list[j]
    BY SlotIs
  <2>0. free2 \in FreeMaps
    BY <1>3
  <2>2. /\ <<m, i, j>> \in FreeSlots(free2) <=>
             i \in 1 .. Len(free2[m]) /\ j \in 0 .. Len(free2[m][i].list)
        /\ FreeAt(free2, <<m, i, j>>)
             = IF j = 0 THEN free2[m][i].map ELSE free2[m][i].list[j]
    BY <2>0, SlotIs
  <2>3. <<m, i, j>> = w <=> m = l /\ i = n + 1 /\ j = 0
    OBVIOUS
  <2>. HIDE DEF w
  <2>4. CASE m # l
    <3>1. free2[m] = free[m]
      BY <1>3, <2>4
    <3>. QED BY <2>1, <2>2, <2>3, <2>4, <3>1
  <2>5. CASE m = l /\ i # n + 1
    <3>1. i \in 1 .. Len(free2[m]) <=> i \in 1 .. Len(free[m])
      BY <1>1, <1>4, <2>5
    <3>2. i \in 1 .. Len(free[m]) => free2[m][i] = free[m][i]
      BY <1>1, <1>4, <2>5
    <3>. QED BY <2>1, <2>2, <2>3, <2>5, <3>1, <3>2
  <2>6. CASE m = l /\ i = n + 1
    <3>1. i \notin 1 .. Len(free[m]) /\ i \in 1 .. Len(free2[m])
      BY <1>1, <1>4, <2>6
    <3>2. j \in 0 .. Len(free2[m][i].list) <=> j = 0
      BY <1>2, <1>4, <2>6
    <3>. QED BY <2>1, <2>2, <2>3, <2>6, <3>1, <3>2
  <2>. QED BY <2>4, <2>5, <2>6
<1>. HIDE DEF w
<1>7. FreeSlots(free) = FreeSlots(free2) \ {w}
  <2>1. OneSlotMore(FreeSlots(free2), FreeSlots(free), w)
    BY <1>6, Zenon DEF OneSlotMore
  <2>2. free2 \in FreeMaps
    BY <1>3
  <2>. QED BY <2>1, <2>2, SlotsByPlace, Zenon
<1>8. \A x \in FreeSlots(free) : FreeAt(free2, x) = FreeAt(free, x)
  <2>. TAKE x \in FreeSlots(free)
  <2>1. x = <<x[1], x[2], x[3]>> /\ x \in Levels \X Nat \X Nat
    BY SlotType
  <2>. QED BY <1>6, <2>1
<1>. QED BY <1>5, <1>7, <1>8, FreeMore


-----------------------------------------------------------------------------
(***************************************************************************)
(* Pages change hands.                                                     *)
(***************************************************************************)
\* The file gets a page more, for data.
LEMMA PartsNew ==
  ASSUME NEW K, NEW O, NEW S, NEW D, NEW F, NEW n \in Nat, Parts(K, O, S, D, F, n)
  PROVE  Parts(K, O, S, D \cup {n}, F, n + 1)
<1>1. 0 .. (n + 1) - 1 = (0 .. n - 1) \cup {n} /\ n \notin 0 .. n - 1
  OBVIOUS
<1>. DEFINE Old == 0 .. n - 1
            New == 0 .. (n + 1) - 1
<1>2. New = Old \cup {n} /\ n \notin Old
  BY <1>1
<1>3. /\ K \cup O \cup S \cup D \cup F = Old
      /\ K \cap (O \cup S \cup D \cup F) = {} /\ O \cap (S \cup D \cup F) = {}
      /\ S \cap (D \cup F) = {} /\ D \cap F = {}
  BY DEF Parts
<1>. HIDE DEF Old, New
<1>4. /\ K \cup O \cup S \cup (D \cup {n}) \cup F = New
      /\ K \cap (O \cup S \cup (D \cup {n}) \cup F) = {}
      /\ O \cap (S \cup (D \cup {n}) \cup F) = {}
      /\ S \cap ((D \cup {n}) \cup F) = {} /\ (D \cup {n}) \cap F = {}
  BY <1>2, <1>3
<1>. QED BY <1>4 DEF Parts, New

\* The same for a chain, and a free page for data or for a chain.
LEMMA PartsMoved ==
  ASSUME NEW K, NEW O, NEW S, NEW D, NEW F, NEW n, NEW p
  PROVE  /\ Parts(K, O, S, D \cup {p}, F, n) /\ p \notin D =>
              Parts(K, O \cup {p}, S, D, F, n)
         /\ Parts(K, O, S, D, F, n) /\ p \in F =>
              Parts(K, O, S, D \cup {p}, F \ {p}, n) /\ p \notin D
         /\ Parts(K, O, S, D, F, n) /\ p \in S =>
              Parts(K, O, S \ {p}, D, F \cup {p}, n) /\ p \notin F
<1>2. ASSUME Parts(K, O, S, D \cup {p}, F, n), p \notin D
      PROVE  Parts(K, O \cup {p}, S, D, F, n)
  BY <1>2 DEF Parts
<1>3. ASSUME Parts(K, O, S, D, F, n), p \in F
      PROVE  Parts(K, O, S, D \cup {p}, F \ {p}, n) /\ p \notin D
  BY <1>3 DEF Parts
<1>4. ASSUME Parts(K, O, S, D, F, n), p \in S
      PROVE  Parts(K, O, S \ {p}, D, F \cup {p}, n) /\ p \notin F
  BY <1>4 DEF Parts
<1>. QED BY <1>2, <1>3, <1>4

\* The page of a bucket depends on the levels up to its own.
LEMMA BucketPageSame ==
  ASSUME NEW s, NEW t, NEW l \in Nat, l <= WordBits,
         \A m \in 0 .. l : s.spares[m] = t.spares[m],
         NEW b \in 0 .. Pow2[l] - 1
  PROVE  BucketToPage(s, b) = BucketToPage(t, b)
<1>1. Log2(b + 1) \in 0 .. l
  BY LevelOfBucket
<1>. QED BY <1>1 DEF BucketToPage

LEMMA FixedSame ==
  ASSUME NEW s, NEW t, NEW l \in Nat, l <= WordBits,
         \A m \in 0 .. l : s.spares[m] = t.spares[m]
  PROVE  /\ FixedPages(s, Pow2[l] - 1) = FixedPages(t, Pow2[l] - 1)
         /\ FixedOnce(s, Pow2[l] - 1) => FixedOnce(t, Pow2[l] - 1)
<1>1. \A b \in 0 .. Pow2[l] - 1 : BucketToPage(s, b) = BucketToPage(t, b)
  BY BucketPageSame
<1>. QED BY <1>1 DEF FixedPages, FixedOnce

\* The levels of a table.
LEMMA LevelsIs ==
  ASSUME LevelsFit, NEW s, NEW high, SpaceInv(s, high)
  PROVE  /\ s.ovfl \in Nat /\ s.ovfl <= WordBits
         /\ s.ovfl + 1 \in Levels /\ s.ovfl \in Levels /\ 0 \in Levels
         /\ \A m \in 0 .. s.ovfl + 1 : m \in Levels
         /\ s.spares \in [Levels -> Nat] /\ s.free \in FreeMaps
         /\ s.dpage \in Nat \cup {NoPage}
         /\ high = Pow2[s.ovfl] - 1 /\ high \in Nat
<1>1. NCached \in Nat /\ WordBits \in Nat
  BY HashAssumption
<1>2. s.ovfl \in 1 .. NCached - 2 /\ high = Pow2[s.ovfl] - 1
  BY DEF SpaceInv
<1>3. s.ovfl \in Nat /\ s.ovfl <= WordBits
  BY <1>1, <1>2 DEF LevelsFit
<1>4. Pow2[s.ovfl] \in Nat \ {0}
  BY <1>3, Pow2Is
<1>5. s.ovfl + 1 \in Levels /\ s.ovfl \in Levels /\ 0 \in Levels
      /\ \A m \in 0 .. s.ovfl + 1 : m \in Levels
  BY <1>1, <1>2 DEF Levels
<1>6. s \in Space
  BY DEF SpaceInv
<1>7. s.spares \in [Levels -> Nat] /\ s.free \in FreeMaps
      /\ s.dpage \in Nat \cup {NoPage}
  BY <1>6 DEF Space, FreeMaps, FreeMap
<1>. QED BY <1>2, <1>3, <1>4, <1>5, <1>7

\* The pages of the buckets are page numbers, and the file ends at one.
LEMMA EndIs ==
  ASSUME LevelsFit, NEW s, NEW high, SpaceInv(s, high)
  PROVE  /\ \A b \in 0 .. high : BucketToPage(s, b) \in Nat
         /\ BucketToPage(s, high) = Pow2[s.ovfl - 1] - 1 + s.spares[s.ovfl]
         /\ EndOf(s, high) \in Nat
<1>1. /\ s.ovfl \in Nat /\ s.ovfl <= WordBits
      /\ s.ovfl + 1 \in Levels /\ s.ovfl \in Levels /\ 0 \in Levels
      /\ \A m \in 0 .. s.ovfl + 1 : m \in Levels
      /\ s.spares \in [Levels -> Nat]
      /\ high = Pow2[s.ovfl] - 1 /\ high \in Nat
  BY LevelsIs
<1>2. s.ovfl - 1 \in Nat /\ (s.ovfl - 1) + 1 = s.ovfl /\ s.ovfl > 0
  BY <1>1 DEF SpaceInv
<1>3. Pow2[s.ovfl - 1] \in Nat \ {0} /\ Pow2[s.ovfl] = 2 * Pow2[s.ovfl - 1]
  BY <1>2, Pow2Is
<1>4. high \in 0 .. Pow2[s.ovfl] - 1 /\ high >= Pow2[s.ovfl - 1] /\ high > 0
  BY <1>1, <1>3
<1>5. Log2(high + 1) = s.ovfl
  BY <1>1, <1>2, <1>4, LevelOfBucket
<1>6. BucketToPage(s, high) = high - Pow2[s.ovfl - 1] + s.spares[s.ovfl]
  BY <1>4, <1>5 DEF BucketToPage
<1>7. s.spares[s.ovfl] \in Nat /\ s.spares[s.ovfl + 1] \in Nat
  BY <1>1
<1>8. BucketToPage(s, high) = Pow2[s.ovfl - 1] - 1 + s.spares[s.ovfl]
      /\ BucketToPage(s, high) \in Nat
  BY <1>1, <1>3, <1>6, <1>7
<1>9. EndOf(s, high) \in Nat
  BY <1>7, <1>8 DEF EndOf
<1>10. ASSUME NEW b \in 0 .. high
       PROVE  BucketToPage(s, b) \in Nat
  <2>1. BucketToPage(s, b) >= HdrPages /\ HdrPages \in Nat
    BY HashAssumption DEF SpaceInv, FixedOnce
  <2>2. Log2(b + 1) \in 0 .. s.ovfl /\ (b > 0 => Log2(b + 1) >= 1)
    BY <1>1, LevelOfBucket
  <2>. DEFINE l == Log2(b + 1)
  <2>3. l \in Nat /\ s.spares[l] \in Nat
    BY <1>1, <2>2
  <2>4. b > 0 => l - 1 \in Nat
    BY <2>2, <2>3
  <2>5. b > 0 => Pow2[l - 1] \in Nat
    BY <2>4, Pow2Is
  <2>6. BucketToPage(s, b) = IF b > 0 THEN b - Pow2[l - 1] + s.spares[l]
                             ELSE s.spares[l]
    BY DEF BucketToPage
  <2>. HIDE DEF l
  <2>7. BucketToPage(s, b) \in Int
    BY <1>1, <2>3, <2>5, <2>6
  <2>. QED BY <2>1, <2>7
<1>. QED BY <1>8, <1>9, <1>10

\* What Reserve does: nothing once the level has its first data page.
LEMMA ReserveFields ==
  ASSUME LevelsFit, NEW s, SpaceInv(s, highMask)
  PROVE  /\ s.dpage # NoPage => Reserve(s) = s
         /\ s.dpage = NoPage =>
              LET e == BucketToPage(s, highMask) + 1
              IN  /\ Reserve(s) \in Space
                  /\ Reserve(s).ovfl = s.ovfl /\ Reserve(s).free = s.free
                  /\ Reserve(s).dpage = e
                  /\ Reserve(s).spares = [s.spares EXCEPT ![s.ovfl + 1] = e + 1]
<1>. DEFINE e == BucketToPage(s, highMask) + 1
            d == IF s.dpage = NoPage THEN e ELSE s.dpage
            c == [s.spares EXCEPT ![s.ovfl + 1] = IF @ = 0 THEN d + 1 ELSE @]
<1>1. /\ s.ovfl + 1 \in Levels /\ s.spares \in [Levels -> Nat]
      /\ s.dpage \in Nat \cup {NoPage} /\ highMask \in Nat
      /\ s \in Space /\ (s.dpage = NoPage <=> s.spares[s.ovfl + 1] = 0)
  BY LevelsIs DEF SpaceInv
<1>2. highMask \in 0 .. highMask
  BY <1>1
<1>3. e \in Nat
  BY <1>2, EndIs
<1>4. Reserve(s) = [s EXCEPT !.dpage = d, !.spares = c]
  BY DEF Reserve
<1>. HIDE DEF e
<1>5. CASE s.dpage = NoPage
  <2>1. d = e /\ c = [s.spares EXCEPT ![s.ovfl + 1] = e + 1]
    BY <1>1, <1>5
  <2>2. c \in [Levels -> Nat]
    BY <1>1, <1>3, <2>1
  <2>. HIDE DEF c, d
  <2>3. /\ Reserve(s) \in Space /\ Reserve(s).ovfl = s.ovfl
        /\ Reserve(s).free = s.free /\ Reserve(s).dpage = d
        /\ Reserve(s).spares = c
    BY <1>1, <1>3, <1>4, <2>1, <2>2 DEF Space
  <2>. QED BY <1>5, <2>1, <2>3 DEF e
<1>6. CASE s.dpage # NoPage
  <2>1. d = s.dpage /\ c = s.spares
    BY <1>1, <1>6
  <2>. HIDE DEF c, d
  <2>2. [s EXCEPT !.dpage = s.dpage, !.spares = s.spares] = s
    BY <1>1 DEF Space
  <2>. QED BY <1>4, <1>6, <2>1, <2>2
<1>. QED BY <1>5, <1>6

\* A space that lists the same buckets on the same level.
LEMMA SpaceKept ==
  ASSUME LevelsFit, NEW s, NEW high, SpaceInv(s, high), NEW t, t \in Space,
         t.ovfl = s.ovfl, FreeOnce(t.free),
         \A l \in Levels : l # s.ovfl + 1 => t.spares[l] = s.spares[l],
         t.dpage = NoPage <=> t.spares[s.ovfl + 1] = 0
  PROVE  /\ SpaceInv(t, high)
         /\ FixedPages(t, high) = FixedPages(s, high)
         /\ BucketToPage(t, high) = BucketToPage(s, high)
<1>1. /\ s.ovfl \in Nat /\ s.ovfl <= WordBits /\ 0 \in Levels
      /\ \A m \in 0 .. s.ovfl + 1 : m \in Levels
      /\ high = Pow2[s.ovfl] - 1 /\ high \in Nat
  BY LevelsIs
<1>2. \A m \in 0 .. s.ovfl : s.spares[m] = t.spares[m]
  BY <1>1
<1>3. FixedPages(s, high) = FixedPages(t, high) /\ FixedOnce(t, high)
  BY <1>1, <1>2, FixedSame DEF SpaceInv
<1>4. high \in 0 .. Pow2[s.ovfl] - 1
  BY <1>1
<1>5. BucketToPage(s, high) = BucketToPage(t, high)
  BY <1>1, <1>2, <1>4, BucketPageSame
<1>6. t.spares[0] = HdrPages
  <2>1. 0 # s.ovfl + 1
    BY <1>1
  <2>. QED BY <1>1, <2>1 DEF SpaceInv
<1>7. \A l \in Levels : l > s.ovfl + 1 => t.spares[l] = 0
  <2>1. \A l \in Levels : l > s.ovfl + 1 => l # s.ovfl + 1
    BY <1>1 DEF Levels
  <2>. QED BY <2>1 DEF SpaceInv
<1>. QED BY <1>3, <1>5, <1>6, <1>7 DEF SpaceInv

\* The first use of a level takes the page behind its buckets, for data.
LEMMA ReserveIs ==
  ASSUME LevelsFit, NEW s, SpaceInv(s, highMask), NEW O, NEW S, NEW D,
         SpaceParts(O, S, D, s, highMask)
  PROVE  LET r == Reserve(s)
         IN  /\ SpaceInv(r, highMask) /\ SpaceParts(O, S, D, r, highMask)
             /\ r.dpage # NoPage /\ r.ovfl = s.ovfl
             /\ s.dpage # NoPage => r = s
<1>. DEFINE r == Reserve(s)
            e == BucketToPage(s, highMask) + 1
<1>1. CASE s.dpage # NoPage
  BY <1>1, ReserveFields
<1>2. CASE s.dpage = NoPage
  <2>1. /\ r \in Space /\ r.ovfl = s.ovfl /\ r.free = s.free /\ r.dpage = e
        /\ r.spares = [s.spares EXCEPT ![s.ovfl + 1] = e + 1]
    BY <1>2, ReserveFields
  <2>2. /\ s.ovfl + 1 \in Levels /\ s.spares \in [Levels -> Nat]
        /\ highMask \in Nat /\ s.spares[s.ovfl + 1] = 0
    BY <1>2, LevelsIs DEF SpaceInv
  <2>3. e \in Nat /\ e # NoPage /\ e + 1 # 0
    <3>1. highMask \in 0 .. highMask
      BY <2>2
    <3>2. BucketToPage(s, highMask) \in Nat
      BY <3>1, EndIs
    <3>. QED BY <3>2 DEF NoPage
  <2>4. EndOf(s, highMask) = e /\ DataPageOf(s) = {}
    BY <1>2, <2>2 DEF EndOf, DataPageOf
  <2>. HIDE DEF r, e
  <2>5. r.spares[s.ovfl + 1] = e + 1
        /\ \A l \in Levels : l # s.ovfl + 1 => r.spares[l] = s.spares[l]
    BY <2>1, <2>2
  <2>6. SpaceInv(r, highMask) /\ FixedPages(r, highMask) = FixedPages(s, highMask)
    <3>1. FreeOnce(r.free)
      BY <2>1 DEF SpaceInv
    <3>. QED BY <2>1, <2>3, <2>5, <3>1, SpaceKept, ZenonT(40)
  <2>7. EndOf(r, highMask) = e + 1 /\ DataPageOf(r) = {e}
    BY <2>1, <2>3, <2>5 DEF EndOf, DataPageOf
  <2>8. Parts(FixedPages(s, highMask), O, S, D, FreePages(s.free), e)
    BY <2>4 DEF SpaceParts
  <2>9. Parts(FixedPages(s, highMask), O, S, D \cup {e}, FreePages(s.free), e + 1)
    BY <2>3, <2>8, PartsNew
  <2>10. SpaceParts(O, S, D, r, highMask)
    BY <2>1, <2>6, <2>7, <2>9 DEF SpaceParts
  <2>. QED BY <1>2, <2>1, <2>3, <2>6, <2>10 DEF r
<1>. QED BY <1>1, <1>2

\* The page Alloc hands out is a new one, or one that was listed as free and
\* is not any longer.
LEMMA AllocIs ==
  ASSUME LevelsFit, NEW s, SpaceInv(s, highMask), s.dpage # NoPage,
         NEW O, NEW S, NEW D, SpaceParts(O, S, D, s, highMask)
  PROVE  LET a == Alloc(s)
         IN  /\ SpaceInv(a.space, highMask) /\ a.num \in Nat
             /\ a.space.dpage = s.dpage
             /\ SpaceParts(O, S, D \cup {a.num}, a.space, highMask)
             /\ a.num \notin D \cup DataPageOf(s)
<1>. DEFINE L == s.ovfl
            f == s.free[L]
            K == FixedPages(s, highMask)
            E == D \cup DataPageOf(s)
            F == FreePages(s.free)
            n == EndOf(s, highMask)
<1>1. /\ L \in Nat /\ L \in Levels /\ L + 1 \in Levels /\ s \in Space
      /\ s.spares \in [Levels -> Nat] /\ s.free \in FreeMaps
      /\ FreeOnce(s.free) /\ s.spares[L + 1] # 0 /\ s.dpage \in Nat
  BY LevelsIs DEF SpaceInv
<1>2. n = s.spares[L + 1] /\ n \in Nat
  BY <1>1 DEF EndOf
<1>3. Parts(K, O, S, E, F, n)
  BY DEF SpaceParts
<1>4. ASSUME NEW t \in Space, t.ovfl = L, t.dpage = s.dpage,
             FreeOnce(t.free), NEW p, p \in Nat, p \notin E,
             \A l \in Levels : l # L + 1 => t.spares[l] = s.spares[l],
             t.spares[L + 1] # 0,
             Parts(K, O, S, E \cup {p}, FreePages(t.free), t.spares[L + 1]),
             Alloc(s).num = p, Alloc(s).space = t
      PROVE  /\ SpaceInv(Alloc(s).space, highMask) /\ Alloc(s).num \in Nat
             /\ Alloc(s).space.dpage = s.dpage
             /\ SpaceParts(O, S, D \cup {Alloc(s).num}, Alloc(s).space, highMask)
             /\ Alloc(s).num \notin D \cup DataPageOf(s)
  <2>1. SpaceInv(t, highMask) /\ FixedPages(t, highMask) = K
    BY <1>1, <1>4, SpaceKept
  <2>2. EndOf(t, highMask) = t.spares[L + 1]
    BY <1>4 DEF EndOf
  <2>3. (D \cup {p}) \cup DataPageOf(t) = E \cup {p}
    BY <1>4 DEF DataPageOf
  <2>4. SpaceParts(O, S, D \cup {p}, t, highMask)
    BY <1>4, <2>1, <2>2, <2>3 DEF SpaceParts
  <2>. QED BY <1>4, <2>1, <2>4
<1>5. CASE f = << >>
  <2>. DEFINE c == [s.spares EXCEPT ![L + 1] = @ + 1]
              t == [s EXCEPT !.spares = c]
  <2>1. Alloc(s).num = n /\ Alloc(s).space = t
    BY <1>2, <1>5 DEF Alloc
  <2>2. c \in [Levels -> Nat] /\ c[L + 1] = n + 1
        /\ \A l \in Levels : l # L + 1 => c[l] = s.spares[l]
    BY <1>1, <1>2
  <2>. HIDE DEF c
  <2>3. t \in Space /\ t.ovfl = L /\ t.dpage = s.dpage /\ t.free = s.free
        /\ t.spares = c
    BY <1>1, <2>2 DEF Space
  <2>4. Parts(K, O, S, E \cup {n}, F, n + 1)
    BY <1>2, <1>3, PartsNew
  <2>5. n \notin E
    BY <1>2, <1>3 DEF Parts
  <2>. HIDE DEF t, L, K, E, F, n
  <2>6. t.spares[L + 1] # 0 /\ Parts(K, O, S, E \cup {n}, FreePages(t.free), t.spares[L + 1])
    BY <1>2, <2>2, <2>3, <2>4 DEF F
  <2>. QED BY <1>1, <1>2, <1>4, <2>1, <2>2, <2>3, <2>5, <2>6
<1>6. CASE f # << >> /\ f[1].list # << >>
  <2>. DEFINE r == Front(f[1].list)
              g == [s.free EXCEPT ![L][1].list = r]
              t == [s EXCEPT !.free = g]
              p == Last(f[1].list)
  <2>1. Alloc(s).num = p /\ Alloc(s).space = t
    BY <1>6 DEF Alloc
  <2>2. 1 \in 1 .. Len(f) /\ f[1].list \in Seq(Nat) /\ Len(f[1].list) \in Nat
        /\ Len(f[1].list) # 0
    <3>1. f \in Seq(FreeMap) /\ Len(f) \in Nat
      BY <1>1, MapsOf
    <3>2. 1 \in 1 .. Len(f)
      BY <1>6, <3>1
    <3>3. f[1].list \in Seq(Nat)
      BY <1>1, <3>2, MapsOf
    <3>. HIDE DEF f
    <3>. QED BY <1>6, <3>2, <3>3
  <2>3. r \in Seq(Nat) /\ p = f[1].list[Len(f[1].list)]
    BY <2>2, FrontIs
  <2>4. p \in Nat
    BY <2>2, <2>3, SMTT(30)
  <2>. HIDE DEF r
  <2>5. ListSet(s.free, g, L, 1, r)
    BY <1>1, <2>2, <2>3, ListIsSet
  <2>. HIDE DEF g
  <2>6. FreeOnce(g) /\ p \in F /\ FreePages(g) = F \ {p}
    <3>1. Taking(s.free, g, L, 1)
      BY <1>1, <1>6, <2>2, <2>5 DEF r, Taking
    <3>2. /\ FreeOnce(g)
          /\ Last(s.free[L][1].list) \in FreePages(s.free)
          /\ FreePages(g) = FreePages(s.free) \ {Last(s.free[L][1].list)}
      BY <3>1, TakeListed
    <3>. QED BY <3>2
  <2>7. g \in FreeMaps
    BY <2>5 DEF ListSet
  <2>8. t \in Space /\ t.ovfl = L /\ t.dpage = s.dpage /\ t.free = g
        /\ t.spares = s.spares
    BY <1>1, <2>7 DEF Space, FreeMaps, FreeMap
  <2>9. Parts(K, O, S, E \cup {p}, F \ {p}, n) /\ p \notin E
    <3>1. p \in F
      BY <2>6
    <3>. HIDE DEF K, E, F, n, p
    <3>. QED BY <1>3, <3>1, PartsMoved, Zenon
  <2>. HIDE DEF t, K, E, F, n, L, p
  <2>10. Parts(K, O, S, E \cup {p}, FreePages(t.free), t.spares[L + 1])
    BY <1>2, <2>6, <2>8, <2>9
  <2>. QED BY <1>1, <1>4, <2>1, <2>4, <2>6, <2>8, <2>9, <2>10
<1>7. CASE f # << >> /\ f[1].list = << >>
  <2>. DEFINE g == [s.free EXCEPT ![L] = Tail(f)]
              t == [s EXCEPT !.free = g]
              p == f[1].map
  <2>1. Alloc(s).num = p /\ Alloc(s).space = t
    BY <1>7 DEF Alloc
  <2>2. Tail(f) \in Seq(FreeMap) /\ p \in Nat
    <3>1. f \in Seq(FreeMap) /\ Len(f) \in Nat
      BY <1>1, MapsOf
    <3>2. 1 \in 1 .. Len(f)
      BY <1>7, <3>1
    <3>3. f[1].map \in Nat
      BY <1>1, <3>2, MapsOf
    <3>. HIDE DEF f
    <3>4. Tail(f) \in Seq(FreeMap)
      BY <1>7, <3>1
    <3>. QED BY <3>3, <3>4
  <2>5. MapsSet(s.free, g, L, Tail(f))
    BY <1>1, <2>2, MapsAreSet
  <2>. HIDE DEF g
  <2>6. FreeOnce(g) /\ p \in F /\ FreePages(g) = F \ {p}
    BY <1>1, <1>7, <2>5, TakeMap
  <2>7. g \in FreeMaps
    BY <2>5 DEF MapsSet
  <2>8. t \in Space /\ t.ovfl = L /\ t.dpage = s.dpage /\ t.free = g
        /\ t.spares = s.spares
    BY <1>1, <2>7 DEF Space, FreeMaps, FreeMap
  <2>9. Parts(K, O, S, E \cup {p}, F \ {p}, n) /\ p \notin E
    <3>1. p \in F
      BY <2>6
    <3>. HIDE DEF K, E, F, n, p
    <3>. QED BY <1>3, <3>1, PartsMoved, Zenon
  <2>. HIDE DEF t, K, E, F, n, L, p
  <2>10. Parts(K, O, S, E \cup {p}, FreePages(t.free), t.spares[L + 1])
    BY <1>2, <2>6, <2>8, <2>9
  <2>. QED BY <1>1, <1>4, <2>1, <2>2, <2>6, <2>8, <2>9, <2>10
<1>. QED BY <1>5, <1>6, <1>7

\* The level of a page behind the header is one there is.
LEMMA LevelIs ==
  ASSUME LevelsFit, NEW s, NEW high, SpaceInv(s, high), NEW p \in Nat, p >= HdrPages
  PROVE  LevelOf(s, p) \in Levels
<1>. DEFINE above == {l \in 0 .. s.ovfl : p < s.spares[l]}
<1>1. s.ovfl \in Nat /\ (\A m \in 0 .. s.ovfl + 1 : m \in Levels)
      /\ s.spares[0] = HdrPages
  BY LevelsIs DEF SpaceInv
<1>2. LevelOf(s, p) = (IF above = {} THEN s.ovfl + 1 ELSE Min(above)) - 1
  BY DEF LevelOf
<1>3. above \in SUBSET Nat /\ above \subseteq 0 .. s.ovfl /\ 0 \notin above
  BY <1>1, HashAssumption
<1>. HIDE DEF above
<1>4. CASE above = {}
  BY <1>1, <1>2, <1>4
<1>5. CASE above # {}
  <2>1. \E x \in above : \A y \in above : x <= y
    BY <1>3, <1>5, LeastExists
  <2>. DEFINE m == Min(above)
  <2>2. m \in above
    BY <2>1 DEF Min
  <2>. HIDE DEF m
  <2>3. m \in 1 .. s.ovfl
    <3>1. m \in 0 .. s.ovfl /\ m # 0
      BY <1>3, <2>2
    <3>. QED BY <1>1, <3>1
  <2>4. m - 1 \in Levels
    BY <1>1, <2>3
  <2>. QED BY <1>2, <1>5, <2>4 DEF m
<1>. QED BY <1>4, <1>5

\* A page of a split goes to the free maps.
LEMMA FreeIs ==
  ASSUME LevelsFit, NEW s, SpaceInv(s, highMask), NEW O, NEW S, NEW D,
         SpaceParts(O, S, D, s, highMask), NEW p \in S, p \in Nat
  PROVE  LET t == FreeOvflPage(s, p)
         IN  /\ SpaceInv(t, highMask) /\ t.dpage = s.dpage
             /\ SpaceParts(O, S \ {p}, D, t, highMask)
<1>. DEFINE K == FixedPages(s, highMask)
            E == D \cup DataPageOf(s)
            F == FreePages(s.free)
            n == EndOf(s, highMask)
            l == LevelOf(s, p)
            f == s.free[l]
            room == {i \in DOMAIN f : Len(f[i].list) < MapCap}
<1>1. /\ s \in Space /\ s.free \in FreeMaps /\ FreeOnce(s.free)
      /\ s.ovfl + 1 \in Levels
      /\ (s.dpage = NoPage <=> s.spares[s.ovfl + 1] = 0)
  BY LevelsIs DEF SpaceInv
<1>2. Parts(K, O, S, E, F, n)
  BY DEF SpaceParts
<1>3. p >= HdrPages
  <2>1. p \notin K
    BY <1>2 DEF Parts
  <2>2. 0 .. HdrPages - 1 \subseteq K
    BY DEF FixedPages
  <2>. HIDE DEF K
  <2>. QED BY <2>1, <2>2, HashAssumption
<1>4. l \in Levels
  BY <1>3, LevelIs
<1>5. Parts(K, O, S \ {p}, E, F \cup {p}, n) /\ p \notin F
  <2>. HIDE DEF K, E, F, n
  <2>. QED BY <1>2, PartsMoved
<1>6. FreeOvflPage(s, p)
        = IF room = {}
          THEN [s EXCEPT !.free[l] = Append(@, [map |-> p, list |-> << >>])]
          ELSE [s EXCEPT !.free[l][Min(room)].list = Append(@, p)]
  BY DEF FreeOvflPage
<1>. HIDE DEF l
<1>7. ASSUME NEW g \in FreeMaps, FreeOnce(g), FreePages(g) = F \cup {p},
             FreeOvflPage(s, p) = [s EXCEPT !.free = g]
      PROVE  /\ SpaceInv(FreeOvflPage(s, p), highMask)
             /\ FreeOvflPage(s, p).dpage = s.dpage
             /\ SpaceParts(O, S \ {p}, D, FreeOvflPage(s, p), highMask)
  <2>. DEFINE t == [s EXCEPT !.free = g]
  <2>1. t \in Space /\ t.ovfl = s.ovfl /\ t.dpage = s.dpage /\ t.free = g
        /\ t.spares = s.spares
    BY <1>1 DEF Space, FreeMaps, FreeMap
  <2>. HIDE DEF t
  <2>2. /\ SpaceInv(t, highMask) /\ FixedPages(t, highMask) = K
        /\ BucketToPage(t, highMask) = BucketToPage(s, highMask)
    BY <1>1, <1>7, <2>1, SpaceKept
  <2>3. EndOf(t, highMask) = n /\ DataPageOf(t) = DataPageOf(s)
    BY <2>1, <2>2 DEF EndOf, DataPageOf
  <2>4. SpaceParts(O, S \ {p}, D, t, highMask)
    BY <1>5, <1>7, <2>1, <2>2, <2>3 DEF SpaceParts
  <2>. QED BY <1>7, <2>1, <2>2, <2>4 DEF t
<1>8. CASE room = {}
  <2>. DEFINE r == [map |-> p, list |-> << >>]
              c == Append(f, r)
              g == [s.free EXCEPT ![l] = c]
  <2>1. FreeOvflPage(s, p) = [s EXCEPT !.free = g]
    BY <1>6, <1>8
  <2>2. r \in FreeMap
    <3>1. << >> \in Seq(Nat)
      OBVIOUS
    <3>. QED BY <3>1 DEF FreeMap
  <2>3. f \in Seq(FreeMap)
    BY <1>1, <1>4, MapsOf
  <2>4. c \in Seq(FreeMap)
    <3>. HIDE DEF f, r
    <3>. QED BY <2>2, <2>3
  <2>5. MapsSet(s.free, g, l, c)
    <3>. HIDE DEF c
    <3>. QED BY <1>1, <1>4, <2>4, MapsAreSet
  <2>. HIDE DEF g
  <2>6. FreeOnce(g) /\ FreePages(g) = F \cup {p}
    BY <1>1, <1>4, <1>5, <2>5, AddMap
  <2>7. g \in FreeMaps
    BY <2>5 DEF MapsSet
  <2>. QED BY <1>7, <2>1, <2>6, <2>7
<1>9. CASE room # {}
  <2>. DEFINE h == Min(room)
              c == Append(f[h].list, p)
              g == [s.free EXCEPT ![l][h].list = c]
  <2>1. FreeOvflPage(s, p) = [s EXCEPT !.free = g]
    BY <1>6, <1>9
  <2>2. f \in Seq(FreeMap) /\ Len(f) \in Nat
    BY <1>1, <1>4, MapsOf
  <2>3. room \in SUBSET Nat /\ room \subseteq 1 .. Len(f)
    <3>. HIDE DEF f
    <3>. QED BY <2>2
  <2>4. h \in 1 .. Len(f)
    <3>. HIDE DEF room, f
    <3>1. \E x \in room : \A y \in room : x <= y
      BY <1>9, <2>3, LeastExists
    <3>. QED BY <2>3, <3>1 DEF Min
  <2>. HIDE DEF h, room
  <2>5. f[h].list \in Seq(Nat)
    BY <1>1, <1>4, <2>4, MapsOf
  <2>6. c \in Seq(Nat)
    <3>. HIDE DEF f
    <3>. QED BY <2>5
  <2>7. ListSet(s.free, g, l, h, c)
    <3>. HIDE DEF c
    <3>. QED BY <1>1, <1>4, <2>4, <2>6, ListIsSet
  <2>. HIDE DEF g
  <2>8. FreeOnce(g) /\ FreePages(g) = F \cup {p}
    BY <1>1, <1>4, <1>5, <2>4, <2>7, AddListed
  <2>9. g \in FreeMaps
    BY <2>7 DEF ListSet
  <2>. QED BY <1>7, <2>1, <2>8, <2>9
<1>. QED BY <1>8, <1>9

\* The file gets m pages more, for buckets.
LEMMA PartsGrown ==
  ASSUME NEW K, NEW O, NEW S, NEW D, NEW F, NEW n \in Nat, NEW m \in Nat \ {0},
         Parts(K, O, S, D, F, n)
  PROVE  Parts(K \cup (n .. n + m - 1), O, S, D, F, n + m)
<1>. DEFINE Old == 0 .. n - 1
            New == 0 .. (n + m) - 1
            N   == n .. n + m - 1
<1>1. New = Old \cup N /\ N \cap Old = {}
  OBVIOUS
<1>2. /\ K \cup O \cup S \cup D \cup F = Old
      /\ K \cap (O \cup S \cup D \cup F) = {} /\ O \cap (S \cup D \cup F) = {}
      /\ S \cap (D \cup F) = {} /\ D \cap F = {}
  BY DEF Parts
<1>. HIDE DEF Old, New, N
<1>3. /\ (K \cup N) \cup O \cup S \cup D \cup F = New
      /\ (K \cup N) \cap (O \cup S \cup D \cup F) = {}
  BY <1>1, <1>2
<1>. QED BY <1>2, <1>3 DEF Parts, New, N

\* The first bucket of another level takes the pages of all its buckets.
LEMMA GrownIs ==
  ASSUME LevelsFit, NEW s, NEW high, SpaceInv(s, high), NEW O, NEW S, NEW D,
         SpaceParts(O, S, D, s, high), s.dpage # NoPage, s.dpage \in D,
         NEW new \in 1 .. high + 1, new <= MaxBuckets, NEW high2,
         high2 = IF new > high THEN 2 * high + 1 ELSE high
  PROVE  LET t == Grown(s, new)
         IN  SpaceInv(t, high2) /\ SpaceParts(O, S, D, t, high2)
<1>. DEFINE L == s.ovfl
            M == Pow2[L]
            n == s.spares[L + 1]
            t == Grown(s, new)
<1>1. /\ L \in Nat /\ L <= WordBits /\ (\A m \in 0 .. L + 1 : m \in Levels)
      /\ s.spares \in [Levels -> Nat] /\ s \in Space /\ FreeOnce(s.free)
      /\ high = M - 1 /\ high \in Nat /\ L + 1 \in Levels
      /\ L <= NCached - 2 /\ n # 0 /\ s.spares[0] = HdrPages
      /\ NCached \in Nat /\ MaxBuckets \in Nat /\ FixedOnce(s, high)
      /\ \A l \in Levels : l > L + 1 => s.spares[l] = 0
  BY LevelsIs, HashAssumption DEF SpaceInv
<1>2. M \in Nat \ {0} /\ Pow2[L + 1] = 2 * M
  BY <1>1, Pow2Is
<1>3. CASE new <= high
  <2>1. new \in 0 .. Pow2[L] - 1 /\ high2 = high
    BY <1>1, <1>3
  <2>2. Log2(new + 1) \in 0 .. L
    BY <1>1, <2>1, LevelOfBucket
  <2>3. ~(Log2(new + 1) > L)
    BY <1>1, <2>2
  <2>4. Grown(s, new) = s
    BY <2>3 DEF Grown
  <2>. QED BY <2>1, <2>4
<1>4. CASE new > high
  <2>1. new = M /\ high2 = 2 * M - 1
    BY <1>1, <1>2, <1>4
  <2>2. L + 1 <= NCached - 2 /\ L + 1 <= WordBits /\ L + 2 \in Levels
        /\ L + 1 \in 1 .. NCached - 2
    <3>1. NCached - 2 \in Nat /\ WordBits \in Nat
      BY <1>1, HashAssumption DEF LevelsFit
    <3>2. Pow2[L] < Pow2[NCached - 2]
      <4>1. Pow2[NCached - 2] \in Nat /\ MaxBuckets < Pow2[NCached - 2]
        BY <3>1, Pow2Is DEF LevelsFit
      <4>. QED BY <1>1, <1>2, <2>1, <4>1
    <3>3. L < NCached - 2
      BY <1>1, <3>1, <3>2, Pow2Order
    <3>4. NCached - 2 <= WordBits /\ L \in Nat /\ NCached \in Nat
      BY <1>1 DEF LevelsFit
    <3>. HIDE DEF L
    <3>. QED BY <3>1, <3>3, <3>4 DEF Levels
  <2>3. Log2(new + 1) = L + 1
    <3>1. M \in 0 .. Pow2[L + 1] - 1 /\ L + 1 > 0 /\ (L + 1) - 1 = L /\ L + 1 \in Nat
      BY <1>1, <1>2
    <3>. QED BY <1>2, <2>1, <2>2, <3>1, LevelOfBucket
  <2>4. t = [s EXCEPT !.dpage = NoPage, !.ovfl = L + 1]
    <3>1. Log2(new + 1) > L
      BY <1>1, <2>3
    <3>. QED BY <2>3, <3>1 DEF Grown
  <2>5. /\ t \in Space /\ t.ovfl = L + 1 /\ t.dpage = NoPage
        /\ t.spares = s.spares /\ t.free = s.free
    BY <1>1, <2>4 DEF Space
  <2>. HIDE DEF t, n, M, L
  <2>6. n \in Nat /\ EndOf(s, high) = n
    BY <1>1 DEF EndOf, n, L
  <2>7. ASSUME NEW b \in 0 .. high
        PROVE  BucketToPage(t, b) = BucketToPage(s, b)
    <3>1. \A m \in 0 .. L : t.spares[m] = s.spares[m]
      BY <2>5
    <3>2. b \in 0 .. Pow2[L] - 1
      BY <1>1 DEF M
    <3>. QED BY <1>1, <3>1, <3>2, BucketPageSame
  <2>8. ASSUME NEW b \in M .. 2 * M - 1
        PROVE  BucketToPage(t, b) = b - M + n
    <3>1. b \in 0 .. Pow2[L + 1] - 1 /\ b > 0 /\ L + 1 \in Nat /\ L + 1 > 0
          /\ (L + 1) - 1 = L /\ b >= Pow2[L]
      BY <1>1, <1>2 DEF M
    <3>2. Log2(b + 1) = L + 1
      BY <2>2, <3>1, LevelOfBucket
    <3>3. BucketToPage(t, b) = b - Pow2[(L + 1) - 1] + t.spares[L + 1]
      BY <3>1, <3>2 DEF BucketToPage
    <3>. QED BY <2>5, <3>1, <3>3 DEF M, n
  <2>9. ASSUME NEW b \in 0 .. high
        PROVE  BucketToPage(s, b) \in 0 .. n - 1
    BY <2>6 DEF SpaceParts, Parts, FixedPages
  <2>10. HdrPages \in Nat \ {0} /\ HdrPages <= n
    <3>1. HdrPages \in Nat \ {0} /\ HdrPages - 1 \in 0 .. HdrPages - 1
      BY HashAssumption
    <3>2. HdrPages - 1 \in 0 .. n - 1
      BY <2>6, <3>1 DEF SpaceParts, Parts, FixedPages
    <3>. QED BY <2>6, <3>1, <3>2
  <2>11. \A b \in 0 .. 2 * M - 1 : b \in 0 .. high \/ b \in M .. 2 * M - 1
    BY <1>1, <1>2
  <2>12. FixedOnce(t, high2)
    <3>. SUFFICES ASSUME NEW b \in 0 .. high2, NEW c \in 0 .. high2
                  PROVE  /\ BucketToPage(t, b) = BucketToPage(t, c) => b = c
                         /\ BucketToPage(t, b) >= HdrPages
      BY DEF FixedOnce
    <3>1. /\ b \in 0 .. high \/ b \in M .. 2 * M - 1
          /\ c \in 0 .. high \/ c \in M .. 2 * M - 1
      BY <2>1, <2>11
    <3>2. CASE b \in 0 .. high /\ c \in 0 .. high
      BY <1>1, <2>7, <3>2 DEF FixedOnce
    <3>3. CASE b \in 0 .. high /\ c \in M .. 2 * M - 1
      <4>1. BucketToPage(t, b) \in 0 .. n - 1 /\ BucketToPage(t, b) >= HdrPages
        BY <1>1, <2>7, <2>9, <3>3 DEF FixedOnce
      <4>2. BucketToPage(t, c) = c - M + n
        BY <2>8, <3>3
      <4>. QED BY <1>2, <2>6, <3>3, <4>1, <4>2
    <3>4. CASE b \in M .. 2 * M - 1 /\ c \in 0 .. high
      <4>1. BucketToPage(t, c) \in 0 .. n - 1
        BY <2>7, <2>9, <3>4
      <4>2. BucketToPage(t, b) = b - M + n
        BY <2>8, <3>4
      <4>. QED BY <1>2, <2>6, <2>10, <3>4, <4>1, <4>2
    <3>5. CASE b \in M .. 2 * M - 1 /\ c \in M .. 2 * M - 1
      <4>1. BucketToPage(t, b) = b - M + n /\ BucketToPage(t, c) = c - M + n
        BY <2>8, <3>5
      <4>. QED BY <1>2, <2>6, <2>10, <3>5, <4>1
    <3>. QED BY <3>1, <3>2, <3>3, <3>4, <3>5
  <2>13. FixedPages(t, high2) = FixedPages(s, high) \cup (n .. n + M - 1)
    <3>1. ASSUME NEW b \in 0 .. high2
          PROVE  BucketToPage(t, b) \in FixedPages(s, high) \cup (n .. n + M - 1)
      <4>1. CASE b \in 0 .. high
        BY <2>7, <4>1 DEF FixedPages
      <4>2. CASE b \in M .. 2 * M - 1
        <5>1. BucketToPage(t, b) = b - M + n
          BY <2>8, <4>2
        <5>2. b - M + n \in n .. n + M - 1
          BY <1>2, <2>6, <4>2
        <5>. QED BY <5>1, <5>2
      <4>. QED BY <2>1, <2>11, <4>1, <4>2
    <3>2. ASSUME NEW q \in n .. n + M - 1
          PROVE  \E b \in 0 .. high2 : BucketToPage(t, b) = q
      <4>1. q - n + M \in M .. 2 * M - 1 /\ q - n + M \in 0 .. high2
            /\ (q - n + M) - M + n = q
        BY <1>2, <2>1, <2>6
      <4>. QED BY <2>8, <4>1
    <3>3. ASSUME NEW b \in 0 .. high
          PROVE  b \in 0 .. high2 /\ BucketToPage(t, b) = BucketToPage(s, b)
      BY <1>1, <1>2, <2>1, <2>7
    <3>. DEFINE X == n .. n + M - 1
                Y == 0 .. high2
                Z == 0 .. high
    <3>4. /\ \A b \in Y : BucketToPage(t, b) \in FixedPages(s, high) \cup X
          /\ \A q \in X : \E b \in Y : BucketToPage(t, b) = q
          /\ \A b \in Z : b \in Y /\ BucketToPage(t, b) = BucketToPage(s, b)
          /\ FixedPages(t, high2) = (0 .. HdrPages - 1) \cup {BucketToPage(t, b) : b \in Y}
          /\ FixedPages(s, high) = (0 .. HdrPages - 1) \cup {BucketToPage(s, b) : b \in Z}
      BY <3>1, <3>2, <3>3 DEF FixedPages
    <3>. HIDE DEF X, Y, Z
    <3>5. FixedPages(t, high2) = FixedPages(s, high) \cup X
      BY <3>4
    <3>. QED BY <3>5 DEF X
  <2>14. EndOf(t, high2) = n + M
    <3>1. t.spares[t.ovfl + 1] = 0
      <4>1. (L + 1) + 1 = L + 2 /\ L + 2 > L + 1
        BY <1>1
      <4>. QED BY <1>1, <2>2, <2>5, <4>1
    <3>2. 2 * M - 1 \in M .. 2 * M - 1
      BY <1>2
    <3>3. BucketToPage(t, 2 * M - 1) = (2 * M - 1) - M + n
      BY <2>8, <3>2
    <3>4. EndOf(t, high2) = BucketToPage(t, high2) + 1
      BY <3>1 DEF EndOf
    <3>. QED BY <1>2, <2>1, <2>6, <3>3, <3>4
  <2>15. SpaceInv(t, high2)
    <3>1. high2 = Pow2[t.ovfl] - 1
      BY <1>2, <2>1, <2>5
    <3>2. t.spares[t.ovfl + 1] = 0
      <4>1. (L + 1) + 1 = L + 2 /\ L + 2 > L + 1
        BY <1>1
      <4>. QED BY <1>1, <2>2, <2>5, <4>1
    <3>3. \A l \in Levels : l > t.ovfl + 1 => t.spares[l] = 0
      <4>1. \A l \in Levels : l > t.ovfl + 1 => l > L + 1
        BY <1>1, <2>5 DEF Levels
      <4>. QED BY <1>1, <2>5, <4>1
    <3>4. t.ovfl \in 1 .. NCached - 2 /\ t.spares[0] = HdrPages
      BY <1>1, <2>2, <2>5
    <3>5. (t.dpage = NoPage <=> t.spares[t.ovfl + 1] = 0) /\ FreeOnce(t.free)
      BY <1>1, <2>5, <3>2
    <3>. QED BY <2>5, <2>12, <3>1, <3>3, <3>4, <3>5 DEF SpaceInv
  <2>16. SpaceParts(O, S, D, t, high2)
    <3>1. D \cup DataPageOf(s) = D /\ D \cup DataPageOf(t) = D
      BY <2>5 DEF DataPageOf
    <3>2. Parts(FixedPages(s, high), O, S, D, FreePages(s.free), n)
      BY <2>6, <3>1 DEF SpaceParts
    <3>3. Parts(FixedPages(s, high) \cup (n .. n + M - 1), O, S, D, FreePages(s.free), n + M)
      BY <1>2, <2>6, <3>2, PartsGrown
    <3>. QED BY <2>5, <2>13, <2>14, <3>1, <3>3 DEF SpaceParts
  <2>. QED BY <2>15, <2>16 DEF t
<1>. QED BY <1>1, <1>3, <1>4

\* An overflow page: neither data's nor a chain's before.
LEMMA OvflPageIs ==
  ASSUME LevelsFit, NEW s, SpaceInv(s, highMask), NEW O, NEW S, NEW D,
         SpaceParts(O, S, D, s, highMask)
  PROVE  LET o == OvflPage(s)
         IN  /\ SpaceInv(o.space, highMask) /\ o.num \in Nat
             /\ o.num \notin O /\ o.space.dpage # NoPage
             /\ SpaceParts(O \cup {o.num}, S, D, o.space, highMask)
<1>. DEFINE r == Reserve(s)
            o == Alloc(r)
            E == D \cup DataPageOf(o.space)
<1>1. SpaceInv(r, highMask) /\ SpaceParts(O, S, D, r, highMask) /\ r.dpage # NoPage
  BY ReserveIs
<1>. HIDE DEF r
<1>2. /\ SpaceInv(o.space, highMask) /\ o.num \in Nat
      /\ o.space.dpage = r.dpage
      /\ SpaceParts(O, S, D \cup {o.num}, o.space, highMask)
      /\ o.num \notin D \cup DataPageOf(r)
  BY <1>1, AllocIs
<1>. HIDE DEF o
<1>3. DataPageOf(o.space) = DataPageOf(r)
  BY <1>2 DEF DataPageOf
<1>4. (D \cup {o.num}) \cup DataPageOf(o.space) = E \cup {o.num} /\ o.num \notin E
  BY <1>2, <1>3
<1>. HIDE DEF E
<1>5. Parts(FixedPages(o.space, highMask), O, S, E \cup {o.num},
            FreePages(o.space.free), EndOf(o.space, highMask))
  BY <1>2, <1>4 DEF SpaceParts
<1>6. o.num \notin O
  BY <1>5 DEF Parts
<1>7. Parts(FixedPages(o.space, highMask), O \cup {o.num}, S, E,
            FreePages(o.space.free), EndOf(o.space, highMask))
  <2>. DEFINE p == o.num
              K == FixedPages(o.space, highMask)
              F == FreePages(o.space.free)
              n == EndOf(o.space, highMask)
  <2>1. Parts(K, O, S, E \cup {p}, F, n) /\ p \notin E
    BY <1>4, <1>5
  <2>. HIDE DEF p, K, F, n
  <2>2. Parts(K, O \cup {p}, S, E, F, n)
    BY <2>1, PartsMoved
  <2>. QED BY <2>2 DEF p, K, F, n
<1>8. SpaceParts(O \cup {o.num}, S, D, o.space, highMask)
  BY <1>7 DEF SpaceParts, E
<1>9. OvflPage(s) = o
  BY DEF OvflPage, o, r
<1>. QED BY <1>1, <1>2, <1>6, <1>8, <1>9

\* A data page for data that does not end on the page it is on.
LEMMA DataPageIs ==
  ASSUME LevelsFit, NEW s, SpaceInv(s, highMask), NEW O, NEW S, NEW D,
         SpaceParts(O, S, D, s, highMask), s.dpage # NoPage, s.dpage \in D
  PROVE  LET d == DataPage(s)
         IN  /\ SpaceInv(d.space, highMask) /\ d.num \in Nat
             /\ d.space.dpage = d.num
             /\ SpaceParts(O, S, D \cup {d.num}, d.space, highMask)
<1>. DEFINE a == Alloc(s)
            t == [a.space EXCEPT !.dpage = a.num]
<1>1. Reserve(s) = s
  BY ReserveFields
<1>2. /\ SpaceInv(a.space, highMask) /\ a.num \in Nat
      /\ a.space.dpage = s.dpage
      /\ SpaceParts(O, S, D \cup {a.num}, a.space, highMask)
  BY AllocIs
<1>3. DataPage(s).num = a.num /\ DataPage(s).space = t
  <2>1. DataPage(s) = [a EXCEPT !.space = t]
    BY <1>1 DEF DataPage
  <2>2. DOMAIN a = {"num", "space"}
    BY DEF Alloc
  <2>. HIDE DEF a, t
  <2>3. [a EXCEPT !.space = t].num = a.num /\ [a EXCEPT !.space = t].space = t
    BY <2>2
  <2>. QED BY <2>1, <2>3
<1>. HIDE DEF a
<1>4. a.space \in Space /\ a.num # NoPage
      /\ a.space.spares[a.space.ovfl + 1] # 0 /\ FreeOnce(a.space.free)
  BY <1>2 DEF SpaceInv, NoPage
<1>5. /\ t \in Space /\ t.dpage = a.num /\ t.ovfl = a.space.ovfl
      /\ t.free = a.space.free /\ t.spares = a.space.spares
  BY <1>2, <1>4 DEF Space
<1>. HIDE DEF t
<1>6. /\ SpaceInv(t, highMask)
      /\ FixedPages(t, highMask) = FixedPages(a.space, highMask)
      /\ BucketToPage(t, highMask) = BucketToPage(a.space, highMask)
  BY <1>2, <1>4, <1>5, SpaceKept
<1>7. EndOf(t, highMask) = EndOf(a.space, highMask)
  BY <1>5, <1>6 DEF EndOf
<1>8. (D \cup {a.num}) \cup DataPageOf(t) = (D \cup {a.num}) \cup DataPageOf(a.space)
  BY <1>2, <1>5 DEF DataPageOf
<1>9. SpaceParts(O, S, D \cup {a.num}, t, highMask)
  BY <1>2, <1>5, <1>6, <1>7, <1>8 DEF SpaceParts
<1>. QED BY <1>2, <1>3, <1>5, <1>6, <1>9


-----------------------------------------------------------------------------
(***************************************************************************)
(* The chains.                                                             *)
(***************************************************************************)
LEMMA OvflAdded ==
  ASSUME NEW P \in [Buckets -> Seq(Nat)], OvflOnce(P), NEW b \in Buckets,
         Len(P[b]) >= 1, NEW p \in Nat, p \notin OvflPages(P), NEW Q,
         Q = [P EXCEPT ![b] = Append(P[b], p)]
  PROVE  /\ Q \in [Buckets -> Seq(Nat)]
         /\ OvflOnce(Q) /\ OvflPages(Q) = OvflPages(P) \cup {p}
<1>. DEFINE s == P[b]
            n == Len(s)
            w == <<b, n + 1>>
<1>1. s \in Seq(Nat) /\ n \in Nat /\ n >= 1 /\ s = P[b] /\ n = Len(s)
  OBVIOUS
<1>. HIDE DEF s, n
<1>2. /\ Append(s, p) \in Seq(Nat) /\ Len(Append(s, p)) = n + 1
      /\ Append(s, p)[n + 1] = p
      /\ \A i \in 1 .. n : Append(s, p)[i] = s[i]
  BY <1>1
<1>3. /\ Q \in [Buckets -> Seq(Nat)] /\ Q[b] = Append(s, p)
      /\ \A c \in Buckets : c # b => Q[c] = P[c]
  BY <1>1, <1>2
<1>4. ASSUME NEW c \in Buckets, NEW i \in Nat
      PROVE  /\ i \in 2 .. Len(Q[c]) <=> i \in 2 .. Len(P[c]) \/ <<c, i>> = w
             /\ i \in 2 .. Len(P[c]) => Q[c][i] = P[c][i] /\ <<c, i>> # w
  <2>1. CASE c # b
    <3>1. Q[c] = P[c]
      BY <1>3, <2>1
    <3>. QED BY <2>1, <3>1
  <2>2. CASE c = b
    <3>1. <<c, i>> = w <=> i = n + 1
      BY <2>2
    <3>2. i \in 2 .. Len(P[c]) <=> i \in 2 .. n
      BY <1>1, <2>2
    <3>3. i \in 2 .. Len(Q[c]) <=> i \in 2 .. n + 1
      BY <1>2, <1>3, <2>2
    <3>4. i \in 2 .. n + 1 <=> i \in 2 .. n \/ i = n + 1
      BY <1>1
    <3>5. i \in 2 .. n => i # n + 1 /\ Append(s, p)[i] = s[i]
      BY <1>1, <1>2
    <3>. HIDE DEF w
    <3>. QED BY <1>1, <1>3, <2>2, <3>1, <3>2, <3>3, <3>4, <3>5
  <2>. QED BY <2>1, <2>2
<1>5. w \in Buckets \X Nat /\ OvflAt(Q, w) = p
  BY <1>1, <1>2, <1>3 DEF OvflAt
<1>. HIDE DEF w
<1>6. OvflSlots(Q) = OvflSlots(P) \cup {w} /\ w \notin OvflSlots(P)
  <2>1. ASSUME NEW x \in Buckets \X Nat
        PROVE  /\ x[2] \in 2 .. Len(Q[x[1]]) <=> x[2] \in 2 .. Len(P[x[1]]) \/ x = w
               /\ x[2] \in 2 .. Len(P[x[1]]) => x # w
    <3>1. x = <<x[1], x[2]>> /\ x[1] \in Buckets /\ x[2] \in Nat
      OBVIOUS
    <3>. QED BY <1>4, <3>1
  <2>. QED BY <1>5, <2>1 DEF OvflSlots
<1>7. \A x \in OvflSlots(P) : OvflAt(Q, x) = OvflAt(P, x)
  <2>. TAKE x \in OvflSlots(P)
  <2>1. x[1] \in Buckets /\ x[2] \in Nat /\ x[2] \in 2 .. Len(P[x[1]])
    BY DEF OvflSlots
  <2>. QED BY <1>4, <2>1 DEF OvflAt
<1>8. OvflOnce(Q) /\ OvflPages(Q) = OvflPages(P) \cup {p}
  <2>1. \A x \in OvflSlots(P) : OvflAt(Q, x) \in OvflPages(P)
    BY <1>7 DEF OvflPages
  <2>2. OvflOnce(Q)
    <3>. SUFFICES ASSUME NEW x \in OvflSlots(Q), NEW y \in OvflSlots(Q),
                         OvflAt(Q, x) = OvflAt(Q, y)
                  PROVE  x = y
      BY DEF OvflOnce
    <3>1. CASE x \in OvflSlots(P) /\ y \in OvflSlots(P)
      BY <1>7, <3>1 DEF OvflOnce
    <3>2. CASE x = w /\ y # w
      BY <1>5, <1>6, <2>1, <3>2
    <3>3. CASE x # w /\ y = w
      BY <1>5, <1>6, <2>1, <3>3
    <3>. QED BY <1>6, <3>1, <3>2, <3>3
  <2>3. ASSUME NEW x \in OvflSlots(Q)
        PROVE  OvflAt(Q, x) \in OvflPages(P) \cup {p}
    BY <1>5, <1>6, <2>1
  <2>4. ASSUME NEW x \in OvflSlots(P)
        PROVE  OvflAt(P, x) \in OvflPages(Q)
    <3>1. x \in OvflSlots(Q) /\ OvflAt(Q, x) = OvflAt(P, x)
      BY <1>6, <1>7
    <3>. QED BY <3>1 DEF OvflPages
  <2>5. p \in OvflPages(Q)
    BY <1>5, <1>6 DEF OvflPages
  <2>6. OvflPages(Q) \subseteq OvflPages(P) \cup {p}
    BY <2>3 DEF OvflPages
  <2>7. OvflPages(P) \subseteq OvflPages(Q)
    BY <2>4 DEF OvflPages
  <2>. QED BY <2>2, <2>5, <2>6, <2>7
<1>. QED BY <1>3, <1>8

\* A bucket is split: the overflow pages of its chain are in no chain then.
Cut(P, Q, old, new, T) ==
  /\ P \in [Buckets -> Seq(Nat)] /\ OvflOnce(P) /\ Q \in [Buckets -> Seq(Nat)]
  /\ old \in Buckets /\ new \in Buckets /\ new # old
  /\ P[new] = << >> /\ Len(P[old]) >= 1 /\ T = Tail(P[old])
  /\ Len(Q[old]) = 1 /\ Len(Q[new]) = 1
  /\ \A c \in Buckets : c \notin {old, new} => Q[c] = P[c]

LEMMA OvflCut ==
  ASSUME NEW P, NEW Q, NEW old, NEW new, NEW T, Cut(P, Q, old, new, T)
  PROVE  /\ OvflOnce(Q) /\ IsInjective(T)
         /\ OvflPages(P) = OvflPages(Q) \cup Range(T)
         /\ OvflPages(Q) \cap Range(T) = {}
<1>0. /\ P \in [Buckets -> Seq(Nat)] /\ OvflOnce(P) /\ Q \in [Buckets -> Seq(Nat)]
      /\ old \in Buckets /\ new \in Buckets /\ new # old
      /\ P[new] = << >> /\ Len(P[old]) >= 1 /\ T = Tail(P[old])
      /\ Len(Q[old]) = 1 /\ Len(Q[new]) = 1
      /\ \A c \in Buckets : c \notin {old, new} => Q[c] = P[c]
  BY DEF Cut
<1>. USE <1>0
<1>. DEFINE s == P[old]
            n == Len(s)
<1>1. s \in Seq(Nat) /\ n \in Nat /\ n >= 1 /\ s = P[old] /\ n = Len(s)
      /\ T = Tail(s)
  OBVIOUS
<1>. HIDE DEF s, n
<1>2. /\ T \in Seq(Nat) /\ Len(T) = n - 1 /\ DOMAIN T = 1 .. n - 1
      /\ \A i \in 1 .. n - 1 : T[i] = s[i + 1]
  BY <1>1
<1>3. ASSUME NEW c \in Buckets, NEW i \in Nat
      PROVE  /\ i \in 2 .. Len(Q[c]) <=> i \in 2 .. Len(P[c]) /\ c # old
             /\ i \in 2 .. Len(Q[c]) => Q[c][i] = P[c][i]
  <2>1. CASE c = old
    <3>1. Len(Q[c]) = 1 /\ i \notin 2 .. 1
      BY <2>1
    <3>. QED BY <2>1, <3>1
  <2>2. CASE c = new
    <3>1. Len(Q[c]) = 1 /\ Len(P[c]) = 0 /\ i \notin 2 .. 1 /\ i \notin 2 .. 0
      BY <2>2
    <3>. QED BY <3>1
  <2>3. CASE c \notin {old, new}
    <3>1. Q[c] = P[c]
      BY <2>3
    <3>. QED BY <2>3, <3>1
  <2>. QED BY <2>1, <2>2, <2>3
<1>4. ASSUME NEW x \in Buckets \X Nat
      PROVE  /\ x \in OvflSlots(Q) <=> x \in OvflSlots(P) /\ x[1] # old
             /\ x \in OvflSlots(Q) => OvflAt(Q, x) = OvflAt(P, x)
  <2>1. x[1] \in Buckets /\ x[2] \in Nat
    OBVIOUS
  <2>. QED BY <1>3, <2>1 DEF OvflSlots, OvflAt
<1>5. OvflSlots(P) \subseteq Buckets \X Nat /\ OvflSlots(Q) \subseteq Buckets \X Nat
  BY DEF OvflSlots
<1>6. OvflOnce(Q)
  BY <1>4, <1>5 DEF OvflOnce
<1>. DEFINE at(i) == <<old, i + 1>>
<1>7. ASSUME NEW i \in 1 .. n - 1
      PROVE  at(i) \in OvflSlots(P) /\ OvflAt(P, at(i)) = T[i] /\ at(i)[1] = old
  <2>1. i + 1 \in 2 .. Len(P[old]) /\ i + 1 \in Nat
    BY <1>1
  <2>2. P[old][i + 1] = T[i]
    BY <1>1, <1>2
  <2>. QED BY <2>1, <2>2 DEF OvflSlots, OvflAt
<1>8. ASSUME NEW i \in 1 .. n - 1, NEW j \in 1 .. n - 1, at(i) = at(j)
      PROVE  i = j
  <2>1. i + 1 = j + 1
    BY <1>8
  <2>. QED BY <1>1, <2>1
<1>9. ASSUME NEW x \in OvflSlots(P), x[1] = old
      PROVE  OvflAt(P, x) \in Range(T)
  <2>1. x[2] \in 2 .. Len(P[old])
    BY <1>9 DEF OvflSlots
  <2>2. PICK q \in 2 .. n : q = x[2]
    BY <1>1, <2>1
  <2>. DEFINE j == q - 1
  <2>3. j \in 1 .. n - 1 /\ j + 1 = q
    BY <1>1
  <2>. HIDE DEF j
  <2>4. T[j] = s[j + 1]
    BY <1>2, <2>3
  <2>5. T[j] = OvflAt(P, x)
    BY <1>1, <1>9, <2>2, <2>3, <2>4 DEF OvflAt
  <2>. QED BY <1>2, <2>3, <2>5 DEF Range
<1>. HIDE DEF at
<1>10. IsInjective(T)
  <2>. SUFFICES ASSUME NEW i \in 1 .. n - 1, NEW j \in 1 .. n - 1, T[i] = T[j]
                PROVE  i = j
    BY <1>2 DEF IsInjective
  <2>1. at(i) \in OvflSlots(P) /\ OvflAt(P, at(i)) = T[i]
    BY <1>7
  <2>2. at(j) \in OvflSlots(P) /\ OvflAt(P, at(j)) = T[j]
    BY <1>7
  <2>3. at(i) = at(j)
    BY <2>1, <2>2 DEF OvflOnce
  <2>. QED BY <1>8, <2>3
<1>11. OvflPages(P) = OvflPages(Q) \cup Range(T)
  <2>1. \A p \in OvflPages(P) : p \in OvflPages(Q) \cup Range(T)
    <3>. TAKE p \in OvflPages(P)
    <3>1. PICK x \in OvflSlots(P) : p = OvflAt(P, x)
      BY DEF OvflPages
    <3>2. CASE x[1] = old
      BY <1>9, <3>1, <3>2
    <3>3. CASE x[1] # old
      <4>1. x \in OvflSlots(Q) /\ OvflAt(Q, x) = p
        BY <1>4, <1>5, <3>1, <3>3
      <4>. QED BY <4>1 DEF OvflPages
    <3>. QED BY <3>2, <3>3
  <2>2. ASSUME NEW x \in OvflSlots(Q) PROVE OvflAt(Q, x) \in OvflPages(P)
    <3>1. x \in OvflSlots(P) /\ OvflAt(Q, x) = OvflAt(P, x)
      BY <1>4, <1>5
    <3>. QED BY <3>1 DEF OvflPages
  <2>3. ASSUME NEW i \in 1 .. n - 1 PROVE T[i] \in OvflPages(P)
    <3>1. at(i) \in OvflSlots(P) /\ OvflAt(P, at(i)) = T[i]
      BY <1>7
    <3>. QED BY <3>1 DEF OvflPages
  <2>4. OvflPages(Q) \subseteq OvflPages(P)
    BY <2>2 DEF OvflPages
  <2>5. Range(T) \subseteq OvflPages(P)
    BY <1>2, <2>3 DEF Range
  <2>. QED BY <2>1, <2>4, <2>5
<1>12. ASSUME NEW x \in OvflSlots(Q), NEW i \in 1 .. n - 1, OvflAt(Q, x) = T[i]
       PROVE  FALSE
  <2>1. x \in OvflSlots(P) /\ x[1] # old /\ OvflAt(P, x) = T[i]
    BY <1>4, <1>5, <1>12
  <2>2. at(i) \in OvflSlots(P) /\ OvflAt(P, at(i)) = T[i] /\ at(i)[1] = old
    BY <1>7
  <2>3. x = at(i)
    BY <2>1, <2>2 DEF OvflOnce
  <2>. QED BY <2>1, <2>2, <2>3
<1>13. OvflPages(Q) \cap Range(T) = {}
  BY <1>2, <1>12, SMTT(30) DEF OvflPages, Range
<1>. QED BY <1>6, <1>10, <1>11, <1>13

LEMMA PartsCut ==
  ASSUME NEW K, NEW O, NEW D, NEW F, NEW n, NEW Q, NEW T,
         Parts(K, O, {}, D, F, n), O = Q \cup T, Q \cap T = {}
  PROVE  Parts(K, Q, T, D, F, n)
  BY DEF Parts

LEMMA OpenedIs ==
  ASSUME DataInv, NEW s, s.dpage \in Nat
  PROVE  /\ DOMAIN Opened(s) = DOMAIN dnext \cup {s.dpage}
         /\ \A p \in DOMAIN Opened(s) : {p, Opened(s)[p]} \subseteq Nat \cup {NoPage}
         /\ NoPage \notin DOMAIN Opened(s)
<1>1. s.dpage # NoPage
  BY DEF NoPage
<1>2. CASE s.dpage \in DOMAIN dnext
  BY <1>2 DEF Opened, DataInv
<1>3. CASE s.dpage \notin DOMAIN dnext
  BY <1>1, <1>3 DEF Opened, DataInv
<1>. QED BY <1>2, <1>3


-----------------------------------------------------------------------------
(***************************************************************************)
(* Every step keeps every page in one use.                                 *)
(***************************************************************************)
LEMMA DataPageIn ==
  ASSUME NEW O, NEW S, NEW D, NEW s, NEW high, SpaceParts(O, S, D, s, high),
         s.dpage # NoPage
  PROVE  SpaceParts(O, S, D \cup {s.dpage}, s, high)
<1>1. D \cup DataPageOf(s) = (D \cup {s.dpage}) \cup DataPageOf(s)
  BY DEF DataPageOf
<1>. QED BY <1>1 DEF SpaceParts

LEMMA SoughtPagesSame ==
  ASSUME HashInv, ChainInv, NEW b \in 0 .. maxBucket
  PROVE  /\ SoughtPages(b) = pages[b] /\ b \in Buckets
         /\ pages[b] \in Seq(Nat) /\ Len(pages[b]) >= 1
         /\ [pages EXCEPT ![b] = SoughtPages(b)] = pages
<1>1. b \in Buckets
  BY InUse DEF HashInv
<1>2. pages[b] \in Seq(Nat) /\ Len(pages[b]) >= 1
  BY <1>1 DEF ChainInv, HashInv, BaseFirst
<1>3. CASE chain[b][1].keys = << >>
  <2>1. Len(chain[b]) = 1
    <3>1. chain[b] = <<EmptyPage>>
      BY <1>3 DEF HashInv, BaseFirst
    <3>. QED BY <3>1
  <2>2. Len(pages[b]) = 1
    BY <1>1, <2>1 DEF ChainInv
  <2>3. pages[b] = <<pages[b][1]>>
    BY <1>2, <2>2
  <2>4. SoughtPages(b) = pages[b]
    BY <1>3, <2>3, Zenon DEF SoughtPages
  <2>. QED BY <1>1, <1>2, <2>4 DEF ChainInv
<1>4. CASE chain[b][1].keys # << >>
  BY <1>1, <1>2, <1>4 DEF SoughtPages, ChainInv
<1>. QED BY <1>3, <1>4

\* A step that is no part of a split leaves the pages of one alone.
LEMMA NoSplitPages ==
  ASSUME phase # "split", phase' # "split", split' = split
  PROVE  SplitPages' = SplitPages /\ (SplitOnce => SplitOnce')
  BY DEF SplitPages, SplitOnce, OnHand

LEMMA PutAlloc ==
  ASSUME LevelsFit, HashInv, AllocInv, NEW k \in Keys, Put(k)
  PROVE  AllocInv'
<1>. DEFINE b == CallHash(k)
            r == Reserve(space)
<1>1. b \in 0 .. maxBucket
  BY HashOfKey DEF HashInv
<1>2. /\ UNCHANGED <<maxBucket, lowMask, highMask, split>>
      /\ phase = "idle" /\ phase' = "data"
      /\ pages' = [pages EXCEPT ![b] = SoughtPages(b)]
      /\ chain' = [chain EXCEPT ![b] = Sought(b)]
      /\ space' = r /\ dnext' = Opened(r)
  BY DEF Put, masks
<1>3. pages' = pages /\ chain' = chain
  BY <1>1, <1>2, SoughtPagesSame, SoughtAll DEF AllocInv
<1>4. /\ SpaceInv(r, highMask) /\ r.dpage # NoPage
      /\ SpaceParts(OvflPages(pages), SplitPages, DOMAIN dnext, r, highMask)
  BY ReserveIs DEF AllocInv, LevelInv, PagesInv
<1>. HIDE DEF b, r
<1>5. r.dpage \in Nat
  BY <1>4 DEF SpaceInv, Space
<1>6. /\ DOMAIN dnext' = DOMAIN dnext \cup {r.dpage}
      /\ \A p \in DOMAIN dnext' : {p, dnext'[p]} \subseteq Nat \cup {NoPage}
      /\ NoPage \notin DOMAIN dnext'
  BY <1>2, <1>5, OpenedIs DEF AllocInv
<1>7. LevelInv'
  BY <1>2, <1>4 DEF LevelInv
<1>8. ChainInv'
  BY <1>2, <1>3 DEF AllocInv, ChainInv
<1>9. DataInv'
  BY <1>2, <1>6 DEF DataInv
<1>10. PagesInv'
  <2>1. SplitPages' = SplitPages /\ SplitOnce'
    BY <1>2, NoSplitPages DEF AllocInv, PagesInv
  <2>2. SpaceParts(OvflPages(pages), SplitPages, DOMAIN dnext', r, highMask)
    BY <1>4, <1>6, DataPageIn
  <2>. QED BY <1>2, <1>3, <2>1, <2>2 DEF AllocInv, PagesInv
<1>. QED BY <1>7, <1>8, <1>9, <1>10 DEF AllocInv

LEMMA PutOverflowAlloc ==
  ASSUME LevelsFit, HashInv, AllocInv, NEW k \in Keys, PutOverflow(k)
  PROVE  AllocInv'
<1>. DEFINE b == CallHash(k)
            o == OvflPage(space)
            r == o.space
<1>1. b \in 0 .. maxBucket
  BY HashOfKey DEF HashInv
<1>2. /\ UNCHANGED <<maxBucket, lowMask, highMask, split>>
      /\ phase = "idle" /\ phase' = "data"
      /\ pages' = [pages EXCEPT ![b] = Append(SoughtPages(b), o.num)]
      /\ chain' = [chain EXCEPT ![b] = Append(Sought(b), EmptyPage)]
      /\ space' = Reserve(r) /\ dnext' = Opened(Reserve(r))
  BY DEF PutOverflow, masks
<1>3. /\ pages' = [pages EXCEPT ![b] = Append(pages[b], o.num)]
      /\ chain' = [chain EXCEPT ![b] = Append(chain[b], EmptyPage)]
      /\ b \in Buckets /\ Len(pages[b]) >= 1
  BY <1>1, <1>2, SoughtPagesSame, SoughtSame DEF AllocInv
<1>4. /\ SpaceInv(r, highMask) /\ o.num \in Nat /\ r.dpage # NoPage
      /\ o.num \notin OvflPages(pages)
      /\ SpaceParts(OvflPages(pages) \cup {o.num}, SplitPages, DOMAIN dnext, r, highMask)
  BY OvflPageIs DEF AllocInv, LevelInv, PagesInv
<1>. DEFINE p == o.num
<1>. HIDE DEF b, r, o
<1>5. Reserve(r) = r
  BY <1>4, ReserveFields
<1>6. r.dpage \in Nat
  BY <1>4 DEF SpaceInv, Space
<1>7. /\ DOMAIN dnext' = DOMAIN dnext \cup {r.dpage}
      /\ \A q \in DOMAIN dnext' : {q, dnext'[q]} \subseteq Nat \cup {NoPage}
      /\ NoPage \notin DOMAIN dnext'
  BY <1>2, <1>5, <1>6, OpenedIs DEF AllocInv
<1>8. /\ pages' \in [Buckets -> Seq(Nat)] /\ OvflOnce(pages')
      /\ OvflPages(pages') = OvflPages(pages) \cup {p}
  <2>1. pages \in [Buckets -> Seq(Nat)] /\ OvflOnce(pages)
    BY DEF AllocInv, ChainInv, PagesInv
  <2>2. p \in Nat /\ p \notin OvflPages(pages)
        /\ pages' = [pages EXCEPT ![b] = Append(pages[b], p)]
    BY <1>3, <1>4
  <2>. HIDE DEF p
  <2>. QED BY <1>3, <2>1, <2>2, OvflAdded
<1>9. LevelInv'
  BY <1>2, <1>4, <1>5 DEF LevelInv
<1>10. ChainInv'
  <2>1. ASSUME NEW c \in Buckets
        PROVE  /\ Len(pages'[c]) = Len(chain'[c])
               /\ c > maxBucket => pages'[c] = << >>
    <3>1. pages[c] \in Seq(Nat) /\ chain[c] \in Seq(HashPage)
          /\ Len(pages[c]) = Len(chain[c]) /\ (c > maxBucket => pages[c] = << >>)
      BY DEF AllocInv, ChainInv, HashInv, KeyTypes
    <3>2. CASE c = b
      <4>1. pages'[c] = Append(pages[c], p) /\ chain'[c] = Append(chain[c], EmptyPage)
        BY <1>3, <3>2 DEF AllocInv, ChainInv, HashInv, KeyTypes
      <4>2. ~(c > maxBucket)
        BY <1>1, <3>2, InUse DEF HashInv
      <4>3. p \in Nat /\ EmptyPage \in HashPage
        BY <1>4, EmptyIsPage
      <4>. HIDE DEF p
      <4>. QED BY <3>1, <4>1, <4>2, <4>3
    <3>3. CASE c # b
      <4>1. pages'[c] = pages[c] /\ chain'[c] = chain[c]
        BY <1>3, <3>3 DEF AllocInv, ChainInv, HashInv, KeyTypes
      <4>. QED BY <3>1, <4>1
    <3>. QED BY <3>2, <3>3
  <2>. QED BY <1>2, <1>8, <2>1 DEF AllocInv, ChainInv
<1>11. DataInv'
  BY <1>2, <1>5, <1>7 DEF DataInv
<1>12. PagesInv'
  <2>1. SplitPages' = SplitPages /\ SplitOnce'
    BY <1>2, NoSplitPages DEF AllocInv, PagesInv
  <2>2. SpaceParts(OvflPages(pages'), SplitPages, DOMAIN dnext', r, highMask)
    BY <1>4, <1>7, <1>8, DataPageIn
  <2>. QED BY <1>2, <1>5, <1>8, <2>1, <2>2 DEF PagesInv
<1>. QED BY <1>9, <1>10, <1>11, <1>12 DEF AllocInv

LEMMA MoreDataAlloc ==
  ASSUME LevelsFit, HashInv, AllocInv, MoreData
  PROVE  AllocInv'
<1>. DEFINE d == DataPage(space)
<1>1. /\ UNCHANGED <<maxBucket, lowMask, highMask, pages, chain, split, phase>>
      /\ phase = "data" /\ space' = d.space
      /\ dnext' = [p \in DOMAIN dnext \cup {d.num} |->
                     IF p = d.num THEN NoPage
                     ELSE IF p = space.dpage THEN d.num ELSE dnext[p]]
  BY DEF MoreData, masks
<1>2. /\ SpaceInv(d.space, highMask) /\ d.num \in Nat /\ d.space.dpage = d.num
      /\ SpaceParts(OvflPages(pages), SplitPages, DOMAIN dnext \cup {d.num}, d.space, highMask)
  BY <1>1, DataPageIs DEF AllocInv, LevelInv, PagesInv, DataInv
<1>3. d.num # NoPage
  BY <1>2 DEF NoPage
<1>. HIDE DEF d
<1>4. LevelInv'
  BY <1>1, <1>2, <1>3 DEF LevelInv
<1>5. ChainInv'
  BY <1>1 DEF AllocInv, ChainInv
<1>6. DataInv'
  BY <1>1, <1>2, <1>3 DEF AllocInv, DataInv
<1>7. PagesInv'
  <2>1. SplitPages' = SplitPages /\ SplitOnce'
    BY <1>1, NoSplitPages DEF AllocInv, PagesInv
  <2>2. DOMAIN dnext' = DOMAIN dnext \cup {d.num}
    BY <1>1
  <2>. QED BY <1>1, <1>2, <2>1, <2>2 DEF AllocInv, PagesInv
<1>. QED BY <1>4, <1>5, <1>6, <1>7 DEF AllocInv

\* A key on a page leaves the chain as long as it was.
LEMMA SameLength ==
  ASSUME HashInv, ChainInv, NEW b \in Buckets, NEW i, NEW pg,
         chain' = [chain EXCEPT ![b] = [chain[b] EXCEPT ![i] = pg]],
         pages' = pages
  PROVE  \A c \in Buckets : Len(pages'[c]) = Len(chain'[c])
<1>. TAKE c \in Buckets
<1>1. chain \in [Buckets -> Seq(HashPage)] /\ Len(pages[c]) = Len(chain[c])
  BY DEF HashInv, KeyTypes, ChainInv
<1>2. chain'[c] = IF c = b THEN [chain[c] EXCEPT ![i] = pg] ELSE chain[c]
  BY <1>1
<1>3. Len([chain[c] EXCEPT ![i] = pg]) = Len(chain[c])
  <2>1. chain[c] \in Seq(HashPage)
    BY <1>1
  <2>. QED BY <2>1
<1>. QED BY <1>1, <1>2, <1>3

LEMMA StoreAlloc ==
  ASSUME HashInv, AllocInv, Store
  PROVE  AllocInv'
<1>1. /\ UNCHANGED <<maxBucket, lowMask, highMask, pages, space, dnext, split>>
      /\ phase = "data" /\ phase' \in {"idle", "expand"}
      /\ chain' = [chain EXCEPT ![item.bucket] =
                     [chain[item.bucket] EXCEPT ![Len(chain[item.bucket])] =
                        Added(chain[item.bucket][Len(chain[item.bucket])], item.key)]]
  BY DEF Store, masks
<1>2. item.bucket \in Buckets
  BY DEF HashInv, KeyTypes
<1>3. \A c \in Buckets : Len(pages'[c]) = Len(chain'[c])
  BY <1>1, <1>2, SameLength DEF AllocInv
<1>4. LevelInv' /\ DataInv'
  BY <1>1 DEF AllocInv, LevelInv, DataInv
<1>5. ChainInv'
  BY <1>1, <1>3 DEF AllocInv, ChainInv
<1>6. PagesInv'
  <2>1. SplitPages' = SplitPages /\ SplitOnce'
    BY <1>1, NoSplitPages DEF AllocInv, PagesInv
  <2>. QED BY <1>1, <2>1 DEF AllocInv, PagesInv
<1>. QED BY <1>4, <1>5, <1>6 DEF AllocInv

LEMMA MoveKeyAlloc ==
  ASSUME HashInv, AllocInv, MoveKey
  PROVE  AllocInv'
<1>. DEFINE k == Head(split.todo)
            b == Target(k)
            i == Min(Room(b, k))
<1>1. /\ UNCHANGED <<maxBucket, lowMask, highMask, pages, space, dnext, phase>>
      /\ phase = "split" /\ split' = [split EXCEPT !.todo = Tail(split.todo)]
      /\ chain' = [chain EXCEPT ![b] = [chain[b] EXCEPT ![i] = Added(chain[b][i], k)]]
  BY DEF MoveKey, masks
<1>2. b \in Buckets
  BY <1>1, InUse DEF HashInv, SplitAt, Target
<1>. HIDE DEF b, i, k
<1>3. \A c \in Buckets : Len(pages'[c]) = Len(chain'[c])
  BY <1>1, <1>2, SameLength DEF AllocInv
<1>4. LevelInv' /\ DataInv'
  BY <1>1 DEF AllocInv, LevelInv, DataInv
<1>5. /\ split'.page = split.page /\ split'.pages = split.pages
      /\ split'.base = split.base /\ split'.chain = split.chain
  BY <1>1 DEF HashInv, KeyTypes
<1>6. ChainInv'
  BY <1>1, <1>3, <1>5 DEF AllocInv, ChainInv
<1>7. PagesInv'
  <2>1. SplitPages' = SplitPages /\ SplitOnce'
    BY <1>1, <1>5 DEF AllocInv, PagesInv, SplitPages, SplitOnce, OnHand
  <2>. QED BY <1>1, <2>1 DEF AllocInv, PagesInv
<1>. QED BY <1>4, <1>6, <1>7 DEF AllocInv

LEMMA MoveOverflowAlloc ==
  ASSUME LevelsFit, HashInv, AllocInv, MoveOverflow
  PROVE  AllocInv'
<1>. DEFINE k == Head(split.todo)
            b == Target(k)
            o == OvflPage(space)
            p == o.num
            pg == Added(EmptyPage, k)
<1>1. /\ UNCHANGED <<maxBucket, lowMask, highMask, dnext, phase>>
      /\ phase = "split" /\ split' = [split EXCEPT !.todo = Tail(split.todo)]
      /\ pages' = [pages EXCEPT ![b] = Append(pages[b], p)]
      /\ chain' = [chain EXCEPT ![b] = Append(chain[b], pg)]
      /\ space' = o.space
  BY DEF MoveOverflow, masks
<1>2. b \in 0 .. maxBucket /\ b \in Buckets
  BY <1>1, InUse DEF HashInv, SplitAt, Target
<1>3. /\ SpaceInv(o.space, highMask) /\ p \in Nat
      /\ p \notin OvflPages(pages)
      /\ SpaceParts(OvflPages(pages) \cup {p}, SplitPages, DOMAIN dnext, o.space, highMask)
  BY OvflPageIs DEF AllocInv, LevelInv, PagesInv
<1>. HIDE DEF b, o, p, k, pg
<1>4. /\ pages' \in [Buckets -> Seq(Nat)] /\ OvflOnce(pages')
      /\ OvflPages(pages') = OvflPages(pages) \cup {p}
  <2>1. pages \in [Buckets -> Seq(Nat)] /\ OvflOnce(pages)
    BY DEF AllocInv, ChainInv, PagesInv
  <2>2. Len(pages[b]) >= 1
    BY <1>2, SoughtPagesSame DEF AllocInv
  <2>. QED BY <1>1, <1>2, <1>3, <2>1, <2>2, OvflAdded
<1>5. LevelInv'
  BY <1>1, <1>3 DEF LevelInv
<1>6. /\ split'.page = split.page /\ split'.pages = split.pages
      /\ split'.base = split.base /\ split'.chain = split.chain
  BY <1>1 DEF HashInv, KeyTypes
<1>7. ASSUME NEW c \in Buckets
      PROVE  /\ Len(pages'[c]) = Len(chain'[c])
             /\ c > maxBucket => pages'[c] = << >>
  <2>1. pages[c] \in Seq(Nat) /\ chain[c] \in Seq(HashPage)
        /\ Len(pages[c]) = Len(chain[c]) /\ (c > maxBucket => pages[c] = << >>)
    BY DEF AllocInv, ChainInv, HashInv, KeyTypes
  <2>2. CASE c = b
    <3>1. pages'[c] = Append(pages[c], p) /\ chain'[c] = Append(chain[c], pg)
      BY <1>1, <2>2 DEF AllocInv, ChainInv, HashInv, KeyTypes
    <3>2. ~(c > maxBucket)
      BY <1>2, <2>2, InUse DEF HashInv
    <3>3. Len(Append(pages[c], p)) = Len(pages[c]) + 1
          /\ Len(Append(chain[c], pg)) = Len(chain[c]) + 1
      BY <2>1, LenProperties
    <3>. QED BY <2>1, <3>1, <3>2, <3>3
  <2>3. CASE c # b
    <3>1. pages'[c] = pages[c] /\ chain'[c] = chain[c]
      BY <1>1, <2>3 DEF AllocInv, ChainInv, HashInv, KeyTypes
    <3>. QED BY <2>1, <3>1
  <2>. QED BY <2>2, <2>3
<1>8. ChainInv'
  BY <1>1, <1>4, <1>6, <1>7 DEF AllocInv, ChainInv
<1>9. DataInv'
  BY <1>1 DEF AllocInv, DataInv
<1>10. PagesInv'
  <2>1. SplitPages' = SplitPages /\ SplitOnce'
    BY <1>1, <1>6 DEF AllocInv, PagesInv, SplitPages, SplitOnce, OnHand
  <2>. QED BY <1>1, <1>3, <1>4, <2>1 DEF AllocInv, PagesInv
<1>. QED BY <1>5, <1>8, <1>9, <1>10 DEF AllocInv

LEMMA ExpandAlloc ==
  ASSUME LevelsFit, HashInv, AllocInv, Expand
  PROVE  AllocInv'
<1>. DEFINE new == maxBucket + 1
            old == OldBucket(new)
            s   == Grown(space, new)
            x   == BucketToPage(s, new)
            c   == pages[old]
<1>1. /\ Masks' /\ maxBucket' = new /\ old \in 0 .. maxBucket
  BY MasksGrow
<1>2. /\ maxBucket \in Nat /\ new \in Buckets /\ old \in Buckets /\ new # old
      /\ new <= MaxBuckets /\ maxBucket <= highMask /\ highMask \in Nat
      /\ pages \in [Buckets -> Seq(Nat)] /\ chain \in [Buckets -> Seq(HashPage)]
      /\ phase = "expand" /\ c \in Seq(Nat) /\ Len(c) >= 1
  <2>1. maxBucket \in Nat /\ MaxBuckets \in Nat /\ maxBucket < MaxBuckets
    BY InUse, HashAssumption DEF HashInv, PutAt, Expand
  <2>2. maxBucket <= highMask /\ highMask \in Nat
    BY DEF HashInv, Masks, MasksOf
  <2>3. new \in Buckets /\ new <= MaxBuckets
    BY <2>1 DEF Buckets
  <2>4. old \in Buckets /\ new # old
    BY <1>1, <2>1, InUse DEF HashInv
  <2>5. pages \in [Buckets -> Seq(Nat)] /\ chain \in [Buckets -> Seq(HashPage)]
        /\ phase = "expand"
    BY DEF AllocInv, ChainInv, HashInv, KeyTypes, Expand
  <2>6. c \in Seq(Nat) /\ Len(c) >= 1
    BY <1>1, SoughtPagesSame DEF AllocInv
  <2>. QED BY <2>1, <2>2, <2>3, <2>4, <2>5, <2>6
<1>3. /\ lowMask'   = IF new > highMask THEN highMask ELSE lowMask
      /\ (new > highMask => highMask' = 2 * highMask + 1)
      /\ (new <= highMask => highMask' = highMask)
  <2>1. /\ lowMask' = IF new > highMask THEN highMask ELSE lowMask
        /\ highMask' = IF new > highMask THEN Or(new, highMask) ELSE highMask
    BY DEF Expand, Doubles
  <2>2. highMask' = 2 * lowMask' + 1
    BY <1>1 DEF Masks, MasksOf
  <2>. HIDE DEF new
  <2>3. new > highMask => highMask' = 2 * highMask + 1
    BY <2>1, <2>2
  <2>4. new <= highMask => highMask' = highMask
    <3>1. new <= highMask => ~(new > highMask)
      BY <1>2 DEF new
    <3>. QED BY <2>1, <3>1
  <2>. QED BY <2>1, <2>3, <2>4
<1>4. /\ space' = s /\ phase' = "split" /\ dnext' = dnext
      /\ pages' = [[pages EXCEPT ![new] = <<x>>] EXCEPT
                     ![old] = <<[pages EXCEPT ![new] = <<x>>][old][1]>>]
      /\ chain' = [[chain EXCEPT ![new] = <<EmptyPage>>] EXCEPT ![old] = <<EmptyPage>>]
      /\ split'.base = TRUE
      /\ split'.page = [pages EXCEPT ![new] = <<x>>][old][1]
      /\ split'.pages = Tail([pages EXCEPT ![new] = <<x>>][old])
      /\ split'.chain = Tail([chain EXCEPT ![new] = <<EmptyPage>>][old])
  BY DEF Expand, Emptied
<1>5. SplitPages = {} /\ pages[new] = << >>
  <2>1. split = NoSplit
    BY <1>2 DEF AllocInv, ChainInv
  <2>2. Range(split.pages) = {}
    BY <2>1 DEF NoSplit, Range
  <2>. QED BY <1>2, <2>2 DEF SplitPages, OnHand, AllocInv, ChainInv
<1>6. /\ SpaceInv(s, highMask')
      /\ SpaceParts(OvflPages(pages), {}, DOMAIN dnext, s, highMask')
  <2>1. new \in 1 .. highMask + 1
    BY <1>2
  <2>2. highMask' = IF new > highMask THEN 2 * highMask + 1 ELSE highMask
    BY <1>2, <1>3
  <2>3. space.dpage # NoPage /\ space.dpage \in DOMAIN dnext
    BY <1>2 DEF AllocInv, LevelInv, DataInv
  <2>4. SpaceInv(space, highMask)
        /\ SpaceParts(OvflPages(pages), {}, DOMAIN dnext, space, highMask)
    BY <1>5 DEF AllocInv, LevelInv, PagesInv
  <2>. HIDE DEF new
  <2>. QED BY <1>2, <2>1, <2>2, <2>3, <2>4, GrownIs
<1>7. x \in Nat
  <2>1. new \in 0 .. highMask'
    BY <1>2, <1>3
  <2>. HIDE DEF new
  <2>. QED BY <1>6, <2>1, EndIs
<1>. HIDE DEF new, old, s, x
<1>8. /\ pages'[old] = <<c[1]>> /\ pages'[new] = <<x>>
      /\ pages' \in [Buckets -> Seq(Nat)]
      /\ \A b \in Buckets : b \notin {old, new} => pages'[b] = pages[b]
      /\ split'.page = c[1] /\ split'.pages = Tail(c)
  <2>. DEFINE P == [pages EXCEPT ![new] = <<x>>]
  <2>1. P[old] = c /\ P \in [Buckets -> Seq(Nat)] /\ P[new] = <<x>>
        /\ \A b \in Buckets : b # new => P[b] = pages[b]
    <3>1. <<x>> \in Seq(Nat)
      BY <1>7
    <3>. QED BY <1>2, <3>1
  <2>2. <<c[1]>> \in Seq(Nat)
    BY <1>2
  <2>3. pages' = [P EXCEPT ![old] = <<P[old][1]>>] /\ split'.page = P[old][1]
        /\ split'.pages = Tail(P[old])
    BY <1>4
  <2>. HIDE DEF P, c
  <2>4. pages' = [P EXCEPT ![old] = <<c[1]>>] /\ split'.page = c[1]
        /\ split'.pages = Tail(c)
    BY <2>1, <2>3
  <2>. QED BY <1>2, <2>1, <2>2, <2>4
<1>9. /\ chain'[old] = <<EmptyPage>> /\ chain'[new] = <<EmptyPage>>
      /\ \A b \in Buckets : b \notin {old, new} => chain'[b] = chain[b]
      /\ split'.chain = Tail(chain[old])
  <2>. DEFINE C == [chain EXCEPT ![new] = <<EmptyPage>>]
  <2>1. C[old] = chain[old] /\ DOMAIN C = Buckets /\ C[new] = <<EmptyPage>>
        /\ \A b \in Buckets : b # new => C[b] = chain[b]
    BY <1>2
  <2>2. chain' = [C EXCEPT ![old] = <<EmptyPage>>] /\ split'.chain = Tail(C[old])
    BY <1>4
  <2>. HIDE DEF C
  <2>. QED BY <1>2, <2>1, <2>2
<1>10. /\ OvflOnce(pages') /\ IsInjective(Tail(c))
       /\ OvflPages(pages) = OvflPages(pages') \cup Range(Tail(c))
       /\ OvflPages(pages') \cap Range(Tail(c)) = {}
  <2>1. OvflOnce(pages)
    BY DEF AllocInv, PagesInv
  <2>2. Len(pages'[old]) = 1 /\ Len(pages'[new]) = 1
    BY <1>8
  <2>. DEFINE Q == pages'
  <2>3. /\ Q \in [Buckets -> Seq(Nat)] /\ Len(Q[old]) = 1 /\ Len(Q[new]) = 1
        /\ \A b \in Buckets : b \notin {old, new} => Q[b] = pages[b]
    BY <1>8, <2>2
  <2>. DEFINE P == pages
              T == Tail(c)
  <2>4. Cut(P, Q, old, new, T)
    BY <1>2, <1>5, <2>1, <2>3 DEF Cut
  <2>. HIDE DEF Q, P, T
  <2>6. /\ OvflOnce(Q) /\ IsInjective(T)
        /\ OvflPages(P) = OvflPages(Q) \cup Range(T)
        /\ OvflPages(Q) \cap Range(T) = {}
    BY <2>4, OvflCut
  <2>. QED BY <2>6 DEF Q, P, T
<1>11. LevelInv'
  BY <1>4, <1>6 DEF LevelInv
<1>12. DataInv'
  BY <1>4 DEF AllocInv, DataInv
<1>13. ASSUME NEW b \in Buckets
       PROVE  /\ Len(pages'[b]) = Len(chain'[b])
              /\ b > maxBucket' => pages'[b] = << >>
  <2>1. CASE b \in {old, new}
    <3>1. Len(pages'[b]) = 1 /\ Len(chain'[b]) = 1
      <4>1. CASE b = old
        BY <1>8, <1>9, <4>1
      <4>2. CASE b = new
        BY <1>8, <1>9, <4>2
      <4>. QED BY <2>1, <4>1, <4>2
    <3>2. ~(b > maxBucket')
      BY <1>1, <1>2, <2>1 DEF new
    <3>. QED BY <3>1, <3>2
  <2>2. CASE b \notin {old, new}
    <3>1. pages'[b] = pages[b] /\ chain'[b] = chain[b]
      BY <1>8, <1>9, <2>2
    <3>2. b > maxBucket' => b > maxBucket
      BY <1>1, <1>2 DEF new, Buckets
    <3>. QED BY <3>1, <3>2 DEF AllocInv, ChainInv
  <2>. QED BY <2>1, <2>2
<1>14. split'.page \in Nat /\ split'.pages \in Seq(Nat)
       /\ Len(split'.pages) = Len(split'.chain)
  <2>1. chain[old] \in Seq(HashPage) /\ Len(chain[old]) = Len(c)
    BY <1>2 DEF AllocInv, ChainInv
  <2>. DEFINE e == chain[old]
  <2>2. c[1] \in Nat /\ Tail(c) \in Seq(Nat) /\ Len(Tail(c)) = Len(c) - 1
    <3>. HIDE DEF c
    <3>. QED BY <1>2
  <2>3. Len(Tail(e)) = Len(e) - 1
    <3>1. e \in Seq(HashPage) /\ Len(e) >= 1
      BY <1>2, <2>1
    <3>. HIDE DEF e, c
    <3>. QED BY <3>1
  <2>. QED BY <1>8, <1>9, <2>1, <2>2, <2>3
<1>15. ChainInv'
  BY <1>4, <1>8, <1>13, <1>14 DEF ChainInv
<1>16. PagesInv'
  <2>1. SplitPages' = Range(Tail(c)) /\ SplitOnce'
    BY <1>4, <1>8, <1>10 DEF SplitPages, SplitOnce, OnHand
  <2>2. SpaceParts(OvflPages(pages'), Range(Tail(c)), DOMAIN dnext, s, highMask')
    <3>. DEFINE K == FixedPages(s, highMask')
                E == DOMAIN dnext \cup DataPageOf(s)
                F == FreePages(s.free)
                n == EndOf(s, highMask')
                O == OvflPages(pages)
                Q == OvflPages(pages')
                T == Range(Tail(c))
    <3>1. Parts(K, O, {}, E, F, n) /\ O = Q \cup T /\ Q \cap T = {}
      BY <1>6, <1>10 DEF SpaceParts
    <3>2. Parts(K, Q, T, E, F, n)
      <4>. HIDE DEF K, E, F, n, O, Q, T
      <4>. QED BY <3>1, PartsCut
    <3>. QED BY <3>2 DEF SpaceParts
  <2>. QED BY <1>4, <1>10, <2>1, <2>2 DEF PagesInv
<1>. QED BY <1>11, <1>12, <1>15, <1>16 DEF AllocInv

LEMMA HeadTail ==
  ASSUME NEW s \in Seq(Nat), s # << >>, IsInjective(s)
  PROVE  /\ Head(s) \in Nat /\ Tail(s) \in Seq(Nat) /\ IsInjective(Tail(s))
         /\ Range(s) = Range(Tail(s)) \cup {Head(s)}
         /\ Head(s) \notin Range(Tail(s))
         /\ Len(Tail(s)) = Len(s) - 1
<1>. DEFINE n == Len(s)
            t == Tail(s)
<1>1. n \in Nat /\ n >= 1 /\ Head(s) = s[1] /\ Head(s) \in Nat
      /\ t \in Seq(Nat) /\ Len(t) = n - 1
      /\ \A i \in 1 .. n - 1 : t[i] = s[i + 1]
      /\ DOMAIN s = 1 .. n /\ DOMAIN t = 1 .. n - 1
  OBVIOUS
<1>2. \A i, j \in 1 .. n : s[i] = s[j] => i = j
  BY <1>1 DEF IsInjective
<1>. HIDE DEF t
<1>20. DOMAIN s = 1 .. n
  BY <1>1
<1>. HIDE DEF n
<1>3. ASSUME NEW i \in 1 .. n - 1
      PROVE  i + 1 \in 1 .. n /\ i + 1 # 1 /\ t[i] = s[i + 1]
  BY <1>1, SMTT(30)
<1>4. IsInjective(t)
  <2>. SUFFICES ASSUME NEW i \in 1 .. n - 1, NEW j \in 1 .. n - 1, t[i] = t[j]
                PROVE  i = j
    BY <1>1, SMTT(30) DEF IsInjective
  <2>1. i + 1 = j + 1
    BY <1>2, <1>3
  <2>. QED BY <1>1, <2>1
<1>5. Head(s) \notin Range(t)
  <2>1. ASSUME NEW i \in 1 .. n - 1 PROVE t[i] # s[1]
    <3>1. 1 \in 1 .. n
      BY <1>1
    <3>. QED BY <1>2, <1>3, <3>1
  <2>. QED BY <1>1, <2>1 DEF Range
<1>6. Range(s) = Range(t) \cup {Head(s)}
  <2>1. ASSUME NEW i \in 1 .. n PROVE s[i] \in Range(t) \cup {Head(s)}
    <3>1. CASE i = 1
      BY <1>1, <3>1
    <3>2. CASE i # 1
      <4>. DEFINE j == i - 1
      <4>1. j \in 1 .. n - 1 /\ j + 1 = i
        BY <1>1, <3>2
      <4>. HIDE DEF j
      <4>2. t[j] = s[i]
        BY <1>3, <4>1
      <4>. QED BY <1>1, <4>1, <4>2 DEF Range
    <3>. QED BY <3>1, <3>2
  <2>2. ASSUME NEW i \in 1 .. n - 1 PROVE t[i] \in Range(s)
    BY <1>1, <1>3 DEF Range
  <2>3. Head(s) \in Range(s)
    <3>1. 1 \in 1 .. n
      BY <1>1
    <3>. QED BY <1>1, <3>1 DEF Range
  <2>4. ASSUME NEW p \in Range(s) PROVE p \in Range(t) \cup {Head(s)}
    <3>1. PICK i \in DOMAIN s : p = s[i]
      BY Zenon DEF Range
    <3>2. i \in 1 .. n
      BY <1>20, <3>1, Zenon
    <3>. QED BY <2>1, <3>1, <3>2
  <2>5. Range(t) \subseteq Range(s)
    BY <1>1, <2>2 DEF Range
  <2>. QED BY <2>3, <2>4, <2>5
<1>. QED BY <1>1, <1>4, <1>5, <1>6 DEF t, n

LEMMA NextPageAlloc ==
  ASSUME LevelsFit, HashInv, AllocInv, NextPage
  PROVE  AllocInv'
<1>. DEFINE s == IF split.base THEN space ELSE FreeOvflPage(space, split.page)
            q == split.pages
<1>1. /\ UNCHANGED <<maxBucket, lowMask, highMask, pages, chain, dnext>>
      /\ phase = "split" /\ space' = s
      /\ \/ /\ split.chain = << >> /\ phase' = "idle" /\ split' = NoSplit
         \/ /\ split.chain # << >> /\ phase' = "split"
            /\ split' = [split EXCEPT !.base = FALSE,
                           !.page = Head(split.pages), !.pages = Tail(@),
                           !.todo = Head(split.chain).keys, !.chain = Tail(@)]
  BY DEF NextPage, masks
<1>2. /\ q \in Seq(Nat) /\ split.page \in Nat /\ IsInjective(q)
      /\ split.chain \in Seq(HashPage) /\ Len(q) = Len(split.chain)
  BY <1>1 DEF AllocInv, ChainInv, PagesInv, SplitOnce, HashInv, KeyTypes
<1>3. /\ SpaceInv(s, highMask)
      /\ SpaceParts(OvflPages(pages), Range(q), DOMAIN dnext, s, highMask)
  <2>1. /\ SpaceInv(space, highMask) /\ SplitOnce
        /\ SpaceParts(OvflPages(pages), SplitPages, DOMAIN dnext, space, highMask)
    BY DEF AllocInv, LevelInv, PagesInv
  <2>2. CASE split.base
    <3>1. SplitPages = Range(q)
      BY <2>2 DEF SplitPages, OnHand
    <3>. QED BY <2>1, <2>2, <3>1
  <2>3. CASE ~split.base
    <3>1. SplitPages = Range(q) \cup {split.page} /\ split.page \notin Range(q)
      BY <1>1, <2>1, <2>3 DEF SplitPages, SplitOnce, OnHand
    <3>2. SplitPages \ {split.page} = Range(q) /\ split.page \in SplitPages
      BY <3>1
    <3>3. LET t == FreeOvflPage(space, split.page)
          IN  /\ SpaceInv(t, highMask)
              /\ SpaceParts(OvflPages(pages), SplitPages \ {split.page},
                            DOMAIN dnext, t, highMask)
      BY <1>2, <2>1, <3>2, FreeIs
    <3>. QED BY <2>3, <3>2, <3>3
  <2>. QED BY <2>2, <2>3
<1>. HIDE DEF s, q
<1>4. LevelInv'
  BY <1>1, <1>3 DEF LevelInv
<1>5. DataInv'
  BY <1>1 DEF AllocInv, DataInv
<1>6. CASE split.chain = << >>
  <2>1. /\ phase' = "idle" /\ split'.page = NoPage /\ split'.pages = << >>
        /\ split'.chain = << >> /\ split' = NoSplit
    BY <1>1, <1>6 DEF NoSplit
  <2>2. Range(q) = {}
    <3>1. Len(q) = 0
      BY <1>2, <1>6
    <3>. QED BY <1>2, <3>1 DEF Range
  <2>3. ChainInv'
    BY <1>1, <2>1 DEF AllocInv, ChainInv, NoPage, NoSplit
  <2>4. SplitPages' = {} /\ SplitOnce'
    BY <2>1 DEF SplitPages, SplitOnce, OnHand, Range, IsInjective
  <2>5. PagesInv'
    BY <1>1, <1>3, <2>2, <2>4 DEF AllocInv, PagesInv
  <2>. QED BY <1>4, <1>5, <2>3, <2>5 DEF AllocInv
<1>7. CASE split.chain # << >>
  <2>1. /\ phase' = "split" /\ split'.page = Head(q) /\ split'.pages = Tail(q)
        /\ split'.chain = Tail(split.chain) /\ split'.base = FALSE
    BY <1>1, <1>7 DEF HashInv, KeyTypes, q
  <2>2. q # << >> /\ Len(split.chain) # 0
    BY <1>2, <1>7
  <2>3. /\ Head(q) \in Nat /\ Tail(q) \in Seq(Nat) /\ IsInjective(Tail(q))
        /\ Range(q) = Range(Tail(q)) \cup {Head(q)}
        /\ Head(q) \notin Range(Tail(q))
        /\ Len(Tail(q)) = Len(q) - 1
    BY <1>2, <2>2, HeadTail
  <2>4. Len(Tail(split.chain)) = Len(split.chain) - 1
    <3>. DEFINE d == split.chain
    <3>1. d \in Seq(HashPage) /\ Len(d) # 0
      BY <1>2, <2>2
    <3>. HIDE DEF d
    <3>2. Len(Tail(d)) = Len(d) - 1
      BY <3>1
    <3>. QED BY <3>2 DEF d
  <2>5. ChainInv'
    BY <1>1, <1>2, <2>1, <2>3, <2>4 DEF AllocInv, ChainInv
  <2>6. SplitPages' = Range(q) /\ SplitOnce'
    BY <2>1, <2>3 DEF SplitPages, SplitOnce, OnHand
  <2>7. PagesInv'
    BY <1>1, <1>3, <2>6 DEF AllocInv, PagesInv
  <2>. QED BY <1>4, <1>5, <2>5, <2>7 DEF AllocInv
<1>. QED BY <1>6, <1>7

LEMMA SameAlloc ==
  ASSUME AllocInv, UNCHANGED vars
  PROVE  AllocInv'
<1>1. /\ UNCHANGED <<maxBucket, highMask, space, pages, chain, dnext, phase, split>>
  BY DEF vars, masks
<1>2. LevelInv' /\ ChainInv' /\ DataInv'
  BY <1>1 DEF AllocInv, LevelInv, ChainInv, DataInv
<1>3. SplitPages' = SplitPages /\ SplitOnce'
  BY <1>1 DEF AllocInv, PagesInv, SplitPages, SplitOnce, OnHand
<1>. QED BY <1>1, <1>2, <1>3 DEF AllocInv, PagesInv

LEMMA AllocNext ==
  ASSUME LevelsFit, HashInv, AllocInv, [Next]_vars
  PROVE  AllocInv'
<1>1. ASSUME NEW k \in Keys, Put(k) PROVE AllocInv'
  BY <1>1, PutAlloc
<1>2. ASSUME NEW k \in Keys, PutOverflow(k) PROVE AllocInv'
  BY <1>2, PutOverflowAlloc
<1>3. ASSUME Working PROVE AllocInv'
  BY <1>3, MoreDataAlloc, StoreAlloc, ExpandAlloc, MoveKeyAlloc,
     MoveOverflowAlloc, NextPageAlloc DEF Working
<1>4. ASSUME UNCHANGED vars PROVE AllocInv'
  BY <1>4, SameAlloc
<1>. QED BY <1>1, <1>2, <1>3, <1>4 DEF Next

\* A table that starts with as many buckets as its masks say.
LEMMA InitLevel ==
  ASSUME TwoBuckets, LevelsFit
  PROVE  /\ Log2(NBuckets) \in 1 .. NCached - 2
         /\ InitBuckets = Pow2[Log2(NBuckets)]
<1>. DEFINE L == Log2(NBuckets)
<1>1. L \in Nat
  <2>. DEFINE T == {j \in 0 .. WordBits - 1 : Pow2[j] < NBuckets}
  <2>1. IsFiniteSet(T)
    <3>1. 0 \in Int /\ WordBits - 1 \in Int
      BY HashAssumption
    <3>2. IsFiniteSet(0 .. WordBits - 1)
      BY <3>1, FS_Interval, Zenon
    <3>3. T \subseteq 0 .. WordBits - 1
      OBVIOUS
    <3>. QED BY <3>2, <3>3, FS_Subset
  <2>. HIDE DEF T
  <2>2. Cardinality(T) \in Nat
    BY <2>1, FS_CardinalityType
  <2>. QED BY <2>2 DEF T, Log2
<1>2. InitBuckets = Pow2[L]
  BY DEF InitBuckets
<1>. HIDE DEF L
<1>3. L # 0
  <2>1. InitBuckets = 2 * (InitLowMask + 1) /\ InitLowMask \in Nat
    BY DEF TwoBuckets
  <2>2. InitBuckets # 1
    BY <2>1
  <2>. QED BY <1>2, <2>2, Pow2Is
<1>4. NCached - 2 \in Nat /\ Pow2[NCached - 2] \in Nat
      /\ MaxBuckets < Pow2[NCached - 2] /\ MaxBuckets \in Nat
  <2>1. NCached - 2 \in Nat
    BY HashAssumption DEF LevelsFit
  <2>. QED BY <2>1, Pow2Is, HashAssumption DEF LevelsFit
<1>5. L <= NCached - 2
  <2>. SUFFICES ASSUME NCached - 2 < L PROVE FALSE
    BY <1>1, <1>4
  <2>1. Pow2[NCached - 2] < Pow2[L] /\ Pow2[L] \in Nat
    BY <1>1, <1>4, Pow2Grows, Pow2Is
  <2>2. Pow2[L] <= MaxBuckets + 1
    BY <1>2 DEF TwoBuckets
  <2>. QED BY <1>4, <2>1, <2>2
<1>. QED BY <1>1, <1>2, <1>3, <1>4, <1>5 DEF L

\* The buckets of a new table follow the header one by one.
LEMMA InitBucketPage ==
  ASSUME TwoBuckets, LevelsFit, NEW b \in 0 .. InitBuckets - 1
  PROVE  BucketToPage(InitSpace, b) = HdrPages + b
<1>. DEFINE L == Log2(NBuckets)
            l == Log2(b + 1)
<1>1. L \in 1 .. NCached - 2 /\ InitBuckets = Pow2[L] /\ L \in Nat
      /\ L <= WordBits /\ NCached \in Nat /\ HdrPages \in Nat
  BY InitLevel, HashAssumption DEF LevelsFit
<1>. HIDE DEF L
<1>2. /\ l \in 0 .. L /\ (b > 0 => l >= 1)
      /\ b = 0 => l = 0
  <2>1. l \in 0 .. L /\ (b > 0 => l >= 1)
    BY <1>1, LevelOfBucket
  <2>2. b = 0 => l = 0
    <3>1. 0 \in Nat /\ 0 <= WordBits /\ 1 \in Nat /\ 1 <= Pow2[0]
      BY Pow2Is, HashAssumption
    <3>2. Log2(1) = 0
      BY <3>1, Log2Is
    <3>. QED BY <3>2
  <2>. QED BY <2>1, <2>2
<1>. DEFINE sp == [m \in Levels |-> IF m > Log2(NBuckets) THEN 0
                     ELSE IF m = 0 THEN HdrPages ELSE HdrPages + Pow2[m - 1]]
<1>3. InitSpace.spares = sp
  BY DEF InitSpace
<1>4. l \in Levels /\ ~(l > L) /\ l \in Nat
  BY <1>1, <1>2 DEF Levels
<1>5. sp[l] = IF l = 0 THEN HdrPages ELSE HdrPages + Pow2[l - 1]
  BY <1>4 DEF L
<1>6. BucketToPage(InitSpace, b)
        = IF b > 0 THEN b - Pow2[l - 1] + sp[l] ELSE sp[l]
  BY <1>3 DEF BucketToPage
<1>. HIDE DEF sp, l
<1>7. CASE b > 0
  <2>1. l # 0 /\ l - 1 \in Nat
    BY <1>2, <1>4, <1>7
  <2>2. Pow2[l - 1] \in Nat
    BY <2>1, Pow2Is
  <2>3. b \in Nat
    BY <1>7
  <2>. QED BY <1>1, <1>5, <1>6, <1>7, <2>1, <2>2, <2>3
<1>8. CASE b = 0
  BY <1>1, <1>2, <1>5, <1>6, <1>8
<1>. QED BY <1>7, <1>8

LEMMA InitAlloc ==
  ASSUME TwoBuckets, LevelsFit, Init
  PROVE  AllocInv
<1>. DEFINE L == Log2(NBuckets)
            n == InitBuckets
            s == InitSpace
<1>1. L \in 1 .. NCached - 2 /\ n = Pow2[L] /\ L \in Nat /\ n \in Nat \ {0}
      /\ NCached \in Nat /\ HdrPages \in Nat \ {0} /\ MaxBuckets \in Nat
      /\ n <= MaxBuckets + 1 /\ highMask = n - 1
  <2>1. L \in 1 .. NCached - 2 /\ n = Pow2[L] /\ NCached \in Nat
        /\ HdrPages \in Nat \ {0} /\ n <= MaxBuckets + 1 /\ MaxBuckets \in Nat
    BY InitLevel, HashAssumption DEF TwoBuckets
  <2>2. L \in Nat
    BY <2>1
  <2>3. Pow2[L] \in Nat \ {0}
    BY <2>2, Pow2Is
  <2>. QED BY <2>1, <2>2, <2>3 DEF Init
<1>2. ASSUME NEW b \in 0 .. highMask
      PROVE  BucketToPage(s, b) = HdrPages + b
  BY <1>1, InitBucketPage
<1>. DEFINE sp == [m \in Levels |-> IF m > L THEN 0
                     ELSE IF m = 0 THEN HdrPages ELSE HdrPages + Pow2[m - 1]]
            fr == [m \in Levels |-> << >>]
<1>3. s.spares = sp /\ s.ovfl = L /\ s.dpage = NoPage /\ s.free = fr
  BY DEF InitSpace
<1>4. L \in Levels /\ L + 1 \in Levels /\ 0 \in Levels /\ L + 1 > L
  BY <1>1 DEF Levels
<1>5. sp \in [Levels -> Nat]
  <2>. SUFFICES ASSUME NEW m \in Levels, m # 0 PROVE Pow2[m - 1] \in Nat
    BY <1>1
  <2>1. m - 1 \in Nat
    BY DEF Levels
  <2>. QED BY <2>1, Pow2Is
<1>6. sp[L + 1] = 0 /\ sp[0] = HdrPages
      /\ \A m \in Levels : m > L + 1 => sp[m] = 0
  <2>1. \A m \in Levels : m > L + 1 => m > L
    BY <1>1 DEF Levels
  <2>2. ~(0 > L)
    BY <1>1
  <2>. QED BY <1>4, <2>1, <2>2
<1>7. fr \in FreeMaps
  BY DEF FreeMaps
<1>. HIDE DEF sp, L, fr
<1>8. s \in Space
  <2>1. s = [ovfl |-> s.ovfl, spares |-> s.spares, free |-> s.free, dpage |-> s.dpage]
    BY DEF InitSpace
  <2>. HIDE DEF s
  <2>. QED BY <1>3, <1>4, <1>5, <1>7, <2>1 DEF Space, FreeMaps, FreeMap
<1>9. FreeSlots(s.free) = {}
  <2>1. ASSUME NEW m \in Levels PROVE Len(s.free[m]) = 0
    BY <1>3 DEF fr
  <2>2. ASSUME NEW x \in Levels \X Nat \X Nat PROVE x[2] \notin 1 .. Len(s.free[x[1]])
    <3>1. x[1] \in Levels
      OBVIOUS
    <3>2. Len(s.free[x[1]]) = 0
      BY <2>1, <3>1
    <3>. QED BY <3>2
  <2>. QED BY <2>2 DEF FreeSlots
<1>10. FreeOnce(s.free) /\ FreePages(s.free) = {}
  BY <1>9 DEF FreeOnce, FreePages
<1>11. FixedOnce(s, highMask)
  BY <1>1, <1>2 DEF FixedOnce
<1>. HIDE DEF s
<1>12. SpaceInv(s, highMask)
  BY <1>1, <1>3, <1>6, <1>8, <1>10, <1>11 DEF SpaceInv
<1>. HIDE DEF n
<1>13. EndOf(s, highMask) = HdrPages + n
  <2>1. highMask \in 0 .. highMask
    BY <1>1
  <2>2. BucketToPage(s, highMask) = HdrPages + highMask
    BY <1>2, <2>1
  <2>3. s.spares[s.ovfl + 1] = 0
    BY <1>3, <1>6
  <2>. QED BY <1>1, <2>2, <2>3 DEF EndOf
<1>14. FixedPages(s, highMask) = 0 .. (HdrPages + n) - 1
  <2>1. ASSUME NEW q \in 0 .. (HdrPages + n) - 1, q \notin 0 .. HdrPages - 1
        PROVE  \E b \in 0 .. highMask : BucketToPage(s, b) = q
    <3>1. q - HdrPages \in 0 .. highMask /\ HdrPages + (q - HdrPages) = q
      BY <1>1, <2>1
    <3>. QED BY <1>2, <3>1
  <2>2. ASSUME NEW b \in 0 .. highMask
        PROVE  BucketToPage(s, b) \in 0 .. (HdrPages + n) - 1
    BY <1>1, <1>2
  <2>3. 0 .. HdrPages - 1 \subseteq 0 .. (HdrPages + n) - 1
    BY <1>1
  <2>. DEFINE X == 0 .. (HdrPages + n) - 1
              Y == 0 .. highMask
              H == 0 .. HdrPages - 1
  <2>4. /\ FixedPages(s, highMask) = H \cup {BucketToPage(s, b) : b \in Y}
        /\ \A q \in X : q \notin H => \E b \in Y : BucketToPage(s, b) = q
        /\ \A b \in Y : BucketToPage(s, b) \in X
        /\ H \subseteq X
    BY <2>1, <2>2, <2>3 DEF FixedPages
  <2>. HIDE DEF X, Y, H
  <2>5. FixedPages(s, highMask) = X
    BY <2>4
  <2>. QED BY <2>5 DEF X
<1>15. space = s /\ phase = "idle" /\ split = NoSplit /\ dnext = << >>
  BY DEF Init, s
<1>16. LevelInv
  BY <1>12, <1>15 DEF LevelInv
<1>17. /\ pages \in [Buckets -> Seq(Nat)]
       /\ \A b \in Buckets : /\ Len(pages[b]) = Len(chain[b]) /\ Len(pages[b]) <= 1
                             /\ b > maxBucket => pages[b] = << >>
  <2>1. /\ pages = [b \in Buckets |-> IF b < n THEN <<BucketToPage(s, b)>> ELSE << >>]
        /\ chain = [b \in Buckets |-> IF b < n THEN <<EmptyPage>> ELSE << >>]
        /\ maxBucket = n - 1
    BY DEF Init, n, s
  <2>2. ASSUME NEW b \in Buckets, b < n
        PROVE  BucketToPage(s, b) \in Nat
    <3>1. b \in 0 .. highMask
      BY <1>1, <2>2 DEF Buckets
    <3>2. BucketToPage(s, b) = HdrPages + b
      BY <1>2, <3>1
    <3>. QED BY <1>1, <3>1, <3>2
  <2>3. ASSUME NEW b \in Buckets
        PROVE  /\ pages[b] \in Seq(Nat) /\ Len(pages[b]) = Len(chain[b])
               /\ Len(pages[b]) <= 1 /\ (b > maxBucket => pages[b] = << >>)
    <3>1. CASE b < n
      <4>1. pages[b] = <<BucketToPage(s, b)>> /\ chain[b] = <<EmptyPage>>
            /\ BucketToPage(s, b) \in Nat
        BY <2>1, <2>2, <3>1
      <4>2. ~(b > maxBucket)
        BY <1>1, <2>1, <3>1 DEF Buckets
      <4>3. Len(<<BucketToPage(s, b)>>) = 1 /\ Len(<<EmptyPage>>) = 1
            /\ <<BucketToPage(s, b)>> \in Seq(Nat)
        BY <4>1
      <4>. QED BY <4>1, <4>2, <4>3
    <3>2. CASE ~(b < n)
      <4>1. pages[b] = << >> /\ chain[b] = << >>
        BY <2>1, <3>2
      <4>. QED BY <4>1
    <3>. QED BY <3>1, <3>2
  <2>4. DOMAIN pages = Buckets /\ pages = [b \in Buckets |-> pages[b]]
    BY <2>1
  <2>. QED BY <2>3, <2>4
<1>18. ChainInv
  BY <1>15, <1>17 DEF ChainInv, NoSplit
<1>19. DataInv
  BY <1>15 DEF DataInv
<1>20. OvflSlots(pages) = {}
  <2>1. ASSUME NEW x \in Buckets \X Nat PROVE x[2] \notin 2 .. Len(pages[x[1]])
    <3>1. x[1] \in Buckets
      OBVIOUS
    <3>2. Len(pages[x[1]]) <= 1 /\ Len(pages[x[1]]) \in Nat
      BY <1>17, <3>1
    <3>. QED BY <3>2
  <2>. QED BY <2>1 DEF OvflSlots
<1>21. OvflOnce(pages) /\ OvflPages(pages) = {}
  BY <1>20 DEF OvflOnce, OvflPages
<1>22. SplitPages = {} /\ SplitOnce
  BY <1>15 DEF SplitPages, SplitOnce, OnHand, NoSplit, Range, IsInjective
<1>23. DOMAIN dnext \cup DataPageOf(s) = {}
  BY <1>3, <1>15 DEF DataPageOf
<1>24. Parts(0 .. (HdrPages + n) - 1, {}, {}, {}, {}, HdrPages + n)
  BY DEF Parts
<1>25. PagesInv
  BY <1>10, <1>13, <1>14, <1>15, <1>21, <1>22, <1>23, <1>24 DEF PagesInv, SpaceParts
<1>. QED BY <1>16, <1>18, <1>19, <1>25 DEF AllocInv


-----------------------------------------------------------------------------
(***************************************************************************)
(* The uses of pages by kind, and what the invariant says of each kind.    *)
(***************************************************************************)
PagesOf(U) == {u[5] : u \in U}
OneEach(U) == \A u, v \in U : u[5] = v[5] => u = v

HeaderUses == {<<"header", 0, 0, 0, p>> : p \in 0 .. HdrPages - 1}
BucketUses ==
  {<<"bucket", b, 0, 0, BucketToPage(space, b)>> : b \in 0 .. highMask}
FixedUses  == HeaderUses \cup BucketUses

OvflUses == {<<"overflow", x[1], x[2], 0, OvflAt(pages, x)>>
               : x \in OvflSlots(pages)}

LaterUses == {<<"splitting", i, 0, 0, split.pages[i]>> : i \in DOMAIN split.pages}
HandUses  == {<<"splitting", 0, 0, 0, p>> : p \in OnHand}
SplitUses == LaterUses \cup HandUses

DataUses == {<<"data", 0, 0, 0, p>> : p \in DOMAIN dnext \cup DataPageOf(space)}

FreeUse(x) == IF x[3] = 0
              THEN <<"map", x[1], x[2], 0, FreeAt(space.free, x)>>
              ELSE <<"free", x[1], x[2], x[3], FreeAt(space.free, x)>>
FreeUses   == {FreeUse(x) : x \in FreeSlots(space.free)}

\* The same as NoPageShared lists them.
ChainUses  == UNION {{<<"overflow", b, i, 0, pages[b][i]>>
                        : i \in 2 .. Len(pages[b])} : b \in Buckets}
MapUses    == UNION {{<<"map", l, i, 0, space.free[l][i].map>>
                        : i \in DOMAIN space.free[l]} : l \in Levels}
ListedUses == UNION {UNION {{<<"free", l, i, j, space.free[l][i].list[j]>>
                               : j \in DOMAIN space.free[l][i].list}
                              : i \in DOMAIN space.free[l]} : l \in Levels}

LEMMA OvflUsesAre ==
  ASSUME ChainInv
  PROVE  OvflUses = ChainUses
<1>. DEFINE U(b) == {<<"overflow", b, i, 0, pages[b][i]>> : i \in 2 .. Len(pages[b])}
<1>0. \A b \in Buckets : Len(pages[b]) \in Nat
  BY DEF ChainInv
<1>1. ASSUME NEW x \in OvflSlots(pages)
      PROVE  <<"overflow", x[1], x[2], 0, OvflAt(pages, x)>> \in UNION {U(b) : b \in Buckets}
  <2>1. x[1] \in Buckets /\ x[2] \in 2 .. Len(pages[x[1]])
    BY DEF OvflSlots
  <2>2. <<"overflow", x[1], x[2], 0, OvflAt(pages, x)>> \in U(x[1])
    BY <2>1 DEF OvflAt
  <2>. HIDE DEF U
  <2>. QED BY <2>1, <2>2
<1>2. ASSUME NEW b \in Buckets, NEW i \in 2 .. Len(pages[b])
      PROVE  <<"overflow", b, i, 0, pages[b][i]>> \in OvflUses
  <2>. DEFINE x == <<b, i>>
  <2>1. x \in OvflSlots(pages) /\ x[1] = b /\ x[2] = i
    BY <1>0 DEF OvflSlots
  <2>2. OvflAt(pages, x) = pages[b][i]
    BY <2>1 DEF OvflAt
  <2>. HIDE DEF x
  <2>. QED BY <2>1, <2>2 DEF OvflUses
<1>3. ASSUME NEW b \in Buckets PROVE U(b) \subseteq OvflUses
  BY <1>2
<1>4. OvflUses \subseteq UNION {U(b) : b \in Buckets}
  BY <1>1 DEF OvflUses
<1>. HIDE DEF U
<1>5. OvflUses = UNION {U(b) : b \in Buckets}
  BY <1>3, <1>4
<1>. QED BY <1>5 DEF U, ChainUses

LEMMA FreeUsesAre ==
  ASSUME space \in Space
  PROVE  FreeUses = MapUses \cup ListedUses
<1>. DEFINE f == space.free
            M(l) == {<<"map", l, i, 0, f[l][i].map>> : i \in DOMAIN f[l]}
            L(l, i) == {<<"free", l, i, j, f[l][i].list[j]>>
                          : j \in DOMAIN f[l][i].list}
            N(l) == UNION {L(l, i) : i \in DOMAIN f[l]}
            MS == UNION {M(l) : l \in Levels}
            NS == UNION {N(l) : l \in Levels}
            R == MS \cup NS
<1>0. ASSUME NEW l \in Levels
      PROVE  /\ DOMAIN f[l] = 1 .. Len(f[l]) /\ Len(f[l]) \in Nat
             /\ \A i \in DOMAIN f[l] : /\ DOMAIN f[l][i].list = 1 .. Len(f[l][i].list)
                                       /\ Len(f[l][i].list) \in Nat
  <2>1. f[l] \in Seq(FreeMap)
    BY DEF Space, FreeMap
  <2>. HIDE DEF f
  <2>2. DOMAIN f[l] = 1 .. Len(f[l]) /\ Len(f[l]) \in Nat
    BY <2>1
  <2>3. ASSUME NEW i \in DOMAIN f[l] PROVE f[l][i].list \in Seq(Nat)
    <3>1. f[l][i] \in FreeMap
      BY <2>1, <2>2
    <3>. QED BY <3>1 DEF FreeMap
  <2>. QED BY <2>2, <2>3
<1>. HIDE DEF f
<1>1. ASSUME NEW x \in FreeSlots(f)
      PROVE  /\ x[1] \in Levels /\ x[2] \in DOMAIN f[x[1]]
             /\ x[3] # 0 => x[3] \in DOMAIN f[x[1]][x[2]].list
             /\ x = <<x[1], x[2], x[3]>>
  <2>1. x[1] \in Levels /\ x[2] \in 1 .. Len(f[x[1]])
        /\ x[3] \in 0 .. Len(f[x[1]][x[2]].list) /\ x = <<x[1], x[2], x[3]>>
    BY DEF FreeSlots
  <2>2. x[2] \in DOMAIN f[x[1]]
    BY <1>0, <2>1
  <2>3. Len(f[x[1]][x[2]].list) \in Nat
        /\ DOMAIN f[x[1]][x[2]].list = 1 .. Len(f[x[1]][x[2]].list)
    BY <1>0, <2>1, <2>2
  <2>4. x[3] # 0 => x[3] \in 1 .. Len(f[x[1]][x[2]].list)
    BY <2>1, <2>3
  <2>. QED BY <2>1, <2>2, <2>3, <2>4
<1>2. ASSUME NEW l \in Levels, NEW i \in DOMAIN f[l], NEW j \in Nat,
             j = 0 \/ j \in DOMAIN f[l][i].list
      PROVE  /\ <<l, i, j>> \in FreeSlots(f)
             /\ FreeAt(f, <<l, i, j>>)
                  = IF j = 0 THEN f[l][i].map ELSE f[l][i].list[j]
  <2>1. i \in Nat /\ i \in 1 .. Len(f[l]) /\ Len(f[l][i].list) \in Nat
        /\ DOMAIN f[l][i].list = 1 .. Len(f[l][i].list)
    BY <1>0
  <2>2. j \in 0 .. Len(f[l][i].list)
    BY <1>2, <2>1
  <2>. QED BY <2>1, <2>2 DEF FreeSlots, FreeAt
<1>3. ASSUME NEW x \in FreeSlots(f) PROVE FreeUse(x) \in R
  <2>. DEFINE l == x[1]
              i == x[2]
              j == x[3]
  <2>1. l \in Levels /\ i \in DOMAIN f[l] /\ (j # 0 => j \in DOMAIN f[l][i].list)
    BY <1>1
  <2>2. CASE j = 0
    <3>1. FreeUse(x) = <<"map", l, i, 0, f[l][i].map>>
      BY <2>2 DEF FreeUse, FreeAt, f
    <3>. HIDE DEF l, i, j
    <3>2. FreeUse(x) \in M(l)
      BY <2>1, <3>1
    <3>. HIDE DEF M
    <3>3. FreeUse(x) \in MS
      BY <2>1, <3>2
    <3>. HIDE DEF MS, NS
    <3>. QED BY <3>3
  <2>3. CASE j # 0
    <3>1. FreeUse(x) = <<"free", l, i, j, f[l][i].list[j]>>
      BY <2>3 DEF FreeUse, FreeAt, f
    <3>. HIDE DEF l, i, j
    <3>2. FreeUse(x) \in L(l, i)
      BY <2>1, <2>3, <3>1
    <3>. HIDE DEF L
    <3>3. FreeUse(x) \in N(l)
      BY <2>1, <3>2
    <3>. HIDE DEF N
    <3>4. FreeUse(x) \in NS
      BY <2>1, <3>3
    <3>. HIDE DEF MS, NS
    <3>. QED BY <3>4
  <2>. QED BY <2>2, <2>3
<1>4. ASSUME NEW l \in Levels PROVE M(l) \subseteq FreeUses
  <2>. SUFFICES ASSUME NEW i \in DOMAIN f[l]
                PROVE  <<"map", l, i, 0, f[l][i].map>> \in FreeUses
    OBVIOUS
  <2>. DEFINE x == <<l, i, 0>>
  <2>1. x \in FreeSlots(f) /\ FreeAt(f, x) = f[l][i].map
        /\ x[1] = l /\ x[2] = i /\ x[3] = 0
    BY <1>2
  <2>. HIDE DEF x
  <2>2. FreeUse(x) = <<"map", l, i, 0, f[l][i].map>>
    BY <2>1 DEF FreeUse, f
  <2>. QED BY <2>1, <2>2 DEF FreeUses, f
<1>5. ASSUME NEW l \in Levels, NEW i \in DOMAIN f[l] PROVE L(l, i) \subseteq FreeUses
  <2>. SUFFICES ASSUME NEW j \in DOMAIN f[l][i].list
                PROVE  <<"free", l, i, j, f[l][i].list[j]>> \in FreeUses
    OBVIOUS
  <2>. DEFINE x == <<l, i, j>>
  <2>0. j \in Nat /\ j # 0
    BY <1>0
  <2>1. x \in FreeSlots(f) /\ FreeAt(f, x) = f[l][i].list[j]
        /\ x[1] = l /\ x[2] = i /\ x[3] = j
    BY <1>2, <2>0
  <2>. HIDE DEF x
  <2>2. FreeUse(x) = <<"free", l, i, j, f[l][i].list[j]>>
    BY <2>0, <2>1 DEF FreeUse, f
  <2>. QED BY <2>1, <2>2 DEF FreeUses, f
<1>6. FreeUses \subseteq R
  BY <1>3 DEF FreeUses, f
<1>. HIDE DEF L
<1>7. ASSUME NEW l \in Levels PROVE N(l) \subseteq FreeUses
  BY <1>5
<1>. HIDE DEF M, N
<1>8. FreeUses = R
  <2>1. MS \subseteq FreeUses
    BY <1>4
  <2>2. NS \subseteq FreeUses
    BY <1>7
  <2>. HIDE DEF MS, NS
  <2>. QED BY <1>6, <2>1, <2>2
<1>9. MS = MapUses
  BY DEF MS, M, f, MapUses
<1>10. NS = ListedUses
  BY DEF NS, N, L, f, ListedUses
<1>. HIDE DEF MS, NS
<1>. QED BY <1>8, <1>9, <1>10

LEMMA UsesByKind ==
  ASSUME AllocInv
  PROVE  Uses = FixedUses \cup OvflUses \cup SplitUses \cup DataUses \cup FreeUses
<1>1. ChainInv /\ space \in Space
  BY DEF AllocInv, LevelInv, SpaceInv
<1>2. OvflUses = ChainUses /\ FreeUses = MapUses \cup ListedUses
  BY <1>1, OvflUsesAre, FreeUsesAre
<1>3. HandUses = IF phase = "split" /\ ~split.base
                 THEN {<<"splitting", 0, 0, 0, split.page>>} ELSE {}
  BY DEF HandUses, OnHand
<1>4. Uses = HeaderUses \cup BucketUses \cup ChainUses \cup LaterUses
             \cup (IF phase = "split" /\ ~split.base
                   THEN {<<"splitting", 0, 0, 0, split.page>>} ELSE {})
             \cup DataUses \cup MapUses \cup ListedUses
  BY Zenon DEF Uses, HeaderUses, BucketUses, ChainUses, LaterUses, DataUses,
         DataPageOf, MapUses, ListedUses
<1>. QED BY <1>2, <1>3, <1>4 DEF FixedUses, SplitUses

LEMMA FixedUsesAre ==
  ASSUME AllocInv
  PROVE  OneEach(FixedUses) /\ PagesOf(FixedUses) = FixedPages(space, highMask)
<1>. DEFINE P(b) == BucketToPage(space, b)
<1>1. \A b, c \in 0 .. highMask : (P(b) = P(c) => b = c) /\ P(b) >= HdrPages
  BY DEF AllocInv, LevelInv, SpaceInv, FixedOnce
<1>2. HdrPages \in Nat
  BY HashAssumption
<1>. HIDE DEF P
<1>3. ASSUME NEW u \in FixedUses
      PROVE  \/ \E p \in 0 .. HdrPages - 1 : u = <<"header", 0, 0, 0, p>>
             \/ \E b \in 0 .. highMask : u = <<"bucket", b, 0, 0, P(b)>>
  BY DEF FixedUses, HeaderUses, BucketUses, P
<1>4. OneEach(FixedUses)
  <2>. SUFFICES ASSUME NEW u \in FixedUses, NEW v \in FixedUses, u[5] = v[5]
                PROVE  u = v
    BY DEF OneEach
  <2>1. CASE \E p \in 0 .. HdrPages - 1 : u = <<"header", 0, 0, 0, p>>
    <3>1. PICK p \in 0 .. HdrPages - 1 : u = <<"header", 0, 0, 0, p>>
      BY <2>1
    <3>2. ~ \E b \in 0 .. highMask : v = <<"bucket", b, 0, 0, P(b)>>
      BY <1>1, <1>2, <3>1
    <3>3. PICK q \in 0 .. HdrPages - 1 : v = <<"header", 0, 0, 0, q>>
      BY <1>3, <3>2
    <3>. QED BY <3>1, <3>3
  <2>2. CASE \E b \in 0 .. highMask : u = <<"bucket", b, 0, 0, P(b)>>
    <3>1. PICK b \in 0 .. highMask : u = <<"bucket", b, 0, 0, P(b)>>
      BY <2>2
    <3>2. ~ \E p \in 0 .. HdrPages - 1 : v = <<"header", 0, 0, 0, p>>
      BY <1>1, <1>2, <3>1
    <3>3. PICK c \in 0 .. highMask : v = <<"bucket", c, 0, 0, P(c)>>
      BY <1>3, <3>2
    <3>4. b = c
      BY <1>1, <3>1, <3>3
    <3>. QED BY <3>1, <3>3, <3>4
  <2>. QED BY <1>3, <2>1, <2>2
<1>5. PagesOf(FixedUses) \subseteq FixedPages(space, highMask)
  <2>. SUFFICES ASSUME NEW u \in FixedUses PROVE u[5] \in FixedPages(space, highMask)
    BY DEF PagesOf
  <2>. QED BY <1>3 DEF FixedPages, P
<1>6. FixedPages(space, highMask) \subseteq PagesOf(FixedUses)
  <2>1. ASSUME NEW p \in 0 .. HdrPages - 1 PROVE p \in PagesOf(FixedUses)
    <3>1. <<"header", 0, 0, 0, p>> \in FixedUses
      BY DEF FixedUses, HeaderUses
    <3>2. <<"header", 0, 0, 0, p>>[5] = p
      OBVIOUS
    <3>. QED BY <3>1, <3>2, Zenon DEF PagesOf
  <2>2. ASSUME NEW b \in 0 .. highMask PROVE P(b) \in PagesOf(FixedUses)
    <3>1. <<"bucket", b, 0, 0, P(b)>> \in FixedUses
      BY DEF FixedUses, BucketUses, P
    <3>2. <<"bucket", b, 0, 0, P(b)>>[5] = P(b)
      OBVIOUS
    <3>. QED BY <3>1, <3>2, Zenon DEF PagesOf
  <2>. QED BY <2>1, <2>2 DEF FixedPages, P
<1>. QED BY <1>4, <1>5, <1>6

LEMMA OvflUsesOnce ==
  ASSUME AllocInv
  PROVE  OneEach(OvflUses) /\ PagesOf(OvflUses) = OvflPages(pages)
<1>. DEFINE U(x) == <<"overflow", x[1], x[2], 0, OvflAt(pages, x)>>
            S == OvflSlots(pages)
<1>1. \A x, y \in S : OvflAt(pages, x) = OvflAt(pages, y) => x = y
  BY DEF AllocInv, PagesInv, OvflOnce
<1>2. OvflUses = {U(x) : x \in S}
  BY DEF OvflUses
<1>3. \A x \in S : U(x)[5] = OvflAt(pages, x)
  OBVIOUS
<1>. HIDE DEF U
<1>4. OneEach(OvflUses)
  <2>. SUFFICES ASSUME NEW u \in OvflUses, NEW v \in OvflUses, u[5] = v[5]
                PROVE  u = v
    BY DEF OneEach
  <2>. HIDE DEF S
  <2>1. PICK x \in S : u = U(x)
    BY <1>2
  <2>2. PICK y \in S : v = U(y)
    BY <1>2
  <2>3. x = y
    BY <1>1, <1>3, <2>1, <2>2
  <2>. QED BY <2>1, <2>2, <2>3
<1>5. PagesOf(OvflUses) = {OvflAt(pages, x) : x \in S}
  <2>. HIDE DEF S
  <2>. QED BY <1>2, <1>3 DEF PagesOf
<1>. QED BY <1>4, <1>5 DEF OvflPages

LEMMA SplitUsesOnce ==
  ASSUME AllocInv
  PROVE  OneEach(SplitUses) /\ PagesOf(SplitUses) = SplitPages
<1>. DEFINE q == split.pages
            V(i) == <<"splitting", i, 0, 0, q[i]>>
            W(p) == <<"splitting", 0, 0, 0, p>>
<1>1. q \in Seq(Nat) /\ IsInjective(q) /\ OnHand \cap Range(q) = {}
  BY DEF AllocInv, PagesInv, SplitOnce, ChainInv
<1>2. \A p, r \in OnHand : p = r
  BY DEF OnHand
<1>3. \A i, j \in DOMAIN q : q[i] = q[j] => i = j
  BY <1>1 DEF IsInjective
<1>4. \A i \in DOMAIN q : \A p \in OnHand : q[i] # p
  BY <1>1 DEF Range
<1>5. SplitUses = {V(i) : i \in DOMAIN q} \cup {W(p) : p \in OnHand}
  BY DEF SplitUses, LaterUses, HandUses
<1>6. (\A i \in DOMAIN q : V(i)[5] = q[i]) /\ (\A p \in OnHand : W(p)[5] = p)
  OBVIOUS
<1>. HIDE DEF V, W
<1>7. OneEach(SplitUses)
  <2>. SUFFICES ASSUME NEW u \in SplitUses, NEW v \in SplitUses, u[5] = v[5]
                PROVE  u = v
    BY DEF OneEach
  <2>1. CASE \E i \in DOMAIN q : u = V(i)
    BY <1>3, <1>4, <1>5, <1>6, <2>1
  <2>2. CASE \E p \in OnHand : u = W(p)
    BY <1>2, <1>4, <1>5, <1>6, <2>2
  <2>. QED BY <1>5, <2>1, <2>2
<1>8. PagesOf(SplitUses) = {q[i] : i \in DOMAIN q} \cup OnHand
  <2>. HIDE DEF q
  <2>. QED BY <1>5, <1>6 DEF PagesOf
<1>. QED BY <1>7, <1>8 DEF SplitPages, Range

LEMMA DataUsesOnce ==
  /\ OneEach(DataUses)
  /\ PagesOf(DataUses) = DOMAIN dnext \cup DataPageOf(space)
<1>. DEFINE D == DOMAIN dnext \cup DataPageOf(space)
            U(p) == <<"data", 0, 0, 0, p>>
<1>1. DataUses = {U(p) : p \in D}
  BY DEF DataUses
<1>2. \A p \in D : U(p)[5] = p
  OBVIOUS
<1>. HIDE DEF D, U
<1>3. OneEach(DataUses)
  BY <1>1, <1>2 DEF OneEach
<1>4. PagesOf(DataUses) = D
  BY <1>1, <1>2 DEF PagesOf
<1>. QED BY <1>3, <1>4 DEF D

LEMMA FreeUsesOnce ==
  ASSUME AllocInv
  PROVE  OneEach(FreeUses) /\ PagesOf(FreeUses) = FreePages(space.free)
<1>. DEFINE S == FreeSlots(space.free)
<1>1. \A x, y \in S : FreeAt(space.free, x) = FreeAt(space.free, y) => x = y
  BY DEF AllocInv, LevelInv, SpaceInv, FreeOnce
<1>2. \A x \in S : FreeUse(x)[5] = FreeAt(space.free, x)
  BY DEF FreeUse
<1>3. FreeUses = {FreeUse(x) : x \in S}
  BY DEF FreeUses
<1>4. OneEach(FreeUses)
  <2>. SUFFICES ASSUME NEW u \in FreeUses, NEW v \in FreeUses, u[5] = v[5]
                PROVE  u = v
    BY DEF OneEach
  <2>. HIDE DEF S
  <2>1. PICK x \in S : u = FreeUse(x)
    BY <1>3
  <2>2. PICK y \in S : v = FreeUse(y)
    BY <1>3
  <2>3. x = y
    BY <1>1, <1>2, <2>1, <2>2
  <2>. QED BY <2>1, <2>2, <2>3
<1>5. PagesOf(FreeUses) = {FreeAt(space.free, x) : x \in S}
  <2>. HIDE DEF S
  <2>. QED BY <1>2, <1>3 DEF PagesOf
<1>. QED BY <1>4, <1>5 DEF FreePages

\* Kinds that have no page in common list a page once between them.
LEMMA OneEachTogether ==
  ASSUME NEW U, NEW V, OneEach(U), OneEach(V), PagesOf(U) \cap PagesOf(V) = {}
  PROVE  OneEach(U \cup V) /\ PagesOf(U \cup V) = PagesOf(U) \cup PagesOf(V)
<1>1. \A u \in U, v \in V : u[5] # v[5]
  BY DEF PagesOf
<1>2. OneEach(U \cup V)
  BY <1>1, Zenon DEF OneEach
<1>3. PagesOf(U \cup V) = PagesOf(U) \cup PagesOf(V)
  BY DEF PagesOf
<1>. QED BY <1>2, <1>3

LEMMA PartsOnce ==
  ASSUME AllocInv
  PROVE  NoPageShared /\ NoPageLost
<1>. DEFINE K == FixedPages(space, highMask)
            O == OvflPages(pages)
            S == SplitPages
            D == DOMAIN dnext \cup DataPageOf(space)
            F == FreePages(space.free)
            n == EndOf(space, highMask)
<1>1. Parts(K, O, S, D, F, n)
  BY DEF AllocInv, PagesInv, SpaceParts
<1>. DEFINE U1 == DataUses \cup FreeUses
            U2 == SplitUses \cup U1
            U3 == OvflUses \cup U2
            U4 == FixedUses \cup U3
<1>2. /\ OneEach(FixedUses) /\ PagesOf(FixedUses) = K
      /\ OneEach(OvflUses) /\ PagesOf(OvflUses) = O
      /\ OneEach(SplitUses) /\ PagesOf(SplitUses) = S
      /\ OneEach(DataUses) /\ PagesOf(DataUses) = D
      /\ OneEach(FreeUses) /\ PagesOf(FreeUses) = F
  BY FixedUsesAre, OvflUsesOnce, SplitUsesOnce, DataUsesOnce, FreeUsesOnce
<1>3. Uses = U4
  BY UsesByKind
<1>4. FileEnd = n
  BY DEF FileEnd, EndOf
<1>. HIDE DEF K, O, S, D, F, n
<1>5. OneEach(U1) /\ PagesOf(U1) = D \cup F
  BY <1>1, <1>2, OneEachTogether DEF Parts
<1>. HIDE DEF U1
<1>6. OneEach(U2) /\ PagesOf(U2) = S \cup D \cup F
  <2>1. S \cap (D \cup F) = {}
    BY <1>1 DEF Parts
  <2>2. OneEach(U2) /\ PagesOf(U2) = S \cup (D \cup F)
    BY <1>2, <1>5, <2>1, OneEachTogether
  <2>. QED BY <2>2
<1>. HIDE DEF U2
<1>7. OneEach(U3) /\ PagesOf(U3) = O \cup S \cup D \cup F
  <2>1. PagesOf(OvflUses) \cap PagesOf(U2) = {}
    BY <1>1, <1>2, <1>6 DEF Parts
  <2>2. OneEach(U3) /\ PagesOf(U3) = PagesOf(OvflUses) \cup PagesOf(U2)
    BY <1>2, <1>6, <2>1, OneEachTogether, Zenon
  <2>3. PagesOf(U3) = O \cup (S \cup D \cup F)
    BY <1>2, <1>6, <2>2
  <2>. QED BY <2>2, <2>3
<1>. HIDE DEF U3
<1>8. OneEach(U4) /\ PagesOf(U4) = K \cup O \cup S \cup D \cup F
  <2>1. K \cap (O \cup S \cup D \cup F) = {}
    BY <1>1 DEF Parts
  <2>2. PagesOf(FixedUses) \cap PagesOf(U3) = {}
    BY <1>2, <1>7, <2>1
  <2>3. OneEach(U4) /\ PagesOf(U4) = PagesOf(FixedUses) \cup PagesOf(U3)
    BY <1>2, <1>7, <2>2, OneEachTogether, Zenon
  <2>4. PagesOf(U4) = K \cup (O \cup S \cup D \cup F)
    BY <1>2, <1>7, <2>3
  <2>. QED BY <2>3, <2>4
<1>. HIDE DEF U4
<1>9. PagesOf(U4) = 0 .. n - 1
  BY <1>1, <1>8 DEF Parts
<1>10. NoPageShared
  BY <1>3, <1>8 DEF NoPageShared, OneEach
<1>11. NoPageLost
  BY <1>3, <1>4, <1>9 DEF NoPageLost, PagesOf
<1>. QED BY <1>10, <1>11

LEMMA TypesOf ==
  ASSUME LevelsFit, HashInv, AllocInv
  PROVE  TypeOK
<1>. DEFINE o == space.ovfl
            t == Pow2[o]
            w == Pow2[WordBits]
<1>1. maxBucket \in Buckets /\ maxBucket \in lowMask .. highMask
      /\ lowMask \in Nat /\ lowMask <= maxBucket
  BY DEF HashInv, KeyTypes, Masks, MasksOf, Buckets
<1>2. highMask = t - 1 /\ o \in 1 .. NCached - 2 /\ space \in Space
  BY DEF AllocInv, LevelInv, SpaceInv
<1>3. {lowMask, highMask} \subseteq Word
  <2>1. o \in Nat /\ WordBits \in Nat /\ o <= WordBits
    BY <1>2, HashAssumption DEF LevelsFit
  <2>2. t \in Nat \ {0} /\ w \in Nat \ {0}
    BY <2>1, Pow2Is
  <2>3. t <= w
    <3>1. CASE o = WordBits
      BY <2>2, <3>1
    <3>2. CASE o < WordBits
      BY <2>1, <2>2, <3>2, Pow2Grows
    <3>. QED BY <2>1, <3>1, <3>2
  <2>. HIDE DEF t, w
  <2>4. highMask \in 0 .. w - 1 /\ lowMask \in 0 .. w - 1
    BY <1>1, <1>2, <2>2, <2>3
  <2>. QED BY <2>4 DEF Word, w
<1>4. split \in [old : Buckets, new : Buckets, base : BOOLEAN,
                 page : Nat \cup {NoPage}, todo : Seq(Keys),
                 pages : Seq(Nat), chain : Seq(HashPage)]
  <2>1. split \in [old : Buckets, new : Buckets, base : BOOLEAN,
                   page : {split.page}, todo : Seq(Keys),
                   pages : {split.pages}, chain : Seq(HashPage)]
    BY DEF HashInv, KeyTypes
  <2>2. split.page \in Nat \cup {NoPage} /\ split.pages \in Seq(Nat)
    BY DEF AllocInv, ChainInv
  <2>. QED BY <2>1, <2>2
<1>5. pages \in [Buckets -> Seq(Nat)]
      /\ \A p \in DOMAIN dnext : {p, dnext[p]} \subseteq Nat \cup {NoPage}
  BY DEF AllocInv, ChainInv, DataInv
<1>6. chain \in [Buckets -> Seq(HashPage)] /\ stored \subseteq Keys
      /\ phase \in {"idle", "data", "expand", "split"}
      /\ item \in [key : Keys, bucket : Buckets, ovfl : BOOLEAN, more : Nat]
  BY DEF HashInv, KeyTypes
<1>7. maxBucket \in Buckets \cap (lowMask .. highMask)
  BY <1>1
<1>. QED BY <1>2, <1>3, <1>4, <1>5, <1>6, <1>7 DEF TypeOK

\* The invariant of the pages, for every table that starts with at least two
\* buckets and whose header has room for the levels it grows to.
LEMMA AllocAlways ==
  ASSUME TwoBuckets, SmallKeys, LevelsFit
  PROVE  Spec => [](HashInv /\ AllocInv)
<1>1. Init => HashInv /\ AllocInv
  BY InitInv, InitAlloc
<1>2. HashInv /\ AllocInv /\ [Next]_vars => (HashInv /\ AllocInv)'
  BY StepInv, AllocNext
<1>. QED BY <1>1, <1>2, PTL DEF Spec

\* The variables keep their types: the masks stay words, the links of chains
\* and data pages stay page numbers, and an allocation never needs an entry
\* of hdr.spares or hdr.free_pages that is not there.
THEOREM VariablesHaveTypes ==
  ASSUME TwoBuckets, SmallKeys, LevelsFit
  PROVE  Spec => []TypeOK
<1>1. HashInv /\ AllocInv => TypeOK
  BY TypesOf
<1>. QED BY <1>1, AllocAlways, PTL

\* _ffdb_data_page, _ffdb_ovfl_page and the free maps never hand out a page
\* that is a bucket's, in a chain, full of data, or handed out already.
THEOREM PagesAreNotShared ==
  ASSUME TwoBuckets, SmallKeys, LevelsFit
  PROVE  Spec => []NoPageShared
<1>1. AllocInv => NoPageShared
  BY PartsOnce
<1>. QED BY <1>1, AllocAlways, PTL

\* While the database stays open every page of the file is in use or listed
\* as free: split_bucket gives back every overflow page it empties.
THEOREM PagesAreNotLost ==
  ASSUME TwoBuckets, SmallKeys, LevelsFit
  PROVE  Spec => []NoPageLost
<1>1. AllocInv => NoPageLost
  BY PartsOnce
<1>. QED BY <1>1, AllocAlways, PTL
=============================================================================
