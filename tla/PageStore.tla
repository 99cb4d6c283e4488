------------------------------ MODULE PageStore ------------------------------
(***************************************************************************)
(* What the page pool promises its callers, without a cache, a file, or    *)
(* buckets: a function from page numbers to contents, in which a page is   *)
(* used by at most one thread at a time and only changed by that thread.   *)
(***************************************************************************)
CONSTANTS Threads, NoThread, Pages, Values, Clean

VARIABLES
  store,   \* what every page holds
  holder   \* the thread that claimed it, or NoThread

Init ==
  /\ store \in [Pages -> Values]
  /\ holder = [p \in Pages |-> NoThread]

\* A claim takes a page nobody has; its content is the last one written.
Claim(t, p) ==
  /\ holder[p] = NoThread
  /\ holder' = [holder EXCEPT ![p] = t]
  /\ UNCHANGED store

\* A claim of a page as a new one.
ClaimNew(t, p) ==
  /\ holder[p] = NoThread
  /\ holder' = [holder EXCEPT ![p] = t]
  /\ store' = [store EXCEPT ![p] = Clean]

Write(t, p, v) ==
  /\ holder[p] = t
  /\ store' = [store EXCEPT ![p] = v]
  /\ UNCHANGED holder

GiveBack(t, p) ==
  /\ holder[p] = t
  /\ holder' = [holder EXCEPT ![p] = NoThread]
  /\ UNCHANGED store

\* The page goes to another number; its old number is clean again.
Move(t, p, q) ==
  /\ holder[p] = t
  /\ holder[q] = NoThread
  /\ holder' = [holder EXCEPT ![p] = NoThread]
  /\ store' = [store EXCEPT ![q] = store[p], ![p] = Clean]

\* The page is thrown away; what it holds afterwards is not specified.
Discard(t, p, v) ==
  /\ holder[p] = t
  /\ holder' = [holder EXCEPT ![p] = NoThread]
  /\ store' = [store EXCEPT ![p] = v]

Next ==
  \E t \in Threads, p \in Pages :
    \/ Claim(t, p)
    \/ ClaimNew(t, p)
    \/ GiveBack(t, p)
    \/ \E v \in Values : Write(t, p, v) \/ Discard(t, p, v)
    \/ \E q \in Pages \ {p} : Move(t, p, q)

Spec == Init /\ [][Next]_<<store, holder>>
=============================================================================
