----------------------------- MODULE MCPagePool -----------------------------
(***************************************************************************)
(* Instances of PagePool for TLC; the .cfg files give the constants.       *)
(***************************************************************************)
EXTENDS PagePool

\* Threads and bkts are interchangeable.
Symmetry == Permutations(Threads) \cup Permutations(Bkts)

\* The file is long enough from the start: who waits for a page does not depend
\* on the length.
LatchInit == Init /\ npages = LastPage + 1

LatchSpec == LatchInit /\ [][Next]_vars /\ Fairness
=============================================================================
