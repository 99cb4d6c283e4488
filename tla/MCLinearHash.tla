---------------------------- MODULE MCLinearHash ----------------------------
(***************************************************************************)
(* Instances of LinearHash for TLC.  A key is its hash value, its size and *)
(* a number that tells keys apart that agree in both.                      *)
(***************************************************************************)
EXTENDS LinearHash

HashOf == [k \in Keys |-> k[1]]
SizeOf == [k \in Keys |-> k[2]]

\* One key to a page, most of them in one bucket of the first levels, and two
\* with the same hash value, which no split separates.
Crowded == ({0, 4, 8, 1, 3} \X {1} \X {1}) \cup {<<0, 1, 2>>}

Few == (0 .. 4) \X {1} \X {1}

\* The largest key _ffdb_hash_put accepts is too large for PAIRFITS.
Large == {0, 1} \X {1, 2} \X {1}

\* The condition of the theorems on a new table: it asks for two buckets.
ASSUME TwoBucketsMeansTwo == TwoBuckets <=> NBuckets >= 2

\* The bounds leave room for every level the instance reaches.
ASSUME LevelsSuffice == LevelsFit
=============================================================================
