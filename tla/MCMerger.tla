------------------------------ MODULE MCMerger -----------------------------
EXTENDS Merger, TLC

CONSTANTS v1, v2, v3, k1, k2, k3

MCSize == (v1 :> 1) @@ (v2 :> 1) @@ (v3 :> 2)
MCConfigNums == <<7, 5, 9>>
MCEnsembles == {<<v1, v2, v1>>, <<v3, v3, v3>>}

\* Texts that fill both pages, that end at the end of the first page, and that
\* are too long.
MCInfos == {<<1, 1, 1, 1, 1>>, <<2, 2>>, <<3, 3, 3, 3, 3, 3>>}

All == {k1, k2, k3}
Full(v) == [k \in All |-> v]

\* Databases that all have the keys, the first with fewer keys than the
\* others, and one that lacks a key of the first.
MCSourceSets ==
  {<<Full(v1), Full(v2), Full(v1)>>, <<Full(v3), Full(v3), Full(v3)>>,
   <<[k \in {k1, k2} |-> v2], Full(v1), Full(v2)>>,
   <<Full(v1), Full(v2), [k \in {k1, k3} |-> v2]>>}

\* The second configuration has no database.
MCUnfinished == {<<Full(v3), NoSource, Full(v3)>>}
============================================================================
