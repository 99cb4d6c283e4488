----------------------------- MODULE MCRearrange -----------------------------
(***************************************************************************)
(* Instances of Rearrange for TLC.  A key is its hash value and its size.  *)
(***************************************************************************)
EXTENDS Rearrange

HashOf == [k \in Keys |-> k[1]]
SizeOf == [k \in Keys |-> k[2]]

\* Large keys that stay in bucket 0 drive the growth.  The small and large
\* keys of bucket 3 leave gaps on its chain, so that its split gives back
\* two overflow pages and needs none.
Mixed == {<<0, 2>>, <<16, 2>>, <<32, 2>>, <<3, 1>>, <<11, 2>>, <<19, 1>>}

LongOne == {<<16, 2>>}

\* Small and large keys in turn leave gaps on the pages of a chain; its split
\* lists pages as free, and later puts take them from the list.
Gaps == {<<0, 1>>, <<3, 1>>, <<11, 1>>, <<19, 1>>, <<7, 3>>, <<15, 3>>}

LongGap == {<<0, 1>>}
=============================================================================
