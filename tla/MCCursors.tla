----------------------------- MODULE MCCursors -----------------------------
(***************************************************************************)
(* Instances of Cursors for TLC.                                           *)
(***************************************************************************)
EXTENDS Cursors

\* No key, or a key on the bucket page and two on an overflow page.
SomeChains == {<<0>>, <<1, 2>>}

\* A datum on one data page all keys share, or continued on a second one.
TwoDataPages(k) == IF k[3] = 1 THEN <<<<-1, 1>>>> ELSE <<<<-1, 1>>, <<-1, 2>>>>
=============================================================================
