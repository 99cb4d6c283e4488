---------------------------- MODULE MCHashAccess ---------------------------
(***************************************************************************)
(* Instances of HashAccess for TLC; the .cfg files give the constants.     *)
(***************************************************************************)
EXTENDS HashAccess, TLC

CONSTANTS r1, r2, w1, w2

MCHash == [k \in Keys |-> k]
Symm == Permutations(Readers)

\* The first calls are puts of two keys of one bucket, which double the table.
First == <<1, 5, 9>>
Begun == \A t \in Writers : th[t].calls >= Len(First)
Early(t, k, v) ==
  th[t].calls < Len(First) => k = First[th[t].calls + 1] /\ v = CHOOSE x \in Values : TRUE

GrownNext ==
  \/ \E t \in Readers, k \in Keys : Begun /\ Call(t, "get", k, NoVal)
  \/ \E t \in Writers, k \in Keys, v \in Values : Early(t, k, v) /\ Call(t, "put", k, v)
  \/ \E t \in Threads : Step(t)

GrownSpec ==
  Init /\ [][GrownNext]_vars /\ \A t \in Threads : WF_vars(Step(t))
============================================================================
