----------------------------- MODULE MCSession -----------------------------
(***************************************************************************)
(* Session for TLC.                                                        *)
(***************************************************************************)
EXTENDS Session, TLC

CONSTANTS k1, k2, c1, c2, right, wrong

MCKeyLen == [k \in Key |-> 1]

MCTwoShards == [k \in Key |-> IF k = k1 THEN 1 ELSE 2]

MCOneShard == [k \in Key |-> 1]

\* A number about to gain a digit.
MCValues == {[len |-> 1, num |-> 9]}

MCKeyLists == {<<k1, k2>>, <<k2, k1>>}

MCOneKeyList == {<<k1>>}

MCSymmetry == Permutations(Client)
=============================================================================
