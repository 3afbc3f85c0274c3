----------------------------- MODULE MCLruList -----------------------------
(***************************************************************************)
(* LruList for TLC: four items of three sizes in a shard of six bytes, so  *)
(* that a write may evict none, one, several or all of the others.         *)
(***************************************************************************)
EXTENDS LruList

CONSTANTS k1, k2, k3, k4

MCKeyLen == [k \in Key |-> 1]
=============================================================================
