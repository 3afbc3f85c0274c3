------------------------------ MODULE MCStore ------------------------------
(***************************************************************************)
(* Store for TLC.  Keys are one byte long with one byte of overhead, so an *)
(* item costs 2 bytes more than its value.                                 *)
(***************************************************************************)
EXTENDS Store, TLC, FiniteSetsExt

CONSTANTS k1, k2, k3, c1, c2

\* A value that is not a number, and one that spells n in len digits.
MCText(len) == [len |-> len, num |-> NotDecimal]
MCNumber(n, len) == [len |-> len, num |-> n]

MCKeyLen == [k \in Key |-> 1]

\* With 8 bytes to a shard and values of at most 7: items of 3 and of 5 bytes,
\* which together fill the shard, one that fits no shard, one that is too
\* large.  INCR makes the first longer, and the second, which has leading
\* zeros, shorter.
MCEvictionValues == {MCNumber(9, 1), MCNumber(9, 3), MCText(7), MCText(8)}

\* With 9 bytes for two shards, 4 to each: a number that INCR fills the shard
\* with, a value that is none, and one that fits only if the odd byte is given
\* to both.
MCSmallValues == {MCNumber(8, 1), MCText(0), MCText(3)}

MCOneShard == [k \in Key |-> 1]

MCTwoShards == [k \in Key |-> IF k = k1 THEN 1 ELSE 2]

MCSymmetry == Permutations(Key)

\* SumSizes, defined by counting bytes, is the sum of the sizes.
ASSUME SumSizesIsSum ==
  \A f \in [Key -> 0 .. 4] : \A S \in SUBSET Key :
    LET items == [k \in Key |-> [size |-> f[k]]]
        size(k) == f[k]
    IN  SumSizes(items, S) = MapThenSumSet(size, S)
=============================================================================
