------------------------------ MODULE Recency ------------------------------
(***************************************************************************)
(* The recency order kept by an LRU list, as a relation.                   *)
(*                                                                         *)
(* An LRU list over a set K of keys is the strict total order it arranges  *)
(* them in: the set of pairs <<a, b>> such that a is behind b, that is,    *)
(* was used less recently.  The operators below are what the methods of    *)
(* lruList (src/internal/store/lru.go) promise to their caller, the shard; *)
(* module LruList has the pointer rewrites themselves and relates them to  *)
(* this order.                                                             *)
(***************************************************************************)

\* The keys of K that are behind k in the list.
Behind(order, K, k) == {j \in K : <<j, k>> \in order}

\* pushFront: a list that holds the keys K gains k at its front.
PushFront(order, K, k) == order \cup (K \X {k})

\* remove: the keys S leave the list; the others keep their order.
Unlink(order, S) == {p \in order : p[1] \notin S /\ p[2] \notin S}

\* moveToFront: k leaves its place and is pushed in front of the rest of K.
MoveToFront(order, K, k) == PushFront(Unlink(order, {k}), K \ {k}, k)

\* order arranges exactly the keys K in a single chain.
IsRecencyOrder(order, K) ==
  /\ order \subseteq K \X K
  /\ \A a \in K : <<a, a>> \notin order
  /\ \A a, b, c \in K : <<a, b>> \in order /\ <<b, c>> \in order => <<a, c>> \in order
  /\ \A a, b \in K : a = b \/ <<a, b>> \in order \/ <<b, a>> \in order
=============================================================================
