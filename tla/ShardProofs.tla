---------------------------- MODULE ShardProofs -----------------------------
(***************************************************************************)
(* Proofs about the shard's methods: each keeps the accounting exact, the  *)
(* LRU list in step with the items and the shard within its budget, and    *)
(* eviction never fails for an item that fits the budget by itself; and    *)
(* what each does to the items it does not write.                          *)
(***************************************************************************)
EXTENDS Shard, FiniteSetTheorems, WellFoundedInduction, TLAPS

(***************************************************************************)
(* Sums of sizes.                                                          *)
(***************************************************************************)
\* The size of one item.
LEMMA SumOne ==
  ASSUME NEW items, NEW k, items[k].size \in Nat
  PROVE  IsFiniteSet(Bytes(items, {k})) /\ SumSizes(items, {k}) = items[k].size
<1> DEFINE n == items[k].size
<1>1. Bytes(items, {k}) = {k} \X (1 .. n)
  BY DEF Bytes
<1> n \in Nat
  OBVIOUS
<1> HIDE DEF n
<1>2. IsFiniteSet({k}) /\ Cardinality({k}) = 1
  BY Zenon, FS_Singleton
<1>3. IsFiniteSet(1 .. n) /\ Cardinality(1 .. n) = n
  <2>1. 1 \in Int /\ n \in Int
    OBVIOUS
  <2>2. /\ IsFiniteSet(1 .. n)
        /\ Cardinality(1 .. n) = IF 1 > n THEN 0 ELSE n - 1 + 1
    BY Zenon, <2>1, FS_Interval
  <2> QED
    BY <2>2
<1>4. IsFiniteSet({k} \X (1 .. n)) /\ Cardinality({k} \X (1 .. n)) = n
  <2>1. IsFiniteSet({k} \X (1 .. n)) /\ Cardinality({k} \X (1 .. n)) = 1 * n
    BY <1>2, <1>3, FS_Product
  <2> QED
    BY <2>1
<1>5. IsFiniteSet(Bytes(items, {k})) /\ Cardinality(Bytes(items, {k})) = n
  BY <1>1, <1>4, Zenon
<1> QED
  BY <1>5 DEF SumSizes, n

\* A set of items splits into two parts whose sums add up.
LEMMA SumSplit ==
  ASSUME NEW items, NEW D, NEW S \in SUBSET D, IsFiniteSet(Bytes(items, D))
  PROVE  /\ IsFiniteSet(Bytes(items, S)) /\ IsFiniteSet(Bytes(items, D \ S))
         /\ SumSizes(items, S) \in Nat /\ SumSizes(items, D \ S) \in Nat
         /\ SumSizes(items, D) = SumSizes(items, S) + SumSizes(items, D \ S)
<1>1. Bytes(items, D) = Bytes(items, S) \cup Bytes(items, D \ S)
  BY DEF Bytes
<1>2. Bytes(items, S) \cap Bytes(items, D \ S) = {}
  BY DEF Bytes
<1>3. IsFiniteSet(Bytes(items, S)) /\ IsFiniteSet(Bytes(items, D \ S))
  <2>1. Bytes(items, S) \subseteq Bytes(items, D) /\ Bytes(items, D \ S) \subseteq Bytes(items, D)
    BY <1>1
  <2> QED
    BY Zenon, <2>1, FS_Subset
<1>4. Cardinality(Bytes(items, S)) \in Nat /\ Cardinality(Bytes(items, D \ S)) \in Nat
  BY <1>3, FS_CardinalityType
<1>5. Cardinality(Bytes(items, D))
        = Cardinality(Bytes(items, S)) + Cardinality(Bytes(items, D \ S)) - Cardinality({})
  BY ZenonT(60), <1>1, <1>2, <1>3, FS_Union
<1>6. Cardinality({}) = 0
  BY FS_EmptySet
<1> QED
  BY <1>3, <1>4, <1>5, <1>6 DEF SumSizes

\* A sum depends only on the sizes.
LEMMA SumSame ==
  ASSUME NEW items, NEW items2, NEW S, \A k \in S : items[k].size = items2[k].size
  PROVE  Bytes(items, S) = Bytes(items2, S) /\ SumSizes(items, S) = SumSizes(items2, S)
<1>1. Bytes(items, S) = Bytes(items2, S)
  BY DEF Bytes
<1> QED
  BY <1>1 DEF SumSizes

(***************************************************************************)
(* The recency order.                                                      *)
(***************************************************************************)
LEMMA UnlinkOrder ==
  ASSUME NEW order, NEW K, NEW S, IsRecencyOrder(order, K)
  PROVE  IsRecencyOrder(Unlink(order, S), K \ S)
BY DEF IsRecencyOrder, Unlink

\* An item pushed in front of a list it is not in extends the order.
LEMMA PushFrontOrder ==
  ASSUME NEW order, NEW K, NEW k, k \notin K, IsRecencyOrder(order, K)
  PROVE  IsRecencyOrder(PushFront(order, K, k), K \cup {k})
BY DEF IsRecencyOrder, PushFront

\* moveToFront keeps the order a single chain, also for an item that is new.
LEMMA MoveToFrontOrder ==
  ASSUME NEW order, NEW K, NEW k, IsRecencyOrder(order, K)
  PROVE  IsRecencyOrder(MoveToFront(order, K, k), K \cup {k})
<1>1. IsRecencyOrder(Unlink(order, {k}), K \ {k})
  BY UnlinkOrder
<1>2. IsRecencyOrder(PushFront(Unlink(order, {k}), K \ {k}, k), (K \ {k}) \cup {k})
  BY <1>1, PushFrontOrder
<1>3. (K \ {k}) \cup {k} = K \cup {k}
  OBVIOUS
<1> QED
  BY <1>2, <1>3 DEF MoveToFront

\* What deleteLocked leaves in each field of the shard.
LEMMA DeleteLockedFields ==
  ASSUME NEW sh, ShardTyped(sh), NEW S
  PROVE  LET d == deleteLocked(sh, S)
         IN  /\ DOMAIN d = DOMAIN sh
             /\ d.items = [k \in DOMAIN sh.items \ S |-> sh.items[k]]
             /\ d.lru = Unlink(sh.lru, S)
             /\ d.memoryBytes = sh.memoryBytes - SumSizes(sh.items, S)
             /\ d.ttlCount = sh.ttlCount - Cardinality(WithTTL(sh.items, S))
             /\ d.evictions = sh.evictions
             /\ d.expirations = sh.expirations
BY DEF deleteLocked, ShardTyped

\* Removing stored items keeps a shard correct, in the middle of a method
\* as at its end, and gives back exactly their bytes.
LEMMA DeleteLockedOK ==
  ASSUME NEW sh, ShardOK(sh), NEW S \in SUBSET DOMAIN sh.items
  PROVE  LET d == deleteLocked(sh, S)
         IN  /\ ShardOK(d)
             /\ DOMAIN d.items = DOMAIN sh.items \ S
             /\ \A k \in DOMAIN d.items : d.items[k] = sh.items[k]
             /\ d.memoryBytes = sh.memoryBytes - SumSizes(sh.items, S)
             /\ SumSizes(sh.items, S) \in Nat
             /\ d.evictions = sh.evictions /\ d.expirations = sh.expirations
<1> DEFINE d == deleteLocked(sh, S)
           D == DOMAIN sh.items
<1>1. /\ DOMAIN d = DOMAIN sh
      /\ d.items = [k \in D \ S |-> sh.items[k]]
      /\ d.lru = Unlink(sh.lru, S)
      /\ d.memoryBytes = sh.memoryBytes - SumSizes(sh.items, S)
      /\ d.ttlCount = sh.ttlCount - Cardinality(WithTTL(sh.items, S))
      /\ d.evictions = sh.evictions
      /\ d.expirations = sh.expirations
  BY Zenon, DeleteLockedFields DEF ShardOK
<1> HIDE DEF d
<1>2. /\ DOMAIN d.items = D \ S
      /\ \A k \in D \ S : d.items[k] = sh.items[k]
  BY <1>1
<1>3. /\ IsFiniteSet(Bytes(sh.items, S)) /\ IsFiniteSet(Bytes(sh.items, D \ S))
      /\ SumSizes(sh.items, S) \in Nat /\ SumSizes(sh.items, D \ S) \in Nat
      /\ SumSizes(sh.items, D) = SumSizes(sh.items, S) + SumSizes(sh.items, D \ S)
  <2>1. IsFiniteSet(Bytes(sh.items, D)) /\ S \in SUBSET D
    BY DEF ShardOK
  <2> HIDE DEF D
  <2> QED
    BY <2>1, SumSplit
<1>4. /\ Bytes(d.items, D \ S) = Bytes(sh.items, D \ S)
      /\ SumSizes(d.items, D \ S) = SumSizes(sh.items, D \ S)
  BY <1>2, SumSame
<1>5. d.memoryBytes = SumSizes(d.items, D \ S)
  BY <1>1, <1>3, <1>4 DEF ShardOK, Accounted
<1>6. IsFiniteSet(WithTTL(sh.items, D)) /\ IsFiniteSet(D \ S)
  BY FS_Subset DEF ShardOK, WithTTL
<1>7. d.ttlCount = Cardinality(WithTTL(d.items, D \ S)) /\ d.ttlCount \in Int
  <2>1. WithTTL(d.items, D \ S) = WithTTL(sh.items, D) \ WithTTL(sh.items, S)
    BY <1>2 DEF WithTTL
  <2>2. WithTTL(sh.items, D) \cap WithTTL(sh.items, S) = WithTTL(sh.items, S)
    BY DEF WithTTL
  <2>3. /\ IsFiniteSet(WithTTL(sh.items, D) \ WithTTL(sh.items, S))
        /\ Cardinality(WithTTL(sh.items, D) \ WithTTL(sh.items, S))
             = Cardinality(WithTTL(sh.items, D))
                 - Cardinality(WithTTL(sh.items, D) \cap WithTTL(sh.items, S))
    BY Zenon, <1>6, FS_Difference
  <2>4. Cardinality(WithTTL(sh.items, D) \ WithTTL(sh.items, S)) \in Nat
    BY Zenon, <2>3, FS_CardinalityType
  <2>5. sh.ttlCount = Cardinality(WithTTL(sh.items, D))
    BY DEF ShardOK, Accounted
  <2> DEFINE all == Cardinality(WithTTL(sh.items, D))
             gone == Cardinality(WithTTL(sh.items, S))
             left == Cardinality(WithTTL(d.items, D \ S))
  <2>6. left \in Nat /\ left = all - gone
    <3>1. left = Cardinality(WithTTL(sh.items, D) \ WithTTL(sh.items, S))
      BY <2>1, Zenon
    <3>2. Cardinality(WithTTL(sh.items, D) \cap WithTTL(sh.items, S)) = gone
      BY <2>2, Zenon
    <3> QED
      BY <3>1, <3>2, <2>3, <2>4, Zenon
  <2> HIDE DEF all, gone, left
  <2>7. d.ttlCount = all - gone
    BY <1>1, <2>5 DEF all, gone
  <2> QED
    BY <2>6, <2>7 DEF left
<1>8. ShardTyped(d)
  <2>1. d.memoryBytes \in Int
    BY <1>5, <1>4, <1>3
  <2> QED
    BY Zenon, <1>1, <1>2, <1>7, <2>1 DEF ShardOK, ShardTyped
<1>9. Accounted(d)
  BY Zenon, <1>2, <1>5, <1>7 DEF Accounted, ShardOK
<1>10. IsRecencyOrder(d.lru, D \ S)
  BY <1>1, UnlinkOrder DEF ShardOK
<1>11. ShardOK(d)
  BY Zenon, <1>2, <1>3, <1>4, <1>6, <1>8, <1>9, <1>10 DEF ShardOK
<1> QED
  BY <1>1, <1>2, <1>3, <1>11 DEF d

\* A sweep of the expired items.
LEMMA RemoveExpiredOK ==
  ASSUME NEW sh, ShardOK(sh), NEW now
  PROVE  LET d == removeExpiredLocked(sh, now)
         IN  /\ ShardOK(d)
             /\ DOMAIN d.items = DOMAIN sh.items \ Expired(sh.items, now)
             /\ \A k \in DOMAIN d.items : d.items[k] = sh.items[k]
             /\ d.memoryBytes <= sh.memoryBytes
             /\ d.evictions = sh.evictions
<1> DEFINE E == Expired(sh.items, now)
           d == deleteLocked(sh, E)
           r == removeExpiredLocked(sh, now)
<1>1. E \in SUBSET DOMAIN sh.items
  BY Zenon DEF Expired
<1>2. /\ ShardOK(d)
      /\ DOMAIN d.items = DOMAIN sh.items \ E
      /\ \A k \in DOMAIN d.items : d.items[k] = sh.items[k]
      /\ d.memoryBytes = sh.memoryBytes - SumSizes(sh.items, E)
      /\ SumSizes(sh.items, E) \in Nat
      /\ d.evictions = sh.evictions /\ d.expirations = sh.expirations
  BY <1>1, DeleteLockedOK
<1>3. r = [d EXCEPT !.expirations = sh.expirations + Cardinality(E)]
  BY DEF removeExpiredLocked
<1>4. sh.expirations + Cardinality(E) \in Nat
  <2>1. Cardinality(E) \in Nat
    BY <1>1, FS_Subset, FS_CardinalityType DEF ShardOK
  <2> QED
    BY <2>1 DEF ShardOK, ShardTyped
<1> HIDE DEF d, r, E
<1>5. /\ DOMAIN r = DOMAIN d /\ r.items = d.items /\ r.lru = d.lru
      /\ r.memoryBytes = d.memoryBytes /\ r.ttlCount = d.ttlCount
      /\ r.evictions = d.evictions /\ r.expirations \in Nat
  BY <1>2, <1>3, <1>4 DEF ShardOK, ShardTyped
<1>6. ShardOK(r)
  BY Zenon, <1>2, <1>5 DEF ShardOK, ShardTyped, Accounted
<1>7. r.memoryBytes <= sh.memoryBytes
  BY <1>2, <1>5 DEF ShardOK, ShardTyped
<1> QED
  BY Zenon, <1>2, <1>5, <1>6, <1>7 DEF E, r

\* Eviction spares the protected key, touches nothing it does not remove and
\* keeps the shard correct whether or not it makes enough room.
LEMMA EvictOK ==
  ASSUME NEW sh, ShardOK(sh), NEW p, NEW projected
  PROVE  LET e == evictUntilFitsLocked(sh, p, projected)
             V == Victims(sh, p, projected)
         IN  /\ ShardOK(e.sh)
             /\ DOMAIN e.sh.items = DOMAIN sh.items \ V
             /\ p \notin V
             /\ \A k \in DOMAIN e.sh.items : e.sh.items[k] = sh.items[k]
             /\ e.sh.memoryBytes = sh.memoryBytes - SumSizes(sh.items, V)
             /\ SumSizes(sh.items, V) \in Nat
             /\ e.ok = (projected - SumSizes(sh.items, V) <= perShardMemory)
<1> DEFINE e == evictUntilFitsLocked(sh, p, projected)
           V == Victims(sh, p, projected)
           d == deleteLocked(sh, V)
<1>1. V \in SUBSET DOMAIN sh.items /\ p \notin V
  BY DEF Victims
<1>2. /\ e.sh = [d EXCEPT !.evictions = sh.evictions + Cardinality(V)]
      /\ e.ok = (projected - SumSizes(sh.items, V) <= perShardMemory)
  BY DEF evictUntilFitsLocked
<1> HIDE DEF V
<1>3. /\ ShardOK(d)
      /\ DOMAIN d.items = DOMAIN sh.items \ V
      /\ \A k \in DOMAIN d.items : d.items[k] = sh.items[k]
      /\ d.memoryBytes = sh.memoryBytes - SumSizes(sh.items, V)
      /\ SumSizes(sh.items, V) \in Nat
      /\ d.evictions = sh.evictions /\ d.expirations = sh.expirations
  BY <1>1, DeleteLockedOK
<1>4. sh.evictions + Cardinality(V) \in Nat
  <2>1. Cardinality(V) \in Nat
    BY Zenon, <1>1, FS_Subset, FS_CardinalityType DEF ShardOK
  <2> QED
    BY <2>1 DEF ShardOK, ShardTyped
<1> HIDE DEF d, e
<1>5. /\ DOMAIN e.sh = DOMAIN d /\ e.sh.items = d.items /\ e.sh.lru = d.lru
      /\ e.sh.memoryBytes = d.memoryBytes /\ e.sh.ttlCount = d.ttlCount
      /\ e.sh.expirations = d.expirations /\ e.sh.evictions \in Nat
  BY ZenonT(30), <1>2, <1>3, <1>4 DEF ShardOK, ShardTyped
<1>6. ShardOK(e.sh)
  BY Zenon, <1>3, <1>5 DEF ShardOK, ShardTyped, Accounted
<1> QED
  BY Zenon, <1>1, <1>2, <1>3, <1>5, <1>6 DEF e, V

\* A set of natural numbers has a least element.
LEMMA LeastNatural ==
  ASSUME NEW T \in SUBSET Nat, T # {}
  PROVE  \E x \in T : \A y \in T : x <= y
<1> DEFINE R == OpToRel(<, Nat)
<1>1. \E x \in T : \A y \in T : ~ (<<y, x>> \in R)
  BY NatLessThanWellFounded, WFMin, Zenon
<1>2. \A x, y \in Nat : y < x => <<y, x>> \in R
  BY DEF OpToRel
<1> HIDE DEF R
<1>3. PICK x \in T : \A y \in T : ~ (<<y, x>> \in R)
  BY <1>1, Zenon
<1>4. \A y \in T : ~ (y < x)
  BY <1>2, <1>3, Zenon
<1>5. \A y \in T : x <= y
  BY <1>4
<1> QED
  BY <1>5

\* A shard's slice of the budget is at least one byte.
LEMMA BudgetType == perShardMemory \in Nat \ {0}
BY ConfigAssumption DEF perShardMemory

\* A part of a set of stored items sums to no more than the set.
LEMMA SumMonotone ==
  ASSUME NEW items, NEW D, IsFiniteSet(Bytes(items, D)), NEW B \in SUBSET D, NEW A \in SUBSET B
  PROVE  /\ SumSizes(items, A) \in Nat /\ SumSizes(items, B) \in Nat
         /\ SumSizes(items, A) <= SumSizes(items, B)
<1>1. IsFiniteSet(Bytes(items, B)) /\ SumSizes(items, B) \in Nat
  BY Zenon, SumSplit
<1>2. /\ SumSizes(items, A) \in Nat /\ SumSizes(items, B \ A) \in Nat
      /\ SumSizes(items, B) = SumSizes(items, A) + SumSizes(items, B \ A)
  BY <1>1, SumSplit
<1> QED
  BY <1>1, <1>2

\* The items other than key sum to what the shard holds without key's item.
LEMMA SumOthers ==
  ASSUME NEW sh, ShardOK(sh), NEW key
  PROVE  SumSizes(sh.items, DOMAIN sh.items \ {key}) = sh.memoryBytes - oldSize(sh, key)
<1> DEFINE D == DOMAIN sh.items
<1>1. /\ IsFiniteSet(Bytes(sh.items, D)) /\ sh.memoryBytes = SumSizes(sh.items, D)
      /\ sh.memoryBytes \in Int
  BY DEF ShardOK, Accounted, ShardTyped
<1>2. CASE key \in D
  <2>1. sh.items[key].size \in Nat
    BY Zenon, <1>2 DEF ShardOK, ShardTyped, Item
  <2>2. SumSizes(sh.items, {key}) = sh.items[key].size
    BY <2>1, SumOne
  <2>3. {key} \in SUBSET D
    BY <1>2
  <2> HIDE DEF D
  <2>4. /\ SumSizes(sh.items, D \ {key}) \in Nat
        /\ SumSizes(sh.items, D) = SumSizes(sh.items, {key}) + SumSizes(sh.items, D \ {key})
    BY <1>1, <2>3, SumSplit
  <2>5. oldSize(sh, key) = sh.items[key].size
    BY Zenon, <1>2 DEF oldSize, D
  <2>6. SumSizes(sh.items, D \ {key}) = sh.memoryBytes - oldSize(sh, key)
    BY <1>1, <2>1, <2>2, <2>4, <2>5
  <2> QED
    BY Zenon, <2>6 DEF D
<1>3. CASE key \notin D
  <2>1. D \ {key} = D /\ oldSize(sh, key) = 0
    BY <1>3 DEF oldSize
  <2>2. SumSizes(sh.items, D \ {key}) = SumSizes(sh.items, D)
    BY <2>1, Zenon
  <2> QED
    BY <1>1, <2>1, <2>2
<1> QED
  BY <1>2, <1>3

\* Eviction never fails for an item that fits the budget by itself: the
\* candidates do not run out first, so the error return of
\* evictUntilFitsLocked is never taken and no write fails halfway.
THEOREM EvictionSucceeds ==
  ASSUME NEW sh, ShardOK(sh), NEW key, NEW size \in Nat, size <= perShardMemory
  PROVE  evictUntilFitsLocked(sh, key, Projected(sh, key, size)).ok
<1> DEFINE pr == Projected(sh, key, size)
           C == DOMAIN sh.items \ {key}
           V == Victims(sh, key, pr)
           behind(k) == Behind(sh.lru, C, k)
           sum(S) == SumSizes(sh.items, S)
<1>1. evictUntilFitsLocked(sh, key, pr).ok = (pr - sum(V) <= perShardMemory)
  BY EvictOK
<1>2. IsFiniteSet(Bytes(sh.items, C))
  <2>1. C \in SUBSET DOMAIN sh.items
    OBVIOUS
  <2> HIDE DEF C
  <2> QED
    BY Zenon, <2>1, SumSplit DEF ShardOK
<1>3. /\ V \in SUBSET C
      /\ \A k \in C : k \in V <=> pr - sum(behind(k)) > perShardMemory
      /\ \A k \in C : behind(k) \in SUBSET C
  BY DEF Victims, Behind
<1>4. /\ sum(C) = sh.memoryBytes - oldSize(sh, key)
      /\ pr = sh.memoryBytes - oldSize(sh, key) + size
      /\ sh.memoryBytes \in Int /\ oldSize(sh, key) \in Int
  <2>1. sum(C) = sh.memoryBytes - oldSize(sh, key)
    BY SumOthers
  <2>2. sh.memoryBytes \in Int /\ oldSize(sh, key) \in Int
    BY DEF ShardOK, ShardTyped, oldSize, Item
  <2> QED
    BY <2>1, <2>2 DEF Projected
<1>5. \A k \in C : sh.items[k].size \in Nat \ {0}
  BY ConfigAssumption DEF ShardOK, Accounted, ShardTyped, itemSize, Item, Value
<1>6. \A j, k \in C : j \in behind(k) =>
         j \notin behind(j) /\ behind(j) \cup {j} \subseteq behind(k)
  BY DEF ShardOK, IsRecencyOrder, Behind
<1>7. pr \in Int /\ perShardMemory \in Nat
  BY <1>4, BudgetType
<1> HIDE DEF pr, C, V, behind, sum
<1>8. \A A, B \in SUBSET C : A \subseteq B => sum(A) \in Nat /\ sum(B) \in Nat /\ sum(A) <= sum(B)
  BY <1>2, SumMonotone DEF sum
<1>9. \A j, k \in C : j \in behind(k) => sum(behind(j)) < sum(behind(k))
  <2> SUFFICES ASSUME NEW j \in C, NEW k \in C, j \in behind(k)
               PROVE  sum(behind(j)) < sum(behind(k))
    OBVIOUS
  <2> DEFINE U == behind(j) \cup {j}
  <2>1. U \in SUBSET C /\ U \subseteq behind(k) /\ behind(j) \in SUBSET U /\ U \ behind(j) = {j}
    BY Zenon, <1>3, <1>6
  <2>2. sum(U) <= sum(behind(k)) /\ sum(U) \in Nat /\ sum(behind(k)) \in Nat
    BY <1>3, <1>8, <2>1
  <2> HIDE DEF U
  <2>3. IsFiniteSet(Bytes(sh.items, U))
    BY Zenon, <1>2, <2>1, SumSplit
  <2>4. sum(U) = sum(behind(j)) + sum(U \ behind(j)) /\ sum(behind(j)) \in Nat
    BY <2>1, <2>3, SumSplit DEF sum
  <2>5. sum({j}) = sh.items[j].size
    BY Zenon, <1>5, SumOne DEF sum
  <2>6. sum(U \ behind(j)) = sh.items[j].size
    BY <2>1, <2>5, Zenon
  <2> QED
    BY <1>5, <2>2, <2>4, <2>6
<1>10. CASE V = C
  <2>1. sum(V) = sum(C)
    BY <1>10, Zenon
  <2>2. pr - sum(V) <= perShardMemory
    BY <1>4, <1>7, <2>1
  <2> QED
    BY Zenon, <1>1, <2>2 DEF pr
<1>11. CASE V # C
  <2> DEFINE T == {sum(behind(k)) : k \in C \ V}
  <2>1. T \in SUBSET Nat /\ T # {}
    BY Zenon, <1>3, <1>8, <1>11
  <2>2. \E m \in T : \A y \in T : m <= y
    BY Zenon, <2>1, LeastNatural
  <2>3. PICK k \in C \ V : \A j \in C \ V : sum(behind(k)) <= sum(behind(j))
    BY <2>2
  <2>4. behind(k) \subseteq V
    <3> SUFFICES ASSUME NEW j \in behind(k), j \notin V
                 PROVE  FALSE
      OBVIOUS
    <3>1. j \in C \ V /\ k \in C
      BY Zenon, <1>3, <2>3
    <3>2. sum(behind(j)) < sum(behind(k)) /\ sum(behind(k)) <= sum(behind(j))
      BY Zenon, <1>9, <2>3, <3>1
    <3>3. sum(behind(j)) \in Nat /\ sum(behind(k)) \in Nat
      BY Zenon, <1>3, <1>8, <3>1
    <3> QED
      BY <3>2, <3>3
  <2>5. /\ sum(behind(k)) <= sum(V) /\ sum(behind(k)) \in Nat /\ sum(V) \in Nat
    BY Zenon, <1>3, <1>8, <2>3, <2>4
  <2>6. ~ (pr - sum(behind(k)) > perShardMemory)
    BY <1>3, <2>3
  <2>7. pr - sum(V) <= perShardMemory
    BY <1>7, <2>5, <2>6
  <2> QED
    BY Zenon, <1>1, <2>7 DEF pr
<1> QED
  BY Zenon, <1>10, <1>11

(***************************************************************************)
(* Writing the item.                                                       *)
(***************************************************************************)
LEMMA WriteFields ==
  ASSUME NEW sh, ShardTyped(sh), NEW key, NEW item
  PROVE  LET w == write(sh, key, item)
         IN  /\ DOMAIN w = DOMAIN sh
             /\ DOMAIN w.items = DOMAIN sh.items \cup {key}
             /\ w.items[key] = item
             /\ \A k \in DOMAIN sh.items \ {key} : w.items[k] = sh.items[k]
             /\ w.lru = MoveToFront(sh.lru, DOMAIN sh.items, key)
             /\ w.memoryBytes = Projected(sh, key, item.size)
             /\ w.ttlCount = sh.ttlCount - HasTTL(sh, key)
                               + (IF item.expiresAt # NoExpiry THEN 1 ELSE 0)
             /\ w.evictions = sh.evictions /\ w.expirations = sh.expirations
BY Zenon DEF write, ShardTyped

\* Writing an item keeps a shard correct, whether the key is new, replaces an
\* item, gains a TTL or loses one.
LEMMA WriteOK ==
  ASSUME NEW sh, ShardOK(sh), NEW key \in Key, NEW item \in Item,
         item.size = itemSize(key, item.value.len)
  PROVE  ShardOK(write(sh, key, item))
<1> DEFINE w == write(sh, key, item)
           D == DOMAIN sh.items
           E == D \cup {key}
           R == D \ {key}
           ttl == IF item.expiresAt # NoExpiry THEN 1 ELSE 0
<1>1. /\ DOMAIN w = DOMAIN sh
      /\ DOMAIN w.items = E
      /\ w.items[key] = item
      /\ \A k \in R : w.items[k] = sh.items[k]
      /\ w.lru = MoveToFront(sh.lru, D, key)
      /\ w.memoryBytes = Projected(sh, key, item.size)
      /\ w.ttlCount = sh.ttlCount - HasTTL(sh, key) + ttl
      /\ w.evictions = sh.evictions /\ w.expirations = sh.expirations
  BY WriteFields DEF ShardOK
<1>2. R \in SUBSET D /\ R \in SUBSET E /\ E \ R = {key} /\ D \in SUBSET Key
  BY DEF ShardOK, ShardTyped
<1>3. SumSizes(sh.items, R) = sh.memoryBytes - oldSize(sh, key)
  BY SumOthers
<1> HIDE DEF w
<1>4. IsFiniteSet(Bytes(sh.items, R)) /\ SumSizes(sh.items, R) \in Nat
  <2>1. IsFiniteSet(Bytes(sh.items, D))
    BY DEF ShardOK
  <2> HIDE DEF D, R
  <2> QED
    BY Zenon, <1>2, <2>1, SumSplit
<1>5. Bytes(w.items, R) = Bytes(sh.items, R) /\ SumSizes(w.items, R) = SumSizes(sh.items, R)
  BY <1>1, SumSame
<1>6. /\ IsFiniteSet(Bytes(w.items, {key}))
      /\ SumSizes(w.items, {key}) = item.size /\ item.size \in Nat
  BY <1>1, SumOne DEF Item
<1>7. Bytes(w.items, E) = Bytes(w.items, R) \cup Bytes(w.items, {key})
  BY DEF Bytes
<1> HIDE DEF E, R, D
<1>8. IsFiniteSet(Bytes(w.items, E))
  BY Zenon, <1>4, <1>5, <1>6, <1>7, FS_Union
<1>9. w.memoryBytes = SumSizes(w.items, E) /\ w.memoryBytes \in Int
  <2>1. SumSizes(w.items, E) = SumSizes(w.items, R) + SumSizes(w.items, E \ R)
    BY <1>2, <1>8, SumSplit
  <2>2. SumSizes(w.items, E \ R) = item.size
    BY <1>2, <1>6, Zenon
  <2>3. w.memoryBytes = SumSizes(sh.items, R) + item.size
    <3>1. sh.memoryBytes \in Int /\ oldSize(sh, key) \in Int
      BY DEF ShardOK, ShardTyped, oldSize, Item
    <3>2. w.memoryBytes = sh.memoryBytes - oldSize(sh, key) + item.size
      BY <1>1 DEF Projected
    <3> QED
      BY Zenon, <1>3, <1>6, <3>1, <3>2
  <2> QED
    BY <1>4, <1>5, <1>6, <2>1, <2>2, <2>3
<1>10. IsFiniteSet(D) /\ IsFiniteSet(E)
  <2>1. IsFiniteSet(D)
    BY DEF ShardOK, D
  <2> QED
    BY <2>1, FS_AddElement DEF E
<1>11. w.ttlCount = Cardinality(WithTTL(w.items, E)) /\ w.ttlCount \in Int
  <2> DEFINE old == WithTTL(sh.items, D)
             rest == old \ {key}
             new == WithTTL(w.items, E)
  <2>1. IsFiniteSet(old) /\ sh.ttlCount = Cardinality(old) /\ Cardinality(old) \in Nat
    <3>1. IsFiniteSet(old)
      BY <1>10, FS_Subset DEF WithTTL
    <3> QED
      BY Zenon, <3>1, FS_CardinalityType DEF ShardOK, Accounted, D
  <2>2. HasTTL(sh, key) = IF key \in old THEN 1 ELSE 0
    BY Zenon DEF HasTTL, WithTTL, D
  <2>3. new = IF item.expiresAt # NoExpiry THEN rest \cup {key} ELSE rest
    BY <1>1 DEF WithTTL, E, R, D
  <2>4. key \notin rest
    OBVIOUS
  <2> HIDE DEF old, rest, new
  <2>5. /\ IsFiniteSet(rest)
        /\ Cardinality(rest) = IF key \in old THEN Cardinality(old) - 1 ELSE Cardinality(old)
    BY Zenon, <2>1, FS_RemoveElement DEF rest
  <2>6. Cardinality(rest \cup {key}) = Cardinality(rest) + 1
    BY Zenon, <2>4, <2>5, FS_AddElement
  <2>7. Cardinality(new) = Cardinality(rest) + ttl
    <3>1. CASE item.expiresAt # NoExpiry
      <4>1. Cardinality(new) = Cardinality(rest \cup {key})
        BY <2>3, <3>1
      <4> QED
        BY <2>6, <3>1, <4>1
    <3>2. CASE item.expiresAt = NoExpiry
      <4>1. Cardinality(new) = Cardinality(rest) /\ Cardinality(rest) \in Nat
        BY Zenon, <2>1, <2>3, <2>5, <3>2, FS_CardinalityType
      <4> QED
        BY <3>2, <4>1
    <3> QED
      BY Zenon, <3>1, <3>2
  <2> HIDE DEF ttl
  <2>8. ttl \in Int
    BY DEF ttl
  <2>9. w.ttlCount = sh.ttlCount - HasTTL(sh, key) + ttl
    BY Zenon, <1>1
  <2>10. w.ttlCount = Cardinality(new) /\ w.ttlCount \in Int
    BY <2>1, <2>2, <2>5, <2>7, <2>8, <2>9
  <2> QED
    BY Zenon, <2>10 DEF new
<1>12. ShardTyped(w)
  BY Zenon, <1>1, <1>2, <1>9, <1>11 DEF ShardOK, ShardTyped, E, R, D
<1>13. Accounted(w)
  BY ZenonT(30), <1>1, <1>9, <1>11 DEF ShardOK, Accounted, E, R, D
<1>14. IsRecencyOrder(w.lru, E)
  BY <1>1, MoveToFrontOrder DEF ShardOK, E, D
<1> QED
  BY ZenonT(30), <1>1, <1>8, <1>10, <1>12, <1>13, <1>14 DEF ShardOK, w

(***************************************************************************)
(* Making room for a write.                                                *)
(***************************************************************************)
\* Making room by expiry loses no live item and evicts none.
LEMMA ReclaimExpiredOK ==
  ASSUME NEW sh, ShardOK(sh), NEW key, NEW size, NEW now
  PROVE  LET r == reclaimExpired(sh, key, size, now)
         IN  /\ Shrunk(sh, r) /\ KeepsLive(sh, r, now)
             /\ r.evictions = sh.evictions
BY RemoveExpiredOK DEF reclaimExpired, Shrunk, KeepsLive, Expired

\* Deleting one stored item leaves a correct, smaller shard.
LEMMA DeleteOneOK ==
  ASSUME NEW sh, ShardOK(sh), NEW key \in DOMAIN sh.items
  PROVE  LET d == deleteLocked(sh, {key})
         IN  /\ Shrunk(sh, d) /\ DOMAIN d.items = DOMAIN sh.items \ {key}
             /\ d.memoryBytes <= sh.memoryBytes
             /\ d.evictions = sh.evictions
<1> DEFINE d == deleteLocked(sh, {key})
<1>1. /\ ShardOK(d)
      /\ DOMAIN d.items = DOMAIN sh.items \ {key}
      /\ \A k \in DOMAIN d.items : d.items[k] = sh.items[k]
      /\ d.memoryBytes = sh.memoryBytes - SumSizes(sh.items, {key})
      /\ SumSizes(sh.items, {key}) \in Nat
      /\ d.evictions = sh.evictions
  BY DeleteLockedOK
<1> HIDE DEF d
<1>2. d.memoryBytes <= sh.memoryBytes
  BY <1>1 DEF ShardOK, ShardTyped
<1> QED
  BY Zenon, <1>1, <1>2 DEF Shrunk, d

\* makeRoom always succeeds for an item that fits the budget by itself, and
\* then the write keeps the shard within it.
LEMMA MakeRoomOK ==
  ASSUME NEW sh, ShardOK(sh), NEW key, NEW size \in Nat, size <= perShardMemory
  PROVE  LET room == makeRoom(sh, key, size)
         IN  /\ room.ok
             /\ Shrunk(sh, room.sh)
             /\ key \in DOMAIN sh.items => key \in DOMAIN room.sh.items
             /\ Projected(room.sh, key, size) <= perShardMemory
<1> DEFINE pr == Projected(sh, key, size)
           V == Victims(sh, key, pr)
           e == evictUntilFitsLocked(sh, key, pr)
<1>1. CASE ~ (pr > perShardMemory)
  <2>1. makeRoom(sh, key, size) = [sh |-> sh, ok |-> TRUE]
    BY Zenon, <1>1 DEF makeRoom
  <2>2. pr \in Int /\ perShardMemory \in Int
    BY BudgetType DEF Projected, oldSize, ShardOK, ShardTyped, Item
  <2> QED
    BY <1>1, <2>1, <2>2 DEF Shrunk
<1>2. CASE pr > perShardMemory
  <2>1. makeRoom(sh, key, size) = e
    BY <1>2 DEF makeRoom
  <2>2. e.ok
    BY Zenon, EvictionSucceeds
  <2>3. /\ ShardOK(e.sh)
        /\ DOMAIN e.sh.items = DOMAIN sh.items \ V
        /\ key \notin V
        /\ \A k \in DOMAIN e.sh.items : e.sh.items[k] = sh.items[k]
        /\ e.sh.memoryBytes = sh.memoryBytes - SumSizes(sh.items, V)
        /\ SumSizes(sh.items, V) \in Nat
        /\ e.ok = (pr - SumSizes(sh.items, V) <= perShardMemory)
    BY EvictOK
  <2>4. oldSize(e.sh, key) = oldSize(sh, key)
    BY <2>3 DEF oldSize
  <2>5. sh.memoryBytes \in Int /\ oldSize(sh, key) \in Int
    BY DEF oldSize, ShardOK, ShardTyped, Item
  <2>6. pr = sh.memoryBytes - oldSize(sh, key) + size
    BY Zenon DEF Projected
  <2> HIDE DEF e, V, pr
  <2>7. Projected(e.sh, key, size) = pr - SumSizes(sh.items, V)
    BY <2>3, <2>4, <2>5, <2>6 DEF Projected
  <2> QED
    BY Zenon, <2>1, <2>2, <2>3, <2>7 DEF Shrunk
<1> QED
  BY Zenon, <1>1, <1>2

(***************************************************************************)
(* What each method returns is correct.                                    *)
(***************************************************************************)
\* A failed call returns its error and takes no version.
LEMMA FailFields ==
  ASSUME NEW sh, NEW err
  PROVE  Fail(sh, err).err = err /\ ~ Fail(sh, err).stamped
BY Zenon DEF Fail

\* A call that returns without writing anything.
LEMMA FailCorrect ==
  ASSUME NEW sh, NEW later, Shrunk(sh, later), later.memoryBytes <= perShardMemory,
         NEW key, NEW now, KeepsLive(sh, later, now), NEW newCAS,
         later.evictions = sh.evictions,
         NEW err \in {"ErrNotFound", "ErrNotInteger", "ErrOverflow", "ErrValueTooLarge",
                      "ErrMemoryLimitExceeded", "ErrCasMismatch"}
  PROVE  Correct(sh, key, now, newCAS, Fail(later, err))
BY DEF Correct, Fail, Shrunk

\* A call that fails and leaves the shard as it is.
LEMMA UnchangedCorrect ==
  ASSUME NEW sh, ShardOK(sh), sh.memoryBytes <= perShardMemory, NEW key, NEW now, NEW newCAS,
         NEW err \in {"ErrNotFound", "ErrNotInteger", "ErrOverflow", "ErrValueTooLarge",
                      "ErrMemoryLimitExceeded", "ErrCasMismatch"}
  PROVE  Correct(sh, key, now, newCAS, Fail(sh, err))
<1>1. Shrunk(sh, sh) /\ KeepsLive(sh, sh, now)
  BY DEF Shrunk, KeepsLive
<1> QED
  BY <1>1, FailCorrect

\* A call that finds its item expired, removes it and fails.
LEMMA LazyExpiryCorrect ==
  ASSUME NEW sh, ShardOK(sh), sh.memoryBytes <= perShardMemory,
         NEW key \in DOMAIN sh.items, NEW now, expired(sh.items[key], now), NEW newCAS,
         NEW err \in {"ErrNotFound", "ErrMemoryLimitExceeded"}
  PROVE  Correct(sh, key, now, newCAS, Fail(deleteLocked(sh, {key}), err))
<1> DEFINE d == deleteLocked(sh, {key})
<1>1. /\ Shrunk(sh, d) /\ DOMAIN d.items = DOMAIN sh.items \ {key}
      /\ d.memoryBytes <= sh.memoryBytes /\ d.evictions = sh.evictions
  BY Zenon, DeleteOneOK
<1> HIDE DEF d
<1>2. d.memoryBytes <= perShardMemory
  BY <1>1, BudgetType DEF Shrunk, ShardOK, ShardTyped
<1>3. KeepsLive(sh, d, now)
  BY Zenon, <1>1 DEF KeepsLive, Shrunk
<1>4. Correct(sh, key, now, newCAS, Fail(d, err))
  BY <1>1, <1>2, <1>3, FailCorrect
<1> QED
  BY Zenon, <1>4 DEF d

\* A write, once expired items have been removed from sh.
LEMMA WriteCorrect ==
  ASSUME NEW sh, NEW later, Shrunk(sh, later), NEW key \in Key, NEW now, NEW newCAS,
         NEW item \in Item, item.size = itemSize(key, item.value.len), item.cas = newCAS,
         item.size <= perShardMemory
  PROVE  LET room == makeRoom(later, key, item.size)
         IN  /\ room.ok
             /\ Correct(sh, key, now, newCAS, Done(write(room.sh, key, item), TRUE))
<1> DEFINE room == makeRoom(later, key, item.size)
           w == write(room.sh, key, item)
<1>1. ShardOK(later) /\ item.size \in Nat
  BY DEF Shrunk, Item
<1>2. /\ room.ok
      /\ Shrunk(later, room.sh)
      /\ Projected(room.sh, key, item.size) <= perShardMemory
  BY Zenon, <1>1, MakeRoomOK
<1> HIDE DEF room
<1>3. ShardOK(w)
  BY Zenon, <1>2, WriteOK DEF Shrunk
<1>4. /\ DOMAIN w.items = DOMAIN room.sh.items \cup {key}
      /\ w.items[key] = item
      /\ \A k \in DOMAIN room.sh.items \ {key} : w.items[k] = room.sh.items[k]
      /\ w.memoryBytes = Projected(room.sh, key, item.size)
  <2>1. ShardTyped(room.sh)
    BY Zenon, <1>2 DEF Shrunk, ShardOK
  <2> QED
    BY Zenon, <2>1 DEF write, ShardTyped
<1> HIDE DEF w
<1>5. Correct(sh, key, now, newCAS, Done(w, TRUE))
  BY ZenonT(30), <1>2, <1>3, <1>4 DEF Correct, Done, Shrunk
<1> QED
  BY Zenon, <1>2, <1>5 DEF room, w

\* A shard that lost items twice lost items.
LEMMA ShrunkTransitive ==
  ASSUME NEW a, NEW b, NEW c, Shrunk(a, b), Shrunk(b, c)
  PROVE  Shrunk(a, c)
BY DEF Shrunk

\* The size of an item is a number of bytes.
LEMMA SizeType ==
  ASSUME NEW key \in Key, NEW value \in Value
  PROVE  itemSize(key, value.len) \in Nat
BY ConfigAssumption DEF itemSize, Value

\* The item that a write builds is an item.
LEMMA ItemTyped ==
  ASSUME NEW key \in Key, NEW value \in Value, NEW exp \in Nat, NEW newCAS \in Nat
  PROVE  [value |-> value, expiresAt |-> exp, size |-> itemSize(key, value.len),
          cas |-> newCAS] \in Item
BY SizeType DEF Item

\* The expiry of a write is a time.
LEMMA ExpiresAtType ==
  ASSUME NEW now \in Nat, NEW ttl \in Nat
  PROVE  expiresAt(now, ttl) \in Nat
BY DEF expiresAt, NoExpiry

\* SET.
LEMMA SetCorrect ==
  ASSUME NEW sh, ShardOK(sh), sh.memoryBytes <= perShardMemory, NEW key \in Key,
         NEW value \in Value, NEW ttl \in Nat, NEW now \in Nat, NEW newCAS \in Nat
  PROVE  Correct(sh, key, now, newCAS, set(sh, key, value, ttl, now, newCAS))
<1> DEFINE stale == key \in Expired(sh.items, now)
           sh0   == IF stale THEN deleteLocked(sh, {key}) ELSE sh
           size  == itemSize(key, value.len)
           sh1   == reclaimExpired(sh0, key, size, now)
           room  == makeRoom(sh1, key, size)
           item  == [value |-> value, expiresAt |-> expiresAt(now, ttl),
                     size |-> size, cas |-> newCAS]
           out   == set(sh, key, value, ttl, now, newCAS)
<1>1. CASE value.len > MaxValueBytes
  <2>1. out = Fail(sh, "ErrValueTooLarge")
    BY Zenon, <1>1 DEF set
  <2> QED
    BY <2>1, UnchangedCorrect
<1>2. CASE ~ (value.len > MaxValueBytes) /\ size > perShardMemory
  <2>1. out = Fail(sh0, "ErrMemoryLimitExceeded")
    BY Zenon, <1>2 DEF set
  <2>2. CASE stale
    BY Zenon, <2>1, <2>2, LazyExpiryCorrect DEF Expired
  <2>3. CASE ~ stale
    BY <2>1, <2>3, UnchangedCorrect
  <2> QED
    BY Zenon, <2>2, <2>3
<1>3. CASE ~ (value.len > MaxValueBytes) /\ ~ (size > perShardMemory)
  <2>1. item \in Item /\ item.size = size /\ item.value = value /\ item.cas = newCAS
    BY ItemTyped, ExpiresAtType
  <2>2. size \in Nat /\ size <= perShardMemory
    <3>1. size \in Nat
      BY SizeType
    <3> HIDE DEF size
    <3> QED
      BY <1>3, <3>1, BudgetType
  <2>3. Shrunk(sh, sh0)
    <3>1. CASE stale
      <4>1. key \in DOMAIN sh.items
        BY <3>1 DEF Expired
      <4> QED
        BY Zenon, <3>1, <4>1, DeleteOneOK
    <3>2. CASE ~ stale
      BY Zenon, <3>2 DEF Shrunk
    <3> QED
      BY Zenon, <3>1, <3>2
  <2>4. Shrunk(sh0, sh1)
    <3>1. ShardOK(sh0)
      BY <2>3 DEF Shrunk
    <3> HIDE DEF sh0
    <3> QED
      BY Zenon, <3>1, ReclaimExpiredOK
  <2>5. Shrunk(sh, sh1)
    BY Zenon, <2>3, <2>4, ShrunkTransitive
  <2>6. out = IF ~ room.ok THEN Fail(room.sh, "ErrMemoryLimitExceeded")
              ELSE Done(write(room.sh, key, item), TRUE)
    BY Zenon, <1>3 DEF set
  <2> HIDE DEF sh1, item, size, out
  <2>7. room.ok /\ Correct(sh, key, now, newCAS, Done(write(room.sh, key, item), TRUE))
    BY Zenon, <2>1, <2>2, <2>5, WriteCorrect DEF size
  <2> QED
    BY Zenon, <2>6, <2>7 DEF out
<1> QED
  BY Zenon, <1>1, <1>2, <1>3

\* GET.
LEMMA GetCorrect ==
  ASSUME NEW sh, ShardOK(sh), sh.memoryBytes <= perShardMemory, NEW key, NEW now, NEW newCAS
  PROVE  LET out == get(sh, key, now)
         IN  /\ Correct(sh, key, now, newCAS, out)
             /\ ~ out.stamped
             /\ out.err = "nil" => out.sh.items = sh.items /\ key \in DOMAIN sh.items
<1> DEFINE out == get(sh, key, now)
           m == [sh EXCEPT !.lru = MoveToFront(sh.lru, DOMAIN sh.items, key)]
<1>1. CASE key \notin DOMAIN sh.items
  <2>1. out = Fail(sh, "ErrNotFound")
    BY <1>1 DEF get
  <2> QED
    BY <2>1, UnchangedCorrect, FailFields
<1>2. CASE key \in DOMAIN sh.items /\ expired(sh.items[key], now)
  <2>1. out = Fail(deleteLocked(sh, {key}), "ErrNotFound")
    BY <1>2 DEF get
  <2> QED
    BY ZenonT(60), <1>2, <2>1, LazyExpiryCorrect, FailFields
<1>3. CASE key \in DOMAIN sh.items /\ ~ expired(sh.items[key], now)
  <2>1. out = Done(m, FALSE)
    BY Zenon, <1>3 DEF get
  <2>2. /\ DOMAIN m = DOMAIN sh /\ m.items = sh.items
        /\ m.lru = MoveToFront(sh.lru, DOMAIN sh.items, key)
        /\ m.memoryBytes = sh.memoryBytes /\ m.ttlCount = sh.ttlCount
        /\ m.evictions = sh.evictions /\ m.expirations = sh.expirations
    BY DEF ShardOK, ShardTyped
  <2>3. DOMAIN sh.items \cup {key} = DOMAIN sh.items
    BY <1>3
  <2> HIDE DEF m
  <2>4. IsRecencyOrder(m.lru, DOMAIN sh.items \cup {key})
    BY <2>2, MoveToFrontOrder DEF ShardOK
  <2>5. IsRecencyOrder(m.lru, DOMAIN sh.items)
    BY <2>3, <2>4, Zenon
  <2>6. ShardOK(m)
    BY Zenon, <2>2, <2>5 DEF ShardOK, ShardTyped, Accounted
  <2> HIDE DEF out
  <2>7. Correct(sh, key, now, newCAS, out) /\ ~ out.stamped /\ out.sh.items = sh.items
    BY Zenon, <2>1, <2>2, <2>6 DEF Correct, Done
  <2> QED
    BY <1>3, <2>7 DEF out
<1> QED
  BY Zenon, <1>1, <1>2, <1>3

\* CAS.  A successful one replaces the item that carried the version expected.
LEMMA CasCorrect ==
  ASSUME NEW sh, ShardOK(sh), sh.memoryBytes <= perShardMemory, NEW key \in Key,
         NEW value \in Value, NEW ttl \in Nat, NEW expected, NEW now \in Nat, NEW newCAS \in Nat
  PROVE  LET out == cas(sh, key, value, ttl, expected, now, newCAS)
         IN  /\ Correct(sh, key, now, newCAS, out)
             /\ out.err = "nil" => key \in DOMAIN sh.items /\ sh.items[key].cas = expected
<1> DEFINE size == itemSize(key, value.len)
           sh1  == reclaimExpired(sh, key, size, now)
           room == makeRoom(sh1, key, size)
           item == [value |-> value, expiresAt |-> expiresAt(now, ttl),
                    size |-> size, cas |-> newCAS]
           out  == cas(sh, key, value, ttl, expected, now, newCAS)
<1>1. CASE value.len > MaxValueBytes \/ key \notin DOMAIN sh.items
  <2>1. out = Fail(sh, "ErrValueTooLarge") \/ out = Fail(sh, "ErrNotFound")
    BY Zenon, <1>1 DEF cas
  <2> QED
    BY <2>1, UnchangedCorrect, FailFields
<1>2. CASE ~ (value.len > MaxValueBytes) /\ key \in DOMAIN sh.items /\ expired(sh.items[key], now)
  <2>1. out = Fail(deleteLocked(sh, {key}), "ErrNotFound")
    BY Zenon, <1>2 DEF cas
  <2> QED
    BY <1>2, <2>1, LazyExpiryCorrect, FailFields
<1>3. CASE /\ ~ (value.len > MaxValueBytes)
           /\ key \in DOMAIN sh.items /\ ~ expired(sh.items[key], now)
           /\ sh.items[key].cas # expected \/ size > perShardMemory
  <2>1. out = Fail(sh, "ErrCasMismatch") \/ out = Fail(sh, "ErrMemoryLimitExceeded")
    BY Zenon, <1>3 DEF cas
  <2> QED
    BY <2>1, UnchangedCorrect, FailFields
<1>4. CASE /\ ~ (value.len > MaxValueBytes)
           /\ key \in DOMAIN sh.items /\ ~ expired(sh.items[key], now)
           /\ sh.items[key].cas = expected /\ ~ (size > perShardMemory)
  <2>1. item \in Item /\ item.size = size /\ item.value = value /\ item.cas = newCAS
    BY ItemTyped, ExpiresAtType
  <2>2. size \in Nat /\ size <= perShardMemory
    <3>1. size \in Nat
      BY SizeType
    <3> HIDE DEF size
    <3> QED
      BY SMTT(30), <1>4, <3>1, BudgetType
  <2>3. Shrunk(sh, sh1) /\ key \in DOMAIN sh1.items
    BY <1>4, ReclaimExpiredOK DEF KeepsLive
  <2>4. out = IF key \notin DOMAIN sh1.items THEN Fail(sh1, "ErrNotFound")
              ELSE IF ~ room.ok THEN Fail(room.sh, "ErrMemoryLimitExceeded")
              ELSE Done(write(room.sh, key, item), TRUE)
    BY Zenon, <1>4 DEF cas
  <2> HIDE DEF sh1, item, size, out
  <2>5. room.ok /\ Correct(sh, key, now, newCAS, Done(write(room.sh, key, item), TRUE))
    BY ZenonT(60), <2>1, <2>2, <2>3, WriteCorrect DEF size
  <2> QED
    BY ZenonT(60), <1>4, <2>3, <2>4, <2>5 DEF out
<1> QED
  BY ZenonT(30), <1>1, <1>2, <1>3, <1>4

\* DELETE.
LEMMA DeleteCorrect ==
  ASSUME NEW sh, ShardOK(sh), sh.memoryBytes <= perShardMemory, NEW key, NEW now, NEW newCAS
  PROVE  Correct(sh, key, now, newCAS, delete(sh, key, now)) /\ ~ delete(sh, key, now).stamped
<1> DEFINE out == delete(sh, key, now)
           d == deleteLocked(sh, {key})
<1>1. CASE key \notin DOMAIN sh.items
  <2>1. out = Fail(sh, "ErrNotFound")
    BY <1>1 DEF delete
  <2> QED
    BY ZenonT(30), <2>1, UnchangedCorrect, FailFields
<1>2. CASE key \in DOMAIN sh.items /\ expired(sh.items[key], now)
  <2>1. out = Fail(d, "ErrNotFound")
    BY <1>2 DEF delete
  <2> QED
    BY Zenon, <1>2, <2>1, LazyExpiryCorrect, FailFields
<1>3. CASE key \in DOMAIN sh.items /\ ~ expired(sh.items[key], now)
  <2>1. out = Done(d, FALSE)
    BY Zenon, <1>3 DEF delete
  <2>2. Shrunk(sh, d) /\ d.memoryBytes <= sh.memoryBytes
    BY Zenon, <1>3, DeleteOneOK
  <2> HIDE DEF d, out
  <2>3. d.memoryBytes <= perShardMemory
    BY <2>2, BudgetType DEF Shrunk, ShardOK, ShardTyped
  <2>4. Correct(sh, key, now, newCAS, out) /\ ~ out.stamped
    BY Zenon, <2>1, <2>2, <2>3 DEF Correct, Done, Shrunk
  <2> QED
    BY <2>4 DEF out
<1> QED
  BY Zenon, <1>1, <1>2, <1>3

\* The canonical spelling of a number is a value.
LEMMA FormatUintType ==
  ASSUME NEW n \in Nat
  PROVE  FormatUint(n) \in Value /\ FormatUint(n).len = DecimalLen(n)
<1> DEFINE T == {d \in 1 .. MaxDigits - 1 : 10 ^ d <= n}
<1>1. IsFiniteSet(1 .. MaxDigits - 1)
  BY ConfigAssumption, FS_Interval
<1>2. T \subseteq 1 .. MaxDigits - 1
  OBVIOUS
<1> HIDE DEF T
<1>3. Cardinality(T) \in Nat
  BY Zenon, <1>1, <1>2, FS_Subset, FS_CardinalityType
<1>4. DecimalLen(n) = 1 + Cardinality(T)
  BY DEF DecimalLen, T
<1> QED
  BY <1>3, <1>4 DEF FormatUint, Value

\* INCR.
LEMMA IncrCorrect ==
  ASSUME NEW sh, ShardOK(sh), sh.memoryBytes <= perShardMemory, NEW key \in Key,
         NEW delta \in Nat, NEW now \in Nat, NEW newCAS \in Nat
  PROVE  Correct(sh, key, now, newCAS, incr(sh, key, delta, now, newCAS))
<1> DEFINE old  == sh.items[key]
           next == (old.value.num + delta) % (MaxUint64 + 1)
           size == itemSize(key, FormatUint(next).len)
           sh1  == reclaimExpired(sh, key, size, now)
           room == makeRoom(sh1, key, size)
           item == [value |-> FormatUint(next), expiresAt |-> old.expiresAt,
                    size |-> size, cas |-> newCAS]
           out  == incr(sh, key, delta, now, newCAS)
<1>1. CASE key \notin DOMAIN sh.items
  <2>1. out = Fail(sh, "ErrNotFound")
    BY Zenon, <1>1 DEF incr
  <2> QED
    BY <2>1, UnchangedCorrect
<1>2. CASE key \in DOMAIN sh.items /\ expired(old, now)
  <2>1. out = Fail(deleteLocked(sh, {key}), "ErrNotFound")
    BY Zenon, <1>2 DEF incr
  <2> QED
    BY <1>2, <2>1, LazyExpiryCorrect
<1>3. CASE /\ key \in DOMAIN sh.items /\ ~ expired(old, now)
           /\ \/ ~ isUint(old.value) \/ MaxUint64 - old.value.num < delta
              \/ FormatUint(next).len > MaxValueBytes \/ size > perShardMemory
  <2>1. \E err \in {"ErrNotInteger", "ErrOverflow", "ErrValueTooLarge", "ErrMemoryLimitExceeded"} :
          out = Fail(sh, err)
    BY Zenon, <1>3 DEF incr
  <2> HIDE DEF out
  <2> QED
    BY <2>1, UnchangedCorrect DEF out
<1>4. CASE /\ key \in DOMAIN sh.items /\ ~ expired(old, now)
           /\ isUint(old.value) /\ ~ (MaxUint64 - old.value.num < delta)
           /\ ~ (FormatUint(next).len > MaxValueBytes) /\ ~ (size > perShardMemory)
  <2>1. old.value.num \in Nat /\ old.expiresAt \in Nat
    BY Zenon, <1>4 DEF ShardOK, ShardTyped, Item, Value, isUint
  <2>2. next \in Nat
    BY <2>1, ConfigAssumption
  <2>3. Shrunk(sh, sh1) /\ key \in DOMAIN sh1.items
    BY ZenonT(60), <1>4, ReclaimExpiredOK DEF KeepsLive
  <2>4. out = IF key \notin DOMAIN sh1.items THEN Fail(sh1, "ErrNotFound")
              ELSE IF ~ room.ok THEN Fail(room.sh, "ErrMemoryLimitExceeded")
              ELSE Done(write(room.sh, key, item), TRUE)
    BY Zenon, <1>4 DEF incr
  <2> HIDE DEF next, old
  <2>5. FormatUint(next) \in Value
    BY Zenon, <2>2, FormatUintType
  <2>6. item \in Item /\ item.size = size /\ item.value = FormatUint(next) /\ item.cas = newCAS
    BY Zenon, <2>1, <2>5, ItemTyped
  <2>7. size \in Nat /\ size <= perShardMemory
    <3>1. size \in Nat
      BY <2>5, SizeType
    <3> HIDE DEF size
    <3> QED
      BY <1>4, <3>1, BudgetType
  <2> HIDE DEF sh1, item, size, out
  <2>8. room.ok /\ Correct(sh, key, now, newCAS, Done(write(room.sh, key, item), TRUE))
    BY Zenon, <2>3, <2>6, <2>7, WriteCorrect DEF size
  <2> QED
    BY Zenon, <2>3, <2>4, <2>8 DEF out
<1> QED
  BY Zenon, <1>1, <1>2, <1>3, <1>4

\* A sweep keeps the shard correct and within its budget, and loses no live item.
LEMMA CleanupCorrect ==
  ASSUME NEW sh, ShardOK(sh), sh.memoryBytes <= perShardMemory, NEW now
  PROVE  LET d == cleanupExpired(sh, now)
         IN  Shrunk(sh, d) /\ KeepsLive(sh, d, now) /\ d.memoryBytes <= perShardMemory
<1> DEFINE d == cleanupExpired(sh, now)
<1>1. /\ ShardOK(d)
      /\ DOMAIN d.items = DOMAIN sh.items \ Expired(sh.items, now)
      /\ \A k \in DOMAIN d.items : d.items[k] = sh.items[k]
      /\ d.memoryBytes <= sh.memoryBytes
  BY RemoveExpiredOK DEF cleanupExpired
<1> HIDE DEF d
<1>2. d.memoryBytes <= perShardMemory
  BY <1>1, BudgetType DEF ShardOK, ShardTyped
<1> QED
  BY Zenon, <1>1, <1>2 DEF Shrunk, KeepsLive, Expired, d

-----------------------------------------------------------------------------
(***************************************************************************)
(* What a step of the store does to the items it does not write.  Each of  *)
(* these action properties is a statement about one shard before and after *)
(* a step; the methods of the shard are shown to meet all four of them,    *)
(* and the other shards to be left alone.                                  *)
(***************************************************************************)
\* The live items that a step takes from a shard, DELETE's aside.
LostOf(sh, later, op, t) ==
  IF op = "delete" THEN {}
  ELSE {k \in DOMAIN sh.items : ~ expired(sh.items[k], t)} \ DOMAIN later.items

\* What ExpiredGoBeforeLive asks of one shard.
ReclaimsFirst(sh, later, op, t) ==
  /\ LostOf(sh, later, op, t) # {} => Expired(later.items, t) = {}
  /\ later.evictions = sh.evictions + Cardinality(LostOf(sh, later, op, t))

\* What EvictsLeastRecentlyUsed asks of one shard.
EvictsTail(sh, later, op, key, t) ==
  \A g \in LostOf(sh, later, op, t) :
    /\ \A k \in DOMAIN sh.items \cap DOMAIN later.items : k = key \/ <<g, k>> \in sh.lru
    /\ (\A h \in LostOf(sh, later, op, t) \ {g} : <<h, g>> \in sh.lru)
         => later.memoryBytes + sh.items[g].size > perShardMemory

\* What RecencyFollowsUse asks of one shard.
Reorders(sh, later, op, key, err) ==
  \A j, k \in DOMAIN later.items :
    IF op \in {"get", "set", "cas", "incr"} /\ err = "nil" /\ key \in {j, k} /\ j # k
    THEN <<j, k>> \in later.lru <=> k = key
    ELSE <<j, k>> \in later.lru <=> <<j, k>> \in sh.lru

\* What ExpiredIsNeverRevived asks of one shard.
Buries(sh, later, op, key, err, t) ==
  \A k \in Expired(sh.items, t) :
    \/ k \notin DOMAIN later.items
    \/ later.items[k] = sh.items[k] /\ ~(err = "nil" /\ key = k)
    \/ op = "set" /\ key = k

ShardStep(sh, later, op, key, err, t) ==
  /\ ReclaimsFirst(sh, later, op, t)
  /\ EvictsTail(sh, later, op, key, t)
  /\ Reorders(sh, later, op, key, err)
  /\ Buries(sh, later, op, key, err, t)

-----------------------------------------------------------------------------
(***************************************************************************)
(* Removing items.                                                         *)
(***************************************************************************)
\* later is sh without the items S: nothing else changed, the order included.
Without(sh, later, S) ==
  /\ ShardOK(later)
  /\ DOMAIN later.items = DOMAIN sh.items \ S
  /\ \A k \in DOMAIN later.items : later.items[k] = sh.items[k]
  /\ later.lru = Unlink(sh.lru, S)
  /\ later.evictions = sh.evictions

\* deleteLocked.
LEMMA DeleteWithout ==
  ASSUME NEW sh, ShardOK(sh), NEW S \in SUBSET DOMAIN sh.items
  PROVE  Without(sh, deleteLocked(sh, S), S)
<1> DEFINE d == deleteLocked(sh, S)
<1>1. d.lru = Unlink(sh.lru, S)
  BY ZenonT(60), DeleteLockedFields DEF ShardOK
<1>2. /\ ShardOK(d) /\ DOMAIN d.items = DOMAIN sh.items \ S
      /\ \A k \in DOMAIN d.items : d.items[k] = sh.items[k]
      /\ d.evictions = sh.evictions
  BY DeleteLockedOK
<1> HIDE DEF d
<1>3. Without(sh, d, S)
  BY Zenon, <1>1, <1>2 DEF Without
<1> QED
  BY <1>3 DEF d

\* removeExpiredLocked.
LEMMA RemoveExpiredWithout ==
  ASSUME NEW sh, ShardOK(sh), NEW t
  PROVE  Without(sh, removeExpiredLocked(sh, t), Expired(sh.items, t))
<1> DEFINE X == Expired(sh.items, t)
           d == deleteLocked(sh, X)
           r == removeExpiredLocked(sh, t)
<1>1. ShardTyped(sh) /\ X \in SUBSET DOMAIN sh.items
  BY DEF ShardOK, Expired
<1>2. DOMAIN d = DOMAIN sh /\ d.lru = Unlink(sh.lru, X)
  BY ZenonT(60), <1>1, DeleteLockedFields
<1>3. r.lru = d.lru
  BY <1>1, <1>2 DEF removeExpiredLocked, ShardTyped
<1>4. /\ ShardOK(r) /\ DOMAIN r.items = DOMAIN sh.items \ X
      /\ \A k \in DOMAIN r.items : r.items[k] = sh.items[k]
      /\ r.evictions = sh.evictions
  BY RemoveExpiredOK
<1> QED
  BY <1>2, <1>3, <1>4 DEF Without

\* The pairs that stay when items leave the list.
LEMMA UnlinkPairs ==
  ASSUME NEW order, NEW S, NEW j, NEW k, j \notin S, k \notin S
  PROVE  <<j, k>> \in Unlink(order, S) <=> <<j, k>> \in order
BY DEF Unlink

\* A step that removes expired items, and returns no success.
LEMMA WithoutStep ==
  ASSUME NEW sh, ShardOK(sh), NEW t, NEW S \in SUBSET Expired(sh.items, t), NEW later,
         Without(sh, later, S), NEW op, NEW key, NEW err, err # "nil"
  PROVE  ShardStep(sh, later, op, key, err, t)
<1>1. LostOf(sh, later, op, t) = {}
  BY Zenon DEF LostOf, Without, Expired
<1>2. ReclaimsFirst(sh, later, op, t)
  BY <1>1, FS_EmptySet DEF ReclaimsFirst, Without, ShardOK, ShardTyped
<1>3. EvictsTail(sh, later, op, key, t)
  BY <1>1 DEF EvictsTail
<1>4. Reorders(sh, later, op, key, err)
  BY Zenon, UnlinkPairs DEF Reorders, Without
<1>5. Buries(sh, later, op, key, err, t)
  BY DEF Buries, Without
<1> QED
  BY <1>2, <1>3, <1>4, <1>5 DEF ShardStep

\* A shard that stays as it is, in a step that fails or that is about a key of
\* another shard.
LEMMA SameStep ==
  ASSUME NEW sh, ShardOK(sh), NEW t, NEW op, NEW key, NEW err,
         err # "nil" \/ key \notin DOMAIN sh.items
  PROVE  ShardStep(sh, sh, op, key, err, t)
<1>1. LostOf(sh, sh, op, t) = {}
  BY Zenon DEF LostOf
<1>2. ReclaimsFirst(sh, sh, op, t)
  BY <1>1, FS_EmptySet DEF ReclaimsFirst, ShardOK, ShardTyped
<1>3. EvictsTail(sh, sh, op, key, t)
  BY Zenon, <1>1 DEF EvictsTail
<1>4. Reorders(sh, sh, op, key, err)
  BY DEF Reorders
<1>5. Buries(sh, sh, op, key, err, t)
  BY Zenon DEF Buries, Expired
<1> QED
  BY Zenon, <1>2, <1>3, <1>4, <1>5 DEF ShardStep

\* Two removals are one.
LEMMA WithoutTwice ==
  ASSUME NEW a, NEW b, NEW c, NEW S, NEW T, Without(a, b, S), Without(b, c, T)
  PROVE  Without(a, c, S \cup T)
<1>1. Unlink(Unlink(a.lru, S), T) = Unlink(a.lru, S \cup T)
  BY DEF Unlink
<1> QED
  BY Zenon, <1>1 DEF Without

\* Nothing removed.
LEMMA WithoutNone ==
  ASSUME NEW sh, ShardOK(sh)
  PROVE  Without(sh, sh, {})
<1>1. sh.lru \subseteq (DOMAIN sh.items) \X (DOMAIN sh.items)
  BY Zenon DEF ShardOK, IsRecencyOrder
<1>2. Unlink(sh.lru, {}) = sh.lru
  BY DEF Unlink
<1> QED
  BY ZenonT(30), <1>2 DEF Without

\* The order after moveToFront.
LEMMA MoveToFrontPairs ==
  ASSUME NEW order, NEW K, NEW key, NEW j \in K \cup {key}, NEW k \in K \cup {key}
  PROVE  /\ j # k /\ key \in {j, k} => (<<j, k>> \in MoveToFront(order, K, key) <=> k = key)
         /\ j # key /\ k # key => (<<j, k>> \in MoveToFront(order, K, key) <=> <<j, k>> \in order)
         /\ j = key /\ k = key => <<j, k>> \notin MoveToFront(order, K, key)
<1>1. <<j, k>> \in MoveToFront(order, K, key) <=>
        \/ <<j, k>> \in order /\ j # key /\ k # key
        \/ j \in K \ {key} /\ k = key
  BY Zenon DEF MoveToFront, PushFront, Unlink
<1> QED
  BY Zenon, <1>1

\* GET.
LEMMA GetStep ==
  ASSUME NEW sh, ShardOK(sh), NEW key, NEW t
  PROVE  ShardStep(sh, get(sh, key, t).sh, "get", key, get(sh, key, t).err, t)
<1> DEFINE out == get(sh, key, t)
           later == [sh EXCEPT !.lru = MoveToFront(sh.lru, DOMAIN sh.items, key)]
<1>1. CASE key \notin DOMAIN sh.items
  <2>1. out.sh = sh /\ out.err = "ErrNotFound"
    BY Zenon, <1>1 DEF get, Fail
  <2> QED
    BY Zenon, <2>1, SameStep
<1>2. CASE key \in DOMAIN sh.items /\ expired(sh.items[key], t)
  <2>1. out.sh = deleteLocked(sh, {key}) /\ out.err = "ErrNotFound"
    BY Zenon, <1>2 DEF get, Fail
  <2>2. {key} \in SUBSET Expired(sh.items, t) /\ {key} \in SUBSET DOMAIN sh.items
    BY Zenon, <1>2 DEF Expired
  <2> QED
    BY Zenon, <2>1, <2>2, DeleteWithout, WithoutStep
<1>3. CASE key \in DOMAIN sh.items /\ ~ expired(sh.items[key], t)
  <2>1. out.sh = later /\ out.err = "nil"
    BY <1>3 DEF get, Done
  <2>2. /\ later.items = sh.items /\ later.evictions = sh.evictions
        /\ later.lru = MoveToFront(sh.lru, DOMAIN sh.items, key)
    BY ZenonT(30) DEF ShardOK, ShardTyped
  <2> HIDE DEF later
  <2>3. LostOf(sh, later, "get", t) = {}
    BY Zenon, <2>2 DEF LostOf
  <2>4. ReclaimsFirst(sh, later, "get", t)
    <3>1. sh.evictions \in Nat /\ Cardinality({}) = 0
      BY Zenon, FS_EmptySet DEF ShardOK, ShardTyped
    <3>2. sh.evictions = sh.evictions + 0
      BY <3>1
    <3> QED
      BY Zenon, <2>2, <2>3, <3>1, <3>2 DEF ReclaimsFirst
  <2>5. EvictsTail(sh, later, "get", key, t)
    BY <2>3 DEF EvictsTail
  <2>6. <<key, key>> \notin sh.lru
    BY ZenonT(30), <1>3 DEF ShardOK, IsRecencyOrder
  <2>7. Reorders(sh, later, "get", key, "nil")
    <3> SUFFICES ASSUME NEW j \in DOMAIN sh.items, NEW k \in DOMAIN sh.items
                 PROVE  IF key \in {j, k} /\ j # k
                        THEN <<j, k>> \in later.lru <=> k = key
                        ELSE <<j, k>> \in later.lru <=> <<j, k>> \in sh.lru
      BY Zenon, <2>2 DEF Reorders
    <3> QED
      BY <2>2, <2>6, MoveToFrontPairs
  <2>8. Buries(sh, later, "get", key, "nil", t)
    BY Zenon, <1>3, <2>2 DEF Buries, Expired
  <2> QED
    BY <2>1, <2>4, <2>5, <2>7, <2>8 DEF ShardStep
<1> QED
  BY ZenonT(30), <1>1, <1>2, <1>3

\* DELETE.
LEMMA DeleteStep ==
  ASSUME NEW sh, ShardOK(sh), NEW key, NEW t
  PROVE  ShardStep(sh, delete(sh, key, t).sh, "delete", key, delete(sh, key, t).err, t)
<1> DEFINE out == delete(sh, key, t)
           d == deleteLocked(sh, {key})
<1>1. CASE key \notin DOMAIN sh.items
  <2>1. out.sh = sh /\ out.err = "ErrNotFound"
    BY Zenon, <1>1 DEF delete, Fail
  <2> QED
    BY Zenon, <2>1, SameStep
<1>2. CASE key \in DOMAIN sh.items /\ expired(sh.items[key], t)
  <2>1. out.sh = d /\ out.err = "ErrNotFound"
    BY ZenonT(30), <1>2 DEF delete, Fail
  <2>2. {key} \in SUBSET Expired(sh.items, t) /\ {key} \in SUBSET DOMAIN sh.items
    BY <1>2 DEF Expired
  <2> QED
    BY ZenonT(30), <2>1, <2>2, DeleteWithout, WithoutStep
<1>3. CASE key \in DOMAIN sh.items /\ ~ expired(sh.items[key], t)
  <2>1. out.sh = d /\ out.err = "nil"
    BY Zenon, <1>3 DEF delete, Done
  <2>2. Without(sh, d, {key})
    BY Zenon, <1>3, DeleteWithout
  <2> HIDE DEF d
  <2>3. LostOf(sh, d, "delete", t) = {}
    BY Zenon DEF LostOf
  <2>4. ReclaimsFirst(sh, d, "delete", t)
    <3>1. d.evictions = sh.evictions /\ sh.evictions \in Nat
      BY Zenon, <2>2 DEF Without, ShardOK, ShardTyped
    <3> QED
      BY <2>3, <3>1, FS_EmptySet DEF ReclaimsFirst
  <2>5. EvictsTail(sh, d, "delete", key, t)
    BY <2>3 DEF EvictsTail
  <2>6. Reorders(sh, d, "delete", key, "nil")
    BY ZenonT(60), <2>2, UnlinkPairs DEF Reorders, Without
  <2>7. Buries(sh, d, "delete", key, "nil", t)
    BY <1>3, <2>2 DEF Buries, Without, Expired
  <2> QED
    BY ZenonT(30), <2>1, <2>4, <2>5, <2>6, <2>7 DEF ShardStep
<1> QED
  BY Zenon, <1>1, <1>2, <1>3

-----------------------------------------------------------------------------
(***************************************************************************)
(* Making room.                                                            *)
(***************************************************************************)
\* When a write does not fit even after reclaimExpired, no expired item is
\* left: either the sweep ran, or ttlCount = 0 and no item has a TTL.
LEMMA ReclaimLeavesNone ==
  ASSUME NEW sh, ShardOK(sh), NEW key, NEW size, NEW t
  PROVE  LET r == reclaimExpired(sh, key, size, t)
         IN  /\ \E S \in SUBSET Expired(sh.items, t) : Without(sh, r, S)
             /\ Projected(r, key, size) > perShardMemory => Expired(r.items, t) = {}
<1> DEFINE r == reclaimExpired(sh, key, size, t)
           X == Expired(sh.items, t)
<1>1. CASE Projected(sh, key, size) > perShardMemory /\ sh.ttlCount > 0
  <2>1. r = removeExpiredLocked(sh, t)
    BY <1>1 DEF reclaimExpired
  <2>2. Without(sh, r, X)
    BY Zenon, <2>1, RemoveExpiredWithout
  <2> HIDE DEF r
  <2>3. Expired(r.items, t) = {}
    BY Zenon, <2>2 DEF Without, Expired
  <2> QED
    BY Zenon, <2>2, <2>3 DEF r
<1>2. CASE ~ (Projected(sh, key, size) > perShardMemory /\ sh.ttlCount > 0)
  <2>1. r = sh
    BY <1>2 DEF reclaimExpired
  <2>2. Without(sh, r, {})
    BY Zenon, <2>1, WithoutNone
  <2>3. ASSUME Projected(sh, key, size) > perShardMemory PROVE X = {}
    <3> DEFINE W == WithTTL(sh.items, DOMAIN sh.items)
    <3>1. sh.ttlCount = Cardinality(W) /\ ~ (sh.ttlCount > 0)
      BY ZenonT(30), <1>2, <2>3 DEF ShardOK, Accounted
    <3>2. IsFiniteSet(W)
      BY Zenon, FS_Subset DEF WithTTL, ShardOK
    <3> HIDE DEF W
    <3>3. W = {}
      BY <3>1, <3>2, FS_CardinalityType, FS_EmptySet
    <3> QED
      BY Zenon, <3>3 DEF W, WithTTL, Expired, expired
  <2> QED
    BY Zenon, <2>1, <2>2, <2>3
<1> QED
  BY <1>1, <1>2

\* The items that makeRoom evicts.
Evicted(sh, key, size) ==
  IF Projected(sh, key, size) > perShardMemory
  THEN Victims(sh, key, Projected(sh, key, size))
  ELSE {}

\* What makeRoom leaves of the shard, and what the write then counts.
LEMMA MakeRoomFields ==
  ASSUME NEW sh, ShardOK(sh), NEW key, NEW size \in Nat
  PROVE  LET r == makeRoom(sh, key, size).sh
             V == Evicted(sh, key, size)
         IN  /\ ShardOK(r)
             /\ V \in SUBSET (DOMAIN sh.items \ {key})
             /\ DOMAIN r.items = DOMAIN sh.items \ V
             /\ \A k \in DOMAIN r.items : r.items[k] = sh.items[k]
             /\ r.lru = Unlink(sh.lru, V)
             /\ r.evictions = sh.evictions + Cardinality(V)
             /\ V # {} => /\ Projected(r, key, size) = Projected(sh, key, size) - SumSizes(sh.items, V)
                          /\ Projected(sh, key, size) \in Int
<1> DEFINE r == makeRoom(sh, key, size).sh
           V == Evicted(sh, key, size)
           pr == Projected(sh, key, size)
           e == evictUntilFitsLocked(sh, key, pr)
           d == deleteLocked(sh, V)
<1>1. CASE ~ (pr > perShardMemory)
  <2>1. r = sh /\ V = {}
    BY <1>1 DEF makeRoom, Evicted
  <2>2. Without(sh, sh, {})
    BY Zenon, WithoutNone
  <2>3. sh.evictions = sh.evictions + Cardinality({})
    BY FS_EmptySet DEF ShardOK, ShardTyped
  <2> QED
    BY Zenon, <2>1, <2>2, <2>3 DEF Without
<1>2. CASE pr > perShardMemory
  <2>1. r = e.sh /\ V = Victims(sh, key, pr)
    BY <1>2 DEF makeRoom, Evicted
  <2>2. r = [d EXCEPT !.evictions = sh.evictions + Cardinality(V)]
    BY Zenon, <2>1 DEF evictUntilFitsLocked
  <2>3. V \in SUBSET (DOMAIN sh.items \ {key})
    BY Zenon, <2>1 DEF Victims
  <2>4. /\ ShardOK(r)
        /\ DOMAIN r.items = DOMAIN sh.items \ V
        /\ \A k \in DOMAIN r.items : r.items[k] = sh.items[k]
        /\ r.memoryBytes = sh.memoryBytes - SumSizes(sh.items, V)
        /\ SumSizes(sh.items, V) \in Nat
    BY <2>1, EvictOK
  <2>5. DOMAIN d = DOMAIN sh /\ d.lru = Unlink(sh.lru, V)
    BY ZenonT(60), DeleteLockedFields DEF ShardOK
  <2> HIDE DEF d, r, V
  <2>6. r.lru = Unlink(sh.lru, V) /\ r.evictions = sh.evictions + Cardinality(V)
    BY <2>2, <2>5 DEF ShardOK, ShardTyped
  <2>7. oldSize(r, key) = oldSize(sh, key)
    BY <2>3, <2>4 DEF oldSize
  <2>8. sh.memoryBytes \in Int /\ oldSize(sh, key) \in Int
    BY DEF oldSize, ShardOK, ShardTyped, Item
  <2>9. Projected(r, key, size) = pr - SumSizes(sh.items, V) /\ pr \in Int
    BY <2>4, <2>7, <2>8 DEF Projected
  <2> QED
    BY Zenon, <2>3, <2>4, <2>6, <2>9 DEF r, V
<1> QED
  BY Zenon, <1>1, <1>2

\* Eviction takes the tail of the list: whatever is behind a victim is one,
\* the key being written excepted; and without the last victim the write would
\* not fit.
LEMMA VictimsAreTail ==
  ASSUME NEW sh, ShardOK(sh), NEW key, NEW size \in Nat, NEW g \in Evicted(sh, key, size)
  PROVE  LET V == Evicted(sh, key, size)
             pr == Projected(sh, key, size)
         IN  /\ \A k \in DOMAIN sh.items \ V : k = key \/ <<g, k>> \in sh.lru
             /\ (\A h \in V \ {g} : <<h, g>> \in sh.lru)
                  => pr - SumSizes(sh.items, V) + sh.items[g].size > perShardMemory
<1> DEFINE V == Evicted(sh, key, size)
           pr == Projected(sh, key, size)
           C == DOMAIN sh.items \ {key}
           behind(k) == Behind(sh.lru, C, k)
           sum(S) == SumSizes(sh.items, S)
<1>1. /\ V \in SUBSET C /\ g \in C
      /\ \A k \in C : k \in V <=> pr - sum(behind(k)) > perShardMemory
      /\ \A k \in C : behind(k) \in SUBSET C
  BY DEF Evicted, Victims, Behind
<1>2. IsFiniteSet(Bytes(sh.items, C))
  <2>1. C \in SUBSET DOMAIN sh.items
    BY Zenon
  <2> HIDE DEF C
  <2> QED
    BY Zenon, <2>1, SumSplit DEF ShardOK
<1>3. pr \in Int /\ perShardMemory \in Nat /\ sh.items[g].size \in Nat
  <2>1. pr \in Int
    BY DEF Projected, oldSize, ShardOK, ShardTyped, Item
  <2>2. sh.items[g].size \in Nat
    BY Zenon, <1>1 DEF ShardOK, ShardTyped, Item
  <2> QED
    BY Zenon, <2>1, <2>2, BudgetType
<1>4. IsRecencyOrder(sh.lru, DOMAIN sh.items)
  BY Zenon DEF ShardOK
<1>5. \A j, k \in C : j \in behind(k) <=> <<j, k>> \in sh.lru
  BY Zenon DEF Behind
<1>6. \A j, k \in C : j \in behind(k) =>
         j \notin behind(j) /\ behind(j) \subseteq behind(k)
  BY <1>4 DEF IsRecencyOrder, Behind
<1>7. \A j, k \in C : j = k \/ <<j, k>> \in sh.lru \/ <<k, j>> \in sh.lru
  BY Zenon, <1>4 DEF IsRecencyOrder
<1>8. g \notin behind(g)
  BY Zenon, <1>1, <1>4 DEF IsRecencyOrder, Behind
<1> HIDE DEF pr, C, V, behind, sum
<1>9. \A A, B \in SUBSET C : A \subseteq B => sum(A) \in Nat /\ sum(B) \in Nat /\ sum(A) <= sum(B)
  BY Zenon, <1>2, SumMonotone DEF sum
<1>10. behind(g) \subseteq V
  <2> SUFFICES ASSUME NEW j \in behind(g) PROVE j \in V
    BY Zenon
  <2>1. j \in C /\ behind(j) \subseteq behind(g)
    BY Zenon, <1>1, <1>6
  <2>2. sum(behind(j)) <= sum(behind(g)) /\ sum(behind(j)) \in Nat /\ sum(behind(g)) \in Nat
    BY ZenonT(30), <1>1, <1>9, <2>1
  <2>3. pr - sum(behind(g)) > perShardMemory
    BY Zenon, <1>1 DEF V
  <2>4. pr - sum(behind(j)) > perShardMemory
    BY <1>3, <2>2, <2>3
  <2> QED
    BY ZenonT(30), <1>1, <2>1, <2>4
<1>11. \A k \in DOMAIN sh.items \ V : k = key \/ <<g, k>> \in sh.lru
  <2> SUFFICES ASSUME NEW k \in C, k \notin V PROVE <<g, k>> \in sh.lru
    BY Zenon DEF C
  <2>1. k # g /\ k \notin behind(g)
    BY Zenon, <1>10 DEF V
  <2> QED
    BY Zenon, <1>1, <1>5, <1>7, <2>1
<1>12. ASSUME \A h \in V \ {g} : <<h, g>> \in sh.lru
       PROVE  pr - sum(V) + sh.items[g].size > perShardMemory
  <2>1. V \ {g} = behind(g)
    BY Zenon, <1>1, <1>5, <1>8, <1>10, <1>12
  <2>2. {g} \in SUBSET V /\ g \in V
    BY DEF V
  <2>3. IsFiniteSet(Bytes(sh.items, V))
    BY Zenon, <1>1, <1>2, SumSplit
  <2>4. sum(V) = sum({g}) + sum(V \ {g}) /\ sum(V \ {g}) \in Nat
    BY <2>2, <2>3, SumSplit DEF sum
  <2>5. sum({g}) = sh.items[g].size
    BY ZenonT(60), <1>3, SumOne DEF sum
  <2>6. sum(V \ {g}) = sum(behind(g))
    BY Zenon, <2>1
  <2>7. pr - sum(behind(g)) > perShardMemory
    BY Zenon, <1>1, <2>2
  <2>8. sum(V) = sh.items[g].size + sum(behind(g)) /\ sum(behind(g)) \in Nat
    BY ZenonT(30), <2>4, <2>5, <2>6
  <2> QED
    BY <1>3, <2>7, <2>8
<1> QED
  BY <1>11, <1>12 DEF V, pr, sum

\* A write that succeeds, after expired items S have been removed from sh.
LEMMA WriteStep ==
  ASSUME NEW sh, ShardOK(sh), NEW t, NEW S \in SUBSET Expired(sh.items, t),
         NEW later, Without(sh, later, S), NEW key, NEW item, item.size \in Nat,
         Projected(later, key, item.size) > perShardMemory => Expired(later.items, t) = {},
         ~ expired(item, t), NEW op \in {"set", "cas", "incr"},
         op = "set" \/ key \notin Expired(sh.items, t)
  PROVE  ShardStep(sh, write(makeRoom(later, key, item.size).sh, key, item), op, key, "nil", t)
<1> DEFINE room == makeRoom(later, key, item.size).sh
           V == Evicted(later, key, item.size)
           pr == Projected(later, key, item.size)
           w == write(room, key, item)
           lost == LostOf(sh, w, op, t)
<1>1. /\ ShardOK(later) /\ DOMAIN later.items = DOMAIN sh.items \ S
      /\ \A k \in DOMAIN later.items : later.items[k] = sh.items[k]
      /\ later.lru = Unlink(sh.lru, S) /\ later.evictions = sh.evictions
  BY Zenon DEF Without
<1>2. /\ ShardOK(room)
      /\ V \in SUBSET (DOMAIN later.items \ {key})
      /\ DOMAIN room.items = DOMAIN later.items \ V
      /\ \A k \in DOMAIN room.items : room.items[k] = later.items[k]
      /\ room.lru = Unlink(later.lru, V)
      /\ room.evictions = later.evictions + Cardinality(V)
      /\ V # {} => /\ Projected(room, key, item.size) = pr - SumSizes(later.items, V)
                   /\ pr \in Int
  BY Zenon, <1>1, MakeRoomFields
<1>3. V # {} => Expired(later.items, t) = {}
  BY Zenon DEF Evicted
<1>4. \A g \in V : /\ \A k \in DOMAIN later.items \ V : k = key \/ <<g, k>> \in later.lru
                   /\ (\A h \in V \ {g} : <<h, g>> \in later.lru)
                        => pr - SumSizes(later.items, V) + later.items[g].size > perShardMemory
  BY ZenonT(30), <1>1, VictimsAreTail
<1> HIDE DEF room, V, pr
<1>5. /\ DOMAIN w.items = DOMAIN room.items \cup {key}
      /\ w.items[key] = item
      /\ \A k \in DOMAIN room.items \ {key} : w.items[k] = room.items[k]
      /\ w.lru = MoveToFront(room.lru, DOMAIN room.items, key)
      /\ w.memoryBytes = Projected(room, key, item.size)
      /\ w.evictions = room.evictions
  <2>1. ShardTyped(room)
    BY ZenonT(60), <1>2 DEF ShardOK
  <2>2. /\ DOMAIN w.items = DOMAIN room.items \cup {key}
        /\ w.items[key] = item
        /\ \A k \in DOMAIN room.items \ {key} : w.items[k] = room.items[k]
    BY Zenon, <2>1 DEF write, ShardTyped
  <2>3. /\ w.lru = MoveToFront(room.lru, DOMAIN room.items, key)
        /\ w.memoryBytes = Projected(room, key, item.size)
        /\ w.evictions = room.evictions
    BY Zenon, <2>1 DEF write, ShardTyped
  <2> QED
    BY Zenon, <2>2, <2>3
<1> HIDE DEF w
<1>6. op # "delete" /\ op \in {"get", "set", "cas", "incr"}
  OBVIOUS
<1>7. lost = V
  <2>1. lost = {k \in DOMAIN sh.items : ~ expired(sh.items[k], t)} \ DOMAIN w.items
    BY Zenon, <1>6 DEF LostOf
  <2>2. ASSUME NEW k \in V PROVE k \in lost
    <3>1. k \in DOMAIN later.items /\ k # key /\ k \notin DOMAIN room.items
      BY ZenonT(30), <1>2, <2>2
    <3>2. ~ expired(later.items[k], t)
      BY Zenon, <1>3, <3>1 DEF Expired
    <3> QED
      BY ZenonT(30), <1>1, <1>5, <2>1, <3>1, <3>2
  <2>3. ASSUME NEW k \in lost PROVE k \in V
    <3>1. k \in DOMAIN sh.items /\ k \notin S /\ k \notin DOMAIN w.items
      BY Zenon, <2>1 DEF Expired
    <3> QED
      BY ZenonT(30), <1>1, <1>2, <1>5, <3>1
  <2> QED
    BY Zenon, <2>2, <2>3
<1> HIDE DEF lost
<1>8. \A j, k : j \notin S /\ k \notin S => (<<j, k>> \in later.lru <=> <<j, k>> \in sh.lru)
  BY ZenonT(30), <1>1, UnlinkPairs
<1>9. ReclaimsFirst(sh, w, op, t)
  <2>1. lost # {} => Expired(w.items, t) = {}
    BY ZenonT(30), <1>2, <1>3, <1>5, <1>7 DEF Expired
  <2>2. w.evictions = sh.evictions + Cardinality(lost)
    BY ZenonT(30), <1>1, <1>2, <1>5, <1>7
  <2> QED
    BY Zenon, <2>1, <2>2 DEF ReclaimsFirst, lost
<1>10. EvictsTail(sh, w, op, key, t)
  <2> SUFFICES ASSUME NEW g \in V
               PROVE  /\ \A k \in DOMAIN sh.items \cap DOMAIN w.items : k = key \/ <<g, k>> \in sh.lru
                      /\ (\A h \in V \ {g} : <<h, g>> \in sh.lru)
                           => w.memoryBytes + sh.items[g].size > perShardMemory
    BY Zenon, <1>7 DEF EvictsTail, lost
  <2>1. g \in DOMAIN later.items /\ g \notin S
    BY Zenon, <1>1, <1>2
  <2>2. ASSUME NEW k \in DOMAIN sh.items \cap DOMAIN w.items, k # key
        PROVE  <<g, k>> \in sh.lru
    <3>1. k \in DOMAIN later.items \ V /\ k \notin S
      BY Zenon, <1>1, <1>2, <1>5, <2>2
    <3> QED
      BY ZenonT(30), <1>4, <1>8, <2>1, <2>2, <3>1
  <2>3. ASSUME \A h \in V \ {g} : <<h, g>> \in sh.lru
        PROVE  w.memoryBytes + sh.items[g].size > perShardMemory
    <3>1. \A h \in V \ {g} : <<h, g>> \in later.lru
      BY ZenonT(30), <1>1, <1>2, <1>8, <2>1, <2>3
    <3>2. pr - SumSizes(later.items, V) + later.items[g].size > perShardMemory
      BY Zenon, <1>4, <3>1
    <3>3. w.memoryBytes = pr - SumSizes(later.items, V)
      BY Zenon, <1>2, <1>5
    <3> QED
      BY ZenonT(30), <1>1, <2>1, <3>2, <3>3
  <2> QED
    BY Zenon, <2>2, <2>3
<1>11. Reorders(sh, w, op, key, "nil")
  <2> SUFFICES ASSUME NEW j \in DOMAIN w.items, NEW k \in DOMAIN w.items
               PROVE  IF key \in {j, k} /\ j # k
                      THEN <<j, k>> \in w.lru <=> k = key
                      ELSE <<j, k>> \in w.lru <=> <<j, k>> \in sh.lru
    BY ZenonT(60), <1>6 DEF Reorders
  <2>1. /\ j # k /\ key \in {j, k} => (<<j, k>> \in w.lru <=> k = key)
        /\ j # key /\ k # key => (<<j, k>> \in w.lru <=> <<j, k>> \in room.lru)
        /\ j = key /\ k = key => <<j, k>> \notin w.lru
    <3>1. /\ j \in DOMAIN room.items \cup {key} /\ k \in DOMAIN room.items \cup {key}
          /\ w.lru = MoveToFront(room.lru, DOMAIN room.items, key)
      BY Zenon, <1>5
    <3>2. <<j, k>> \in w.lru <=> \/ <<j, k>> \in room.lru /\ j # key /\ k # key
                                 \/ j \in DOMAIN room.items \ {key} /\ k = key
      BY Zenon, <3>1 DEF MoveToFront, PushFront, Unlink
    <3> QED
      BY Zenon, <3>1, <3>2
  <2>2. <<key, key>> \notin sh.lru
    BY Zenon DEF ShardOK, IsRecencyOrder
  <2>3. ASSUME j # key, k # key PROVE <<j, k>> \in room.lru <=> <<j, k>> \in sh.lru
    <3>1. j \notin V /\ k \notin V /\ j \notin S /\ k \notin S
      BY Zenon, <1>1, <1>2, <1>5, <2>3
    <3>2. <<j, k>> \in room.lru <=> <<j, k>> \in later.lru
      BY Zenon, <1>2, <3>1, UnlinkPairs
    <3> QED
      BY Zenon, <1>8, <3>1, <3>2
  <2> QED
    BY Zenon, <2>1, <2>2, <2>3
<1>12. Buries(sh, w, op, key, "nil", t)
  <2> SUFFICES ASSUME NEW k \in Expired(sh.items, t), k # key, k \in DOMAIN w.items
               PROVE  w.items[k] = sh.items[k]
    BY DEF Buries
  <2> QED
    BY Zenon, <1>1, <1>2, <1>5
<1> QED
  BY ZenonT(30), <1>9, <1>10, <1>11, <1>12 DEF ShardStep, w, room

-----------------------------------------------------------------------------
(***************************************************************************)
(* The methods that write.                                                 *)
(***************************************************************************)
\* The expiry a write computes is in the future.
LEMMA FreshIsLive ==
  ASSUME NEW t \in Nat, NEW ttl \in Nat, NEW item, item.expiresAt = expiresAt(t, ttl)
  PROVE  ~ expired(item, t)
BY DEF expired, expiresAt, NoExpiry

\* A call that fails, and at most removed its own expired key.
LEMMA LazyExpiryStep ==
  ASSUME NEW sh, ShardOK(sh), NEW key \in DOMAIN sh.items, NEW t, expired(sh.items[key], t),
         NEW op, NEW err, err # "nil"
  PROVE  ShardStep(sh, deleteLocked(sh, {key}), op, key, err, t)
<1>1. {key} \in SUBSET Expired(sh.items, t) /\ {key} \in SUBSET DOMAIN sh.items
  BY Zenon DEF Expired
<1> QED
  BY Zenon, <1>1, DeleteWithout, WithoutStep

\* SET.
LEMMA SetStep ==
  ASSUME NEW sh, ShardOK(sh), NEW key \in Key, NEW value \in Value, NEW ttl \in Nat,
         NEW t \in Nat, NEW newCAS
  PROVE  LET out == set(sh, key, value, ttl, t, newCAS)
         IN  ShardStep(sh, out.sh, "set", key, out.err, t)
<1> DEFINE stale == key \in Expired(sh.items, t)
           sh0   == IF stale THEN deleteLocked(sh, {key}) ELSE sh
           size  == itemSize(key, value.len)
           sh1   == reclaimExpired(sh0, key, size, t)
           room  == makeRoom(sh1, key, size)
           item  == [value |-> value, expiresAt |-> expiresAt(t, ttl),
                     size |-> size, cas |-> newCAS]
           out   == set(sh, key, value, ttl, t, newCAS)
           Step  == ShardStep(sh, out.sh, "set", key, out.err, t)
<1>1. CASE value.len > MaxValueBytes
  <2>1. out.sh = sh /\ out.err = "ErrValueTooLarge"
    BY Zenon, <1>1 DEF set, Fail
  <2> QED
    BY Zenon, <2>1, SameStep
<1>2. CASE ~ (value.len > MaxValueBytes) /\ size > perShardMemory
  <2>1. out.sh = sh0 /\ out.err = "ErrMemoryLimitExceeded"
    BY Zenon, <1>2 DEF set, Fail
  <2>2. CASE stale
    BY Zenon, <2>1, <2>2, LazyExpiryStep DEF Expired
  <2>3. CASE ~ stale
    BY Zenon, <2>1, <2>3, SameStep
  <2> QED
    BY Zenon, <2>2, <2>3
<1>3. CASE ~ (value.len > MaxValueBytes) /\ ~ (size > perShardMemory)
  <2>1. size \in Nat /\ size <= perShardMemory
    <3>1. size \in Nat
      BY Zenon, SizeType
    <3> HIDE DEF size
    <3> QED
      BY <1>3, <3>1, BudgetType
  <2>2. PICK S0 \in SUBSET Expired(sh.items, t) : Without(sh, sh0, S0)
    <3>1. CASE stale
      <4>1. {key} \in SUBSET DOMAIN sh.items /\ {key} \in SUBSET Expired(sh.items, t)
        BY Zenon, <3>1 DEF Expired
      <4>2. Without(sh, sh0, {key})
        BY Zenon, <3>1, <4>1, DeleteWithout
      <4> QED
        BY Zenon, <4>1, <4>2
    <3>2. CASE ~ stale
      <4>1. Without(sh, sh0, {})
        BY Zenon, <3>2, WithoutNone
      <4> QED
        BY Zenon, <4>1
    <3> QED
      BY Zenon, <3>1, <3>2
  <2>3. ShardOK(sh0)
    BY Zenon, <2>2 DEF Without
  <2>4. Expired(sh0.items, t) \subseteq Expired(sh.items, t)
    BY Zenon, <2>2 DEF Without, Expired
  <2> HIDE DEF sh0, size
  <2>5. PICK S1 \in SUBSET Expired(sh0.items, t) : Without(sh0, sh1, S1)
    BY Zenon, <2>3, ReclaimLeavesNone
  <2>6. Projected(sh1, key, size) > perShardMemory => Expired(sh1.items, t) = {}
    BY Zenon, <2>3, ReclaimLeavesNone
  <2> HIDE DEF sh1
  <2>7. Without(sh, sh1, S0 \cup S1) /\ S0 \cup S1 \in SUBSET Expired(sh.items, t)
    BY ZenonT(30), <2>2, <2>4, <2>5, WithoutTwice
  <2>8. item.size = size /\ ~ expired(item, t)
    BY Zenon, FreshIsLive
  <2>9. room.ok
    <3>1. ShardOK(sh1)
      BY <2>7 DEF Without
    <3> QED
      BY Zenon, <2>1, <3>1, MakeRoomOK
  <2>10. out = Done(write(room.sh, key, item), TRUE)
    BY ZenonT(60), <1>3, <2>9 DEF set, sh0, sh1, size
  <2> HIDE DEF item, out
  <2>11. ShardStep(sh, write(makeRoom(sh1, key, item.size).sh, key, item), "set", key, "nil", t)
    BY Zenon, <2>1, <2>6, <2>7, <2>8, WriteStep
  <2>12. out.sh = write(room.sh, key, item) /\ out.err = "nil"
    BY <2>10 DEF Done
  <2>13. ShardStep(sh, write(room.sh, key, item), "set", key, "nil", t)
    BY Zenon, <2>8, <2>11
  <2>14. ShardStep(sh, out.sh, "set", key, out.err, t)
    BY ZenonT(60), <2>12, <2>13
  <2> QED
    BY Zenon, <2>14 DEF out
<1> QED
  BY ZenonT(30), <1>1, <1>2, <1>3

\* CAS.
LEMMA CasStep ==
  ASSUME NEW sh, ShardOK(sh), NEW key \in Key, NEW value \in Value, NEW ttl \in Nat,
         NEW expected, NEW t \in Nat, NEW newCAS
  PROVE  LET out == cas(sh, key, value, ttl, expected, t, newCAS)
         IN  ShardStep(sh, out.sh, "cas", key, out.err, t)
<1> DEFINE size == itemSize(key, value.len)
           sh1  == reclaimExpired(sh, key, size, t)
           room == makeRoom(sh1, key, size)
           item == [value |-> value, expiresAt |-> expiresAt(t, ttl),
                    size |-> size, cas |-> newCAS]
           out  == cas(sh, key, value, ttl, expected, t, newCAS)
<1>1. CASE value.len > MaxValueBytes \/ key \notin DOMAIN sh.items
  <2>1. out.sh = sh /\ out.err # "nil"
    BY Zenon, <1>1 DEF cas, Fail
  <2> QED
    BY Zenon, <2>1, SameStep
<1>2. CASE ~ (value.len > MaxValueBytes) /\ key \in DOMAIN sh.items /\ expired(sh.items[key], t)
  <2>1. out.sh = deleteLocked(sh, {key}) /\ out.err = "ErrNotFound"
    BY Zenon, <1>2 DEF cas, Fail
  <2> QED
    BY ZenonT(60), <1>2, <2>1, LazyExpiryStep
<1>3. CASE /\ ~ (value.len > MaxValueBytes)
           /\ key \in DOMAIN sh.items /\ ~ expired(sh.items[key], t)
           /\ sh.items[key].cas # expected \/ size > perShardMemory
  <2>1. out.sh = sh /\ out.err # "nil"
    BY Zenon, <1>3 DEF cas, Fail
  <2> QED
    BY <2>1, SameStep
<1>4. CASE /\ ~ (value.len > MaxValueBytes)
           /\ key \in DOMAIN sh.items /\ ~ expired(sh.items[key], t)
           /\ sh.items[key].cas = expected /\ ~ (size > perShardMemory)
  <2>1. size \in Nat /\ size <= perShardMemory
    <3>1. size \in Nat
      BY SizeType
    <3> HIDE DEF size
    <3> QED
      BY <1>4, <3>1, BudgetType
  <2>2. PICK S \in SUBSET Expired(sh.items, t) : Without(sh, sh1, S)
    BY Zenon, ReclaimLeavesNone
  <2>3. Projected(sh1, key, size) > perShardMemory => Expired(sh1.items, t) = {}
    BY Zenon, ReclaimLeavesNone
  <2>4. ShardOK(sh1) /\ key \in DOMAIN sh1.items /\ key \notin Expired(sh.items, t)
    BY Zenon, <1>4, <2>2 DEF Without, Expired
  <2>5. room.ok
    BY Zenon, <2>1, <2>4, MakeRoomOK
  <2>6. item.size = size /\ ~ expired(item, t)
    BY FreshIsLive
  <2>7. out = Done(write(room.sh, key, item), TRUE)
    BY ZenonT(60), <1>4, <2>4, <2>5 DEF cas
  <2> HIDE DEF size, sh1, item, out
  <2>8. ShardStep(sh, write(makeRoom(sh1, key, item.size).sh, key, item), "cas", key, "nil", t)
    BY Zenon, <2>1, <2>2, <2>3, <2>4, <2>6, WriteStep
  <2>9. ShardStep(sh, write(room.sh, key, item), "cas", key, "nil", t)
    BY Zenon, <2>6, <2>8
  <2>10. out.sh = write(room.sh, key, item) /\ out.err = "nil"
    BY <2>7 DEF Done
  <2>11. ShardStep(sh, out.sh, "cas", key, out.err, t)
    BY Zenon, <2>9, <2>10
  <2> QED
    BY Zenon, <2>11 DEF out
<1> QED
  BY ZenonT(30), <1>1, <1>2, <1>3, <1>4

\* after holds, under key, the number before held there and delta: the sum
\* itself, not the sum modulo 2^64, under the old expiry.
Adds(before, after, key, delta) ==
  LET old == before.items[key]
      new == after.items[key]
  IN  /\ key \in DOMAIN before.items /\ key \in DOMAIN after.items
      /\ isUint(old.value) /\ isUint(new.value)
      /\ new.value.num = old.value.num + delta
      /\ new.expiresAt = old.expiresAt

\* INCR, and what it leaves under key when it succeeds.
LEMMA IncrStep ==
  ASSUME NEW sh, ShardOK(sh), NEW key \in Key, NEW delta \in Nat, NEW t \in Nat, NEW newCAS
  PROVE  LET out == incr(sh, key, delta, t, newCAS)
         IN  /\ ShardStep(sh, out.sh, "incr", key, out.err, t)
             /\ out.err = "nil" => Adds(sh, out.sh, key, delta)
<1> DEFINE old  == sh.items[key]
           next == (old.value.num + delta) % (MaxUint64 + 1)
           size == itemSize(key, FormatUint(next).len)
           sh1  == reclaimExpired(sh, key, size, t)
           room == makeRoom(sh1, key, size)
           item == [value |-> FormatUint(next), expiresAt |-> old.expiresAt,
                    size |-> size, cas |-> newCAS]
           out  == incr(sh, key, delta, t, newCAS)
<1>1. CASE key \notin DOMAIN sh.items
  <2>1. out.sh = sh /\ out.err = "ErrNotFound"
    BY Zenon, <1>1 DEF incr, Fail
  <2> HIDE DEF out
  <2>2. ShardStep(sh, out.sh, "incr", key, out.err, t) /\ out.err # "nil"
    BY ZenonT(30), <2>1, SameStep
  <2> QED
    BY ZenonT(60), <2>2 DEF out
<1>2. CASE key \in DOMAIN sh.items /\ expired(old, t)
  <2>1. out.sh = deleteLocked(sh, {key}) /\ out.err = "ErrNotFound"
    BY Zenon, <1>2 DEF incr, Fail
  <2> HIDE DEF out
  <2>2. ShardStep(sh, out.sh, "incr", key, out.err, t) /\ out.err # "nil"
    BY ZenonT(30), <1>2, <2>1, LazyExpiryStep
  <2> QED
    BY Zenon, <2>2 DEF out
<1>3. CASE /\ key \in DOMAIN sh.items /\ ~ expired(old, t)
           /\ \/ ~ isUint(old.value) \/ MaxUint64 - old.value.num < delta
              \/ FormatUint(next).len > MaxValueBytes \/ size > perShardMemory
  <2>1. \E err \in {"ErrNotInteger", "ErrOverflow", "ErrValueTooLarge", "ErrMemoryLimitExceeded"} :
          out = Fail(sh, err)
    BY ZenonT(60), <1>3 DEF incr
  <2> HIDE DEF out
  <2>2. out.sh = sh /\ out.err # "nil"
    BY <2>1 DEF Fail
  <2>3. ShardStep(sh, out.sh, "incr", key, out.err, t) /\ out.err # "nil"
    BY <2>2, SameStep
  <2> QED
    BY Zenon, <2>3 DEF out
<1>4. CASE /\ key \in DOMAIN sh.items /\ ~ expired(old, t)
           /\ isUint(old.value) /\ ~ (MaxUint64 - old.value.num < delta)
           /\ ~ (FormatUint(next).len > MaxValueBytes) /\ ~ (size > perShardMemory)
  <2>1. old.value.num \in Nat
    BY ZenonT(30), <1>4 DEF ShardOK, ShardTyped, Item, Value, isUint
  <2>2. next = old.value.num + delta /\ next \in Nat /\ next <= MaxUint64
    <3>1. ~ (MaxUint64 - old.value.num < delta)
      BY Zenon, <1>4
    <3> HIDE DEF old
    <3>2. old.value.num + delta \in 0 .. MaxUint64
      BY <2>1, <3>1, ConfigAssumption
    <3> QED
      BY <3>2, ConfigAssumption
  <2>3. FormatUint(next) \in Value /\ FormatUint(next).num = next
    <3> HIDE DEF next
    <3>1. FormatUint(next) \in Value
      BY <2>2, FormatUintType
    <3> QED
      BY <3>1 DEF FormatUint
  <2>4. isUint(FormatUint(next))
    <3> HIDE DEF next
    <3>1. next # NotDecimal
      BY <2>2 DEF NotDecimal
    <3> QED
      BY Zenon, <2>2, <2>3, <3>1 DEF isUint
  <2>5. size \in Nat /\ size <= perShardMemory
    <3>1. size \in Nat
      BY ZenonT(30), <2>3, SizeType
    <3> HIDE DEF size
    <3> QED
      BY <1>4, <3>1, BudgetType
  <2>6. PICK S \in SUBSET Expired(sh.items, t) : Without(sh, sh1, S)
    BY ReclaimLeavesNone
  <2>7. Projected(sh1, key, size) > perShardMemory => Expired(sh1.items, t) = {}
    <3> HIDE DEF size
    <3> QED
      BY Zenon, ReclaimLeavesNone
  <2>8. ShardOK(sh1) /\ key \in DOMAIN sh1.items /\ key \notin Expired(sh.items, t)
    BY ZenonT(60), <1>4, <2>6 DEF Without, Expired
  <2>9. room.ok /\ ShardOK(room.sh)
    BY Zenon, <2>5, <2>8, MakeRoomOK DEF Shrunk
  <2>10. out = Done(write(room.sh, key, item), TRUE)
    BY ZenonT(60), <1>4, <2>8, <2>9 DEF incr
  <2>11. /\ item.size = size /\ ~ expired(item, t)
         /\ item.value = FormatUint(next) /\ item.expiresAt = old.expiresAt
    BY ZenonT(60), <1>4 DEF expired
  <2> HIDE DEF size, sh1, item, out, next, old, room
  <2>12. ShardStep(sh, write(makeRoom(sh1, key, item.size).sh, key, item), "incr", key, "nil", t)
    BY ZenonT(60), <2>5, <2>6, <2>7, <2>8, <2>11, WriteStep
  <2>13. ShardStep(sh, write(room.sh, key, item), "incr", key, "nil", t)
    BY ZenonT(60), <2>11, <2>12 DEF room
  <2>14. out.sh = write(room.sh, key, item) /\ out.err = "nil"
    BY Zenon, <2>10 DEF Done
  <2>15. key \in DOMAIN out.sh.items /\ out.sh.items[key] = item
    <3>1. ShardTyped(room.sh)
      BY Zenon, <2>9 DEF ShardOK
    <3>2. /\ key \in DOMAIN write(room.sh, key, item).items
          /\ write(room.sh, key, item).items[key] = item
      BY Zenon, <3>1 DEF write, ShardTyped
    <3> QED
      BY Zenon, <2>14, <3>2
  <2>16. ShardStep(sh, out.sh, "incr", key, out.err, t)
    BY Zenon, <2>13, <2>14
  <2>17. Adds(sh, out.sh, key, delta)
    BY ZenonT(30), <1>4, <2>2, <2>3, <2>4, <2>11, <2>15 DEF Adds, old
  <2> QED
    BY Zenon, <2>16, <2>17 DEF out
<1> QED
  BY Zenon, <1>1, <1>2, <1>3, <1>4

-----------------------------------------------------------------------------
(***************************************************************************)
(* The slices of the budget.                                               *)
(***************************************************************************)
\* There are n numbers from 1 to n.
LEMMA FirstNumbers ==
  ASSUME NEW n \in Nat
  PROVE  IsFiniteSet(1 .. n) /\ Cardinality(1 .. n) = n
<1>1. /\ IsFiniteSet(1 .. n)
      /\ Cardinality(1 .. n) = IF 1 > n THEN 0 ELSE n - 1 + 1
  BY FS_Interval
<1> QED
  BY <1>1

\* The union of n sets of at most p elements has at most n * p.
LEMMA BoundedUnion ==
  ASSUME NEW n \in Nat, NEW p \in Nat, NEW part,
         \A s \in 1 .. n : IsFiniteSet(part[s]) /\ Cardinality(part[s]) <= p
  PROVE  LET all == UNION {part[s] : s \in 1 .. n}
         IN  IsFiniteSet(all) /\ Cardinality(all) <= n * p
<1> DEFINE all == UNION {part[s] : s \in 1 .. n}
           cells == (1 .. n) \X (1 .. p)
           card(s) == Cardinality(part[s])
<1>1. IsFiniteSet(cells) /\ Cardinality(cells) = n * p /\ n * p \in Nat
  <2>1. IsFiniteSet(1 .. n) /\ Cardinality(1 .. n) = n
    BY Zenon, FirstNumbers
  <2>2. IsFiniteSet(1 .. p) /\ Cardinality(1 .. p) = p
    BY Zenon, FirstNumbers
  <2>3. IsFiniteSet(cells) /\ Cardinality(cells) = n * p
    <3>1. IsFiniteSet(cells) /\ Cardinality(cells) = Cardinality(1 .. n) * Cardinality(1 .. p)
      BY <2>1, <2>2, FS_Product, Zenon
    <3> QED
      BY <2>1, <2>2, <3>1, Zenon
  <2> QED
    BY <2>3, FS_CardinalityType
<1>2. CASE all = {}
  <2>1. IsFiniteSet(all) /\ Cardinality(all) = 0
    BY <1>2, FS_EmptySet, Zenon
  <2> HIDE DEF all
  <2>2. IsFiniteSet(all) /\ Cardinality(all) <= n * p
    BY <1>1, <2>1
  <2> QED
    BY <2>2 DEF all
<1>3. ASSUME NEW other \in all PROVE IsFiniteSet(all) /\ Cardinality(all) <= n * p
  <2> DEFINE g(s) == CHOOSE f \in Bijection(1 .. card(s), part[s]) : TRUE
             F == [x \in cells |-> IF x[2] <= card(x[1]) THEN g(x[1])[x[2]] ELSE other]
  <2>1. \A s \in 1 .. n : /\ g(s) \in Bijection(1 .. card(s), part[s])
                          /\ card(s) \in Nat /\ card(s) <= p
    <3> SUFFICES ASSUME NEW s \in 1 .. n
                 PROVE  /\ g(s) \in Bijection(1 .. card(s), part[s])
                        /\ card(s) \in Nat /\ card(s) <= p
      BY Zenon
    <3>1. card(s) \in Nat /\ Bijection(1 .. card(s), part[s]) # {}
      BY Zenon, FS_CardinalityType DEF ExistsBijection
    <3> QED
      BY Zenon, <3>1
  <2>2. \A s \in 1 .. n : /\ \A i \in 1 .. card(s) : g(s)[i] \in part[s]
                          /\ \A b \in part[s] : \E i \in 1 .. card(s) : g(s)[i] = b
    BY <2>1, Zenon DEF Bijection, Surjection, Injection
  <2> HIDE DEF g
  <2>3. F \in [cells -> all]
    <3> SUFFICES ASSUME NEW s \in 1 .. n, NEW i \in 1 .. p PROVE F[<<s, i>>] \in all
      BY ZenonT(30)
    <3>1. i <= card(s) => i \in 1 .. card(s)
      BY <2>1
    <3>2. i <= card(s) => g(s)[i] \in all
      BY ZenonT(30), <2>2, <3>1
    <3> QED
      BY ZenonT(30), <3>2
  <2>4. \A b \in all : \E x \in cells : F[x] = b
    <3> TAKE b \in all
    <3>1. PICK s \in 1 .. n : b \in part[s]
      BY Zenon
    <3>2. PICK i \in 1 .. card(s) : g(s)[i] = b
      BY ZenonT(30), <2>2, <3>1
    <3>3. i \in 1 .. p /\ i <= card(s)
      BY <2>1
    <3>4. <<s, i>> \in cells /\ F[<<s, i>>] = b
      BY ZenonT(30), <3>2, <3>3
    <3> QED
      BY Zenon, <3>4
  <2>5. F \in Surjection(cells, all)
    BY ZenonT(30), <2>3, <2>4, ZenonT(60) DEF Surjection
  <2> HIDE DEF F, cells, all
  <2> QED
    BY <1>1, <2>5, FS_Surjection
<1> QED
  BY Zenon, <1>2, <1>3

\* The slices add up to no more than the budget, when it has a byte for each.
LEMMA SlicesFit ==
  ASSUME MaxMemoryBytes >= Shards
  PROVE  Shards * perShardMemory <= MaxMemoryBytes
<1>1. MaxMemoryBytes \in Nat /\ Shards \in Nat \ {0}
  BY Zenon, ConfigAssumption
<1>2. MaxMemoryBytes \div Shards >= 1 /\ Shards * (MaxMemoryBytes \div Shards) <= MaxMemoryBytes
  BY <1>1
<1>3. perShardMemory = MaxMemoryBytes \div Shards
  BY <1>1, <1>2 DEF perShardMemory
<1> QED
  BY Zenon, <1>2, <1>3

-----------------------------------------------------------------------------
(***************************************************************************)
(* STATS.  The sample of one shard is taken under its mutex, where the     *)
(* bytes are those of the items and within the slice; the sums over the    *)
(* shards inherit both, and no other step touches them.                    *)
(***************************************************************************)
\* Each item of a shard takes a key byte and the overhead at least.
LEMMA ItemsTakeBytes ==
  ASSUME NEW sh, ShardOK(sh)
  PROVE  Cardinality(DOMAIN sh.items) * (1 + ItemOverheadBytes) <= sh.memoryBytes
<1> DEFINE D == DOMAIN sh.items
           least == 1 .. 1 + ItemOverheadBytes
<1>1. IsFiniteSet(D) /\ IsFiniteSet(Bytes(sh.items, D)) /\ sh.memoryBytes = Cardinality(Bytes(sh.items, D))
  BY ZenonT(30) DEF ShardOK, Accounted, SumSizes
<1>2. \A k \in D : sh.items[k].size \in Nat /\ sh.items[k].size >= 1 + ItemOverheadBytes
  <2> TAKE k \in D
  <2>1. k \in Key /\ sh.items[k].value.len \in Nat /\ sh.items[k].size \in Nat
    BY ZenonT(30) DEF ShardOK, ShardTyped, Item, Value
  <2>2. sh.items[k].size = itemSize(k, sh.items[k].value.len)
    BY ZenonT(30) DEF ShardOK, Accounted
  <2> QED
    BY <2>1, <2>2, ConfigAssumption DEF itemSize
<1>3. D \X least \subseteq Bytes(sh.items, D)
  <2> SUFFICES ASSUME NEW k \in D, NEW i \in least PROVE <<k, i>> \in Bytes(sh.items, D)
    OBVIOUS
  <2>1. i \in 1 .. sh.items[k].size
    BY <1>2, ConfigAssumption
  <2> HIDE DEF D, least
  <2> QED
    BY <2>1 DEF Bytes
<1>4. IsFiniteSet(least) /\ Cardinality(least) = 1 + ItemOverheadBytes
  BY FS_Interval, ConfigAssumption
<1> HIDE DEF D, least
<1>5. Cardinality(D \X least) = Cardinality(D) * Cardinality(least)
  BY ZenonT(30), <1>1, <1>4, FS_Product
<1>6. Cardinality(D \X least) <= Cardinality(Bytes(sh.items, D))
  BY ZenonT(30), <1>1, <1>3, FS_Subset
<1>7. Cardinality(D) * (1 + ItemOverheadBytes) <= sh.memoryBytes
  BY ZenonT(30), <1>1, <1>4, <1>5, <1>6, ZenonT(60)
<1> QED
  BY ZenonT(30), <1>7 DEF D

-----------------------------------------------------------------------------
(***************************************************************************)
(* The event counters of a shard never decrease, whatever the method.      *)
(***************************************************************************)
Grows(sh, later) ==
  /\ later.evictions \in Nat /\ later.expirations \in Nat
  /\ sh.evictions <= later.evictions /\ sh.expirations <= later.expirations

\* No step is too small.
LEMMA SameGrows ==
  ASSUME NEW sh, ShardOK(sh)
  PROVE  Grows(sh, sh)
BY DEF Grows, ShardOK, ShardTyped

\* One step after the other.
LEMMA GrowsOn ==
  ASSUME NEW a, NEW b, NEW d, ShardOK(a), Grows(a, b), Grows(b, d)
  PROVE  Grows(a, d)
BY DEF Grows, ShardOK, ShardTyped

\* Removing stored items, a sweep, and making room by one.
LEMMA RemovalGrows ==
  ASSUME NEW sh, ShardOK(sh), NEW S \in SUBSET DOMAIN sh.items, NEW key, NEW size, NEW t
  PROVE  /\ ShardOK(deleteLocked(sh, S)) /\ Grows(sh, deleteLocked(sh, S))
         /\ ShardOK(removeExpiredLocked(sh, t)) /\ Grows(sh, removeExpiredLocked(sh, t))
         /\ ShardOK(reclaimExpired(sh, key, size, t)) /\ Grows(sh, reclaimExpired(sh, key, size, t))
<1> DEFINE E == Expired(sh.items, t)
           d == deleteLocked(sh, E)
           r == removeExpiredLocked(sh, t)
<1>1. E \in SUBSET DOMAIN sh.items /\ IsFiniteSet(DOMAIN sh.items)
  BY DEF Expired, ShardOK
<1>2. Cardinality(E) \in Nat
  <2> HIDE DEF E
  <2> QED
    BY Zenon, <1>1, FS_Subset, FS_CardinalityType
<1>3. /\ ShardOK(deleteLocked(sh, S)) /\ Grows(sh, deleteLocked(sh, S))
  <2>1. /\ ShardOK(deleteLocked(sh, S))
        /\ deleteLocked(sh, S).evictions = sh.evictions
        /\ deleteLocked(sh, S).expirations = sh.expirations
    BY Zenon, DeleteLockedOK
  <2> QED
    BY <2>1 DEF Grows, ShardOK, ShardTyped
<1>4. ShardOK(d) /\ d.evictions = sh.evictions /\ d.expirations = sh.expirations
  BY Zenon, <1>1, DeleteLockedOK
<1>5. r = [d EXCEPT !.expirations = sh.expirations + Cardinality(E)]
  BY Zenon DEF removeExpiredLocked
<1>6. ShardOK(r)
  BY Zenon, RemoveExpiredOK
<1> HIDE DEF E, d, r
<1>7. Grows(sh, r)
  BY <1>2, <1>4, <1>5 DEF Grows, ShardOK, ShardTyped
<1>8. reclaimExpired(sh, key, size, t) = r \/ reclaimExpired(sh, key, size, t) = sh
  BY Zenon DEF reclaimExpired, r
<1> QED
  BY Zenon, <1>3, <1>6, <1>7, <1>8, SameGrows DEF r

\* Making room by eviction.
LEMMA RoomGrows ==
  ASSUME NEW sh, ShardOK(sh), NEW key, NEW size
  PROVE  ShardOK(makeRoom(sh, key, size).sh) /\ Grows(sh, makeRoom(sh, key, size).sh)
<1> DEFINE pr == Projected(sh, key, size)
           V == Victims(sh, key, pr)
           d == deleteLocked(sh, V)
           e == evictUntilFitsLocked(sh, key, pr)
<1>1. V \in SUBSET DOMAIN sh.items /\ IsFiniteSet(DOMAIN sh.items)
  BY DEF Victims, ShardOK
<1>2. Cardinality(V) \in Nat
  <2> HIDE DEF V
  <2> QED
    BY Zenon, <1>1, FS_Subset, FS_CardinalityType
<1>3. ShardOK(d) /\ d.evictions = sh.evictions /\ d.expirations = sh.expirations
  <2> HIDE DEF V
  <2> QED
    BY Zenon, <1>1, DeleteLockedOK
<1>4. e.sh = [d EXCEPT !.evictions = sh.evictions + Cardinality(V)]
  BY Zenon DEF evictUntilFitsLocked
<1>5. ShardOK(e.sh)
  BY Zenon, EvictOK
<1> HIDE DEF V, d, e
<1>6. Grows(sh, e.sh)
  BY <1>2, <1>3, <1>4 DEF Grows, ShardOK, ShardTyped
<1>7. makeRoom(sh, key, size).sh = e.sh \/ makeRoom(sh, key, size).sh = sh
  BY Zenon DEF makeRoom, e
<1> QED
  BY Zenon, <1>5, <1>6, <1>7, SameGrows

\* Room is made, by expiry and then by eviction, and the item is written.
LEMMA WriteGrows ==
  ASSUME NEW sh, ShardOK(sh), NEW key, NEW size, NEW t, NEW item
  PROVE  LET sh1  == reclaimExpired(sh, key, size, t)
             room == makeRoom(sh1, key, size)
         IN  /\ ShardOK(room.sh)
             /\ Grows(sh, sh1) /\ Grows(sh, room.sh) /\ Grows(sh, write(room.sh, key, item))
<1> DEFINE sh1  == reclaimExpired(sh, key, size, t)
           room == makeRoom(sh1, key, size)
           w    == write(room.sh, key, item)
<1>1. ShardOK(sh1) /\ Grows(sh, sh1)
  BY Zenon, RemovalGrows
<1> HIDE DEF sh1
<1>2. ShardOK(room.sh) /\ Grows(sh1, room.sh)
  BY Zenon, <1>1, RoomGrows
<1> HIDE DEF room
<1>3. w.evictions = room.sh.evictions /\ w.expirations = room.sh.expirations
  <2>1. ShardTyped(room.sh)
    BY Zenon, <1>2 DEF ShardOK
  <2> QED
    BY <2>1, WriteFields
<1> HIDE DEF w
<1>4. Grows(room.sh, w)
  BY <1>2, <1>3 DEF Grows, ShardOK, ShardTyped
<1>5. Grows(sh, room.sh) /\ Grows(sh, w)
  BY Zenon, <1>1, <1>2, <1>4, GrowsOn
<1> QED
  BY Zenon, <1>1, <1>2, <1>5 DEF sh1, room, w

\* Every method of a shard.
LEMMA MethodsGrow ==
  ASSUME NEW sh, ShardOK(sh), NEW key, NEW value, NEW ttl, NEW expected, NEW delta, NEW t, NEW newCAS
  PROVE  /\ Grows(sh, set(sh, key, value, ttl, t, newCAS).sh)
         /\ Grows(sh, get(sh, key, t).sh)
         /\ Grows(sh, cas(sh, key, value, ttl, expected, t, newCAS).sh)
         /\ Grows(sh, delete(sh, key, t).sh)
         /\ Grows(sh, incr(sh, key, delta, t, newCAS).sh)
         /\ Grows(sh, cleanupExpired(sh, t))
<1>1. Grows(sh, sh)
  BY Zenon, SameGrows
<1>2. /\ key \in DOMAIN sh.items
           => ShardOK(deleteLocked(sh, {key})) /\ Grows(sh, deleteLocked(sh, {key}))
      /\ Grows(sh, removeExpiredLocked(sh, t))
  <2>1. key \in DOMAIN sh.items => {key} \in SUBSET DOMAIN sh.items
    OBVIOUS
  <2>2. {} \in SUBSET DOMAIN sh.items
    OBVIOUS
  <2> QED
    BY Zenon, <2>1, <2>2, RemovalGrows
<1>3. Grows(sh, set(sh, key, value, ttl, t, newCAS).sh)
  <2> DEFINE stale == key \in Expired(sh.items, t)
             sh0   == IF stale THEN deleteLocked(sh, {key}) ELSE sh
             size  == itemSize(key, value.len)
             sh1   == reclaimExpired(sh0, key, size, t)
             room  == makeRoom(sh1, key, size)
             item  == [value |-> value, expiresAt |-> expiresAt(t, ttl), size |-> size, cas |-> newCAS]
             w     == write(room.sh, key, item)
             out   == set(sh, key, value, ttl, t, newCAS)
  <2>1. out.sh = sh \/ out.sh = sh0 \/ out.sh = room.sh \/ out.sh = w
    BY ZenonT(60) DEF set, Fail, Done
  <2>2. stale => key \in DOMAIN sh.items
    BY DEF Expired
  <2> HIDE DEF stale
  <2>3. ShardOK(sh0) /\ Grows(sh, sh0)
    BY Zenon, <1>1, <1>2, <2>2
  <2> HIDE DEF sh0, item, size
  <2>4. Grows(sh0, room.sh) /\ Grows(sh0, w)
    BY Zenon, <2>3, WriteGrows
  <2> HIDE DEF room, w, out
  <2>5. Grows(sh, out.sh)
    BY Zenon, <1>1, <2>1, <2>3, <2>4, GrowsOn
  <2> QED
    BY Zenon, <2>5 DEF out
<1>4. Grows(sh, cas(sh, key, value, ttl, expected, t, newCAS).sh)
  <2> DEFINE size == itemSize(key, value.len)
             sh1  == reclaimExpired(sh, key, size, t)
             room == makeRoom(sh1, key, size)
             item == [value |-> value, expiresAt |-> expiresAt(t, ttl), size |-> size, cas |-> newCAS]
             w    == write(room.sh, key, item)
             out  == cas(sh, key, value, ttl, expected, t, newCAS)
  <2>1. \/ out.sh = sh \/ out.sh = sh1 \/ out.sh = room.sh \/ out.sh = w
        \/ key \in DOMAIN sh.items /\ out.sh = deleteLocked(sh, {key})
    BY ZenonT(60) DEF cas, Fail, Done
  <2> HIDE DEF item, size
  <2>2. Grows(sh, sh1) /\ Grows(sh, room.sh) /\ Grows(sh, w)
    BY Zenon, WriteGrows
  <2> HIDE DEF sh1, room, w
  <2> QED
    BY Zenon, <1>1, <1>2, <2>1, <2>2
<1>5. Grows(sh, incr(sh, key, delta, t, newCAS).sh)
  <2> DEFINE next == (sh.items[key].value.num + delta) % (MaxUint64 + 1)
             size == itemSize(key, FormatUint(next).len)
             sh1  == reclaimExpired(sh, key, size, t)
             room == makeRoom(sh1, key, size)
             item == [value |-> FormatUint(next), expiresAt |-> sh.items[key].expiresAt,
                      size |-> size, cas |-> newCAS]
             w    == write(room.sh, key, item)
             out  == incr(sh, key, delta, t, newCAS)
  <2>1. \/ out.sh = sh \/ out.sh = sh1 \/ out.sh = room.sh \/ out.sh = w
        \/ key \in DOMAIN sh.items /\ out.sh = deleteLocked(sh, {key})
    BY ZenonT(60) DEF incr, Fail, Done
  <2> HIDE DEF item, size, next
  <2>2. Grows(sh, sh1) /\ Grows(sh, room.sh) /\ Grows(sh, w)
    BY Zenon, WriteGrows
  <2> HIDE DEF sh1, room, w
  <2> QED
    BY Zenon, <1>1, <1>2, <2>1, <2>2
<1>6. Grows(sh, get(sh, key, t).sh)
  <2> DEFINE moved == [sh EXCEPT !.lru = MoveToFront(sh.lru, DOMAIN sh.items, key)]
  <2>1. Grows(sh, moved)
    BY DEF Grows, ShardOK, ShardTyped
  <2> HIDE DEF moved
  <2>2. \/ get(sh, key, t).sh = sh \/ get(sh, key, t).sh = moved
        \/ key \in DOMAIN sh.items /\ get(sh, key, t).sh = deleteLocked(sh, {key})
    BY Zenon DEF get, Fail, Done, moved
  <2> QED
    BY Zenon, <1>1, <1>2, <2>1, <2>2
<1>7. Grows(sh, delete(sh, key, t).sh)
  BY Zenon, <1>1, <1>2 DEF delete, Fail, Done
<1> QED
  BY Zenon, <1>2, <1>3, <1>4, <1>5, <1>6, <1>7 DEF cleanupExpired

-----------------------------------------------------------------------------
(***************************************************************************)
(* The cache that clients see.  Of one shard they see the live items; each *)
(* method answers from these alone.                                        *)
(***************************************************************************)
\* A value that fits into the shard by itself finds room, and is then stored.
LEMMA WriteStores ==
  ASSUME NEW sh, ShardOK(sh), NEW key \in Key, NEW size \in Nat, size <= perShardMemory,
         NEW value, NEW end, NEW version
  PROVE  LET room == makeRoom(sh, key, size)
             item == [value |-> value, expiresAt |-> end, size |-> size, cas |-> version]
         IN  room.ok /\ Stores(write(room.sh, key, item), key, value, end, version)
<1> DEFINE room == makeRoom(sh, key, size)
           item == [value |-> value, expiresAt |-> end, size |-> size, cas |-> version]
           w    == write(room.sh, key, item)
<1>1. room.ok /\ ShardTyped(room.sh)
  BY Zenon, MakeRoomOK DEF Shrunk, ShardOK
<1> HIDE DEF room
<1>2. key \in DOMAIN w.items /\ w.items[key] = item
  BY Zenon, <1>1 DEF write, ShardTyped
<1>3. Entry(item) = [value |-> value, expiresAt |-> end, cas |-> version]
  BY Zenon DEF Entry
<1> HIDE DEF w, item
<1>4. Stores(w, key, value, end, version)
  BY Zenon, <1>2, <1>3 DEF Stores
<1> QED
  BY Zenon, <1>1, <1>4 DEF room, item, w

\* SET refuses a value for its own size only, and stores any other.
LEMMA SetAnswers ==
  ASSUME NEW sh, ShardOK(sh), NEW key \in Key, NEW value \in Value, NEW ttl \in Nat,
         NEW t, NEW newCAS
  PROVE  LET out == set(sh, key, value, ttl, t, newCAS)
         IN  /\ out.err = Refusal(key, value)
             /\ out.err = "nil" => /\ out.stamped
                                   /\ Stores(out.sh, key, value, expiresAt(t, ttl), newCAS)
<1> DEFINE stale == key \in Expired(sh.items, t)
           sh0   == IF stale THEN deleteLocked(sh, {key}) ELSE sh
           size  == itemSize(key, value.len)
           sh1   == reclaimExpired(sh0, key, size, t)
           room  == makeRoom(sh1, key, size)
           item  == [value |-> value, expiresAt |-> expiresAt(t, ttl), size |-> size, cas |-> newCAS]
           w     == write(room.sh, key, item)
           out   == set(sh, key, value, ttl, t, newCAS)
<1>1. CASE value.len > MaxValueBytes
  <2>1. out.err = "ErrValueTooLarge"
    BY Zenon, <1>1 DEF set, Fail
  <2> QED
    BY Zenon, <1>1, <2>1 DEF Refusal
<1>2. CASE ~ (value.len > MaxValueBytes) /\ size > perShardMemory
  <2>1. out.err = "ErrMemoryLimitExceeded"
    BY Zenon, <1>2 DEF set, Fail
  <2> QED
    BY Zenon, <1>2, <2>1 DEF Refusal
<1>3. CASE ~ (value.len > MaxValueBytes) /\ ~ (size > perShardMemory)
  <2>1. Refusal(key, value) = "nil"
    BY Zenon, <1>3 DEF Refusal
  <2>2. ShardOK(sh0)
    <3>1. stale => {key} \in SUBSET DOMAIN sh.items
      BY DEF Expired
    <3> HIDE DEF stale
    <3> QED
      BY Zenon, <3>1, RemovalGrows
  <2>3. size \in Nat /\ size <= perShardMemory
    <3>1. size \in Nat
      BY Zenon, SizeType
    <3> HIDE DEF size
    <3> QED
      BY <1>3, <3>1, BudgetType
  <2> HIDE DEF sh0, size
  <2>4. ShardOK(sh1)
    BY Zenon, <2>2, ReclaimExpiredOK DEF Shrunk
  <2> HIDE DEF sh1
  <2>5. room.ok /\ Stores(w, key, value, expiresAt(t, ttl), newCAS)
    BY Zenon, <2>3, <2>4, WriteStores
  <2>6. out = Done(w, TRUE)
    BY ZenonT(60), <1>3, <2>5 DEF set, sh0, sh1, size
  <2> HIDE DEF w, out
  <2>7. out.err = "nil" /\ out.stamped /\ out.sh = w
    BY <2>6 DEF Done
  <2> QED
    BY Zenon, <2>1, <2>5, <2>7 DEF out
<1> QED
  BY Zenon, <1>1, <1>2, <1>3

\* CAS looks at the size of the value, then for a live item, then at its
\* version, then at the room the value needs.
LEMMA CasAnswers ==
  ASSUME NEW sh, ShardOK(sh), NEW key \in Key, NEW value \in Value, NEW ttl \in Nat,
         NEW expected, NEW t, NEW newCAS
  PROVE  LET out == cas(sh, key, value, ttl, expected, t, newCAS)
         IN  /\ out.err = CasAnswer(sh, key, value, expected, t)
             /\ out.err = "nil" => /\ out.stamped
                                   /\ Stores(out.sh, key, value, expiresAt(t, ttl), newCAS)
<1> DEFINE size  == itemSize(key, value.len)
           sh1   == reclaimExpired(sh, key, size, t)
           room  == makeRoom(sh1, key, size)
           item  == [value |-> value, expiresAt |-> expiresAt(t, ttl), size |-> size, cas |-> newCAS]
           w     == write(room.sh, key, item)
           out   == cas(sh, key, value, ttl, expected, t, newCAS)
<1>1. CASE value.len > MaxValueBytes
  <2>1. out.err = "ErrValueTooLarge"
    BY Zenon, <1>1 DEF cas, Fail
  <2> QED
    BY Zenon, <1>1, <2>1 DEF Refusal, CasAnswer
<1>2. CASE ~ (value.len > MaxValueBytes) /\ ~ LiveIn(sh, key, t)
  <2>1. out.err = "ErrNotFound"
    BY ZenonT(60), <1>2 DEF cas, Fail, LiveIn
  <2>2. Refusal(key, value) # "ErrValueTooLarge"
    BY Zenon, <1>2 DEF Refusal
  <2> QED
    BY Zenon, <1>2, <2>1, <2>2 DEF CasAnswer
<1>3. CASE ~ (value.len > MaxValueBytes) /\ LiveIn(sh, key, t) /\ sh.items[key].cas # expected
  <2>1. out.err = "ErrCasMismatch"
    BY ZenonT(60), <1>3 DEF cas, Fail, LiveIn
  <2>2. Refusal(key, value) # "ErrValueTooLarge"
    BY Zenon, <1>3 DEF Refusal
  <2> QED
    BY Zenon, <1>3, <2>1, <2>2 DEF CasAnswer
<1>4. CASE /\ ~ (value.len > MaxValueBytes) /\ LiveIn(sh, key, t) /\ sh.items[key].cas = expected
           /\ size > perShardMemory
  <2>1. out.err = "ErrMemoryLimitExceeded"
    BY ZenonT(60), <1>4 DEF cas, Fail, LiveIn
  <2>2. Refusal(key, value) = "ErrMemoryLimitExceeded"
    BY Zenon, <1>4 DEF Refusal
  <2> QED
    BY Zenon, <1>4, <2>1, <2>2 DEF CasAnswer
<1>5. CASE /\ ~ (value.len > MaxValueBytes) /\ LiveIn(sh, key, t) /\ sh.items[key].cas = expected
           /\ ~ (size > perShardMemory)
  <2>1. Refusal(key, value) = "nil"
    BY Zenon, <1>5 DEF Refusal
  <2>2. CasAnswer(sh, key, value, expected, t) = "nil"
    BY Zenon, <1>5, <2>1 DEF CasAnswer
  <2>3. size \in Nat /\ size <= perShardMemory
    <3>1. size \in Nat
      BY Zenon, SizeType
    <3> HIDE DEF size
    <3> QED
      BY <1>5, <3>1, BudgetType
  <2>4. ShardOK(sh1) /\ key \in DOMAIN sh1.items
    BY Zenon, <1>5, ReclaimExpiredOK DEF Shrunk, KeepsLive, LiveIn
  <2> HIDE DEF sh1, size
  <2>5. room.ok /\ Stores(w, key, value, expiresAt(t, ttl), newCAS)
    BY Zenon, <2>3, <2>4, WriteStores
  <2>6. out = Done(w, TRUE)
    BY ZenonT(60), <1>5, <2>4, <2>5 DEF cas, sh1, size, LiveIn
  <2> HIDE DEF w, out
  <2>7. out.err = "nil" /\ out.stamped /\ out.sh = w
    BY <2>6 DEF Done
  <2> QED
    BY Zenon, <2>2, <2>5, <2>7 DEF out
<1> QED
  BY Zenon, <1>1, <1>2, <1>3, <1>4, <1>5

\* INCR looks for a live item, at its number, at the sum, and at the room the
\* sum needs; it stores the sum itself under the old expiry.
LEMMA IncrAnswers ==
  ASSUME NEW sh, ShardOK(sh), NEW key \in Key, NEW delta \in Nat, NEW t, NEW newCAS
  PROVE  LET out == incr(sh, key, delta, t, newCAS)
         IN  /\ out.err = IncrAnswer(sh, key, delta, t)
             /\ out.err = "nil" =>
                  /\ out.stamped
                  /\ Stores(out.sh, key, FormatUint(sh.items[key].value.num + delta),
                            sh.items[key].expiresAt, newCAS)
<1> DEFINE old  == sh.items[key]
           sum  == old.value.num + delta
           next == sum % (MaxUint64 + 1)
           size == itemSize(key, FormatUint(next).len)
           sh1  == reclaimExpired(sh, key, size, t)
           room == makeRoom(sh1, key, size)
           item == [value |-> FormatUint(next), expiresAt |-> old.expiresAt,
                    size |-> size, cas |-> newCAS]
           w    == write(room.sh, key, item)
           out  == incr(sh, key, delta, t, newCAS)
<1>1. CASE ~ LiveIn(sh, key, t)
  <2>1. out.err = "ErrNotFound"
    BY ZenonT(60), <1>1 DEF incr, Fail, LiveIn
  <2> HIDE DEF out
  <2>2. out.err = IncrAnswer(sh, key, delta, t) /\ out.err # "nil"
    BY Zenon, <1>1, <2>1 DEF IncrAnswer
  <2> QED
    BY Zenon, <2>2 DEF out
<1>2. CASE LiveIn(sh, key, t) /\ ~ isUint(old.value)
  <2>1. out.err = "ErrNotInteger"
    BY ZenonT(60), <1>2 DEF incr, Fail, LiveIn
  <2> HIDE DEF out
  <2>2. out.err = IncrAnswer(sh, key, delta, t) /\ out.err # "nil"
    BY Zenon, <1>2, <2>1 DEF IncrAnswer
  <2> QED
    BY Zenon, <2>2 DEF out
<1>3. CASE LiveIn(sh, key, t) /\ isUint(old.value)
  <2>1. old.value.num \in Nat
    BY ZenonT(30), <1>3 DEF ShardOK, ShardTyped, Item, Value, isUint, LiveIn
  <2>2. CASE sum > MaxUint64
    <3>1. MaxUint64 - old.value.num < delta
      <4> HIDE DEF old
      <4> QED
        BY <2>1, <2>2, ConfigAssumption
    <3>2. out.err = "ErrOverflow"
      BY ZenonT(60), <1>3, <3>1 DEF incr, Fail, LiveIn
    <3> HIDE DEF out
    <3>3. out.err = IncrAnswer(sh, key, delta, t) /\ out.err # "nil"
      BY Zenon, <1>3, <2>2, <3>2 DEF IncrAnswer
    <3> QED
      BY Zenon, <3>3 DEF out
  <2>3. CASE ~ (sum > MaxUint64)
    <3>1. ~ (MaxUint64 - old.value.num < delta) /\ next = sum /\ sum \in Nat
      <4> HIDE DEF old
      <4>1. sum \in 0 .. MaxUint64 /\ ~ (MaxUint64 - old.value.num < delta)
        BY <2>1, <2>3, ConfigAssumption
      <4> QED
        BY <4>1, ConfigAssumption
    <3>2. IncrAnswer(sh, key, delta, t) = Refusal(key, FormatUint(next))
      BY Zenon, <1>3, <2>3, <3>1 DEF IncrAnswer
    <3>3. FormatUint(next) \in Value
      BY Zenon, <3>1, FormatUintType
    <3>4. CASE FormatUint(next).len > MaxValueBytes
      <4>1. out.err = "ErrValueTooLarge"
        BY ZenonT(60), <1>3, <3>1, <3>4 DEF incr, Fail, LiveIn
      <4>2. Refusal(key, FormatUint(next)) = "ErrValueTooLarge"
        BY Zenon, <3>4 DEF Refusal
      <4> HIDE DEF out
      <4>3. out.err = IncrAnswer(sh, key, delta, t) /\ out.err # "nil"
        BY Zenon, <3>2, <4>1, <4>2
      <4> QED
        BY Zenon, <4>3 DEF out
    <3>5. CASE ~ (FormatUint(next).len > MaxValueBytes) /\ size > perShardMemory
      <4>1. out.err = "ErrMemoryLimitExceeded"
        BY ZenonT(60), <1>3, <3>1, <3>5 DEF incr, Fail, LiveIn
      <4>2. Refusal(key, FormatUint(next)) = "ErrMemoryLimitExceeded"
        BY Zenon, <3>5 DEF Refusal
      <4> HIDE DEF out
      <4>3. out.err = IncrAnswer(sh, key, delta, t) /\ out.err # "nil"
        BY Zenon, <3>2, <4>1, <4>2
      <4> QED
        BY Zenon, <4>3 DEF out
    <3>6. CASE ~ (FormatUint(next).len > MaxValueBytes) /\ ~ (size > perShardMemory)
      <4>1. Refusal(key, FormatUint(next)) = "nil"
        BY Zenon, <3>6 DEF Refusal
      <4>2. size \in Nat /\ size <= perShardMemory
        <5>1. size \in Nat
          BY Zenon, <3>3, SizeType
        <5> HIDE DEF size
        <5> QED
          BY <3>6, <5>1, BudgetType
      <4>3. ShardOK(sh1) /\ key \in DOMAIN sh1.items
        BY Zenon, <1>3, ReclaimExpiredOK DEF Shrunk, KeepsLive, LiveIn
      <4> HIDE DEF sh1, size
      <4>4. room.ok /\ Stores(w, key, FormatUint(next), old.expiresAt, newCAS)
        BY Zenon, <4>2, <4>3, WriteStores
      <4>5. out = Done(w, TRUE)
        BY ZenonT(60), <1>3, <3>1, <3>6, <4>3, <4>4 DEF incr, sh1, size, LiveIn
      <4> HIDE DEF w, out, next
      <4>6. out.err = "nil" /\ out.stamped /\ out.sh = w
        BY <4>5 DEF Done
      <4>7. /\ out.err = IncrAnswer(sh, key, delta, t) /\ out.stamped
            /\ Stores(out.sh, key, FormatUint(sum), old.expiresAt, newCAS)
        BY Zenon, <3>1, <3>2, <4>1, <4>4, <4>6
      <4> QED
        BY Zenon, <4>7 DEF out
    <3> QED
      BY Zenon, <3>4, <3>5, <3>6
  <2> QED
    BY Zenon, <2>2, <2>3
<1> QED
  BY Zenon, <1>1, <1>2, <1>3

\* GET finds exactly the live items, and changes none.
LEMMA GetAnswers ==
  ASSUME NEW sh, ShardOK(sh), NEW key, NEW t
  PROVE  LET out == get(sh, key, t)
         IN  /\ out.err = IF LiveIn(sh, key, t) THEN "nil" ELSE "ErrNotFound"
             /\ ~ out.stamped
             /\ out.err = "nil" => out.sh.items = sh.items
<1> DEFINE out == get(sh, key, t)
           m == [sh EXCEPT !.lru = MoveToFront(sh.lru, DOMAIN sh.items, key)]
<1>1. CASE ~ LiveIn(sh, key, t)
  BY ZenonT(30), <1>1 DEF get, Fail, LiveIn
<1>2. CASE LiveIn(sh, key, t)
  <2>1. out = Done(m, FALSE)
    BY Zenon, <1>2 DEF get, LiveIn
  <2>2. m.items = sh.items
    BY DEF ShardOK, ShardTyped
  <2> HIDE DEF m
  <2> QED
    BY <1>2, <2>1, <2>2 DEF Done
<1> QED
  BY Zenon, <1>1, <1>2

\* DELETE finds exactly the live items, and removes the one it finds.
LEMMA DeleteAnswers ==
  ASSUME NEW sh, ShardOK(sh), NEW key, NEW t
  PROVE  LET out == delete(sh, key, t)
         IN  /\ out.err = IF LiveIn(sh, key, t) THEN "nil" ELSE "ErrNotFound"
             /\ ~ out.stamped
             /\ out.err = "nil" => DOMAIN out.sh.items = DOMAIN sh.items \ {key}
<1> DEFINE out == delete(sh, key, t)
           d == deleteLocked(sh, {key})
<1>1. CASE ~ LiveIn(sh, key, t)
  BY ZenonT(30), <1>1 DEF delete, Fail, LiveIn
<1>2. CASE LiveIn(sh, key, t)
  <2>1. out = Done(d, FALSE)
    BY Zenon, <1>2 DEF delete, LiveIn
  <2>2. DOMAIN d.items = DOMAIN sh.items \ {key}
    BY Zenon, <1>2, DeleteOneOK DEF LiveIn
  <2> HIDE DEF d
  <2> QED
    BY <1>2, <2>1, <2>2 DEF Done
<1> QED
  BY Zenon, <1>1, <1>2

-----------------------------------------------------------------------------
(***************************************************************************)
(* Sums of the event counters, as STATS takes them: one shard after the    *)
(* other, while other sessions add events.                                 *)
(***************************************************************************)
IsTally(f) == \A s \in 1 .. Shards : f[s].size \in Nat

\* The events of finitely many shards are finitely many.
LEMMA TallyFinite ==
  ASSUME NEW f, IsTally(f)
  PROVE  IsFiniteSet(Bytes(f, 1 .. Shards))
<1> DEFINE D == 1 .. Shards
           parts == {{s} \X (1 .. f[s].size) : s \in D}
           g == [s \in D |-> {s} \X (1 .. f[s].size)]
<1>1. IsFiniteSet(D)
  BY FS_Interval, ConfigAssumption
<1>2. g \in Surjection(D, parts)
  BY Zenon DEF Surjection
<1>3. IsFiniteSet(parts)
  <2> HIDE DEF D, parts, g
  <2> QED
    BY Zenon, <1>1, <1>2, FS_Surjection
<1>4. \A part \in parts : IsFiniteSet(part)
  <2> SUFFICES ASSUME NEW s \in D PROVE IsFiniteSet({s} \X (1 .. f[s].size))
    BY Zenon
  <2>1. f[s].size \in Nat
    BY Zenon DEF IsTally
  <2>2. Bytes(f, {s}) = {s} \X (1 .. f[s].size)
    BY DEF Bytes
  <2> QED
    BY Zenon, <2>1, <2>2, SumOne
<1>5. Bytes(f, D) = UNION parts
  BY Zenon DEF Bytes
<1> HIDE DEF D, parts
<1>6. IsFiniteSet(Bytes(f, D))
  BY Zenon, <1>3, <1>4, <1>5, FS_UNION
<1> QED
  BY Zenon, <1>6 DEF D

\* The events of some of the shards are a number.
LEMMA TallyType ==
  ASSUME NEW f, IsTally(f), NEW S \in SUBSET (1 .. Shards)
  PROVE  IsFiniteSet(Bytes(f, S)) /\ SumSizes(f, S) \in Nat
BY Zenon, TallyFinite, SumSplit

\* One shard counted apart from the others.
LEMMA TallyOne ==
  ASSUME NEW f, IsTally(f), NEW S \in SUBSET (1 .. Shards), NEW n \in S
  PROVE  SumSizes(f, S) = f[n].size + SumSizes(f, S \ {n})
<1>1. f[n].size \in Nat /\ {n} \in SUBSET S
  BY DEF IsTally
<1>2. IsFiniteSet(Bytes(f, S))
  BY Zenon, TallyType
<1>3. SumSizes(f, S) = SumSizes(f, {n}) + SumSizes(f, S \ {n})
  BY <1>1, <1>2, SumSplit
<1>4. SumSizes(f, {n}) = f[n].size
  BY Zenon, <1>1, SumOne
<1> QED
  BY Zenon, <1>3, <1>4

\* More events in each shard are more events.
LEMMA TallyGrows ==
  ASSUME NEW f, IsTally(f), NEW g, IsTally(g), \A s \in 1 .. Shards : f[s].size <= g[s].size,
         NEW S \in SUBSET (1 .. Shards)
  PROVE  SumSizes(f, S) <= SumSizes(g, S)
<1>1. Bytes(f, S) \subseteq Bytes(g, S)
  <2> SUFFICES ASSUME NEW s \in S, NEW i \in 1 .. f[s].size PROVE <<s, i>> \in Bytes(g, S)
    BY DEF Bytes
  <2>1. i \in 1 .. g[s].size
    BY DEF IsTally
  <2>2. <<s, i>> \in {s} \X (1 .. g[s].size)
    BY <2>1
  <2> QED
    BY Zenon, <2>2 DEF Bytes
<1>2. IsFiniteSet(Bytes(g, S))
  BY Zenon, TallyType
<1> QED
  BY Zenon, <1>1, <1>2, FS_Subset DEF SumSizes

\* x was shown; w is loaded from the shards before n.
Ahead(x, w, n, f) ==
  /\ x <= w + SumSizes(f, n .. Shards)
  /\ w <= SumSizes(f, 1 .. n - 1)

\* Other sessions only add events.
LEMMA AheadKept ==
  ASSUME NEW f, IsTally(f), NEW g, IsTally(g), \A s \in 1 .. Shards : f[s].size <= g[s].size,
         NEW x \in Nat, NEW w \in Nat, NEW n \in 1 .. Shards, Ahead(x, w, n, f)
  PROVE  Ahead(x, w, n, g)
<1> DEFINE A == n .. Shards
           B == 1 .. n - 1
<1>1. A \in SUBSET (1 .. Shards) /\ B \in SUBSET (1 .. Shards)
  BY ConfigAssumption
<1>2. x <= w + SumSizes(f, A) /\ w <= SumSizes(f, B)
  BY Zenon DEF Ahead
<1> HIDE DEF A, B
<1>3. /\ SumSizes(f, A) \in Nat /\ SumSizes(g, A) \in Nat /\ SumSizes(f, A) <= SumSizes(g, A)
      /\ SumSizes(f, B) \in Nat /\ SumSizes(g, B) \in Nat /\ SumSizes(f, B) <= SumSizes(g, B)
  BY Zenon, <1>1, TallyType, TallyGrows
<1>4. x <= w + SumSizes(g, A) /\ w <= SumSizes(g, B)
  BY <1>2, <1>3
<1> QED
  BY Zenon, <1>4 DEF Ahead, A, B

\* The counter of shard n is loaded; after the last one, it is shown.
LEMMA AheadLoaded ==
  ASSUME NEW f, IsTally(f), NEW x \in Nat, NEW w \in Nat, NEW n \in 1 .. Shards, Ahead(x, w, n, f)
  PROVE  /\ n # Shards => Ahead(x, w + f[n].size, n + 1, f)
         /\ n = Shards => x <= w + f[n].size /\ Ahead(w + f[n].size, 0, 1, f)
<1> DEFINE A == n .. Shards
           A1 == n + 1 .. Shards
           B == 1 .. n - 1
           B1 == 1 .. n
<1>1. /\ A \in SUBSET (1 .. Shards) /\ A1 \in SUBSET (1 .. Shards)
      /\ B \in SUBSET (1 .. Shards) /\ B1 \in SUBSET (1 .. Shards)
      /\ n \in A /\ n \in B1 /\ A \ {n} = A1 /\ B1 \ {n} = B
  BY ConfigAssumption
<1>2. x <= w + SumSizes(f, A) /\ w <= SumSizes(f, B)
  BY Zenon DEF Ahead
<1>3. f[n].size \in Nat /\ n + 1 - 1 = n /\ 1 - 1 = 0 /\ 1 .. 0 = {}
  BY ConfigAssumption DEF IsTally
<1>4. n = Shards => A1 = {} /\ B1 = 1 .. Shards
  BY ConfigAssumption
<1>5. SumSizes(f, {}) = 0
  <2>1. Bytes(f, {}) = {}
    BY DEF Bytes
  <2> QED
    BY Zenon, <2>1, FS_EmptySet DEF SumSizes
<1> HIDE DEF A, A1, B, B1
<1>6. /\ SumSizes(f, A1) \in Nat /\ SumSizes(f, B) \in Nat
      /\ SumSizes(f, A) = f[n].size + SumSizes(f, A1)
      /\ SumSizes(f, B1) = f[n].size + SumSizes(f, B)
  <2>1. SumSizes(f, A1) \in Nat /\ SumSizes(f, B) \in Nat
    BY Zenon, <1>1, TallyType
  <2>2. SumSizes(f, A) = f[n].size + SumSizes(f, A \ {n})
    BY <1>1, TallyOne
  <2>3. SumSizes(f, B1) = f[n].size + SumSizes(f, B1 \ {n})
    BY <1>1, TallyOne
  <2> QED
    BY Zenon, <1>1, <2>1, <2>2, <2>3
<1> DEFINE z == f[n].size
           a == SumSizes(f, A1)
           b == SumSizes(f, B)
<1>7. SumSizes(f, A) = z + a /\ SumSizes(f, B1) = z + b /\ z \in Nat /\ a \in Nat /\ b \in Nat
  BY Zenon, <1>3, <1>6
<1>8. n = Shards => a = 0
  BY Zenon, <1>4, <1>5
<1> HIDE DEF z, a, b
<1>9. x <= (w + z) + a /\ w + z <= SumSizes(f, B1) /\ w + z = 0 + (w + z)
  BY <1>2, <1>7 DEF b
<1>10. n # Shards => Ahead(x, w + z, n + 1, f)
  <2>1. B1 = 1 .. (n + 1) - 1
    BY DEF B1
  <2>2. w + z <= SumSizes(f, 1 .. (n + 1) - 1)
    BY Zenon, <1>9, <2>1
  <2> QED
    BY Zenon, <1>9, <2>2 DEF Ahead, A1, a
<1>11. n = Shards => x <= w + z
  BY <1>7, <1>8, <1>9
<1>12. n = Shards => Ahead(w + z, 0, 1, f)
  <2> SUFFICES ASSUME n = Shards PROVE Ahead(w + z, 0, 1, f)
    BY Zenon
  <2>1. SumSizes(f, B1) = SumSizes(f, 1 .. Shards)
    BY Zenon, <1>4
  <2>2. w + z <= 0 + SumSizes(f, 1 .. Shards)
    BY <1>7, <1>9, <2>1
  <2>3. 0 <= SumSizes(f, 1 .. 1 - 1)
    BY <1>3, <1>5
  <2> QED
    BY Zenon, <2>2, <2>3 DEF Ahead
<1> QED
  BY Zenon, <1>10, <1>11, <1>12 DEF z
=============================================================================
