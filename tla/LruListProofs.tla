--------------------------- MODULE LruListProofs ---------------------------
(***************************************************************************)
(* Proofs that the pointers of the LRU list spell the order of use and     *)
(* that the eviction loop removes exactly the items Victims names, for any *)
(* number of items of any size.                                            *)
(***************************************************************************)
EXTENDS LruList, ShardProofs

\* The type of a list.
List == [head : Key \cup {nil}, tail : Key \cup {nil},
         prev : [Key -> Key \cup {nil}], next : [Key -> Key \cup {nil}]]

\* pushFront puts an item that is not in the list in front of all the others.
LEMMA PushFrontSpells ==
  ASSUME NEW l \in List, NEW ord, NEW K \in SUBSET Key, Spells(l, ord, K), NEW k \in Key \ K
  PROVE  pushFront(l, k) \in List /\ Spells(pushFront(l, k), PushFront(ord, K, k), K \cup {k})
<1> DEFINE m == pushFront(l, k)
           new == PushFront(ord, K, k)
           L == K \cup {k}
<1>1. /\ m \in List /\ m.head = k
      /\ m.tail = IF l.tail = nil THEN k ELSE l.tail
      /\ \A j \in Key : m.prev[j] = IF j = l.head THEN k ELSE IF j = k THEN nil ELSE l.prev[j]
      /\ \A j \in Key : m.next[j] = IF j = k THEN l.head ELSE l.next[j]
  BY Zenon DEF List, pushFront
<1>2. IsRecencyOrder(new, L)
  BY PushFrontOrder DEF Spells
<1>3. \A i, j : <<i, j>> \in new <=> <<i, j>> \in ord \/ (i \in K /\ j = k)
  BY Zenon DEF PushFront
<1>4. /\ \A i, j : <<i, j>> \in ord => i \in K /\ j \in K
      /\ \A i \in K : <<i, i>> \notin ord
      /\ \A i, j, h \in K : <<i, j>> \in ord /\ <<j, h>> \in ord => <<i, h>> \in ord
  BY DEF Spells, IsRecencyOrder
<1> HIDE DEF m, new
<1>5. \A i \in K : \A j \in K : Adjacent(ord, K, i, j) => Adjacent(new, L, i, j)
  BY Zenon, <1>3, <1>4 DEF Adjacent
<1>6. ASSUME K # {}
      PROVE  Adjacent(new, L, l.head, k)
  <2>1. l.head \in K /\ \A j \in K : j = l.head \/ <<j, l.head>> \in ord
    BY Zenon, <1>6 DEF Spells
  <2>2. \A j \in K : <<l.head, j>> \notin ord
    BY Zenon, <1>4, <2>1
  <2> QED
    BY Zenon, <1>3, <1>4, <2>1, <2>2 DEF Adjacent
<1>7. m.head \in L /\ m.tail \in L
  BY ZenonT(30), <1>1, LruAssumption DEF Spells
<1>8. ASSUME NEW j \in L
      PROVE  /\ j = m.head \/ <<j, m.head>> \in new
             /\ j = m.tail \/ <<m.tail, j>> \in new
             /\ IF j = m.tail THEN m.next[j] = nil
                ELSE m.next[j] \in L /\ Adjacent(new, L, m.next[j], j)
             /\ IF j = m.head THEN m.prev[j] = nil
                ELSE m.prev[j] \in L /\ Adjacent(new, L, j, m.prev[j])
  BY ZenonT(60), <1>1, <1>3, <1>5, <1>6, LruAssumption DEF Spells
<1>9. \A j \in Key \ L : m.next[j] = nil /\ m.prev[j] = nil
  BY <1>1, LruAssumption DEF Spells
<1> QED
  BY ZenonT(30), <1>1, <1>2, <1>7, <1>8, <1>9 DEF Spells, m, new

\* remove takes an item out and leaves the others in their order.
LEMMA RemoveSpells ==
  ASSUME NEW l \in List, NEW ord, NEW K \in SUBSET Key, Spells(l, ord, K), NEW k \in K
  PROVE  remove(l, k) \in List /\ Spells(remove(l, k), Unlink(ord, {k}), K \ {k})
<1> DEFINE m == remove(l, k)
           new == Unlink(ord, {k})
           L == K \ {k}
           before == l.prev[k]
           after == l.next[k]
<1>1. /\ m \in List
      /\ m.head = IF before = nil THEN after ELSE l.head
      /\ m.tail = IF after = nil THEN before ELSE l.tail
      /\ \A j \in Key : m.prev[j] = IF j = k THEN nil ELSE IF j = after THEN before ELSE l.prev[j]
      /\ \A j \in Key : m.next[j] = IF j = k THEN nil ELSE IF j = before THEN after ELSE l.next[j]
  BY Zenon DEF List, remove
<1>2. IsRecencyOrder(new, L)
  BY UnlinkOrder DEF Spells
<1>3. \A i, j : <<i, j>> \in new <=> <<i, j>> \in ord /\ i # k /\ j # k
  BY Zenon DEF Unlink
<1>4. /\ \A i, j : <<i, j>> \in ord => i \in K /\ j \in K
      /\ \A i \in K : <<i, i>> \notin ord
      /\ \A i, j, h \in K : <<i, j>> \in ord /\ <<j, h>> \in ord => <<i, h>> \in ord
      /\ \A i, j \in K : i = j \/ <<i, j>> \in ord \/ <<j, i>> \in ord
  BY Zenon DEF Spells, IsRecencyOrder
<1>5. /\ l.head \in K /\ l.tail \in K
      /\ \A j \in K :
           /\ j = l.head \/ <<j, l.head>> \in ord
           /\ j = l.tail \/ <<l.tail, j>> \in ord
           /\ IF j = l.tail THEN l.next[j] = nil
              ELSE l.next[j] \in K /\ Adjacent(ord, K, l.next[j], j)
           /\ IF j = l.head THEN l.prev[j] = nil
              ELSE l.prev[j] \in K /\ Adjacent(ord, K, j, l.prev[j])
      /\ \A j \in Key \ K : l.next[j] = nil /\ l.prev[j] = nil
  BY DEF Spells
<1> HIDE DEF m, new
<1>6. /\ k = l.head <=> before = nil
      /\ k = l.tail <=> after = nil
      /\ before # nil => before \in L /\ Adjacent(ord, K, k, before)
      /\ after # nil => after \in L /\ Adjacent(ord, K, after, k)
  BY Zenon, <1>4, <1>5, LruAssumption DEF Adjacent
<1>7. \A i, j \in L : Adjacent(ord, K, i, j) => Adjacent(new, L, i, j)
  BY Zenon, <1>3 DEF Adjacent
<1>8. before # nil /\ after # nil => Adjacent(new, L, after, before)
  <2> SUFFICES ASSUME before # nil, after # nil PROVE Adjacent(new, L, after, before)
    BY Zenon
  <2>1. /\ before \in L /\ after \in L /\ <<after, k>> \in ord /\ <<k, before>> \in ord
        /\ \A j \in K : ~ (<<after, j>> \in ord /\ <<j, k>> \in ord)
        /\ \A j \in K : ~ (<<k, j>> \in ord /\ <<j, before>> \in ord)
    BY Zenon, <1>6 DEF Adjacent
  <2>2. k \in K /\ L \subseteq K /\ before \in K /\ after \in K /\ before # k /\ after # k
    BY Zenon, <2>1
  <2>3. <<after, before>> \in new
    BY Zenon, <1>3, <1>4, <2>1, <2>2
  <2>4. ASSUME NEW j \in L, <<after, j>> \in new, <<j, before>> \in new PROVE FALSE
    <3>1. j \in K /\ j # k /\ <<after, j>> \in ord /\ <<j, before>> \in ord
      BY Zenon, <1>3, <2>4
    <3>2. <<j, k>> \in ord \/ <<k, j>> \in ord
      BY Zenon, <1>4, <2>2, <3>1
    <3> QED
      BY Zenon, <2>1, <3>1, <3>2
  <2> QED
    BY Zenon, <2>3, <2>4 DEF Adjacent
\* Neighbours are unique.
<1>9. /\ \A i, j, h \in K : Adjacent(ord, K, i, h) /\ Adjacent(ord, K, j, h) => i = j
      /\ \A i, j, h \in K : Adjacent(ord, K, h, i) /\ Adjacent(ord, K, h, j) => i = j
  BY ZenonT(30), <1>4 DEF Adjacent
<1> HIDE DEF before, after
<1>10. /\ m.head = IF k = l.head THEN after ELSE l.head
       /\ m.tail = IF k = l.tail THEN before ELSE l.tail
  BY <1>1, <1>6
<1>11. /\ \A j \in K : <<l.head, j>> \notin ord /\ <<j, l.tail>> \notin ord
       /\ k = l.head => \A j \in L : j = after \/ <<j, after>> \in ord
       /\ k = l.tail => \A j \in L : j = before \/ <<before, j>> \in ord
       /\ k = l.head /\ k = l.tail => L = {}
  <2>1. \A j \in K : <<l.head, j>> \notin ord /\ <<j, l.tail>> \notin ord
    BY Zenon, <1>4, <1>5
  <2>2. k = l.head /\ k = l.tail => L = {}
    BY ZenonT(60), <1>4, <1>5
  <2>3. ASSUME k = l.head, NEW j \in L PROVE j = after \/ <<j, after>> \in ord
    <3>1. after \in L /\ Adjacent(ord, K, after, k)
      BY Zenon, <1>6, <2>2, <2>3
    <3>2. <<j, k>> \in ord
      BY Zenon, <1>5, <2>3
    <3> QED
      BY <1>4, <3>1, <3>2 DEF Adjacent
  <2>4. ASSUME k = l.tail, NEW j \in L PROVE j = before \/ <<before, j>> \in ord
    <3>1. before \in L /\ Adjacent(ord, K, k, before)
      BY Zenon, <1>6, <2>2, <2>4
    <3>2. <<k, j>> \in ord
      BY Zenon, <1>5, <2>4
    <3> QED
      BY Zenon, <1>4, <3>1, <3>2 DEF Adjacent
  <2> QED
    BY <2>1, <2>2, <2>3, <2>4
<1>12. IF L = {} THEN m.head = nil /\ m.tail = nil ELSE m.head \in L /\ m.tail \in L
  BY ZenonT(30), <1>5, <1>6, <1>10, <1>11
<1>13. ASSUME NEW j \in L
       PROVE  /\ j = m.head \/ <<j, m.head>> \in new
              /\ j = m.tail \/ <<m.tail, j>> \in new
  BY Zenon, <1>3, <1>5, <1>10, <1>11, <1>12
<1>14. ASSUME NEW j \in L
       PROVE  IF j = m.tail THEN m.next[j] = nil
              ELSE m.next[j] \in L /\ Adjacent(new, L, m.next[j], j)
  <2>1. m.next[j] = IF j = before THEN after ELSE l.next[j]
    BY Zenon, <1>1
  <2>2. CASE j = before
    <3>1. j # l.tail
      BY Zenon, <1>6, <1>11, <2>2, LruAssumption DEF Adjacent
    <3> QED
      BY ZenonT(30), <1>6, <1>8, <1>10, <2>1, <2>2, <3>1, LruAssumption
  <2>3. CASE j # before
    <3>1. j # l.tail => l.next[j] \in L
      <4> SUFFICES ASSUME j # l.tail, l.next[j] = k PROVE FALSE
        BY Zenon, <1>5
      <4>1. Adjacent(ord, K, k, j) /\ k # l.head
        BY Zenon, <1>5, <1>11 DEF Adjacent
      <4> QED
        BY ZenonT(30), <1>6, <1>9, <2>3, <4>1
    <3> QED
      BY Zenon, <1>5, <1>7, <1>10, <1>11, <2>1, <2>3, <3>1
  <2> QED
    BY ZenonT(30), <2>2, <2>3
<1>15. ASSUME NEW j \in L
       PROVE  IF j = m.head THEN m.prev[j] = nil
              ELSE m.prev[j] \in L /\ Adjacent(new, L, j, m.prev[j])
  <2>1. m.prev[j] = IF j = after THEN before ELSE l.prev[j]
    BY ZenonT(30), <1>1
  <2>2. CASE j = after
    <3>1. j # l.head
      BY Zenon, <1>6, <1>11, <2>2, LruAssumption DEF Adjacent
    <3> QED
      BY ZenonT(30), <1>6, <1>8, <1>10, <2>1, <2>2, <3>1, LruAssumption
  <2>3. CASE j # after
    <3>1. j # l.head => l.prev[j] \in L
      <4> SUFFICES ASSUME j # l.head, l.prev[j] = k PROVE FALSE
        BY Zenon, <1>5
      <4>1. Adjacent(ord, K, j, k) /\ k # l.tail
        BY Zenon, <1>5, <1>11 DEF Adjacent
      <4> QED
        BY ZenonT(30), <1>6, <1>9, <2>3, <4>1
    <3> QED
      BY Zenon, <1>5, <1>7, <1>10, <1>11, <2>1, <2>3, <3>1
  <2> QED
    BY ZenonT(30), <2>2, <2>3
<1>16. \A j \in Key \ L : m.next[j] = nil /\ m.prev[j] = nil
  BY <1>1, <1>5, <1>6, LruAssumption
<1> QED
  BY Zenon, <1>1, <1>2, <1>12, <1>13, <1>14, <1>15, <1>16 DEF Spells, m, new

\* moveToFront makes an item of the list the most recently used.
LEMMA MoveToFrontSpells ==
  ASSUME NEW l \in List, NEW ord, NEW K \in SUBSET Key, Spells(l, ord, K), NEW k \in K
  PROVE  moveToFront(l, k) \in List /\ Spells(moveToFront(l, k), MoveToFront(ord, K, k), K)
<1>1. CASE l.head = k
  <2>1. ord \subseteq K \X K /\ \A j \in K : j = k \/ <<j, k>> \in ord
    BY Zenon, <1>1 DEF Spells, IsRecencyOrder
  <2>2. \A j \in K : <<k, j>> \notin ord
    BY Zenon, <2>1 DEF Spells, IsRecencyOrder
  <2>3. MoveToFront(ord, K, k) = ord
    BY <2>1, <2>2 DEF MoveToFront, PushFront, Unlink
  <2> QED
    BY Zenon, <1>1, <2>3 DEF moveToFront
<1>2. CASE l.head # k
  <2>1. remove(l, k) \in List /\ Spells(remove(l, k), Unlink(ord, {k}), K \ {k})
    BY RemoveSpells
  <2>2. k \in Key \ (K \ {k}) /\ (K \ {k}) \cup {k} = K /\ K \ {k} \in SUBSET Key
    OBVIOUS
  <2>3. /\ pushFront(remove(l, k), k) \in List
        /\ Spells(pushFront(remove(l, k), k), PushFront(Unlink(ord, {k}), K \ {k}, k), (K \ {k}) \cup {k})
    BY Zenon, <2>1, <2>2, PushFrontSpells
  <2> QED
    BY <1>2, <2>2, <2>3, Zenon DEF moveToFront, MoveToFront
<1> QED
  BY Zenon, <1>1, <1>2

(***************************************************************************)
(* The inductive invariant.  While the loop runs, what is left in the map  *)
(* and in the list is what the shard held at the start without the evicted *)
(* items; those were behind every candidate left, and each was needed.     *)
(***************************************************************************)
Candidates == DOMAIN loop.start.items \ {loop.protectedKey}

Removed == DOMAIN loop.start.items \ linked

Needed == Projected(loop.start, loop.protectedKey, loop.size)

LoopInv ==
  loop.running =>
    /\ linked \subseteq DOMAIN loop.start.items
    /\ \A k \in linked : items[k] = loop.start.items[k]
    /\ \A j, k \in linked : <<j, k>> \in order <=> <<j, k>> \in loop.start.lru
    /\ IsFiniteSet(Bytes(loop.start.items, DOMAIN loop.start.items))
    /\ loop.start.memoryBytes = SumSizes(loop.start.items, DOMAIN loop.start.items)
    /\ loop.protectedKey \notin Removed
    /\ \A g \in Removed, k \in Candidates \ Removed : <<g, k>> \in loop.start.lru
    /\ Removed \subseteq Victims(loop.start, loop.protectedKey, Needed)
    /\ Needed \in Int
    /\ loop.projected = Needed - SumSizes(loop.start.items, Removed)

IInv == TypeOK /\ PointersSpellOrder /\ IsFiniteSet(Bytes(items, linked)) /\ LoopInv

\* The candidate is the least recently used item that is not protected, and
\* there is none only when no such item is left.
LEMMA CandidateIsLeastRecent ==
  ASSUME TypeOK, PointersSpellOrder, NEW p \in Key
  PROVE  LET k == candidate(list, p)
         IN  /\ k = nil => linked \subseteq {p}
             /\ k # nil => /\ k \in linked \ {p}
                           /\ \A j \in linked \ {p} : j = k \/ <<k, j>> \in order
<1>1. /\ \A i, j : <<i, j>> \in order => i \in linked /\ j \in linked
      /\ \A i \in linked : <<i, i>> \notin order
      /\ \A i, j, h \in linked : <<i, j>> \in order /\ <<j, h>> \in order => <<i, h>> \in order
      /\ \A i, j \in linked : i = j \/ <<i, j>> \in order \/ <<j, i>> \in order
  BY ZenonT(30) DEF PointersSpellOrder, Spells, IsRecencyOrder
<1>2. /\ IF linked = {} THEN list.head = nil /\ list.tail = nil
         ELSE list.head \in linked /\ list.tail \in linked
      /\ \A k \in linked :
           /\ k = list.head \/ <<k, list.head>> \in order
           /\ k = list.tail \/ <<list.tail, k>> \in order
           /\ IF k = list.head THEN list.prev[k] = nil
              ELSE list.prev[k] \in linked /\ Adjacent(order, linked, k, list.prev[k])
  BY Zenon DEF PointersSpellOrder, Spells
<1>3. linked \subseteq Key /\ nil \notin linked
  BY LruAssumption DEF TypeOK, Sized, linked
<1> HIDE DEF linked
<1>4. CASE list.tail # p
  BY Zenon, <1>2, <1>3, <1>4 DEF candidate, back
<1>5. CASE list.tail = p
  <2>1. p \in linked /\ candidate(list, p) = list.prev[p]
    BY ZenonT(30), <1>2, <1>3, <1>5, LruAssumption DEF candidate, back
  <2>2. \A j \in linked \ {p} : <<p, j>> \in order
    BY Zenon, <1>2, <1>5
  <2>3. CASE p = list.head
    BY Zenon, <1>1, <1>2, <2>1, <2>2, <2>3
  <2>4. CASE p # list.head
    BY Zenon, <1>1, <1>2, <1>3, <2>1, <2>2, <2>4 DEF Adjacent
  <2> QED
    BY ZenonT(30), <2>3, <2>4
<1> QED
  BY ZenonT(30), <1>4, <1>5

\* No items, no bytes.
LEMMA SumEmpty ==
  ASSUME NEW map
  PROVE  IsFiniteSet(Bytes(map, {})) /\ SumSizes(map, {}) = 0
<1>1. Bytes(map, {}) = {}
  BY Zenon DEF Bytes
<1> QED
  BY <1>1, FS_EmptySet, Zenon DEF SumSizes

\* One item more adds its size.
LEMMA SumAdd ==
  ASSUME NEW map, NEW S, NEW k, k \notin S, map[k].size \in Nat,
         IsFiniteSet(Bytes(map, S))
  PROVE  /\ IsFiniteSet(Bytes(map, S \cup {k}))
         /\ SumSizes(map, S) \in Nat
         /\ SumSizes(map, S \cup {k}) = SumSizes(map, S) + map[k].size
<1> DEFINE T == S \cup {k}
<1>1. IsFiniteSet(Bytes(map, {k})) /\ SumSizes(map, {k}) = map[k].size
  BY Zenon, SumOne
<1>2. Bytes(map, T) = Bytes(map, S) \cup Bytes(map, {k})
  BY DEF Bytes
<1>3. IsFiniteSet(Bytes(map, T))
  <2>1. IsFiniteSet(Bytes(map, S) \cup Bytes(map, {k}))
    BY Zenon, <1>1, FS_Union
  <2> QED
    BY <1>2, <2>1, Zenon
<1>4. S \in SUBSET T /\ T \ S = {k}
  BY Zenon
<1> HIDE DEF T
<1>5. SumSizes(map, S) \in Nat /\ SumSizes(map, T) = SumSizes(map, S) + SumSizes(map, T \ S)
  BY <1>3, <1>4, SumSplit
<1>6. SumSizes(map, T \ S) = map[k].size
  BY <1>1, <1>4, Zenon
<1>7. SumSizes(map, T) = SumSizes(map, S) + map[k].size
  BY Zenon, <1>5, <1>6
<1> QED
  BY ZenonT(30), <1>3, <1>5, <1>7 DEF T

\* Writing an item keeps the map and the list correct.
LEMMA StoreKeeps ==
  ASSUME IInv, NEW k \in Key, NEW size \in ItemSize, Store(k, size)
  PROVE  /\ list' \in List /\ Sized(items)' /\ PointersSpellOrder'
         /\ IsFiniteSet(Bytes(items, linked))'
<1>1. list \in List /\ linked \subseteq Key /\ Spells(list, order, linked)
  BY Zenon DEF IInv, TypeOK, List, PointersSpellOrder, Sized, linked
<1>2. /\ linked' = linked \cup {k}
      /\ \A j \in linked' : items'[j] = IF j = k THEN [size |-> size] ELSE items[j]
  BY DEF Store, linked
<1>3. size \in Nat \ {0}
  BY SMTT(30), LruAssumption, BudgetType
<1>4. Sized(items)'
  BY <1>2, <1>3 DEF IInv, TypeOK, Sized, linked
<1>5. list' \in List /\ Spells(list', order', linked')
  <2>1. CASE k \in linked
    <3>1. linked' = linked
      BY Zenon, <1>2, <2>1
    <3>2. moveToFront(list, k) \in List
          /\ Spells(moveToFront(list, k), MoveToFront(order, linked, k), linked)
      BY ZenonT(30), <1>1, <2>1, MoveToFrontSpells
    <3> QED
      BY Zenon, <2>1, <3>1, <3>2 DEF Store
  <2>2. CASE k \notin linked
    <3>1. order \subseteq linked \X linked
      BY Zenon, <1>1 DEF Spells, IsRecencyOrder
    <3>2. Unlink(order, {k}) = order /\ linked \ {k} = linked
      BY ZenonT(30), <2>2, <3>1 DEF Unlink
    <3>3. MoveToFront(order, linked, k) = PushFront(order, linked, k)
      BY Zenon, <3>2 DEF MoveToFront
    <3>4. pushFront(list, k) \in List
          /\ Spells(pushFront(list, k), PushFront(order, linked, k), linked \cup {k})
      BY ZenonT(30), <1>1, <2>2, PushFrontSpells
    <3> QED
      BY ZenonT(30), <1>2, <2>2, <3>3, <3>4 DEF Store
  <2> QED
    BY Zenon, <2>1, <2>2
<1>6. IsFiniteSet(Bytes(items', linked'))
  <2> DEFINE R == linked \ {k}
  <2>1. R \in SUBSET linked
    OBVIOUS
  <2>2. linked' = R \cup {k} /\ k \notin R
    BY Zenon, <1>2
  <2>3. items'[k].size \in Nat
    BY <1>2, <1>3
  <2>4. \A j \in R : items[j].size = items'[j].size
    BY Zenon, <1>2
  <2> HIDE DEF R
  <2>5. IsFiniteSet(Bytes(items, R))
    BY Zenon, <2>1, SumSplit DEF IInv
  <2>6. Bytes(items, R) = Bytes(items', R)
    BY ZenonT(30), <2>4, SumSame
  <2>7. IsFiniteSet(Bytes(items', R))
    BY <2>5, <2>6, Zenon
  <2>8. IsFiniteSet(Bytes(items', R \cup {k}))
    BY Zenon, <2>2, <2>3, <2>7, SumAdd
  <2> QED
    BY <2>2, <2>8, Zenon
<1> QED
  BY ZenonT(30), <1>4, <1>5, <1>6 DEF PointersSpellOrder

\* Dropping an item keeps the map and the list correct.
LEMMA DropKeeps ==
  ASSUME IInv, NEW k \in linked, Drop(k)
  PROVE  /\ list' \in List /\ Sized(items)' /\ PointersSpellOrder'
         /\ IsFiniteSet(Bytes(items, linked))'
<1>1. list \in List /\ linked \subseteq Key /\ Spells(list, order, linked)
  BY DEF IInv, TypeOK, List, PointersSpellOrder, Sized, linked
<1>2. /\ linked' = linked \ {k}
      /\ \A j \in linked' : items'[j] = items[j]
  BY Zenon DEF Drop, linked
<1>3. Sized(items)'
  BY Zenon, <1>2 DEF IInv, TypeOK, Sized, linked
<1>4. list' \in List /\ Spells(list', order', linked')
  BY ZenonT(30), <1>1, <1>2, RemoveSpells DEF Drop
<1>5. IsFiniteSet(Bytes(items, linked'))
  <2>1. linked' \in SUBSET linked
    BY Zenon, <1>2
  <2> QED
    BY Zenon, <2>1, SumSplit DEF IInv
<1>6. Bytes(items, linked') = Bytes(items', linked')
  BY <1>2, SumSame
<1>7. IsFiniteSet(Bytes(items', linked'))
  BY <1>5, <1>6, Zenon
<1> QED
  BY ZenonT(30), <1>3, <1>4, <1>7 DEF PointersSpellOrder

\* TypeOK from its parts.
LEMMA TypeOKFromParts ==
  ASSUME list' \in List, Sized(items)', PointersSpellOrder',
         loop'.running \in BOOLEAN,
         loop'.running => /\ loop'.protectedKey \in Key /\ loop'.size \in ItemSize
                          /\ loop'.projected \in Int
                          /\ Sized(loop'.start.items) /\ loop'.start.lru \subseteq Key \X Key
  PROVE  TypeOK'
<1>1. order' \subseteq Key \X Key
  BY DEF PointersSpellOrder, Spells, IsRecencyOrder, Sized, linked
<1> QED
  BY ZenonT(30), <1>1 DEF TypeOK, List

\* The loop starts with nothing evicted.
LEMMA EvictStartIInv ==
  ASSUME IInv, NEW k \in Key, NEW size \in ItemSize, EvictStart(k, size)
  PROVE  IInv'
<1>1. /\ loop'.running /\ loop'.protectedKey = k /\ loop'.size = size
      /\ loop'.start.items = items /\ loop'.start.lru = order
      /\ loop'.start.memoryBytes = SumSizes(items, linked)
      /\ loop'.start = sh
      /\ loop'.projected = Projected(sh, k, size)
      /\ items' = items /\ order' = order /\ list' = list /\ linked' = linked
  BY ZenonT(30) DEF EvictStart, sh, linked
<1>2. size \in Nat \ {0}
  BY LruAssumption, BudgetType
<1>3. SumSizes(items, linked) \in Nat
  <2>1. linked \in SUBSET linked
    BY ZenonT(30)
  <2> QED
    BY Zenon, <2>1, SumSplit DEF IInv
<1>4. oldSize(sh, k) \in Nat
  BY DEF oldSize, sh, IInv, TypeOK, Sized
<1>5. Projected(sh, k, size) \in Int
  BY <1>2, <1>3, <1>4 DEF Projected, sh
<1>6. Needed' = Projected(sh, k, size) /\ Removed' = {}
  BY Zenon, <1>1 DEF Needed, Removed, linked
<1>7. SumSizes(items, {}) = 0
  BY ZenonT(30), SumEmpty
<1>8. loop'.projected = Needed' - SumSizes(loop'.start.items, Removed')
  <2>1. SumSizes(loop'.start.items, Removed') = 0
    BY <1>1, <1>6, <1>7, Zenon
  <2> QED
    BY <1>1, <1>5, <1>6, <2>1
<1>9. /\ IsFiniteSet(Bytes(items, linked)) /\ linked = DOMAIN items
      /\ IsFiniteSet(Bytes(loop'.start.items, DOMAIN loop'.start.items))
      /\ loop'.start.memoryBytes = SumSizes(loop'.start.items, DOMAIN loop'.start.items)
  BY <1>1, ZenonT(60) DEF IInv, linked
<1>10. LoopInv'
  BY ZenonT(30), <1>1, <1>5, <1>6, <1>8, <1>9 DEF LoopInv
<1>11. PointersSpellOrder' /\ Sized(items)' /\ list' \in List /\ order \subseteq Key \X Key
  BY ZenonT(30), <1>1 DEF PointersSpellOrder, IInv, TypeOK, Sized, List
<1>12. TypeOK'
  BY ZenonT(30), <1>1, <1>5, <1>11, TypeOKFromParts
<1>13. IsFiniteSet(Bytes(items, linked))'
  BY ZenonT(30), <1>1, <1>9
<1> QED
  BY Zenon, <1>10, <1>11, <1>12, <1>13 DEF IInv

\* One iteration of the loop evicts one more victim.
LEMMA EvictStepIInv ==
  ASSUME IInv, EvictStep
  PROVE  IInv'
<1> DEFINE p == loop.protectedKey
           S == loop.start
           D == DOMAIN S.items
           k == candidate(list, p)
           E == Removed
           sum(T) == SumSizes(S.items, T)
<1>1. /\ p \in Key /\ loop.running /\ loop.projected \in Int /\ loop.size \in ItemSize
      /\ Sized(S.items) /\ S.lru \subseteq Key \X Key /\ Sized(items)
  BY DEF EvictStep, IInv, TypeOK
<1>2. /\ k # nil /\ Drop(k) /\ loop.projected > perShardMemory
      /\ loop' = [loop EXCEPT !.projected = loop.projected - items[k].size]
  BY Zenon DEF EvictStep
<1>3. k \in linked \ {p} /\ \A j \in linked \ {p} : j = k \/ <<k, j>> \in order
  BY ZenonT(30), <1>1, <1>2, CandidateIsLeastRecent DEF IInv
<1>4. /\ linked \subseteq D
      /\ \A j \in linked : items[j] = S.items[j]
      /\ \A i, j \in linked : <<i, j>> \in order <=> <<i, j>> \in S.lru
      /\ IsFiniteSet(Bytes(S.items, D))
      /\ S.memoryBytes = sum(D)
      /\ p \notin E
      /\ \A g \in E, j \in Candidates \ E : <<g, j>> \in S.lru
      /\ E \subseteq Victims(S, p, Needed)
      /\ Needed \in Int
      /\ loop.projected = Needed - sum(E)
  BY ZenonT(30), <1>1 DEF IInv, LoopInv
<1>5. /\ linked' = linked \ {k}
      /\ \A j \in linked' : items'[j] = items[j]
      /\ order' = Unlink(order, {k})
  BY ZenonT(30), <1>2 DEF Drop, linked
<1>6. /\ loop'.running /\ loop'.protectedKey = p /\ loop'.size = loop.size /\ loop'.start = S
  BY <1>1, <1>2
<1>7. k \in D /\ k \notin E /\ k \in Candidates /\ E \subseteq Candidates
  BY ZenonT(30), <1>3, <1>4 DEF Removed, Candidates
<1>8. Candidates' = Candidates /\ Needed' = Needed
  BY ZenonT(30), <1>6 DEF Candidates, Needed
<1>9. Removed' = E \cup {k}
  BY ZenonT(30), <1>4, <1>5, <1>6, <1>7 DEF Removed
<1>10. Behind(S.lru, Candidates, k) = E
  <2>1. \A j \in Candidates : j \in E \/ j \in linked \ {p}
    BY DEF Candidates, Removed
  <2>2. \A j \in linked \ {p} : <<j, k>> \notin S.lru
    <3>1. /\ \A i \in linked : <<i, i>> \notin order
          /\ \A h, i, j \in linked : <<h, i>> \in order /\ <<i, j>> \in order => <<h, j>> \in order
      BY ZenonT(30) DEF IInv, PointersSpellOrder, Spells, IsRecencyOrder
    <3> QED
      BY ZenonT(60), <1>3, <1>4, <3>1
  <2> QED
    BY ZenonT(30), <1>4, <1>7, <2>1, <2>2 DEF Behind
<1>11. items[k].size \in Nat /\ S.items[k].size = items[k].size
  BY ZenonT(30), <1>1, <1>3, <1>4 DEF Sized, linked
<1> HIDE DEF p, S, D, k, E
<1>12. k \in Victims(S, p, Needed)
  <2>1. SumSizes(S.items, Behind(S.lru, Candidates, k)) = sum(E)
    BY <1>10, Zenon
  <2>2. Needed - SumSizes(S.items, Behind(S.lru, Candidates, k)) > perShardMemory
    BY ZenonT(30), <1>2, <1>4, <2>1
  <2> QED
    BY ZenonT(30), <1>7, <2>2 DEF Victims, Candidates, p, S
<1>13. /\ sum(E) \in Nat /\ sum(E \cup {k}) = sum(E) + items[k].size
  <2>1. E \in SUBSET D
    BY DEF E, D, S, Removed
  <2>2. IsFiniteSet(Bytes(S.items, E))
    BY Zenon, <1>4, <2>1, SumSplit
  <2>3. k \notin E /\ S.items[k].size \in Nat
    BY ZenonT(30), <1>7, <1>11
  <2>4. /\ SumSizes(S.items, E) \in Nat
        /\ SumSizes(S.items, E \cup {k}) = SumSizes(S.items, E) + S.items[k].size
    BY ZenonT(30), <2>2, <2>3, SumAdd
  <2> QED
    BY <1>11, <2>4
<1>14. loop'.projected = Needed' - SumSizes(loop'.start.items, Removed')
  <2>1. SumSizes(loop'.start.items, Removed') = sum(E \cup {k})
    BY <1>6, <1>9, Zenon
  <2>2. loop'.projected = loop.projected - items[k].size
    BY <1>1, <1>2, <1>4 DEF IInv, TypeOK
  <2> QED
    BY <1>4, <1>8, <1>11, <1>13, <2>1, <2>2
<1>15. LoopInv'
  <2>1. /\ linked' \subseteq DOMAIN loop'.start.items
        /\ \A j \in linked' : items'[j] = loop'.start.items[j]
        /\ \A i, j \in linked' : <<i, j>> \in order' <=> <<i, j>> \in loop'.start.lru
    BY Zenon, <1>4, <1>5, <1>6 DEF Unlink, D
  <2>2. IsFiniteSet(Bytes(loop'.start.items, DOMAIN loop'.start.items))
        /\ loop'.start.memoryBytes = SumSizes(loop'.start.items, DOMAIN loop'.start.items)
    BY <1>4, <1>6, Zenon DEF D
  <2>3. loop'.protectedKey \notin Removed'
    BY ZenonT(30), <1>3, <1>4, <1>6, <1>9
  <2>4. \A g \in Removed', j \in Candidates' \ Removed' : <<g, j>> \in loop'.start.lru
    <3> SUFFICES ASSUME NEW g \in E \cup {k}, NEW j \in Candidates \ (E \cup {k})
                 PROVE  <<g, j>> \in S.lru
      BY Zenon, <1>6, <1>8, <1>9
    <3>1. CASE g \in E
      BY ZenonT(30), <1>4, <3>1
    <3>2. CASE g = k
      <4>1. j \in linked \ {p} /\ j # k
        BY ZenonT(30) DEF Candidates, Removed, E, p, k
      <4> QED
        BY ZenonT(30), <1>3, <1>4, <3>2, <4>1
    <3> QED
      BY ZenonT(30), <3>1, <3>2
  <2>5. Removed' \subseteq Victims(loop'.start, loop'.protectedKey, Needed')
    BY ZenonT(30), <1>4, <1>6, <1>8, <1>9, <1>12
  <2> QED
    BY Zenon, <1>4, <1>8, <1>14, <2>1, <2>2, <2>3, <2>4, <2>5 DEF LoopInv
<1>16. /\ list' \in List /\ Sized(items)' /\ PointersSpellOrder'
       /\ IsFiniteSet(Bytes(items, linked))'
  BY ZenonT(30), <1>2, <1>3, DropKeeps
<1>17. loop'.projected \in Int
  BY <1>1, <1>2, <1>11 DEF IInv, TypeOK
<1>18. TypeOK'
  BY Zenon, <1>1, <1>6, <1>16, <1>17, TypeOKFromParts
<1> QED
  BY ZenonT(30), <1>15, <1>16, <1>18 DEF IInv

\* Initially the list is empty.
LEMMA InitIInv == Init => IInv
<1> SUFFICES ASSUME Init PROVE IInv
  BY Zenon
<1>1. linked = {} /\ order = {} /\ ~ loop.running /\ list.head = nil /\ list.tail = nil
      /\ \A k \in Key : list.next[k] = nil /\ list.prev[k] = nil
  BY ZenonT(30) DEF Init, linked, emptyList, Idle
<1>2. PointersSpellOrder
  BY ZenonT(30), <1>1 DEF PointersSpellOrder, Spells, IsRecencyOrder
<1>3. TypeOK
  BY <1>1 DEF Init, TypeOK, Sized, emptyList, linked, Idle
<1>4. IsFiniteSet(Bytes(items, linked))
  <2>1. IsFiniteSet(Bytes(items, {}))
    BY ZenonT(30), SumEmpty
  <2> QED
    BY <1>1, <2>1, Zenon
<1> QED
  BY ZenonT(30), <1>1, <1>2, <1>3, <1>4 DEF IInv, LoopInv

\* Every step keeps the invariant.
LEMMA NextIInv == IInv /\ [Next]_vars => IInv'
<1> SUFFICES ASSUME IInv, [Next]_vars PROVE IInv'
  OBVIOUS
<1>1. ASSUME NEW k \in Key, NEW size \in ItemSize, Write(k, size) PROVE IInv'
  <2>1. Store(k, size) /\ loop' = loop /\ ~ loop.running
    BY Zenon, <1>1 DEF Write
  <2>2. /\ list' \in List /\ Sized(items)' /\ PointersSpellOrder'
        /\ IsFiniteSet(Bytes(items, linked))'
    BY ZenonT(30), <2>1, StoreKeeps
  <2>3. TypeOK' /\ LoopInv'
    BY Zenon, <2>1, <2>2, TypeOKFromParts DEF LoopInv, IInv, TypeOK
  <2> QED
    BY ZenonT(30), <2>2, <2>3 DEF IInv
<1>2. ASSUME NEW k \in Key, NEW size \in ItemSize, EvictStart(k, size) PROVE IInv'
  BY <1>2, EvictStartIInv
<1>3. CASE EvictStep
  BY ZenonT(30), <1>3, EvictStepIInv
<1>4. CASE EvictEnd
  <2>1. loop' = Idle /\ loop.protectedKey \in Key /\ loop.size \in ItemSize
    BY ZenonT(30), <1>4 DEF EvictEnd, IInv, TypeOK
  <2>2. ~ loop'.running /\ loop'.running \in BOOLEAN
    BY ZenonT(30), <2>1 DEF Idle
  <2>3. /\ list' \in List /\ Sized(items)' /\ PointersSpellOrder'
        /\ IsFiniteSet(Bytes(items, linked))'
    <3>1. CASE Store(loop.protectedKey, loop.size)
      BY ZenonT(30), <2>1, <3>1, StoreKeeps
    <3>2. CASE UNCHANGED <<list, items, order>>
      BY ZenonT(30), <3>2 DEF IInv, TypeOK, List, Sized, PointersSpellOrder, linked
    <3> QED
      BY ZenonT(30), <1>4, <3>1, <3>2 DEF EvictEnd
  <2>4. TypeOK' /\ LoopInv'
    BY ZenonT(30), <2>2, <2>3, TypeOKFromParts DEF LoopInv
  <2> QED
    BY ZenonT(30), <2>3, <2>4 DEF IInv
<1>5. ASSUME NEW k \in Key, Touch(k) PROVE IInv'
  <2>1. /\ k \in linked /\ list' = moveToFront(list, k) /\ order' = MoveToFront(order, linked, k)
        /\ items' = items /\ linked' = linked /\ loop' = loop /\ ~ loop.running
    BY ZenonT(30), <1>5 DEF Touch, linked
  <2>2. list \in List /\ linked \subseteq Key /\ Spells(list, order, linked)
    BY Zenon DEF IInv, TypeOK, List, PointersSpellOrder, Sized, linked
  <2>3. list' \in List /\ PointersSpellOrder'
    BY ZenonT(30), <2>1, <2>2, MoveToFrontSpells DEF PointersSpellOrder
  <2>4. Sized(items)' /\ IsFiniteSet(Bytes(items, linked))'
    BY ZenonT(30), <2>1 DEF IInv, TypeOK, Sized
  <2>5. TypeOK' /\ LoopInv'
    BY ZenonT(30), <2>1, <2>3, <2>4, TypeOKFromParts DEF LoopInv, IInv, TypeOK
  <2> QED
    BY ZenonT(30), <2>3, <2>4, <2>5 DEF IInv
<1>6. ASSUME NEW k \in Key, Remove(k) PROVE IInv'
  <2>1. k \in linked /\ Drop(k) /\ loop' = loop /\ ~ loop.running
    BY Zenon, <1>6 DEF Remove
  <2>2. /\ list' \in List /\ Sized(items)' /\ PointersSpellOrder'
        /\ IsFiniteSet(Bytes(items, linked))'
    BY ZenonT(30), <2>1, DropKeeps
  <2>3. TypeOK' /\ LoopInv'
    BY ZenonT(30), <2>1, <2>2, TypeOKFromParts DEF LoopInv, IInv, TypeOK
  <2> QED
    BY ZenonT(30), <2>2, <2>3 DEF IInv
<1>7. CASE UNCHANGED vars
  BY Zenon, <1>7 DEF vars, IInv, TypeOK, Sized, PointersSpellOrder, LoopInv, linked, Removed, Candidates,
     Needed
<1> QED
  BY ZenonT(30), <1>1, <1>2, <1>3, <1>4, <1>5, <1>6, <1>7 DEF Next

\* IInv is an invariant of the list and the loop.
THEOREM Invariance == Spec => []IInv
BY InitIInv, NextIInv, PTL DEF Spec

\* The list, the map and the loop keep their types.
THEOREM TypeCorrect == Spec => []TypeOK
<1>1. IInv => TypeOK
  BY ZenonT(30) DEF IInv
<1> QED
  BY <1>1, Invariance, PTL

\* The pointers always spell the order of use, for any number of items.
THEOREM PointersCorrect == Spec => []PointersSpellOrder
<1>1. IInv => PointersSpellOrder
  BY ZenonT(30) DEF IInv
<1> QED
  BY <1>1, Invariance, PTL

\* The loop evicts exactly the items that Victims names.
THEOREM LoopIsVictims == Spec => []LoopEvictsVictims
<1>1. IInv => LoopEvictsVictims
  <2> SUFFICES ASSUME IInv, loop.running, loop.projected <= perShardMemory,
                      NEW g \in Victims(loop.start, loop.protectedKey, Needed), g \notin Removed
               PROVE  FALSE
    BY Zenon DEF LoopEvictsVictims, IInv, LoopInv, Removed, Needed
  <2> DEFINE S == loop.start
             B == Behind(S.lru, Candidates, g)
             D == DOMAIN S.items
             E == Removed
  <2>1. g \in Candidates /\ Needed - SumSizes(S.items, B) > perShardMemory
    BY Zenon DEF Victims, Candidates
  <2>2. /\ IsFiniteSet(Bytes(S.items, D)) /\ Needed \in Int
        /\ loop.projected = Needed - SumSizes(S.items, E)
        /\ \A h \in E, k \in Candidates \ E : <<h, k>> \in S.lru
        /\ loop.protectedKey \notin E
    BY Zenon DEF IInv, LoopInv
  <2>3. E \in SUBSET B /\ B \in SUBSET D
    BY ZenonT(30), <2>1, <2>2 DEF Behind, Removed, Candidates
  <2> HIDE DEF B, D, E, S
  <2>4. /\ SumSizes(S.items, E) \in Nat /\ SumSizes(S.items, B) \in Nat
        /\ SumSizes(S.items, E) <= SumSizes(S.items, B)
    BY ZenonT(30), <2>2, <2>3, SumMonotone
  <2> QED
    BY <2>1, <2>2, <2>4, BudgetType
<1> QED
  BY <1>1, Invariance, PTL

\* The loop never runs out of candidates before the item fits.
THEOREM LoopSucceeds == Spec => []LoopNeverRunsDry
<1>1. IInv => LoopNeverRunsDry
  <2> SUFFICES ASSUME IInv, loop.running, loop.projected > perShardMemory,
                      candidate(list, loop.protectedKey) = nil
               PROVE  FALSE
    BY ZenonT(30) DEF LoopNeverRunsDry
  <2> DEFINE p == loop.protectedKey
             S == loop.start
             D == DOMAIN S.items
             E == Removed
  <2>1. /\ p \in Key /\ loop.size \in ItemSize /\ Sized(S.items)
        /\ linked \subseteq {p}
    BY ZenonT(30), CandidateIsLeastRecent DEF IInv, TypeOK
  <2>2. /\ IsFiniteSet(Bytes(S.items, D)) /\ S.memoryBytes = SumSizes(S.items, D)
        /\ loop.projected = Needed - SumSizes(S.items, E)
        /\ p \notin E
        /\ Needed = S.memoryBytes - oldSize(S, p) + loop.size
    BY Zenon DEF IInv, LoopInv, Needed, Projected
  <2>3. E = D \ {p} /\ E \in SUBSET D
    BY ZenonT(30), <2>1, <2>2 DEF Removed
  <2>4. oldSize(S, p) = IF p \in D THEN S.items[p].size ELSE 0
    BY Zenon DEF oldSize
  <2>5. p \in D => S.items[p].size \in Nat
    BY Zenon, <2>1 DEF Sized
  <2>6. loop.size \in Nat /\ loop.size <= perShardMemory /\ perShardMemory \in Nat
    <3>1. loop.size \in 1 .. perShardMemory
      BY Zenon, <2>1, LruAssumption
    <3> QED
      BY <3>1, BudgetType
  <2> HIDE DEF p, D, E, S
  <2>7. SumSizes(S.items, E) \in Nat /\ IsFiniteSet(Bytes(S.items, E))
    BY ZenonT(60), <2>2, <2>3, SumSplit
  <2>8. CASE p \in D
    <3>1. E \cup {p} = D
      BY ZenonT(30), <2>3, <2>8
    <3> S.items[p].size \in Nat /\ p \notin E
      BY ZenonT(30), <2>2, <2>5, <2>8
    <3>2. SumSizes(S.items, E \cup {p}) = SumSizes(S.items, E) + S.items[p].size
      BY ZenonT(60), <2>7, SumAdd
    <3>3. SumSizes(S.items, D) = SumSizes(S.items, E) + S.items[p].size
      BY <3>1, <3>2, Zenon
    <3> QED
      BY <2>2, <2>4, <2>5, <2>6, <2>7, <2>8, <3>3
  <2>9. CASE p \notin D
    <3>1. E = D
      BY ZenonT(30), <2>3, <2>9
    <3>2. SumSizes(S.items, D) = SumSizes(S.items, E)
      BY <3>1, Zenon
    <3> QED
      BY <2>2, <2>4, <2>6, <2>7, <2>9, <3>2
  <2> QED
    BY ZenonT(30), <2>8, <2>9
<1> QED
  BY <1>1, Invariance, PTL
=============================================================================
