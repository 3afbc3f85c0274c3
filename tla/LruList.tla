------------------------------ MODULE LruList ------------------------------
(***************************************************************************)
(* The intrusive doubly-linked list of a shard (src/internal/store/lru.go) *)
(* with its pointers, and the eviction loop that walks it                  *)
(* (evictUntilFitsLocked, shard.go) with one step per iteration.           *)
(*                                                                         *)
(* Module Shard takes the list for an order relation and the loop for the  *)
(* set of its victims.  This module runs the pointers and the loop beside  *)
(* that order and shows that the two agree.  Items have no TTL here.       *)
(***************************************************************************)
EXTENDS Shard

CONSTANTS
  nil,      \* the nil pointer
  ItemSize  \* the sizes of the items written

ASSUME LruAssumption ==
  /\ nil \notin Key
  /\ ItemSize \subseteq 1 .. perShardMemory

VARIABLES
  list,   \* lruList: head and tail; prev and next of each storedItem
  items,  \* shard.items, of each item its size
  order,  \* the order of use, as module Shard keeps it
  loop    \* the locals of a running evictUntilFitsLocked

vars == <<list, items, order, loop>>

linked == DOMAIN items

sh == [items |-> items, lru |-> order, memoryBytes |-> SumSizes(items, linked)]

-----------------------------------------------------------------------------
(***************************************************************************)
(* The methods of lruList.                                                 *)
(***************************************************************************)
emptyList ==
  [head |-> nil, tail |-> nil, prev |-> [k \in Key |-> nil], next |-> [k \in Key |-> nil]]

pushFront(l, item) ==
  [head |-> item,
   tail |-> IF l.tail = nil THEN item ELSE l.tail,
   prev |-> [k \in Key |-> CASE k = l.head -> item
                             [] k = item /\ k # l.head -> nil
                             [] OTHER -> l.prev[k]],
   next |-> [l.next EXCEPT ![item] = l.head]]

remove(l, item) ==
  LET before == l.prev[item]
      after  == l.next[item]
  IN  [head |-> IF before = nil THEN after ELSE l.head,
       tail |-> IF after = nil THEN before ELSE l.tail,
       prev |-> [k \in Key |-> CASE k = item -> nil
                                 [] k = after /\ k # item -> before
                                 [] OTHER -> l.prev[k]],
       next |-> [k \in Key |-> CASE k = item -> nil
                                 [] k = before /\ k # item -> after
                                 [] OTHER -> l.next[k]]]

\* Mutant: the item is not unlinked from its place.
moveToFront_KeepsNode(l, item) == pushFront(l, item)

moveToFront(l, item) == IF l.head = item THEN l ELSE pushFront(remove(l, item), item)

back(l) == l.tail

\* Mutant: the walk starts at the front.
candidate_FromFront(l, protectedKey) ==
  IF l.head = protectedKey THEN l.next[l.head] ELSE l.head

\* The eviction loop's choice: the last item of the list that is not protected.
candidate(l, protectedKey) ==
  IF back(l) = protectedKey THEN l.prev[back(l)] ELSE back(l)

-----------------------------------------------------------------------------
Idle == [running |-> FALSE]

Init ==
  /\ list = emptyList
  /\ items = [k \in {} |-> 0]
  /\ order = {}
  /\ loop = Idle

\* The item is written and is now in front: set, cas and incr at their end.
Store(k, size) ==
  /\ items' = [j \in linked \cup {k} |-> IF j = k THEN [size |-> size] ELSE items[j]]
  /\ list' = IF k \in linked THEN moveToFront(list, k) ELSE pushFront(list, k)
  /\ order' = MoveToFront(order, linked, k)

\* The item is gone from the map and the list: deleteLocked.
Drop(k) ==
  /\ items' = [j \in linked \ {k} |-> items[j]]
  /\ list' = remove(list, k)
  /\ order' = Unlink(order, {k})

\* A write that fits.
Write(k, size) ==
  /\ ~ loop.running
  /\ Projected(sh, k, size) <= perShardMemory
  /\ Store(k, size)
  /\ UNCHANGED loop

\* A write that does not fit calls evictUntilFitsLocked.
EvictStart(k, size) ==
  /\ ~ loop.running
  /\ Projected(sh, k, size) > perShardMemory
  /\ loop' = [running |-> TRUE, protectedKey |-> k, size |-> size, start |-> sh,
              projected |-> Projected(sh, k, size)]
  /\ UNCHANGED <<list, items, order>>

\* One iteration of the loop.
EvictStep ==
  /\ loop.running
  /\ loop.projected > perShardMemory
  /\ LET k == candidate(list, loop.protectedKey)
     IN  /\ k # nil
         /\ Drop(k)
         /\ loop' = [loop EXCEPT !.projected = loop.projected - items[k].size]

\* The loop ends, for lack of need or of candidates; if it made room the
\* caller writes the item.
EvictEnd ==
  /\ loop.running
  /\ \/ loop.projected <= perShardMemory
     \/ candidate(list, loop.protectedKey) = nil
  /\ IF loop.projected <= perShardMemory
     THEN Store(loop.protectedKey, loop.size)
     ELSE UNCHANGED <<list, items, order>>
  /\ loop' = Idle

\* A read.
Touch(k) ==
  /\ ~ loop.running
  /\ k \in linked
  /\ list' = moveToFront(list, k)
  /\ order' = MoveToFront(order, linked, k)
  /\ UNCHANGED <<items, loop>>

Remove(k) ==
  /\ ~ loop.running
  /\ k \in linked
  /\ Drop(k)
  /\ UNCHANGED loop

Next ==
  \/ \E k \in Key, size \in ItemSize : Write(k, size) \/ EvictStart(k, size)
  \/ EvictStep
  \/ EvictEnd
  \/ \E k \in Key : Touch(k) \/ Remove(k)

Spec == Init /\ [][Next]_vars

-----------------------------------------------------------------------------
\* A map of items.
Sized(map) ==
  /\ DOMAIN map \subseteq Key
  /\ \A k \in DOMAIN map : DOMAIN map[k] = {"size"} /\ map[k].size \in Nat \ {0}

\* Every variable has its type.
TypeOK ==
  /\ list \in [head : Key \cup {nil}, tail : Key \cup {nil},
               prev : [Key -> Key \cup {nil}], next : [Key -> Key \cup {nil}]]
  /\ Sized(items)
  /\ order \subseteq Key \X Key
  /\ loop.running \in BOOLEAN
  /\ loop.running => /\ loop.protectedKey \in Key /\ loop.size \in ItemSize
                     /\ loop.projected \in Int
                     /\ Sized(loop.start.items) /\ loop.start.lru \subseteq Key \X Key

\* Of the items K, k is the one used next after j.
Adjacent(ord, K, j, k) ==
  /\ <<j, k>> \in ord
  /\ ~ \E i \in K : <<j, i>> \in ord /\ <<i, k>> \in ord

\* The list l holds the items K in the order ord, the latest in front.
Spells(l, ord, K) ==
  /\ IsRecencyOrder(ord, K)
  /\ IF K = {} THEN l.head = nil /\ l.tail = nil ELSE l.head \in K /\ l.tail \in K
  /\ \A k \in K :
       /\ k = l.head \/ <<k, l.head>> \in ord
       /\ k = l.tail \/ <<l.tail, k>> \in ord
       /\ IF k = l.tail THEN l.next[k] = nil ELSE l.next[k] \in K /\ Adjacent(ord, K, l.next[k], k)
       /\ IF k = l.head THEN l.prev[k] = nil ELSE l.prev[k] \in K /\ Adjacent(ord, K, k, l.prev[k])
  /\ \A k \in Key \ K : l.next[k] = nil /\ l.prev[k] = nil

\* The pointers spell the order of use at every step, in the middle of an
\* eviction too: next leads to the item used just before, prev back, head is
\* the most and tail the least recently used item, and an item that left the
\* list keeps no pointer into it.
PointersSpellOrder == Spells(list, order, linked)

\* The loop evicts exactly the items that Victims of module Shard names: all
\* of them when it ends, and none too many on the way.
LoopEvictsVictims ==
  loop.running =>
    LET victims == Victims(loop.start, loop.protectedKey,
                           Projected(loop.start, loop.protectedKey, loop.size))
        evicted == DOMAIN loop.start.items \ linked
    IN  /\ evicted \subseteq victims
        /\ loop.projected <= perShardMemory => evicted = victims

\* The loop never runs out of candidates: its "return false" is not reached,
\* because the callers refuse an item that would not fit an empty shard.
LoopNeverRunsDry ==
  loop.running /\ loop.projected > perShardMemory => candidate(list, loop.protectedKey) # nil
=============================================================================
