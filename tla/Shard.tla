------------------------------- MODULE Shard -------------------------------
(***************************************************************************)
(* One shard of the store (src/internal/store/shard.go): a map of items    *)
(* under one mutex, with an LRU list, a memory budget and time-to-live.    *)
(*                                                                         *)
(* Every method of the shard holds sh.mu from its first to its last line   *)
(* and reads the clock once, so each is an operator from the shard before  *)
(* the call to its outcome: the shard after the call, what is returned,    *)
(* and whether a version was taken from the store's cas counter.  Module   *)
(* Store turns these operators into the actions of concurrent clients.     *)
(***************************************************************************)
EXTENDS Integers, FiniteSets, Recency

CONSTANTS
  Key,                \* the keys
  KeyLen,             \* the length of each key in bytes
  MaxValueBytes,      \* Config.MaxValueBytes, after normalizeConfig
  MaxMemoryBytes,     \* Config.MaxMemoryBytes, after normalizeConfig
  ItemOverheadBytes,  \* Config.ItemOverheadBytes, after normalizeConfig
  Shards,             \* Config.Shards, after normalizeConfig
  MaxUint64,          \* the largest counter value INCR can hold
  MaxDigits           \* the number of decimal digits of MaxUint64

ASSUME ConfigAssumption ==
  /\ KeyLen \in [Key -> Nat \ {0}]
  /\ MaxValueBytes \in Nat \ {0}
  /\ MaxMemoryBytes \in Nat \ {0}
  /\ ItemOverheadBytes \in Nat
  /\ Shards \in Nat \ {0}
  /\ MaxUint64 \in Nat
  /\ MaxDigits \in Nat \ {0}

\* Mutant: the division rounds up.
perShardMemory_RoundsUp == (MaxMemoryBytes + Shards - 1) \div Shards

\* Each shard's slice of the memory budget (New).
perShardMemory ==
  IF MaxMemoryBytes \div Shards < 1 THEN 1 ELSE MaxMemoryBytes \div Shards

-----------------------------------------------------------------------------
(***************************************************************************)
(* Values.  Of a value's bytes the shard looks at their number and, in     *)
(* incr, at the decimal number they spell: num is that number, or          *)
(* NotDecimal when some byte is not a digit or there is none.  Leading     *)
(* zeros make len larger than the number needs.                            *)
(***************************************************************************)
NotDecimal == -1

Value == [len : Nat, num : Nat \cup {NotDecimal}]

\* The length of n in decimal without leading zeros.
DecimalLen(n) == 1 + Cardinality({d \in 1 .. MaxDigits - 1 : 10 ^ d <= n})

\* strconv.FormatUint(n, 10): the canonical spelling, so incr drops leading
\* zeros and the value may become shorter as well as longer.
FormatUint(n) == [len |-> DecimalLen(n), num |-> n]

\* isDecimal followed by a ParseUint that does not overflow.
isUint(value) == value.num # NotDecimal /\ value.num <= MaxUint64

(***************************************************************************)
(* Items.  The zero time, an item without TTL, is 0; the clock starts at 1.*)
(***************************************************************************)
NoExpiry == 0

Item == [value : Value, expiresAt : Nat, size : Nat, cas : Nat]

expiresAt(now, ttl) == IF ttl <= 0 THEN NoExpiry ELSE now + ttl

\* Mutant: an item lives on at the instant its TTL ends.
expired_Late(item, now) == item.expiresAt # NoExpiry /\ now > item.expiresAt

expired(item, now) == item.expiresAt # NoExpiry /\ now >= item.expiresAt

itemSize(key, valueBytes) == KeyLen[key] + valueBytes + ItemOverheadBytes

-----------------------------------------------------------------------------
(***************************************************************************)
(* Sums over items.  The loops of the shard add up the sizes of sets of    *)
(* items.  Such a sum is the number of bytes the items occupy when each    *)
(* has its own numbered bytes.                                             *)
(***************************************************************************)
Bytes(items, S) == UNION {{k} \X (1 .. items[k].size) : k \in S}

SumSizes(items, S) == Cardinality(Bytes(items, S))

WithTTL(items, S) == {k \in S : items[k].expiresAt # NoExpiry}

Expired(items, now) == {k \in DOMAIN items : expired(items[k], now)}

-----------------------------------------------------------------------------
newShard ==
  [items |-> [k \in {} |-> 0], lru |-> {}, memoryBytes |-> 0, ttlCount |-> 0,
   evictions |-> 0, expirations |-> 0]

\* Mutant: the totals are not reduced.
deleteLocked_KeepsTotals(sh, S) ==
  [sh EXCEPT !.items = [k \in DOMAIN sh.items \ S |-> sh.items[k]],
             !.lru = Unlink(sh.lru, S)]

\* Mutant: the item stays in the list.
deleteLocked_KeepsNode(sh, S) ==
  [sh EXCEPT !.items = [k \in DOMAIN sh.items \ S |-> sh.items[k]],
             !.memoryBytes = sh.memoryBytes - SumSizes(sh.items, S),
             !.ttlCount = sh.ttlCount - Cardinality(WithTTL(sh.items, S))]

\* deleteLocked, called on each item of S.
deleteLocked(sh, S) ==
  [sh EXCEPT !.items = [k \in DOMAIN sh.items \ S |-> sh.items[k]],
             !.lru = Unlink(sh.lru, S),
             !.memoryBytes = sh.memoryBytes - SumSizes(sh.items, S),
             !.ttlCount = sh.ttlCount - Cardinality(WithTTL(sh.items, S))]

\* Mutant: the counter is set, not increased.
removeExpiredLocked_Overwrites(sh, now) ==
  [deleteLocked(sh, Expired(sh.items, now)) EXCEPT
     !.expirations = Cardinality(Expired(sh.items, now))]

removeExpiredLocked(sh, now) ==
  [deleteLocked(sh, Expired(sh.items, now)) EXCEPT
     !.expirations = sh.expirations + Cardinality(Expired(sh.items, now))]

\* Mutant: a shard filled to the last byte counts as over the budget.
Victims_FullIsOver(sh, protectedKey, projected) ==
  LET candidates == DOMAIN sh.items \ {protectedKey}
  IN  {k \in candidates :
         projected - SumSizes(sh.items, Behind(sh.lru, candidates, k)) >= perShardMemory}

(***************************************************************************)
(* evictUntilFitsLocked takes candidates from the back of the list,        *)
(* skipping protectedKey, while the projection is over the budget: an item *)
(* is evicted exactly when evicting all the candidates behind it was not   *)
(* enough.  The call fails when the candidates run out first.              *)
(***************************************************************************)
Victims(sh, protectedKey, projected) ==
  LET candidates == DOMAIN sh.items \ {protectedKey}
  IN  {k \in candidates :
         projected - SumSizes(sh.items, Behind(sh.lru, candidates, k)) > perShardMemory}

evictUntilFitsLocked(sh, protectedKey, projected) ==
  LET victims == Victims(sh, protectedKey, projected)
  IN  [sh |-> [deleteLocked(sh, victims) EXCEPT
                 !.evictions = sh.evictions + Cardinality(victims)],
       ok |-> projected - SumSizes(sh.items, victims) <= perShardMemory]

-----------------------------------------------------------------------------
(***************************************************************************)
(* The part set, cas and incr share: what the shard would hold with key at *)
(* the new size; expired items go first when that is over the budget, then *)
(* least recently used ones; then the item is written and moved in front.  *)
(***************************************************************************)
\* Mutant: an overwrite frees nothing.
oldSize_Ignored(sh, key) == 0

oldSize(sh, key) == IF key \in DOMAIN sh.items THEN sh.items[key].size ELSE 0

Projected(sh, key, size) == sh.memoryBytes - oldSize(sh, key) + size

\* Mutant: the fast path takes a shard with one TTL item for one without.
reclaimExpired_MissesOne(sh, key, size, now) ==
  IF Projected(sh, key, size) > perShardMemory /\ sh.ttlCount > 1
  THEN removeExpiredLocked(sh, now)
  ELSE sh

reclaimExpired(sh, key, size, now) ==
  IF Projected(sh, key, size) > perShardMemory /\ sh.ttlCount > 0
  THEN removeExpiredLocked(sh, now)
  ELSE sh

\* Mutant: what the shard holds before the write is compared with the budget.
makeRoom_TooLate(sh, key, size) ==
  IF sh.memoryBytes > perShardMemory
  THEN evictUntilFitsLocked(sh, key, Projected(sh, key, size))
  ELSE [sh |-> sh, ok |-> TRUE]

makeRoom(sh, key, size) ==
  IF Projected(sh, key, size) > perShardMemory
  THEN evictUntilFitsLocked(sh, key, Projected(sh, key, size))
  ELSE [sh |-> sh, ok |-> TRUE]

HasTTL(sh, key) == IF key \in DOMAIN sh.items /\ sh.items[key].expiresAt # NoExpiry THEN 1 ELSE 0

write(sh, key, item) ==
  [sh EXCEPT !.items = [k \in DOMAIN sh.items \cup {key} |->
                          IF k = key THEN item ELSE sh.items[k]],
             !.lru = MoveToFront(sh.lru, DOMAIN sh.items, key),
             !.ttlCount = sh.ttlCount - HasTTL(sh, key)
                            + (IF item.expiresAt # NoExpiry THEN 1 ELSE 0),
             !.memoryBytes = Projected(sh, key, item.size)]

Fail(sh, err) == [sh |-> sh, err |-> err, stamped |-> FALSE]

Done(sh, stamped) == [sh |-> sh, err |-> "nil", stamped |-> stamped]

-----------------------------------------------------------------------------
(***************************************************************************)
(* The methods of the shard.  newCAS is what casCounter.Add(1) returns.    *)
(***************************************************************************)
set(shard, key, value, ttl, now, newCAS) ==
  LET stale == key \in Expired(shard.items, now)
      sh0   == IF stale THEN deleteLocked(shard, {key}) ELSE shard
      size  == itemSize(key, value.len)
      sh1   == reclaimExpired(sh0, key, size, now)
      room  == makeRoom(sh1, key, size)
      item  == [value |-> value, expiresAt |-> expiresAt(now, ttl),
                size |-> size, cas |-> newCAS]
  IN  IF value.len > MaxValueBytes THEN Fail(shard, "ErrValueTooLarge")
      ELSE IF size > perShardMemory THEN Fail(sh0, "ErrMemoryLimitExceeded")
      ELSE IF ~ room.ok THEN Fail(room.sh, "ErrMemoryLimitExceeded")
      ELSE Done(write(room.sh, key, item), TRUE)

\* Mutant: a read is no use.
get_LeavesOrder(sh, key, now) ==
  IF key \notin DOMAIN sh.items THEN Fail(sh, "ErrNotFound")
  ELSE IF expired(sh.items[key], now) THEN Fail(deleteLocked(sh, {key}), "ErrNotFound")
  ELSE Done(sh, FALSE)

\* Mutant: a read does not look at the expiry.
get_ReadsExpired(sh, key, now) ==
  IF key \notin DOMAIN sh.items THEN Fail(sh, "ErrNotFound")
  ELSE Done([sh EXCEPT !.lru = MoveToFront(sh.lru, DOMAIN sh.items, key)], FALSE)

get(sh, key, now) ==
  IF key \notin DOMAIN sh.items THEN Fail(sh, "ErrNotFound")
  ELSE IF expired(sh.items[key], now) THEN Fail(deleteLocked(sh, {key}), "ErrNotFound")
  ELSE Done([sh EXCEPT !.lru = MoveToFront(sh.lru, DOMAIN sh.items, key)], FALSE)

\* Mutant: the version is not compared.
cas_AnyVersion(shard, key, value, ttl, expected, now, newCAS) ==
  IF key \notin DOMAIN shard.items THEN Fail(shard, "ErrNotFound")
  ELSE set(shard, key, value, ttl, now, newCAS)

\* Mutant: the version is compared with the latest one of the whole store.
cas_LatestOnly(shard, key, value, ttl, expected, now, newCAS) ==
  IF key \notin DOMAIN shard.items THEN Fail(shard, "ErrNotFound")
  ELSE IF expected # newCAS - 1 THEN Fail(shard, "ErrCasMismatch")
  ELSE set(shard, key, value, ttl, now, newCAS)

\* Mutant: room is made before the size is compared with the budget.
cas_EvictsFirst(shard, key, value, ttl, expected, now, newCAS) ==
  IF key \notin DOMAIN shard.items THEN Fail(shard, "ErrNotFound")
  ELSE IF expired(shard.items[key], now) THEN Fail(deleteLocked(shard, {key}), "ErrNotFound")
  ELSE IF shard.items[key].cas # expected THEN Fail(shard, "ErrCasMismatch")
  ELSE IF itemSize(key, value.len) > perShardMemory
       THEN Fail(makeRoom(shard, key, itemSize(key, value.len)).sh, "ErrMemoryLimitExceeded")
  ELSE set(shard, key, value, ttl, now, newCAS)

cas(shard, key, value, ttl, expected, now, newCAS) ==
  LET size == itemSize(key, value.len)
      sh1  == reclaimExpired(shard, key, size, now)
      room == makeRoom(sh1, key, size)
      item == [value |-> value, expiresAt |-> expiresAt(now, ttl),
               size |-> size, cas |-> newCAS]
  IN  IF value.len > MaxValueBytes THEN Fail(shard, "ErrValueTooLarge")
      ELSE IF key \notin DOMAIN shard.items THEN Fail(shard, "ErrNotFound")
      ELSE IF expired(shard.items[key], now) THEN Fail(deleteLocked(shard, {key}), "ErrNotFound")
      ELSE IF shard.items[key].cas # expected THEN Fail(shard, "ErrCasMismatch")
      ELSE IF size > perShardMemory THEN Fail(shard, "ErrMemoryLimitExceeded")
      ELSE IF key \notin DOMAIN sh1.items THEN Fail(sh1, "ErrNotFound")
      ELSE IF ~ room.ok THEN Fail(room.sh, "ErrMemoryLimitExceeded")
      ELSE Done(write(room.sh, key, item), TRUE)

delete(sh, key, now) ==
  IF key \notin DOMAIN sh.items THEN Fail(sh, "ErrNotFound")
  ELSE IF expired(sh.items[key], now) THEN Fail(deleteLocked(sh, {key}), "ErrNotFound")
  ELSE Done(deleteLocked(sh, {key}), FALSE)

\* INCR with none of the checks of the new number.
Incremented(shard, key, delta, now, version) ==
  LET next == (shard.items[key].value.num + delta) % (MaxUint64 + 1)
      size == itemSize(key, FormatUint(next).len)
      sh1  == reclaimExpired(shard, key, size, now)
      item == [value |-> FormatUint(next), expiresAt |-> shard.items[key].expiresAt,
               size |-> size, cas |-> version]
  IN  IF /\ key \in DOMAIN shard.items /\ size <= perShardMemory
         /\ ~ expired(shard.items[key], now) /\ isUint(shard.items[key].value)
      THEN Done(write(makeRoom(sh1, key, size).sh, key, item), TRUE)
      ELSE Fail(shard, "ErrNotFound")

\* Mutant: the sum may wrap around.
incr_Wraps(shard, key, delta, now, newCAS) == Incremented(shard, key, delta, now, newCAS)

\* Mutant: the item keeps its version.
incr_KeepsVersion(shard, key, delta, now, newCAS) ==
  Incremented(shard, key, delta, now, shard.items[key].cas)

incr(shard, key, delta, now, newCAS) ==
  LET next == (shard.items[key].value.num + delta) % (MaxUint64 + 1)
      size == itemSize(key, FormatUint(next).len)
      sh1  == reclaimExpired(shard, key, size, now)
      room == makeRoom(sh1, key, size)
      item == [value |-> FormatUint(next), expiresAt |-> shard.items[key].expiresAt,
               size |-> size, cas |-> newCAS]
  IN  IF key \notin DOMAIN shard.items THEN Fail(shard, "ErrNotFound")
      ELSE IF expired(shard.items[key], now) THEN Fail(deleteLocked(shard, {key}), "ErrNotFound")
      ELSE IF ~ isUint(shard.items[key].value) THEN Fail(shard, "ErrNotInteger")
      ELSE IF MaxUint64 - shard.items[key].value.num < delta THEN Fail(shard, "ErrOverflow")
      ELSE IF FormatUint(next).len > MaxValueBytes THEN Fail(shard, "ErrValueTooLarge")
      ELSE IF size > perShardMemory THEN Fail(shard, "ErrMemoryLimitExceeded")
      ELSE IF key \notin DOMAIN sh1.items THEN Fail(sh1, "ErrNotFound")
      ELSE IF ~ room.ok THEN Fail(room.sh, "ErrMemoryLimitExceeded")
      ELSE Done(write(room.sh, key, item), TRUE)

\* cleanupExpired repeats removeExpiredLocked under the mutex.
cleanupExpired(sh, now) == removeExpiredLocked(sh, now)

-----------------------------------------------------------------------------
(***************************************************************************)
(* What is true of a shard whenever its mutex is free.                     *)
(***************************************************************************)
ShardTyped(sh) ==
  /\ DOMAIN sh = {"items", "lru", "memoryBytes", "ttlCount", "evictions", "expirations"}
  /\ DOMAIN sh.items \subseteq Key
  /\ \A k \in DOMAIN sh.items : sh.items[k] \in Item
  /\ sh.memoryBytes \in Int /\ sh.ttlCount \in Int
  /\ sh.evictions \in Nat /\ sh.expirations \in Nat

\* The running totals agree with the items they are totals of.
Accounted(sh) ==
  /\ sh.memoryBytes = SumSizes(sh.items, DOMAIN sh.items)
  /\ sh.ttlCount = Cardinality(WithTTL(sh.items, DOMAIN sh.items))
  /\ \A k \in DOMAIN sh.items : sh.items[k].size = itemSize(k, sh.items[k].value.len)

\* What holds of a shard at every moment, also in the middle of a method: the
\* inductive form of its correctness, the budget aside.
ShardOK(sh) ==
  /\ ShardTyped(sh)
  /\ Accounted(sh)
  /\ IsRecencyOrder(sh.lru, DOMAIN sh.items)
  /\ IsFiniteSet(DOMAIN sh.items)
  /\ IsFiniteSet(Bytes(sh.items, DOMAIN sh.items))

-----------------------------------------------------------------------------
(***************************************************************************)
(* What a method does to a shard, in the terms of the proofs.              *)
(***************************************************************************)
\* later is a correct shard that lost some of the items of sh and changed none.
Shrunk(sh, later) ==
  /\ ShardOK(later)
  /\ DOMAIN later.items \subseteq DOMAIN sh.items
  /\ \A k \in DOMAIN later.items : later.items[k] = sh.items[k]

\* Every item of sh that is live at now is still there.
KeepsLive(sh, later, now) ==
  \A k \in DOMAIN sh.items :
    ~ expired(sh.items[k], now) => k \in DOMAIN later.items /\ later.items[k] = sh.items[k]

\* What a call on key returns is correct: the shard is, and within its budget;
\* every item it holds is as it was before, or it is key's and freshly stamped;
\* and a failed call evicted nothing and left every live item as it was.
Correct(sh, key, now, newCAS, out) ==
  /\ ShardOK(out.sh) /\ out.sh.memoryBytes <= perShardMemory
  /\ out.stamped \in BOOLEAN
  /\ out.err \in {"nil", "ErrNotFound", "ErrNotInteger", "ErrOverflow", "ErrValueTooLarge",
                  "ErrMemoryLimitExceeded", "ErrCasMismatch"}
  /\ \A k \in DOMAIN out.sh.items :
       \/ k \in DOMAIN sh.items /\ out.sh.items[k] = sh.items[k]
       \/ k = key /\ out.stamped /\ out.sh.items[k].cas = newCAS
  /\ out.err # "nil" => /\ out.sh.evictions = sh.evictions
                        /\ KeepsLive(sh, out.sh, now)
                        /\ ~ out.stamped

-----------------------------------------------------------------------------
(***************************************************************************)
(* What shows of a shard to clients, in the terms of module Cache.         *)
(***************************************************************************)
\* The error of a write that no eviction can make fit, or nil.
Refusal(k, value) ==
  IF value.len > MaxValueBytes THEN "ErrValueTooLarge"
  ELSE IF itemSize(k, value.len) > perShardMemory THEN "ErrMemoryLimitExceeded"
  ELSE "nil"

\* What clients can learn of an item.
Entry(item) == [value |-> item.value, expiresAt |-> item.expiresAt, cas |-> item.cas]

\* key is stored and not expired.
LiveIn(sh, key, t) == key \in DOMAIN sh.items /\ ~ expired(sh.items[key], t)

\* The shard stores this value under key.
Stores(sh, key, value, end, version) ==
  /\ key \in DOMAIN sh.items
  /\ Entry(sh.items[key]) = [value |-> value, expiresAt |-> end, cas |-> version]

\* The answer of cas, from the live item under key.
CasAnswer(sh, key, value, expected, t) ==
  IF Refusal(key, value) = "ErrValueTooLarge" THEN "ErrValueTooLarge"
  ELSE IF ~ LiveIn(sh, key, t) THEN "ErrNotFound"
  ELSE IF sh.items[key].cas # expected THEN "ErrCasMismatch"
  ELSE Refusal(key, value)

\* The answer of incr, from the live item under key.
IncrAnswer(sh, key, delta, t) ==
  IF ~ LiveIn(sh, key, t) THEN "ErrNotFound"
  ELSE IF ~ isUint(sh.items[key].value) THEN "ErrNotInteger"
  ELSE IF sh.items[key].value.num + delta > MaxUint64 THEN "ErrOverflow"
  ELSE Refusal(key, FormatUint(sh.items[key].value.num + delta))
=============================================================================
