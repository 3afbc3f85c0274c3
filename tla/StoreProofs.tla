---------------------------- MODULE StoreProofs -----------------------------
(***************************************************************************)
(* Proofs about the store under concurrent clients and the sweeper, for    *)
(* every number of keys, shards and clients and every configuration.       *)
(***************************************************************************)
EXTENDS Store, ShardProofs

\* A new shard is correct and within its budget.
LEMMA NewShardOK == ShardOK(newShard) /\ newShard.memoryBytes <= perShardMemory
<1>1. IsFiniteSet({}) /\ Cardinality({}) = 0
  BY Zenon, FS_EmptySet
<1>2. /\ DOMAIN newShard.items = {} /\ newShard.memoryBytes = 0 /\ newShard.ttlCount = 0
      /\ newShard.lru = {} /\ newShard.evictions = 0 /\ newShard.expirations = 0
      /\ DOMAIN newShard = {"items", "lru", "memoryBytes", "ttlCount", "evictions", "expirations"}
  BY DEF newShard
<1>3. Bytes(newShard.items, {}) = {} /\ WithTTL(newShard.items, {}) = {}
  BY DEF Bytes, WithTTL
<1>4. SumSizes(newShard.items, {}) = 0 /\ Cardinality(WithTTL(newShard.items, {})) = 0
  BY <1>1, <1>3, Zenon DEF SumSizes
<1>5. ShardTyped(newShard)
  BY <1>2 DEF ShardTyped
<1>6. Accounted(newShard)
  BY Zenon, <1>2, <1>4 DEF Accounted
<1>7. IsRecencyOrder(newShard.lru, DOMAIN newShard.items)
  BY <1>2 DEF IsRecencyOrder
<1>8. IsFiniteSet(DOMAIN newShard.items) /\ IsFiniteSet(Bytes(newShard.items, DOMAIN newShard.items))
  BY <1>1, <1>2, <1>3, Zenon
<1>9. newShard.memoryBytes <= perShardMemory
  BY <1>2, BudgetType
<1> QED
  BY ZenonT(30), <1>5, <1>6, <1>7, <1>8, <1>9 DEF ShardOK

\* Initially the invariant holds.
LEMMA InitIInv == Init => IInv
<1> SUFFICES ASSUME Init PROVE IInv
  BY Zenon
<1>1. \A s \in 1 .. Shards : shards[s] = newShard /\ Stored(s) = {}
  BY Zenon DEF Init, Stored, newShard
<1>2. TypeOK
  <2>1. \A s \in 1 .. Shards : ShardTyped(shards[s])
    BY ZenonT(30), <1>1, NewShardOK DEF ShardOK
  <2> QED
    BY <2>1, ConfigAssumption DEF Init, TypeOK, NoVersion, Stopped
<1>3. ShardsInv
  BY ZenonT(30), <1>1, NewShardOK DEF ShardsInv
<1>4. ItemVersions /\ HeldVersions
  BY ZenonT(30), <1>1 DEF Init, ItemVersions, HeldVersions
<1> QED
  BY Zenon, <1>2, <1>3, <1>4 DEF IInv

(***************************************************************************)
(* Every step that touches the items replaces one shard, s, by a correct   *)
(* one whose items are as they were, but for at most one that is freshly   *)
(* stamped.                                                                *)
(***************************************************************************)
Replaces(s, later, key, stamped) ==
  /\ shards' = [shards EXCEPT ![s] = later]
  /\ casCounter' = IF stamped THEN casCounter + 1 ELSE casCounter
  /\ ShardOK(later) /\ later.memoryBytes <= perShardMemory
  /\ \A k \in DOMAIN later.items :
       \/ k \in Stored(s) /\ later.items[k] = shards[s].items[k]
       \/ k = key /\ shardFor(key) = s /\ stamped /\ later.items[k].cas = casCounter + 1

\* After the step each item is as it was or carries the newest version.
LEMMA ReplacesItems ==
  ASSUME IInv, NEW s \in 1 .. Shards, NEW later, NEW key, NEW stamped \in BOOLEAN,
         Replaces(s, later, key, stamped)
  PROVE  /\ DOMAIN shards' = 1 .. Shards
         /\ casCounter' \in Nat /\ casCounter <= casCounter'
         /\ \A t \in 1 .. Shards : ShardOK(shards[t]') /\ shards[t].memoryBytes' <= perShardMemory
         /\ \A t \in 1 .. Shards : \A k \in Stored(t)' :
              \/ k \in Stored(t) /\ shards[t].items[k]' = shards[t].items[k]
              \/ /\ k = key /\ t = s /\ shardFor(key) = s
                 /\ shards[t].items[k].cas' = casCounter + 1 /\ casCounter' = casCounter + 1
<1>1. DOMAIN shards = 1 .. Shards /\ casCounter \in Nat
  BY Zenon DEF IInv, TypeOK
<1>2. \A t \in 1 .. Shards : shards'[t] = IF t = s THEN later ELSE shards[t]
  BY Zenon, <1>1 DEF Replaces
<1>3. casCounter' \in Nat /\ casCounter <= casCounter' /\ DOMAIN shards' = 1 .. Shards
  BY <1>1 DEF Replaces
<1>4. \A t \in 1 .. Shards : ShardOK(shards[t]') /\ shards[t].memoryBytes' <= perShardMemory
  BY ZenonT(30), <1>2 DEF Replaces, IInv, ShardsInv
<1>5. \A t \in 1 .. Shards : \A k \in Stored(t)' :
        \/ k \in Stored(t) /\ shards[t].items[k]' = shards[t].items[k]
        \/ /\ k = key /\ t = s /\ shardFor(key) = s
           /\ shards[t].items[k].cas' = casCounter + 1 /\ casCounter' = casCounter + 1
  BY ZenonT(30), <1>2 DEF Replaces, Stored
<1> QED
  BY ZenonT(30), <1>3, <1>4, <1>5

\* Replacing one shard by the outcome of a call keeps the shards and the versions of
\* their items correct.
LEMMA ReplacesInv ==
  ASSUME IInv, NEW s \in 1 .. Shards, NEW later, NEW key, NEW stamped \in BOOLEAN,
         Replaces(s, later, key, stamped)
  PROVE  ShardsInv' /\ ItemVersions' /\ (\A t \in 1 .. Shards : ShardTyped(shards[t])')
<1>1. /\ casCounter' \in Nat /\ casCounter <= casCounter'
      /\ \A t \in 1 .. Shards : ShardOK(shards[t]') /\ shards[t].memoryBytes' <= perShardMemory
      /\ \A t \in 1 .. Shards : \A k \in Stored(t)' :
           \/ k \in Stored(t) /\ shards[t].items[k]' = shards[t].items[k]
           \/ /\ k = key /\ t = s /\ shardFor(key) = s
              /\ shards[t].items[k].cas' = casCounter + 1 /\ casCounter' = casCounter + 1
  BY Zenon, ReplacesItems
<1>2. casCounter \in Nat
  BY Zenon DEF IInv, TypeOK
<1>3. ShardsInv'
  BY Zenon, <1>1 DEF IInv, ShardsInv, shardFor
<1>4. \A t \in 1 .. Shards : \A k \in Stored(t)' : shards[t].items[k].cas' \in 1 .. casCounter'
  <2> TAKE t \in 1 .. Shards
  <2> TAKE k \in Stored(t)'
  <2>1. casCounter' \in Nat /\ casCounter <= casCounter'
    BY Zenon, <1>1
  <2>2. CASE k \in Stored(t) /\ shards[t].items[k]' = shards[t].items[k]
    <3>1. PICK x \in 1 .. casCounter : x = shards[t].items[k].cas'
      BY ZenonT(30), <2>2 DEF IInv, ItemVersions
    <3>2. x \in 1 .. casCounter'
      BY <1>2, <2>1
    <3> QED
      BY Zenon, <3>1, <3>2
  <2>3. CASE shards[t].items[k].cas' = casCounter + 1 /\ casCounter' = casCounter + 1
    <3>1. casCounter + 1 \in 1 .. casCounter + 1
      BY <1>2
    <3> QED
      BY Zenon, <2>3, <3>1
  <2> QED
    BY Zenon, <1>1, <2>2, <2>3
<1>5. ASSUME NEW t \in 1 .. Shards, NEW u \in 1 .. Shards,
             NEW j \in Stored(t)', NEW k \in Stored(u)', j # k
      PROVE  shards[t].items[j].cas' # shards[u].items[k].cas'
  <2>1. \A v \in 1 .. Shards : \A i \in Stored(v) : shards[v].items[i].cas \in 1 .. casCounter
    BY ZenonT(30) DEF IInv, ItemVersions
  <2>2. CASE j \in Stored(t) /\ shards[t].items[j]' = shards[t].items[j]
             /\ k \in Stored(u) /\ shards[u].items[k]' = shards[u].items[k]
    BY ZenonT(30), <1>5, <2>2 DEF IInv, ItemVersions
  <2>3. CASE j = key /\ shards[t].items[j].cas' = casCounter + 1
    BY <1>1, <1>2, <1>5, <2>1, <2>3
  <2>4. CASE k = key /\ shards[u].items[k].cas' = casCounter + 1
    BY SMTT(30), <1>1, <1>2, <1>5, <2>1, <2>4
  <2> QED
    BY Zenon, <1>1, <2>2, <2>3, <2>4
<1>6. ItemVersions'
  BY Zenon, <1>4, <1>5 DEF ItemVersions
<1> QED
  BY Zenon, <1>1, <1>3, <1>6 DEF ShardOK

\* What HeldVersions says of one client.
Held(c) ==
  seen[c] # NoVersion =>
    /\ seen[c].cas \in 1 .. casCounter
    /\ \A s \in 1 .. Shards : \A k \in Stored(s) :
         shards[s].items[k].cas = seen[c].cas => k = seen[c].key /\ seen[c].intact

\* A version held across such a step.
LEMMA ObservedHeld ==
  ASSUME IInv, NEW s \in 1 .. Shards, NEW later, NEW key, NEW stamped \in BOOLEAN,
         Replaces(s, later, key, stamped), NEW c \in Client, seen'[c] = Observed(c)
  PROVE  Held(c)' /\ seen'[c] \in Version \cup {NoVersion}
<1>1. /\ casCounter' \in Nat /\ casCounter <= casCounter'
      /\ \A t \in 1 .. Shards : \A k \in Stored(t)' :
           \/ k \in Stored(t) /\ shards[t].items[k]' = shards[t].items[k]
           \/ shards[t].items[k].cas' = casCounter + 1
  BY ZenonT(30), ReplacesItems
<1>2. casCounter \in Nat /\ seen[c] \in Version \cup {NoVersion}
  BY DEF IInv, TypeOK
<1>3. CASE seen[c] = NoVersion
  <2>1. seen'[c] = NoVersion
    BY ZenonT(30), <1>3 DEF Observed
  <2> QED
    BY <2>1 DEF Held
<1>4. CASE seen[c] # NoVersion
  <2>1. seen[c] \in Version /\ seen[c].cas \in 1 .. casCounter
    BY Zenon, <1>2, <1>4 DEF IInv, HeldVersions
  <2>2. /\ seen'[c] \in Version
        /\ seen'[c].cas = seen[c].cas /\ seen'[c].key = seen[c].key
        /\ ItemIn(shards'[shardFor(seen[c].key)], seen[c].key) = ItemAt(seen[c].key)
             => seen'[c] = seen[c]
    BY Zenon, <2>1 DEF Observed, Version
  <2>3. ASSUME NEW t \in 1 .. Shards, NEW k \in Stored(t)',
               shards[t].items[k].cas' = seen[c].cas
        PROVE  k = seen'[c].key /\ seen'[c].intact
    <3>1. k \in Stored(t) /\ shards[t].items[k]' = shards[t].items[k]
      BY <1>1, <1>2, <2>1, <2>3
    <3>2. k = seen[c].key /\ seen[c].intact
      BY ZenonT(30), <1>4, <2>3, <3>1 DEF IInv, HeldVersions
    <3>3. shardFor(k) = t
      BY <3>1 DEF IInv, ShardsInv
    <3>4. ItemIn(shards'[t], k) = ItemIn(shards[t], k)
      BY ZenonT(30), <3>1 DEF ItemIn, Stored
    <3> QED
      BY ZenonT(30), <2>2, <3>2, <3>3, <3>4 DEF ItemAt
  <2> QED
    BY <1>1, <1>2, <2>1, <2>2, <2>3 DEF Held
<1> QED
  BY Zenon, <1>3, <1>4

\* A command by which no client learns a version, or a step of the sweeper.
LEMMA ReplacesHeld ==
  ASSUME IInv, NEW s \in 1 .. Shards, NEW later, NEW key, NEW stamped \in BOOLEAN,
         Replaces(s, later, key, stamped), seen' = [c \in Client |-> Observed(c)]
  PROVE  HeldVersions' /\ seen' \in [Client -> Version \cup {NoVersion}]
<1>1. \A c \in Client : seen'[c] = Observed(c)
  OBVIOUS
<1>2. \A c \in Client : Held(c)' /\ seen'[c] \in Version \cup {NoVersion}
  BY ZenonT(30), <1>1, ObservedHeld
<1> QED
  BY Zenon, <1>2 DEF HeldVersions, Held

\* A command whose outcome is correct is such a step.
LEMMA ReturnReplaces ==
  ASSUME IInv, NEW k \in Key, NEW op, NEW outcome,
         Correct(shards[shardFor(k)], k, now, casCounter + 1, outcome), Return(op, k, outcome)
  PROVE  /\ shardFor(k) \in 1 .. Shards
         /\ Replaces(shardFor(k), outcome.sh, k, outcome.stamped)
         /\ outcome.stamped \in BOOLEAN
BY ZenonT(30), StoreAssumption DEF Correct, Return, Replaces, shardFor, Stored

\* The type invariant after a command.
LEMMA ReturnTypeOK ==
  ASSUME IInv, NEW k \in Key, NEW op \in Op, NEW outcome,
         Correct(shards[shardFor(k)], k, now, casCounter + 1, outcome), Return(op, k, outcome),
         seen' \in [Client -> Version \cup {NoVersion}]
  PROVE  TypeOK'
<1>1. /\ shardFor(k) \in 1 .. Shards /\ outcome.stamped \in BOOLEAN
      /\ Replaces(shardFor(k), outcome.sh, k, outcome.stamped)
  BY Zenon, ReturnReplaces
<1>2. \A t \in 1 .. Shards : ShardTyped(shards[t])'
  BY ZenonT(30), <1>1, ReplacesInv
<1>3. DOMAIN shards' = 1 .. Shards /\ casCounter' \in Nat
  BY ZenonT(30), <1>1, ReplacesItems
<1>4. reply' \in [op : Op, key : Key, err : Err]
  BY Zenon DEF Return, Correct, Err
<1>5. now' = now /\ sweep' = sweep /\ now \in Nat \ {0} /\ sweep \in 0 .. Stopped
  BY Zenon DEF Return, IInv, TypeOK
<1> QED
  BY ZenonT(30), <1>2, <1>3, <1>4, <1>5 DEF TypeOK

\* A command by which no client learns a version keeps the invariant.
LEMMA ReturnIInv ==
  ASSUME IInv, NEW k \in Key, NEW op \in Op, NEW outcome,
         Correct(shards[shardFor(k)], k, now, casCounter + 1, outcome), Return(op, k, outcome),
         seen' = [c \in Client |-> Observed(c)]
  PROVE  IInv'
<1>1. /\ shardFor(k) \in 1 .. Shards /\ outcome.stamped \in BOOLEAN
      /\ Replaces(shardFor(k), outcome.sh, k, outcome.stamped)
  BY ZenonT(30), ReturnReplaces
<1>2. HeldVersions' /\ seen' \in [Client -> Version \cup {NoVersion}]
  BY ZenonT(30), <1>1, ReplacesHeld
<1>3. TypeOK'
  BY ZenonT(30), <1>2, ReturnTypeOK
<1>4. ShardsInv' /\ ItemVersions'
  BY ZenonT(30), <1>1, ReplacesInv
<1> QED
  BY ZenonT(30), <1>2, <1>3, <1>4 DEF IInv

\* The shard a command is sent to is correct and within its budget, and the
\* command's arguments have their types.
LEMMA CommandContext ==
  ASSUME IInv, NEW k \in Key
  PROVE  /\ shardFor(k) \in 1 .. Shards
         /\ ShardOK(shards[shardFor(k)]) /\ shards[shardFor(k)].memoryBytes <= perShardMemory
         /\ now \in Nat /\ casCounter + 1 \in Nat
BY StoreAssumption DEF IInv, ShardsInv, TypeOK, shardFor

\* What each command returns is correct.
LEMMA CommandsCorrect ==
  ASSUME IInv
  PROVE  /\ \A k \in Key, v \in SetValue, t \in TTL :
              Correct(shards[shardFor(k)], k, now, casCounter + 1,
                      set(shards[shardFor(k)], k, v, t, now, casCounter + 1))
         /\ \A k \in Key :
              Correct(shards[shardFor(k)], k, now, casCounter + 1, get(shards[shardFor(k)], k, now))
         /\ \A k \in Key, v \in SetValue, t \in TTL, x \in Nat :
              Correct(shards[shardFor(k)], k, now, casCounter + 1,
                      cas(shards[shardFor(k)], k, v, t, x, now, casCounter + 1))
         /\ \A k \in Key :
              Correct(shards[shardFor(k)], k, now, casCounter + 1,
                      delete(shards[shardFor(k)], k, now))
         /\ \A k \in Key, d \in Delta :
              Correct(shards[shardFor(k)], k, now, casCounter + 1,
                      incr(shards[shardFor(k)], k, d, now, casCounter + 1))
<1>1. \A k \in Key, v \in SetValue, t \in TTL :
        Correct(shards[shardFor(k)], k, now, casCounter + 1,
                set(shards[shardFor(k)], k, v, t, now, casCounter + 1))
  BY ZenonT(30), CommandContext, SetCorrect, StoreAssumption
<1>2. \A k \in Key :
        Correct(shards[shardFor(k)], k, now, casCounter + 1, get(shards[shardFor(k)], k, now))
  BY ZenonT(30), CommandContext, GetCorrect
<1>3. \A k \in Key, v \in SetValue, t \in TTL, x \in Nat :
        Correct(shards[shardFor(k)], k, now, casCounter + 1,
                cas(shards[shardFor(k)], k, v, t, x, now, casCounter + 1))
  BY ZenonT(30), CommandContext, CasCorrect, StoreAssumption
<1>4. \A k \in Key :
        Correct(shards[shardFor(k)], k, now, casCounter + 1, delete(shards[shardFor(k)], k, now))
  BY ZenonT(30), CommandContext, DeleteCorrect
<1>5. \A k \in Key, d \in Delta :
        Correct(shards[shardFor(k)], k, now, casCounter + 1,
                incr(shards[shardFor(k)], k, d, now, casCounter + 1))
  BY ZenonT(30), CommandContext, IncrCorrect, StoreAssumption
<1> QED
  BY Zenon, <1>1, <1>2, <1>3, <1>4, <1>5

\* GETS: client c holds the version of the item it was shown.
LEMMA GetIInv ==
  ASSUME IInv, NEW c \in Client, NEW k \in Key, Get(c, k)
  PROVE  IInv'
<1> DEFINE sh == shards[shardFor(k)]
           out == get(sh, k, now)
<1>1. /\ Correct(sh, k, now, casCounter + 1, out) /\ ~ out.stamped
      /\ out.err = "nil" => out.sh.items = sh.items /\ k \in DOMAIN sh.items
  BY ZenonT(30), CommandContext, GetCorrect
<1>2. /\ Return("get", k, out)
      /\ seen' = [d \in Client |->
                    IF d = c /\ out.err = "nil"
                    THEN [key |-> k, cas |-> out.sh.items[k].cas, intact |-> TRUE]
                    ELSE Observed(d)]
  BY ZenonT(30) DEF Get
<1>3. /\ shardFor(k) \in 1 .. Shards /\ out.stamped \in BOOLEAN
      /\ Replaces(shardFor(k), out.sh, k, out.stamped)
  BY ZenonT(30), <1>1, <1>2, ReturnReplaces
<1> HIDE DEF out
<1>4. ShardsInv' /\ ItemVersions'
  BY ZenonT(30), <1>3, ReplacesInv
<1>5. ASSUME NEW d \in Client
      PROVE  Held(d)' /\ seen'[d] \in Version \cup {NoVersion}
  <2>1. CASE ~ (d = c /\ out.err = "nil")
    <3>1. seen'[d] = Observed(d)
      BY ZenonT(30), <1>2, <2>1
    <3> QED
      BY ZenonT(30), <1>3, <3>1, ObservedHeld
  <2>2. CASE d = c /\ out.err = "nil"
    <3>1. seen'[d] = [key |-> k, cas |-> sh.items[k].cas, intact |-> TRUE]
      BY ZenonT(60), <1>1, <1>2, <2>2
    <3>2. k \in Stored(shardFor(k))' /\ shards[shardFor(k)].items[k]' = sh.items[k]
      BY ZenonT(30), <1>1, <1>3, <2>2 DEF Replaces, Stored, IInv, TypeOK
    <3>3. sh.items[k].cas \in 1 .. casCounter'
      BY ZenonT(30), <1>3, <1>4, <3>2 DEF ItemVersions
    <3>4. casCounter' \in Nat
      BY ZenonT(30), <1>3, ReplacesItems
    <3>5. \A t \in 1 .. Shards : \A j \in Stored(t)' :
            shards[t].items[j].cas' = sh.items[k].cas => j = k
      BY ZenonT(30), <1>3, <1>4, <3>2 DEF ItemVersions
    <3>6. seen'[d] \in Version
      BY SMTT(30), <3>1, <3>3, <3>4 DEF Version
    <3>7. seen'[d].key = k /\ seen'[d].cas = sh.items[k].cas /\ seen'[d].intact
      BY <3>1
    <3> QED
      BY ZenonT(30), <3>3, <3>5, <3>6, <3>7 DEF Held
  <2> QED
    BY ZenonT(30), <2>1, <2>2
<1>6. HeldVersions' /\ seen' \in [Client -> Version \cup {NoVersion}]
  BY Zenon, <1>2, <1>5 DEF HeldVersions, Held
<1>7. TypeOK'
  BY Zenon, <1>1, <1>2, <1>6, ReturnTypeOK DEF Op
<1> QED
  BY ZenonT(30), <1>4, <1>6, <1>7 DEF IInv

\* One shard's part of a sweep.
LEMMA SweepShardIInv ==
  ASSUME IInv, SweepShard
  PROVE  IInv'
<1> DEFINE later == cleanupExpired(shards[sweep], now)
<1>1. sweep \in 1 .. Shards
  BY DEF SweepShard
<1>2. Shrunk(shards[sweep], later) /\ later.memoryBytes <= perShardMemory
  BY Zenon, <1>1, CleanupCorrect DEF IInv, ShardsInv
<1>3. shards' = [shards EXCEPT ![sweep] = later] /\ casCounter' = casCounter
  BY Zenon DEF SweepShard
<1> HIDE DEF later
<1>4. Replaces(sweep, later, 0, FALSE)
  BY Zenon, <1>2, <1>3 DEF Replaces, Shrunk, Stored
<1>5. ShardsInv' /\ ItemVersions' /\ (\A t \in 1 .. Shards : ShardTyped(shards[t])')
  BY Zenon, <1>1, <1>4, ReplacesInv
<1>6. HeldVersions' /\ seen' \in [Client -> Version \cup {NoVersion}]
  BY Zenon, <1>1, <1>4, ReplacesHeld DEF SweepShard
<1>7. DOMAIN shards' = 1 .. Shards /\ casCounter' \in Nat
  BY ZenonT(60), <1>1, <1>4, ReplacesItems
<1>8. /\ sweep' \in 0 .. Stopped /\ now' = now /\ reply' = NoReply
  BY <1>1, ConfigAssumption DEF SweepShard, afterShard, Stopped
<1>9. TypeOK'
  BY ZenonT(30), <1>5, <1>6, <1>7, <1>8 DEF TypeOK, IInv
<1> QED
  BY ZenonT(30), <1>5, <1>6, <1>9 DEF IInv

\* Every step keeps the invariant.
LEMMA NextIInv == IInv /\ [Next]_vars => IInv'
<1> SUFFICES ASSUME IInv, [Next]_vars PROVE IInv'
  BY ZenonT(30)
<1>1. ASSUME NEW k \in Key, NEW v \in SetValue, NEW t \in TTL, Set(k, v, t) PROVE IInv'
  BY ZenonT(30), <1>1, CommandsCorrect, ReturnIInv DEF Set, Op
<1>2. ASSUME NEW c \in Client, NEW k \in Key, Get(c, k) PROVE IInv'
  BY ZenonT(30), <1>2, GetIInv
<1>3. ASSUME NEW c \in Client, NEW v \in SetValue, NEW t \in TTL, Cas(c, v, t) PROVE IInv'
  <2>1. seen[c].key \in Key /\ seen[c].cas \in Nat
    BY ZenonT(30), <1>3 DEF Cas, IInv, TypeOK, Version
  <2> QED
    BY ZenonT(30), <1>3, <2>1, CommandsCorrect, ReturnIInv DEF Cas, Op
<1>4. ASSUME NEW k \in Key, Delete(k) PROVE IInv'
  BY ZenonT(30), <1>4, CommandsCorrect, ReturnIInv DEF Delete, Op
<1>5. ASSUME NEW k \in Key, NEW d \in Delta, Incr(k, d) PROVE IInv'
  BY ZenonT(30), <1>5, CommandsCorrect, ReturnIInv DEF Incr, Op
<1>6. CASE SweepStart \/ SweepStop
  <2>1. sweep' \in 0 .. Stopped
    BY <1>6, ConfigAssumption DEF SweepStart, SweepStop, Stopped
  <2>2. UNCHANGED <<shards, casCounter, now, seen>> /\ reply' = NoReply
    BY Zenon, <1>6 DEF SweepStart, SweepStop
  <2> QED
    BY SMTT(30), <2>1, <2>2 DEF IInv, TypeOK, ShardsInv, ItemVersions, HeldVersions, Stored, shardFor
<1>7. CASE SweepShard
  BY ZenonT(30), <1>7, SweepShardIInv
<1>8. CASE Tick
  <2>1. now' \in Nat \ {0}
    BY <1>8 DEF Tick, IInv, TypeOK
  <2>2. TypeOK'
    BY ZenonT(30), <1>8, <2>1 DEF Tick, IInv, TypeOK
  <2>3. ShardsInv'
    BY Zenon, <1>8 DEF Tick, IInv, ShardsInv, Stored, shardFor
  <2>4. ItemVersions'
    BY <1>8 DEF Tick, IInv, ItemVersions, Stored
  <2>5. HeldVersions'
    BY Zenon, <1>8 DEF Tick, IInv, HeldVersions, Stored
  <2> QED
    BY Zenon, <2>2, <2>3, <2>4, <2>5 DEF IInv
<1>9. CASE UNCHANGED vars
  <2>1. TypeOK' /\ ShardsInv'
    BY ZenonT(30), <1>9 DEF vars, IInv, TypeOK, ShardsInv, Stored, shardFor
  <2>2. ItemVersions'
    BY <1>9 DEF vars, IInv, ItemVersions, Stored
  <2>3. HeldVersions'
    BY Zenon, <1>9 DEF vars, IInv, HeldVersions, Stored
  <2> QED
    BY Zenon, <2>1, <2>2, <2>3 DEF IInv
<1> QED
  BY ZenonT(30), <1>1, <1>2, <1>3, <1>4, <1>5, <1>6, <1>7, <1>8, <1>9 DEF Next

\* IInv is an invariant of the store.
THEOREM Invariance == Spec => []IInv
BY InitIInv, NextIInv, PTL DEF Spec

\* Every variable keeps its type.
THEOREM TypeCorrect == Spec => []TypeOK
<1>1. IInv => TypeOK
  BY ZenonT(30) DEF IInv
<1> QED
  BY <1>1, Invariance, PTL

\* The totals each shard keeps are exact after any mix of commands, sweeps,
\* lazy expiry and eviction.
THEOREM Accounting == Spec => []AccountingExact
<1>1. IInv => AccountingExact
  BY ZenonT(30) DEF IInv, ShardsInv, ShardOK, AccountingExact
<1> QED
  BY <1>1, Invariance, PTL

\* No shard ever holds more than its slice of the memory budget.
THEOREM Budget == Spec => []WithinBudget
<1>1. IInv => WithinBudget
  BY DEF IInv, ShardsInv, ShardOK, Accounted, WithinBudget, Stored
<1> QED
  BY <1>1, Invariance, PTL

\* All the items together occupy no more than the shards' slices do.
LEMMA TotalOfShards ==
  ASSUME \A s \in 1 .. Shards : /\ IsFiniteSet(Bytes(shards[s].items, Stored(s)))
                                /\ SumSizes(shards[s].items, Stored(s)) <= perShardMemory
  PROVE  LET items == [k \in {j \in Key : ItemAt(j) # NoItem} |-> ItemAt(k)]
         IN  /\ IsFiniteSet(Bytes(items, DOMAIN items))
             /\ SumSizes(items, DOMAIN items) <= Shards * perShardMemory
<1> DEFINE items == [k \in {j \in Key : ItemAt(j) # NoItem} |-> ItemAt(k)]
           part == [s \in 1 .. Shards |-> Bytes(shards[s].items, Stored(s))]
           all == UNION {part[s] : s \in 1 .. Shards}
<1>1. Bytes(items, DOMAIN items) \subseteq all
  <2> SUFFICES ASSUME NEW k \in DOMAIN items PROVE {k} \X (1 .. items[k].size) \subseteq all
    BY DEF Bytes
  <2>1. shardFor(k) \in 1 .. Shards /\ k \in Stored(shardFor(k))
        /\ items[k] = shards[shardFor(k)].items[k]
    BY Zenon, StoreAssumption DEF shardFor, ItemAt, ItemIn, Stored
  <2>2. {k} \X (1 .. items[k].size) \subseteq part[shardFor(k)]
    BY Zenon, <2>1 DEF Bytes
  <2> QED
    BY ZenonT(30), <2>1, <2>2
<1>2. \A s \in 1 .. Shards : IsFiniteSet(part[s]) /\ Cardinality(part[s]) <= perShardMemory
  BY DEF SumSizes
<1>3. IsFiniteSet(all) /\ Cardinality(all) <= Shards * perShardMemory
  <2> HIDE DEF part
  <2> QED
    BY Zenon, <1>2, BoundedUnion, BudgetType, ConfigAssumption
<1>4. IsFiniteSet(Bytes(items, DOMAIN items)) /\ Cardinality(Bytes(items, DOMAIN items)) <= Cardinality(all)
  <2> HIDE DEF all, items
  <2> QED
    BY ZenonT(30), <1>1, <1>3, FS_Subset
<1>5. Cardinality(Bytes(items, DOMAIN items)) <= Shards * perShardMemory
  <2>1. Cardinality(Bytes(items, DOMAIN items)) \in Nat /\ Cardinality(all) \in Nat
    BY ZenonT(30), <1>3, <1>4, FS_CardinalityType
  <2>2. Shards * perShardMemory \in Nat
    BY BudgetType, ConfigAssumption
  <2> HIDE DEF all, items
  <2> QED
    BY <1>3, <1>4, <2>1, <2>2
<1> QED
  BY ZenonT(30), <1>4, <1>5 DEF SumSizes

\* All the items of the store together stay within max-memory-bytes, provided
\* that it has a byte for each shard: New gives a shard one byte at least.
THEOREM TotalBudget ==
  ASSUME MaxMemoryBytes >= Shards
  PROVE  Spec => []TotalWithinBudget
<1>1. IInv => TotalWithinBudget
  <2> SUFFICES ASSUME IInv PROVE TotalWithinBudget
    BY ZenonT(30)
  <2> DEFINE items == [k \in {j \in Key : ItemAt(j) # NoItem} |-> ItemAt(k)]
  <2>1. \A s \in 1 .. Shards : /\ IsFiniteSet(Bytes(shards[s].items, Stored(s)))
                               /\ SumSizes(shards[s].items, Stored(s)) <= perShardMemory
    BY DEF IInv, ShardsInv, ShardOK, Accounted, Stored
  <2>2. SumSizes(items, DOMAIN items) <= Shards * perShardMemory
    BY <2>1, TotalOfShards, Zenon
  <2>3. Shards * perShardMemory <= MaxMemoryBytes
    BY ZenonT(30), SlicesFit
  <2>4. SumSizes(items, DOMAIN items) \in Int
    <3>1. IsFiniteSet(Bytes(items, DOMAIN items))
      BY <2>1, TotalOfShards, Zenon
    <3> QED
      BY <3>1, FS_CardinalityType DEF SumSizes
  <2>5. Shards * perShardMemory \in Int /\ MaxMemoryBytes \in Int
    BY BudgetType, ConfigAssumption
  <2> HIDE DEF items
  <2>6. SumSizes(items, DOMAIN items) <= MaxMemoryBytes
    BY <2>2, <2>3, <2>4, <2>5
  <2> QED
    BY <2>6 DEF TotalWithinBudget, items
<1> QED
  BY <1>1, Invariance, PTL

\* Each LRU list holds exactly the stored items of its shard, in a total order.
THEOREM LruComplete == Spec => []LruHoldsStoredItems
<1>1. IInv => LruHoldsStoredItems
  BY ZenonT(30) DEF IInv, ShardsInv, ShardOK, LruHoldsStoredItems, Stored
<1> QED
  BY <1>1, Invariance, PTL

\* No two items ever carry the same version, nor does a version a client holds
\* match an item that changed since the client's GETS.
THEOREM UniqueVersions == Spec => []VersionsUnique
<1>1. IInv => VersionsUnique
  <2> SUFFICES ASSUME IInv PROVE VersionsUnique
    BY Zenon
  <2>1. \A k \in Key : shardFor(k) \in 1 .. Shards
    BY ZenonT(30), StoreAssumption DEF shardFor
  <2>2. casCounter \in Nat
    BY ZenonT(30) DEF IInv, TypeOK
  <2>3. \A k \in Key : \/ k \notin Stored(shardFor(k)) /\ ItemAt(k) = NoItem /\ ItemAt(k).cas = 0
                       \/ /\ k \in Stored(shardFor(k))
                          /\ ItemAt(k) = shards[shardFor(k)].items[k]
                          /\ ItemAt(k).cas \in 1 .. casCounter
    BY ZenonT(30), <2>1 DEF IInv, ItemVersions, ItemAt, ItemIn, NoItem, Stored
  <2>4. \A k \in Key : ItemAt(k).cas <= casCounter
    BY SMTT(30), <2>2, <2>3
  <2>5. ASSUME NEW j \in Key, NEW k \in Key, j # k, ItemAt(j) # NoItem
        PROVE  ItemAt(j).cas # ItemAt(k).cas
    BY <2>1, <2>2, <2>3, <2>5 DEF IInv, ItemVersions
  <2>6. ASSUME NEW c \in Client, NEW k \in Key, seen[c] # NoVersion, ItemAt(k).cas = seen[c].cas
        PROVE  k = seen[c].key /\ seen[c].intact
    BY <2>1, <2>2, <2>3, <2>6 DEF IInv, HeldVersions
  <2> QED
    BY ZenonT(30), <2>4, <2>5, <2>6 DEF VersionsUnique
<1> QED
  BY <1>1, Invariance, PTL

\* A CAS that succeeds overwrites exactly what its client read.
THEOREM CasSafe == Spec => CasOnlyOverObservedValue
<1> DEFINE P == \A c \in Client :
       (\E v \in SetValue, t \in TTL : Cas(c, v, t)) /\ reply'.err = "nil" => seen[c].intact
<1>1. IInv /\ [Next]_vars => [P]_vars
  <2> SUFFICES ASSUME IInv, NEW c \in Client, NEW v \in SetValue, NEW t \in TTL,
                      Cas(c, v, t), reply'.err = "nil"
               PROVE  seen[c].intact
    BY ZenonT(30)
  <2> DEFINE k == seen[c].key
             sh == shards[shardFor(k)]
             out == cas(sh, k, v, t, seen[c].cas, now, casCounter + 1)
  <2>1. seen[c] # NoVersion /\ k \in Key /\ seen[c].cas \in Nat
    BY ZenonT(30) DEF Cas, IInv, TypeOK, Version
  <2>2. /\ shardFor(k) \in 1 .. Shards
        /\ ShardOK(sh) /\ sh.memoryBytes <= perShardMemory
        /\ now \in Nat /\ casCounter + 1 \in Nat
    BY ZenonT(30), <2>1, CommandContext
  <2>3. out.err = "nil"
    BY Zenon DEF Cas, Return
  <2>4. k \in DOMAIN sh.items /\ sh.items[k].cas = seen[c].cas
    BY ZenonT(60), <2>3 DEF cas, Fail
  <2> HIDE DEF out
  <2> QED
    BY ZenonT(30), <2>1, <2>2, <2>4 DEF IInv, HeldVersions, Stored
<1> QED
  BY <1>1, Invariance, PTL DEF Spec, CasOnlyOverObservedValue

\* What FailedCommandChangesNoLiveItem asks of a step.
HarmlessIfFailed ==
  reply' # NoReply /\ reply'.err # "nil" =>
    \A s \in 1 .. Shards :
      /\ shards'[s].evictions = shards[s].evictions
      /\ \A k \in Live(s) : k \in DOMAIN shards'[s].items
                              /\ shards'[s].items[k] = shards[s].items[k]

\* A command with a correct outcome is harmless if it fails.
LEMMA ReturnHarmless ==
  ASSUME IInv, NEW op, NEW k \in Key, NEW out,
         Correct(shards[shardFor(k)], k, now, casCounter + 1, out), Return(op, k, out)
  PROVE  HarmlessIfFailed
<1> SUFFICES ASSUME out.err # "nil", NEW s \in 1 .. Shards
             PROVE  /\ shards'[s].evictions = shards[s].evictions
                    /\ \A j \in Live(s) : j \in DOMAIN shards'[s].items
                                            /\ shards'[s].items[j] = shards[s].items[j]
  BY ZenonT(30) DEF HarmlessIfFailed, Return
<1>1. shards'[s] = IF s = shardFor(k) THEN out.sh ELSE shards[s]
  BY ZenonT(30) DEF Return, IInv, TypeOK
<1>2. out.sh.evictions = shards[shardFor(k)].evictions
      /\ KeepsLive(shards[shardFor(k)], out.sh, now)
  BY DEF Correct
<1> QED
  BY Zenon, <1>1, <1>2 DEF KeepsLive, Live, Stored

\* A command that fails changes no live item of any shard and evicts nothing.
THEOREM FailureIsHarmless == Spec => FailedCommandChangesNoLiveItem
<1>1. IInv /\ [Next]_vars => [HarmlessIfFailed]_vars
  <2> SUFFICES ASSUME IInv, Next PROVE HarmlessIfFailed
    BY ZenonT(30)
  <2>1. ASSUME NEW k \in Key, NEW v \in SetValue, NEW t \in TTL, Set(k, v, t)
        PROVE  HarmlessIfFailed
    BY ZenonT(30), <2>1, CommandsCorrect, ReturnHarmless DEF Set
  <2>2. ASSUME NEW c \in Client, NEW k \in Key, Get(c, k) PROVE HarmlessIfFailed
    BY ZenonT(30), <2>2, CommandsCorrect, ReturnHarmless DEF Get
  <2>3. ASSUME NEW c \in Client, NEW v \in SetValue, NEW t \in TTL, Cas(c, v, t)
        PROVE  HarmlessIfFailed
    <3>1. seen[c].key \in Key /\ seen[c].cas \in Nat
      BY ZenonT(30), <2>3 DEF Cas, IInv, TypeOK, Version
    <3> QED
      BY ZenonT(30), <2>3, <3>1, CommandsCorrect, ReturnHarmless DEF Cas
  <2>4. ASSUME NEW k \in Key, Delete(k) PROVE HarmlessIfFailed
    BY ZenonT(30), <2>4, CommandsCorrect, ReturnHarmless DEF Delete
  <2>5. ASSUME NEW k \in Key, NEW d \in Delta, Incr(k, d) PROVE HarmlessIfFailed
    BY ZenonT(30), <2>5, CommandsCorrect, ReturnHarmless DEF Incr
  <2>6. CASE SweepStart \/ SweepStop \/ SweepShard \/ Tick
    BY Zenon, <2>6 DEF SweepStart, SweepStop, SweepShard, Tick, HarmlessIfFailed
  <2> QED
    BY ZenonT(30), <2>1, <2>2, <2>3, <2>4, <2>5, <2>6 DEF Next
<1> QED
  BY <1>1, Invariance, PTL DEF Spec, FailedCommandChangesNoLiveItem, HarmlessIfFailed

-----------------------------------------------------------------------------
(***************************************************************************)
(* The store: a step changes one shard by one of its methods.              *)
(***************************************************************************)
EveryShardStep ==
  \A s \in 1 .. Shards :
    ShardStep(shards[s], shards'[s], reply'.op, reply'.key, reply'.err, now)

\* The shard of the key meets what the method guarantees; the key is stored
\* in no other shard, and the others do not change.
LEMMA ReturnStep ==
  ASSUME IInv, NEW op, NEW k \in Key, NEW out, Return(op, k, out),
         ShardStep(shards[shardFor(k)], out.sh, op, k, out.err, now)
  PROVE  EveryShardStep
<1> SUFFICES ASSUME NEW s \in 1 .. Shards
             PROVE  ShardStep(shards[s], shards'[s], op, k, out.err, now)
  BY Zenon DEF EveryShardStep, Return
<1>1. shardFor(k) \in 1 .. Shards
  BY Zenon, CommandContext
<1>2. CASE s = shardFor(k)
  <2>1. shards'[s] = out.sh
    BY ZenonT(30), <1>2 DEF Return, IInv, TypeOK
  <2> QED
    BY ZenonT(30), <1>2, <2>1
<1>3. CASE s # shardFor(k)
  <2>1. shards'[s] = shards[s]
    BY ZenonT(30), <1>3 DEF Return, IInv, TypeOK
  <2>2. ShardOK(shards[s]) /\ k \notin DOMAIN shards[s].items
    BY ZenonT(30), <1>3 DEF IInv, ShardsInv, Stored
  <2> QED
    BY ZenonT(30), <2>1, <2>2, SameStep
<1> QED
  BY ZenonT(30), <1>2, <1>3

\* Each method guarantees it.
LEMMA CommandsStep ==
  ASSUME IInv, NEW k \in Key
  PROVE  LET sh == shards[shardFor(k)]
             next == casCounter + 1
         IN  /\ \A v \in SetValue, ttl \in TTL :
                  ShardStep(sh, set(sh, k, v, ttl, now, next).sh, "set", k,
                            set(sh, k, v, ttl, now, next).err, now)
             /\ ShardStep(sh, get(sh, k, now).sh, "get", k, get(sh, k, now).err, now)
             /\ \A v \in SetValue, ttl \in TTL, x \in Nat :
                  ShardStep(sh, cas(sh, k, v, ttl, x, now, next).sh, "cas", k,
                            cas(sh, k, v, ttl, x, now, next).err, now)
             /\ ShardStep(sh, delete(sh, k, now).sh, "delete", k, delete(sh, k, now).err, now)
             /\ \A d \in Delta :
                  ShardStep(sh, incr(sh, k, d, now, next).sh, "incr", k,
                            incr(sh, k, d, now, next).err, now)
<1> DEFINE sh == shards[shardFor(k)]
           next == casCounter + 1
<1>1. ShardOK(sh) /\ now \in Nat
  BY ZenonT(30), CommandContext
<1>2. SetValue \subseteq Value /\ TTL \subseteq Nat /\ Delta \subseteq Nat
  BY ZenonT(30), StoreAssumption
<1> HIDE DEF sh, next
<1>3. \A v \in SetValue, ttl \in TTL :
        ShardStep(sh, set(sh, k, v, ttl, now, next).sh, "set", k,
                  set(sh, k, v, ttl, now, next).err, now)
  BY ZenonT(30), <1>1, <1>2, SetStep
<1>4. ShardStep(sh, get(sh, k, now).sh, "get", k, get(sh, k, now).err, now)
  BY ZenonT(30), <1>1, GetStep
<1>5. \A v \in SetValue, ttl \in TTL, x \in Nat :
        ShardStep(sh, cas(sh, k, v, ttl, x, now, next).sh, "cas", k,
                  cas(sh, k, v, ttl, x, now, next).err, now)
  BY ZenonT(30), <1>1, <1>2, CasStep
<1>6. ShardStep(sh, delete(sh, k, now).sh, "delete", k, delete(sh, k, now).err, now)
  BY ZenonT(30), <1>1, DeleteStep
<1>7. \A d \in Delta :
        ShardStep(sh, incr(sh, k, d, now, next).sh, "incr", k,
                  incr(sh, k, d, now, next).err, now)
  BY ZenonT(30), <1>1, <1>2, IncrStep
<1> QED
  BY ZenonT(60), <1>3, <1>4, <1>5, <1>6, <1>7 DEF sh, next

\* Every step of the store.
LEMMA NextStep == IInv /\ [Next]_vars => [EveryShardStep]_vars
<1> SUFFICES ASSUME IInv, Next PROVE EveryShardStep
  OBVIOUS
<1>1. ASSUME NEW k \in Key, NEW v \in SetValue, NEW ttl \in TTL, Set(k, v, ttl)
      PROVE  EveryShardStep
  BY ZenonT(60), <1>1, CommandsStep, ReturnStep DEF Set
<1>2. ASSUME NEW c \in Client, NEW k \in Key, Get(c, k) PROVE EveryShardStep
  BY ZenonT(60), <1>2, CommandsStep, ReturnStep DEF Get
<1>3. ASSUME NEW c \in Client, NEW v \in SetValue, NEW ttl \in TTL, Cas(c, v, ttl)
      PROVE  EveryShardStep
  <2>1. seen[c].key \in Key /\ seen[c].cas \in Nat
    BY <1>3 DEF Cas, IInv, TypeOK, Version
  <2> QED
    BY ZenonT(60), <1>3, <2>1, CommandsStep, ReturnStep DEF Cas
<1>4. ASSUME NEW k \in Key, Delete(k) PROVE EveryShardStep
  BY ZenonT(60), <1>4, CommandsStep, ReturnStep DEF Delete
<1>5. ASSUME NEW k \in Key, NEW d \in Delta, Incr(k, d) PROVE EveryShardStep
  BY ZenonT(60), <1>5, CommandsStep, ReturnStep DEF Incr
<1>6. CASE SweepStart \/ SweepStop \/ SweepShard \/ Tick
  <2> SUFFICES ASSUME NEW s \in 1 .. Shards
               PROVE  ShardStep(shards[s], shards'[s], reply'.op, reply'.key, reply'.err, now)
    BY Zenon DEF EveryShardStep
  <2>1. reply'.err # "nil"
    BY <1>6 DEF SweepStart, SweepStop, SweepShard, Tick, NoReply
  <2>2. ShardOK(shards[s])
    BY ZenonT(30) DEF IInv, ShardsInv
  <2>3. CASE shards'[s] = shards[s]
    BY ZenonT(30), <2>1, <2>2, <2>3, SameStep
  <2>4. CASE shards'[s] # shards[s]
    <3>1. shards'[s] = removeExpiredLocked(shards[s], now)
      BY ZenonT(60), <1>6, <2>4 DEF SweepStart, SweepStop, SweepShard, Tick, cleanupExpired, IInv, TypeOK
    <3> QED
      BY ZenonT(30), <2>1, <2>2, <3>1, RemoveExpiredWithout, WithoutStep
  <2> QED
    BY ZenonT(30), <2>3, <2>4
<1> QED
  BY Zenon, <1>1, <1>2, <1>3, <1>4, <1>5, <1>6 DEF Next

-----------------------------------------------------------------------------
(***************************************************************************)
(* The action properties of the store.                                     *)
(***************************************************************************)
\* What a step takes from a shard, as module Store says it.
LEMMA LostIsLostOf ==
  ASSUME NEW s
  PROVE  Lost(s) = LostOf(shards[s], shards'[s], reply'.op, now)
BY DEF Lost, LostOf, Live, Stored

\* set, cas and incr evict a live item only when no expired item of the shard
\* is left, and evictions counts exactly the live items evicted.
THEOREM ReclaimBeforeEvict == Spec => ExpiredGoBeforeLive
<1> DEFINE Step == \A s \in 1 .. Shards :
                     /\ Lost(s) # {} => Expired(shards'[s].items, now) = {}
                     /\ shards'[s].evictions = shards[s].evictions + Cardinality(Lost(s))
<1>1. EveryShardStep => Step
  BY ZenonT(30), LostIsLostOf DEF EveryShardStep, ShardStep, ReclaimsFirst
<1>2. IInv /\ [Next]_vars => [Step]_vars
  BY ZenonT(30), <1>1, NextStep
<1> QED
  BY <1>2, Invariance, PTL DEF Spec, ExpiredGoBeforeLive

\* evictUntilFitsLocked evicts the tail of the list, and no more of it than
\* the write needs.
THEOREM ExactLRU == Spec => EvictsLeastRecentlyUsed
<1> DEFINE Step == \A s \in 1 .. Shards : \A g \in Lost(s) :
                     /\ \A k \in Stored(s) \cap DOMAIN shards'[s].items :
                          k = reply'.key \/ <<g, k>> \in shards[s].lru
                     /\ (\A h \in Lost(s) \ {g} : <<h, g>> \in shards[s].lru)
                          => shards'[s].memoryBytes + shards[s].items[g].size > perShardMemory
<1>1. EveryShardStep => Step
  BY ZenonT(30), LostIsLostOf DEF EveryShardStep, ShardStep, EvictsTail, Stored
<1>2. IInv /\ [Next]_vars => [Step]_vars
  BY ZenonT(30), <1>1, NextStep
<1> QED
  BY <1>2, Invariance, PTL DEF Spec, EvictsLeastRecentlyUsed

\* A successful get, set, cas or incr moves its key to the front; removals,
\* sweeps and failed calls keep the order of the items that stay.
THEOREM RecencyIsUse == Spec => RecencyFollowsUse
<1> DEFINE Step == \A s \in 1 .. Shards : \A j, k \in DOMAIN shards'[s].items :
                     IF reply'.op \in {"get", "set", "cas", "incr"} /\ reply'.err = "nil"
                          /\ reply'.key \in {j, k} /\ j # k
                     THEN <<j, k>> \in shards'[s].lru <=> k = reply'.key
                     ELSE <<j, k>> \in shards'[s].lru <=> <<j, k>> \in shards[s].lru
<1>1. EveryShardStep => Step
  BY ZenonT(60) DEF EveryShardStep, ShardStep, Reorders
<1>2. IInv /\ [Next]_vars => [Step]_vars
  BY ZenonT(30), <1>1, NextStep
<1> QED
  BY <1>2, Invariance, PTL DEF Spec, RecencyFollowsUse

\* get, cas, delete and incr treat an expired item as absent; only set gives
\* its key a value again.
THEOREM ExpiredStaysDead == Spec => ExpiredIsNeverRevived
<1> DEFINE Step == \A s \in 1 .. Shards : \A k \in Expired(shards[s].items, now) :
                     \/ k \notin DOMAIN shards'[s].items
                     \/ shards'[s].items[k] = shards[s].items[k] /\ ~(reply'.err = "nil" /\ reply'.key = k)
                     \/ reply'.op = "set" /\ reply'.key = k
<1>1. EveryShardStep => Step
  BY ZenonT(30) DEF EveryShardStep, ShardStep, Buries
<1>2. IInv /\ [Next]_vars => [Step]_vars
  BY <1>1, NextStep
<1> QED
  BY <1>2, Invariance, PTL DEF Spec, ExpiredIsNeverRevived

\* A successful incr stores the sum itself, spelled as FormatUint does and within
\* uint64, under the expiry that the item had: for any number and any delta.
THEOREM IncrExact == Spec => IncrAddsExactly
<1> DEFINE Sum(k, d) == LET old == ItemAt(k)
                            new == ItemIn(shards'[shardFor(k)], k)
                        IN  /\ new.value = FormatUint(old.value.num + d) /\ isUint(new.value)
                            /\ new.expiresAt = old.expiresAt
           Step == \A k \in Key, d \in Delta : Incr(k, d) /\ reply'.err = "nil" => Sum(k, d)
<1>1. ASSUME IInv, NEW k \in Key, NEW d \in Delta, Incr(k, d), reply'.err = "nil" PROVE Sum(k, d)
  <2> DEFINE sh == shards[shardFor(k)]
             out == incr(sh, k, d, now, casCounter + 1)
  <2>1. ShardOK(sh) /\ now \in Nat /\ shardFor(k) \in 1 .. Shards /\ d \in Nat
    <3>1. d \in Nat
      BY ZenonT(30), StoreAssumption
    <3> QED
      BY ZenonT(30), <1>1, <3>1, CommandContext
  <2>2. out.err = "nil" /\ shards'[shardFor(k)] = out.sh
    BY ZenonT(30), <1>1, <2>1 DEF Incr, Return, IInv, TypeOK
  <2>3. k \in DOMAIN sh.items /\ k \in DOMAIN out.sh.items /\ isUint(out.sh.items[k].value)
    <3>1. Adds(sh, out.sh, k, d)
      BY Zenon, <2>1, <2>2, IncrStep
    <3> QED
      BY Zenon, <3>1 DEF Adds
  <2>4. Stores(out.sh, k, FormatUint(sh.items[k].value.num + d), sh.items[k].expiresAt, casCounter + 1)
    BY Zenon, <2>1, <2>2, IncrAnswers
  <2>5. ItemAt(k) = sh.items[k] /\ ItemIn(shards'[shardFor(k)], k) = out.sh.items[k]
    BY ZenonT(30), <2>2, <2>3 DEF ItemAt, ItemIn
  <2> HIDE DEF out, sh
  <2>6. /\ out.sh.items[k].value = FormatUint(sh.items[k].value.num + d)
        /\ out.sh.items[k].expiresAt = sh.items[k].expiresAt
    BY <2>4 DEF Stores, Entry
  <2> QED
    BY Zenon, <2>3, <2>5, <2>6
<1>2. IInv => Step
  BY Zenon, <1>1
<1> QED
  BY <1>2, Invariance, PTL DEF Spec, IncrAddsExactly

-----------------------------------------------------------------------------
(***************************************************************************)
(* From the methods of a shard to the calls and steps of the store.        *)
(***************************************************************************)
\* In a correct store every call does what it promises.
LEMMA PromisesKept == IInv => Promises
<1> SUFFICES ASSUME IInv PROVE Promises
  BY Zenon
<1>1. SetPromise
  <2> SUFFICES ASSUME NEW k \in Key, NEW v \in SetValue, NEW t \in TTL
               PROVE  LET sh  == shards[shardFor(k)]
                          out == set(sh, k, v, t, now, casCounter + 1)
                      IN  /\ Correct(sh, k, now, casCounter + 1, out)
                          /\ out.err = Refusal(k, v)
                          /\ out.err = "nil" => /\ out.stamped
                                                /\ Stores(out.sh, k, v, expiresAt(now, t), casCounter + 1)
    BY Zenon DEF SetPromise
  <2>1. ShardOK(shards[shardFor(k)]) /\ v \in Value /\ t \in Nat
    BY Zenon, CommandContext, StoreAssumption
  <2> DEFINE sh  == shards[shardFor(k)]
             out == set(sh, k, v, t, now, casCounter + 1)
  <2>2. Correct(sh, k, now, casCounter + 1, out)
    BY Zenon, CommandsCorrect
  <2>3. /\ out.err = Refusal(k, v)
        /\ out.err = "nil" => out.stamped /\ Stores(out.sh, k, v, expiresAt(now, t), casCounter + 1)
    BY Zenon, <2>1, SetAnswers
  <2> QED
    BY Zenon, <2>2, <2>3
<1>2. CasPromise
  <2> SUFFICES ASSUME NEW k \in Key, NEW v \in SetValue, NEW t \in TTL, NEW x \in Nat
               PROVE  LET sh  == shards[shardFor(k)]
                          out == cas(sh, k, v, t, x, now, casCounter + 1)
                      IN  /\ Correct(sh, k, now, casCounter + 1, out)
                          /\ out.err = CasAnswer(sh, k, v, x, now)
                          /\ out.err = "nil" => /\ out.stamped
                                                /\ Stores(out.sh, k, v, expiresAt(now, t), casCounter + 1)
    BY Zenon DEF CasPromise
  <2>1. ShardOK(shards[shardFor(k)]) /\ v \in Value /\ t \in Nat
    BY Zenon, CommandContext, StoreAssumption
  <2> DEFINE sh  == shards[shardFor(k)]
             out == cas(sh, k, v, t, x, now, casCounter + 1)
  <2>2. Correct(sh, k, now, casCounter + 1, out)
    BY Zenon, CommandsCorrect
  <2>3. /\ out.err = CasAnswer(sh, k, v, x, now)
        /\ out.err = "nil" => out.stamped /\ Stores(out.sh, k, v, expiresAt(now, t), casCounter + 1)
    BY Zenon, <2>1, CasAnswers
  <2> QED
    BY Zenon, <2>2, <2>3
<1>3. IncrPromise
  <2> SUFFICES ASSUME NEW k \in Key, NEW d \in Delta
               PROVE  LET sh  == shards[shardFor(k)]
                          out == incr(sh, k, d, now, casCounter + 1)
                      IN  /\ Correct(sh, k, now, casCounter + 1, out)
                          /\ out.err = IncrAnswer(sh, k, d, now)
                          /\ out.err = "nil" => /\ out.stamped
                                                /\ Stores(out.sh, k, FormatUint(sh.items[k].value.num + d),
                                                          sh.items[k].expiresAt, casCounter + 1)
    BY Zenon DEF IncrPromise
  <2>1. ShardOK(shards[shardFor(k)]) /\ d \in Nat
    BY Zenon, CommandContext, StoreAssumption
  <2> DEFINE sh  == shards[shardFor(k)]
             out == incr(sh, k, d, now, casCounter + 1)
  <2>2. Correct(sh, k, now, casCounter + 1, out)
    BY Zenon, CommandsCorrect
  <2>3. /\ out.err = IncrAnswer(sh, k, d, now)
        /\ out.err = "nil" => /\ out.stamped
                              /\ Stores(out.sh, k, FormatUint(sh.items[k].value.num + d),
                                        sh.items[k].expiresAt, casCounter + 1)
    BY Zenon, <2>1, IncrAnswers
  <2> QED
    BY Zenon, <2>2, <2>3
<1>4. GetPromise
  <2> SUFFICES ASSUME NEW k \in Key
               PROVE  LET sh  == shards[shardFor(k)]
                          out == get(sh, k, now)
                      IN  /\ Correct(sh, k, now, casCounter + 1, out)
                          /\ out.err = IF LiveIn(sh, k, now) THEN "nil" ELSE "ErrNotFound"
                          /\ ~ out.stamped
                          /\ out.err = "nil" => out.sh.items = sh.items
    BY Zenon DEF GetPromise
  <2> DEFINE sh  == shards[shardFor(k)]
             out == get(sh, k, now)
  <2>1. ShardOK(sh)
    BY Zenon, CommandContext
  <2>2. Correct(sh, k, now, casCounter + 1, out)
    BY Zenon, CommandsCorrect
  <2>3. /\ out.err = IF LiveIn(sh, k, now) THEN "nil" ELSE "ErrNotFound"
        /\ ~ out.stamped
        /\ out.err = "nil" => out.sh.items = sh.items
    BY Zenon, <2>1, GetAnswers
  <2> QED
    BY Zenon, <2>2, <2>3
<1>5. DeletePromise
  BY Zenon, CommandContext, CommandsCorrect, DeleteAnswers DEF DeletePromise
<1>6. SweepPromise
  BY Zenon, CleanupCorrect DEF SweepPromise, IInv, ShardsInv
<1> QED
  BY Zenon, <1>1, <1>2, <1>3, <1>4, <1>5, <1>6 DEF Promises

\* No step of the store makes the counters of a shard smaller.
LEMMA NextGrows ==
  ASSUME IInv, [Next]_vars, NEW s \in 1 .. Shards
  PROVE  Grows(shards[s], shards'[s])
<1>1. ShardOK(shards[s]) /\ DOMAIN shards = 1 .. Shards
  BY DEF IInv, TypeOK, ShardsInv
<1>2. CASE shards' = shards
  BY Zenon, <1>1, <1>2, SameGrows
<1>3. CASE SweepShard
  <2>1. shards'[s] = shards[s] \/ shards'[s] = cleanupExpired(shards[s], now)
    BY Zenon, <1>1, <1>3 DEF SweepShard
  <2> QED
    BY Zenon, <1>1, <2>1, SameGrows, MethodsGrow
<1>4. ASSUME NEW op, NEW k \in Key, NEW out, Return(op, k, out), Grows(shards[shardFor(k)], out.sh)
      PROVE  Grows(shards[s], shards'[s])
  <2>1. shards'[s] = IF s = shardFor(k) THEN out.sh ELSE shards[s]
    BY Zenon, <1>1, <1>4 DEF Return
  <2> QED
    BY Zenon, <1>1, <1>4, <2>1, SameGrows
<1>5. \A k \in Key : ShardOK(shards[shardFor(k)])
  BY CommandContext
<1>6. ASSUME NEW k \in Key, NEW v \in SetValue, NEW t \in TTL, Set(k, v, t)
      PROVE  Grows(shards[s], shards'[s])
  BY Zenon, <1>4, <1>5, <1>6, MethodsGrow DEF Set
<1>7. ASSUME NEW c \in Client, NEW k \in Key, Get(c, k) PROVE Grows(shards[s], shards'[s])
  BY Zenon, <1>4, <1>5, <1>7, MethodsGrow DEF Get
<1>8. ASSUME NEW c \in Client, NEW v \in SetValue, NEW t \in TTL, Cas(c, v, t)
      PROVE  Grows(shards[s], shards'[s])
  <2>1. seen[c].key \in Key
    BY <1>8 DEF Cas, IInv, TypeOK, Version
  <2> QED
    BY Zenon, <1>4, <1>5, <1>8, <2>1, MethodsGrow DEF Cas
<1>9. ASSUME NEW k \in Key, Delete(k) PROVE Grows(shards[s], shards'[s])
  BY Zenon, <1>4, <1>5, <1>9, MethodsGrow DEF Delete
<1>10. ASSUME NEW k \in Key, NEW d \in Delta, Incr(k, d) PROVE Grows(shards[s], shards'[s])
  BY Zenon, <1>4, <1>5, <1>10, MethodsGrow DEF Incr
<1> QED
  BY Zenon, <1>2, <1>3, <1>6, <1>7, <1>8, <1>9, <1>10 DEF Next, vars, SweepStart, SweepStop, Tick
=============================================================================
