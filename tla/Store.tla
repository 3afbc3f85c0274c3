------------------------------- MODULE Store -------------------------------
(***************************************************************************)
(* The sharded store (src/internal/store/store.go) under concurrent        *)
(* clients and the background sweeper of cmd/minikv.                       *)
(*                                                                         *)
(* A command locks one shard, so a step of the model is one shard method.  *)
(* What spans several steps is interleaved: a client reads a version with  *)
(* GETS and uses it in a later CAS, the sweeper visits the shards one by   *)
(* one, the cas counter is shared by all the shards, and the clock         *)
(* advances between any two steps.                                         *)
(***************************************************************************)
EXTENDS Shard

CONSTANTS
  ShardOf,        \* the shard each key hashes to
  Client,         \* clients that hold a version between GETS and CAS
  SetValue,       \* the values clients write
  TTL,            \* the TTLs clients pass; 0 is none
  Delta,          \* the increments clients pass
  SweepInterval,  \* the sweeper's period; 0 disables it
  MaxTime,        \* bound on the clock
  MaxCas          \* bound on the cas counter

ASSUME StoreAssumption ==
  /\ ShardOf \in [Key -> 1 .. Shards]
  /\ SetValue \subseteq Value
  /\ TTL \subseteq Nat
  /\ Delta \subseteq Nat
  /\ SweepInterval \in Nat
  /\ MaxTime \in Nat
  /\ MaxCas \in Nat

VARIABLES
  shards,      \* Store.shards
  casCounter,  \* Store.cas
  now,         \* the clock, Config.Now
  sweep,       \* the shard CleanupExpired visits next; 0 between two ticks; Stopped
  seen,        \* the version each client got from its last GETS
  reply        \* what the last command returned

vars == <<shards, casCounter, now, sweep, seen, reply>>

\* The sweeper has returned.
Stopped == Shards + 1

shardFor(k) == ShardOf[k]

Stored(s) == DOMAIN shards[s].items

NoItem == [cas |-> 0]

\* The item stored under k, expired or not.
ItemIn(sh, k) == IF k \in DOMAIN sh.items THEN sh.items[k] ELSE NoItem

ItemAt(k) == ItemIn(shards[shardFor(k)], k)

NoVersion == [cas |-> 0]

NoReply == [op |-> "none", key |-> "none", err |-> "none"]

Version == [key : Key, cas : Nat, intact : BOOLEAN]

Op == {"set", "get", "cas", "delete", "incr"}

Err == {"nil", "ErrNotFound", "ErrNotInteger", "ErrOverflow", "ErrValueTooLarge",
        "ErrMemoryLimitExceeded", "ErrCasMismatch"}

-----------------------------------------------------------------------------
Init ==
  /\ shards = [s \in 1 .. Shards |-> newShard]
  /\ casCounter = 0
  /\ now = 1
  /\ sweep = 0
  /\ seen = [c \in Client |-> NoVersion]
  /\ reply = NoReply

(***************************************************************************)
(* seen[c].intact is a history variable: no step has changed or removed    *)
(* the item since c read its version.                                      *)
(***************************************************************************)
Observed(c) ==
  LET k == seen[c].key
  IN  IF seen[c] # NoVersion /\ ItemIn(shards'[shardFor(k)], k) # ItemAt(k)
      THEN [seen[c] EXCEPT !.intact = FALSE]
      ELSE seen[c]

\* A command returns: the outcome of the shard method takes effect.
Return(op, k, outcome) ==
  /\ shards' = [shards EXCEPT ![shardFor(k)] = outcome.sh]
  /\ casCounter' = IF outcome.stamped THEN casCounter + 1 ELSE casCounter
  /\ reply' = [op |-> op, key |-> k, err |-> outcome.err]
  /\ UNCHANGED <<now, sweep>>

Set(k, value, ttl) ==
  /\ casCounter < MaxCas
  /\ Return("set", k, set(shards[shardFor(k)], k, value, ttl, now, casCounter + 1))
  /\ seen' = [c \in Client |-> Observed(c)]

\* GET, GETS and each key of MGET; client c keeps the version it is shown.
Get(c, k) ==
  LET outcome == get(shards[shardFor(k)], k, now)
  IN  /\ Return("get", k, outcome)
      /\ seen' = [d \in Client |->
                    IF d = c /\ outcome.err = "nil"
                    THEN [key |-> k, cas |-> outcome.sh.items[k].cas, intact |-> TRUE]
                    ELSE Observed(d)]

\* CAS with the version that client c got from GETS.
Cas(c, value, ttl) ==
  /\ casCounter < MaxCas
  /\ seen[c] # NoVersion
  /\ LET k == seen[c].key
     IN  Return("cas", k, cas(shards[shardFor(k)], k, value, ttl, seen[c].cas, now, casCounter + 1))
  /\ seen' = [d \in Client |-> Observed(d)]

Delete(k) ==
  /\ Return("delete", k, delete(shards[shardFor(k)], k, now))
  /\ seen' = [c \in Client |-> Observed(c)]

Incr(k, delta) ==
  /\ casCounter < MaxCas
  /\ Return("incr", k, incr(shards[shardFor(k)], k, delta, now, casCounter + 1))
  /\ seen' = [c \in Client |-> Observed(c)]

\* The sweeper's ticker fires and CleanupExpired starts with the first shard.
SweepStart ==
  /\ SweepInterval > 0
  /\ sweep = 0
  /\ sweep' = 1
  /\ reply' = NoReply
  /\ UNCHANGED <<shards, casCounter, now, seen>>

\* SIGINT or SIGTERM cancelled the context and the sweeper's select takes that
\* branch: it returns for good, while sessions still run until they are drained.
SweepStop ==
  /\ SweepInterval > 0
  /\ sweep = 0
  /\ sweep' = Stopped
  /\ reply' = NoReply
  /\ UNCHANGED <<shards, casCounter, now, seen>>

\* Mutant: the last shard is not visited.
afterShard_SkipsLast(s) == IF s + 1 >= Shards THEN 0 ELSE s + 1

\* The loop of CleanupExpired over the shards.
afterShard(s) == IF s = Shards THEN 0 ELSE s + 1

\* CleanupExpired locks, sweeps and unlocks one shard.
SweepShard ==
  /\ sweep \in 1 .. Shards
  /\ shards' = [shards EXCEPT ![sweep] = cleanupExpired(shards[sweep], now)]
  /\ sweep' = afterShard(sweep)
  /\ seen' = [c \in Client |-> Observed(c)]
  /\ reply' = NoReply
  /\ UNCHANGED <<casCounter, now>>

Tick ==
  /\ now < MaxTime
  /\ now' = now + 1
  /\ reply' = NoReply
  /\ UNCHANGED <<shards, casCounter, sweep, seen>>

Next ==
  \/ \E k \in Key, v \in SetValue, t \in TTL : Set(k, v, t)
  \/ \E c \in Client, k \in Key : Get(c, k)
  \/ \E c \in Client, v \in SetValue, t \in TTL : Cas(c, v, t)
  \/ \E k \in Key : Delete(k)
  \/ \E k \in Key, d \in Delta : Incr(k, d)
  \/ SweepStart
  \/ SweepStop
  \/ SweepShard
  \/ Tick

Spec == Init /\ [][Next]_vars

\* Until the signal the ticker fires again and again, and a sweep under way goes
\* on: the sweeper has its own goroutine and a shard's mutex is never held for
\* good.  Nothing says that the signal comes.
Fairness == WF_vars(SweepStart) /\ WF_vars(SweepShard)

FairSpec == Spec /\ Fairness
-----------------------------------------------------------------------------
(***************************************************************************)
(* Invariants.                                                             *)
(***************************************************************************)
\* Every variable has its type; the lru part is LruHoldsStoredItems.
TypeOK ==
  /\ DOMAIN shards = 1 .. Shards
  /\ \A s \in 1 .. Shards : ShardTyped(shards[s])
  /\ casCounter \in Nat
  /\ now \in Nat \ {0}
  /\ sweep \in 0 .. Stopped
  /\ seen \in [Client -> Version \cup {NoVersion}]
  /\ reply \in [op : Op, key : Key, err : Err] \cup {NoReply}

\* The running totals a shard keeps by adding and subtracting are exact
\* whatever mix of overwrites, lazy expiry, sweeps, evictions and failed
\* writes came before: memoryBytes is the sum of the sizes of the stored
\* items, ttlCount the number of them with a TTL, and each size is that of
\* the value now stored.
AccountingExact ==
  \A s \in 1 .. Shards : Accounted(shards[s])

\* What the items of a shard really occupy never exceeds the shard's slice of
\* the memory budget.
WithinBudget ==
  \A s \in 1 .. Shards : SumSizes(shards[s].items, Stored(s)) <= perShardMemory

\* All the items of the store together occupy no more than the configured
\* max-memory-bytes, each shard watching over its own slice only.
TotalWithinBudget ==
  LET items == [k \in {j \in Key : ItemAt(j) # NoItem} |-> ItemAt(k)]
  IN  SumSizes(items, DOMAIN items) <= MaxMemoryBytes

\* A shard holds only keys that hash to it, and its LRU list arranges exactly
\* the stored items: none is lost to eviction, none lingers after removal.
LruHoldsStoredItems ==
  \A s \in 1 .. Shards :
    /\ \A k \in Stored(s) : shardFor(k) = s
    /\ IsRecencyOrder(shards[s].lru, Stored(s))

\* Versions are unique across all keys and for the life of the store: two
\* items never carry the same one, and a version a client got from GETS is
\* carried by no item but the one it read, and only while that is untouched;
\* a key deleted, expired or evicted and created again does not match it.
VersionsUnique ==
  /\ \A k \in Key : ItemAt(k).cas <= casCounter
  /\ \A j, k \in Key : j # k /\ ItemAt(j) # NoItem => ItemAt(j).cas # ItemAt(k).cas
  /\ \A c \in Client, k \in Key :
       seen[c] # NoVersion /\ ItemAt(k).cas = seen[c].cas
         => k = seen[c].key /\ seen[c].intact

-----------------------------------------------------------------------------
(***************************************************************************)
(* Action properties.                                                      *)
(***************************************************************************)
\* The keys of shard s that are stored and not expired.
Live(s) == {k \in Stored(s) : ~ expired(shards[s].items[k], now)}

\* The live keys of shard s that this step takes away, DELETE's key aside.
Lost(s) == IF reply'.op = "delete" THEN {} ELSE Live(s) \ DOMAIN shards'[s].items

\* A CAS succeeds only when nothing happened to the item since the client's
\* GETS: no update between the two is overwritten unseen.
CasOnlyOverObservedValue ==
  [][\A c \in Client :
       (\E v \in SetValue, t \in TTL : Cas(c, v, t)) /\ reply'.err = "nil" => seen[c].intact]_vars

\* A command that fails changes no live item, of its own key or another, and
\* evicts nothing: eviction is never begun for a write that cannot be made
\* to fit.
FailedCommandChangesNoLiveItem ==
  [][reply' # NoReply /\ reply'.err # "nil" =>
       \A s \in 1 .. Shards :
         /\ shards'[s].evictions = shards[s].evictions
         /\ \A k \in Live(s) : k \in DOMAIN shards'[s].items
                                 /\ shards'[s].items[k] = shards[s].items[k]]_vars

\* Expired items are reclaimed, never evicted: a live item is evicted only
\* after every expired item of its shard is gone, and evictions counts the
\* live items evicted and nothing else.
ExpiredGoBeforeLive ==
  [][\A s \in 1 .. Shards :
       /\ Lost(s) # {} => Expired(shards'[s].items, now) = {}
       /\ shards'[s].evictions = shards[s].evictions + Cardinality(Lost(s))]_vars

\* Eviction is exact LRU within the shard: an evicted item was used less
\* recently than every item that stays, the one being written excepted. It
\* stops as soon as the write fits: with the last evicted item still there the
\* shard would be over its budget.
EvictsLeastRecentlyUsed ==
  [][\A s \in 1 .. Shards : \A g \in Lost(s) :
       /\ \A k \in Stored(s) \cap DOMAIN shards'[s].items :
            k = reply'.key \/ <<g, k>> \in shards[s].lru
       /\ (\A h \in Lost(s) \ {g} : <<h, g>> \in shards[s].lru)
            => shards'[s].memoryBytes + shards[s].items[g].size > perShardMemory]_vars

\* A successful read or write makes its key the most recently used; nothing
\* else reorders the items that stay.
RecencyFollowsUse ==
  [][\A s \in 1 .. Shards : \A j, k \in DOMAIN shards'[s].items :
       IF reply'.op \in {"get", "set", "cas", "incr"} /\ reply'.err = "nil"
            /\ reply'.key \in {j, k} /\ j # k
       THEN <<j, k>> \in shards'[s].lru <=> k = reply'.key
       ELSE <<j, k>> \in shards'[s].lru <=> <<j, k>> \in shards[s].lru]_vars

\* An expired item is never revived: until a SET replaces it, it stays as it
\* is or is removed, and no read, CAS, INCR or DELETE succeeds on it.
ExpiredIsNeverRevived ==
  [][\A s \in 1 .. Shards : \A k \in Expired(shards[s].items, now) :
       \/ k \notin DOMAIN shards'[s].items
       \/ shards'[s].items[k] = shards[s].items[k] /\ ~(reply'.err = "nil" /\ reply'.key = k)
       \/ reply'.op = "set" /\ reply'.key = k]_vars

\* A successful INCR stores the sum itself, not what uint64 arithmetic leaves of
\* it, spelled so that the next INCR can read it, and under the expiry that the
\* item already had.
IncrAddsExactly ==
  [][\A k \in Key, d \in Delta : Incr(k, d) /\ reply'.err = "nil" =>
       LET old == ItemAt(k)
           new == ItemIn(shards'[shardFor(k)], k)
       IN  /\ new.value = FormatUint(old.value.num + d) /\ isUint(new.value)
           /\ new.expiresAt = old.expiresAt]_vars

-----------------------------------------------------------------------------
(***************************************************************************)
(* What clients see of the store is module Cache: the live items of all    *)
(* the shards are its entries.                                             *)
(***************************************************************************)
LiveEntries == [k \in {j \in Key : j \in Live(shardFor(j))} |-> Entry(ItemAt(k))]

\* What the client itself knows of the version it holds.
Holding(c) == IF seen[c] = NoVersion THEN NoVersion ELSE [key |-> seen[c].key, cas |-> seen[c].cas]

CacheView ==
  INSTANCE Cache WITH
    entries <- LiveEntries,
    version <- casCounter,
    held    <- [c \in Client |-> Holding(c)]

\* The store implements the cache: every command answers as if expired items
\* vanished at the end of their TTL, a value is refused for its own size and
\* never for what else is stored, a write changes no other item and at most
\* drops some, and the shards, the lazy expiry and the sweeper never show.
ImplementsCache == CacheView!Spec

-----------------------------------------------------------------------------
(***************************************************************************)
(* Liveness, under FairSpec with SweepInterval > 0.                        *)
(***************************************************************************)
\* An expired item that nobody asks for again is removed all the same, unless
\* the signal stops the sweeper first.
SweeperReclaimsExpired ==
  \A k \in Key : (k \in Expired(shards[shardFor(k)].items, now))
                   ~> (k \notin Expired(shards[shardFor(k)].items, now) \/ sweep = Stopped)

-----------------------------------------------------------------------------
(***************************************************************************)
(* The inductive invariant of module StoreProofs.  Each shard is correct   *)
(* and within its budget.  The rest is what makes versions unique: every   *)
(* version ever handed out is at most the cas counter, and one held by a   *)
(* client is carried by an untouched item or by none.                      *)
(***************************************************************************)
ShardsInv ==
  /\ \A s \in 1 .. Shards : ShardOK(shards[s]) /\ shards[s].memoryBytes <= perShardMemory
  /\ \A s \in 1 .. Shards : \A k \in Stored(s) : shardFor(k) = s

ItemVersions ==
  /\ \A s \in 1 .. Shards : \A k \in Stored(s) : shards[s].items[k].cas \in 1 .. casCounter
  /\ \A s, t \in 1 .. Shards : \A j \in Stored(s), k \in Stored(t) :
       j # k => shards[s].items[j].cas # shards[t].items[k].cas

HeldVersions ==
  \A c \in Client : seen[c] # NoVersion =>
    /\ seen[c].cas \in 1 .. casCounter
    /\ \A s \in 1 .. Shards : \A k \in Stored(s) :
         shards[s].items[k].cas = seen[c].cas => k = seen[c].key /\ seen[c].intact

IInv == TypeOK /\ ShardsInv /\ ItemVersions /\ HeldVersions

-----------------------------------------------------------------------------
(***************************************************************************)
(* What each call does, in the terms of the live items of its shard.  The  *)
(* invariant implies it, and what clients see follows from it.             *)
(***************************************************************************)
SetPromise ==
  \A k \in Key, v \in SetValue, t \in TTL :
    LET sh  == shards[shardFor(k)]
        out == set(sh, k, v, t, now, casCounter + 1)
    IN  /\ Correct(sh, k, now, casCounter + 1, out)
        /\ out.err = Refusal(k, v)
        /\ out.err = "nil" => out.stamped /\ Stores(out.sh, k, v, expiresAt(now, t), casCounter + 1)

CasPromise ==
  \A k \in Key, v \in SetValue, t \in TTL, x \in Nat :
    LET sh  == shards[shardFor(k)]
        out == cas(sh, k, v, t, x, now, casCounter + 1)
    IN  /\ Correct(sh, k, now, casCounter + 1, out)
        /\ out.err = CasAnswer(sh, k, v, x, now)
        /\ out.err = "nil" => out.stamped /\ Stores(out.sh, k, v, expiresAt(now, t), casCounter + 1)

IncrPromise ==
  \A k \in Key, d \in Delta :
    LET sh  == shards[shardFor(k)]
        out == incr(sh, k, d, now, casCounter + 1)
    IN  /\ Correct(sh, k, now, casCounter + 1, out)
        /\ out.err = IncrAnswer(sh, k, d, now)
        /\ out.err = "nil" => /\ out.stamped
                              /\ Stores(out.sh, k, FormatUint(sh.items[k].value.num + d),
                                        sh.items[k].expiresAt, casCounter + 1)

GetPromise ==
  \A k \in Key :
    LET sh  == shards[shardFor(k)]
        out == get(sh, k, now)
    IN  /\ Correct(sh, k, now, casCounter + 1, out)
        /\ out.err = IF LiveIn(sh, k, now) THEN "nil" ELSE "ErrNotFound"
        /\ ~ out.stamped
        /\ out.err = "nil" => out.sh.items = sh.items

DeletePromise ==
  \A k \in Key :
    LET sh  == shards[shardFor(k)]
        out == delete(sh, k, now)
    IN  /\ Correct(sh, k, now, casCounter + 1, out)
        /\ out.err = IF LiveIn(sh, k, now) THEN "nil" ELSE "ErrNotFound"
        /\ ~ out.stamped
        /\ out.err = "nil" => DOMAIN out.sh.items = DOMAIN sh.items \ {k}

SweepPromise ==
  \A s \in 1 .. Shards : LET later == cleanupExpired(shards[s], now)
                         IN  Shrunk(shards[s], later) /\ KeepsLive(shards[s], later, now)

Promises == SetPromise /\ CasPromise /\ IncrPromise /\ GetPromise /\ DeletePromise /\ SweepPromise
=============================================================================
