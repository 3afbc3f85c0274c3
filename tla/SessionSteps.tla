---------------------------- MODULE SessionSteps ----------------------------
(***************************************************************************)
(* What one step of the store shows to its clients, and what one step of a *)
(* client session does, for any number of sessions: it is a call of the    *)
(* store or leaves it alone, and it keeps the types and each of the        *)
(* invariants of the sessions.  That the calls of the store do what they   *)
(* promise is an assumption here (Promises); module SessionProofs adds     *)
(* that they do and states the theorems.                                   *)
(***************************************************************************)
EXTENDS Session, FiniteSetTheorems, TLAPS

-----------------------------------------------------------------------------
(***************************************************************************)
(* What a step of the store shows to its clients, when every call does     *)
(* what it promises: a step of the cache of module Cache, or nothing.      *)
(***************************************************************************)
\* The shard of a key is one of the shards, and a correct one.
LEMMA KeyContext ==
  ASSUME IInv, NEW k \in Key
  PROVE  shardFor(k) \in 1 .. Shards /\ ShardOK(shards[shardFor(k)]) /\ now \in Nat
BY StoreAssumption DEF IInv, ShardsInv, TypeOK, shardFor

EntriesOf(shs, t) ==
  [k \in {j \in Key : LiveIn(shs[shardFor(j)], j, t)} |-> Entry(shs[shardFor(k)].items[k])]

\* The entries are the live items, before a step and after it.
LEMMA EntriesAre ==
  LiveEntries = EntriesOf(shards, now) /\ LiveEntries' = EntriesOf(shards', now')
<1>1. \A k : k \in Live(shardFor(k)) <=> LiveIn(shards[shardFor(k)], k, now)
  BY Zenon DEF Live, Stored, LiveIn
<1>2. \A k : LiveIn(shards[shardFor(k)], k, now) => ItemAt(k) = shards[shardFor(k)].items[k]
  BY Zenon DEF ItemAt, ItemIn, LiveIn
<1>3. \A k : k \in Live(shardFor(k))' <=> LiveIn(shards'[shardFor(k)], k, now')
  BY Zenon DEF Live, Stored, LiveIn, shardFor
<1>4. \A k : LiveIn(shards'[shardFor(k)], k, now') => ItemAt(k)' = shards'[shardFor(k)].items[k]
  BY Zenon DEF ItemAt, ItemIn, LiveIn, shardFor
<1>5. LiveEntries = EntriesOf(shards, now)
  BY <1>1, <1>2 DEF LiveEntries, EntriesOf
<1>6. LiveEntries' = EntriesOf(shards', now')
  BY <1>3, <1>4 DEF LiveEntries, EntriesOf, shardFor
<1> QED
  BY Zenon, <1>5, <1>6

\* What they are, key by key.
LEMMA EntryOf ==
  ASSUME NEW shs, NEW t
  PROVE  /\ DOMAIN EntriesOf(shs, t) = {j \in Key : LiveIn(shs[shardFor(j)], j, t)}
         /\ \A k \in DOMAIN EntriesOf(shs, t) :
              EntriesOf(shs, t)[k] = Entry(shs[shardFor(k)].items[k])
BY Zenon DEF EntriesOf

\* A step that shows in no shard does not show.
LEMMA SameEntries ==
  ASSUME \A k \in Key : LET sh == shards[shardFor(k)]
                            later == shards'[shardFor(k)]
                        IN  /\ LiveIn(later, k, now') <=> LiveIn(sh, k, now)
                            /\ LiveIn(sh, k, now) => later.items[k] = sh.items[k]
  PROVE  LiveEntries' = LiveEntries
<1>1. EntriesOf(shards', now') = EntriesOf(shards, now)
  <2> DEFINE D == {j \in Key : LiveIn(shards[shardFor(j)], j, now)}
  <2>1. {j \in Key : LiveIn(shards'[shardFor(j)], j, now')} = D
    BY Zenon
  <2>2. \A k \in D : Entry(shards'[shardFor(k)].items[k]) = Entry(shards[shardFor(k)].items[k])
    BY Zenon
  <2> HIDE DEF D
  <2> QED
    BY <2>1, <2>2 DEF EntriesOf, D
<1> QED
  BY Zenon, <1>1, EntriesAre

\* What a command shows of another key than its own, and of its own unless it
\* wrote it: nothing new; and if it failed, nothing at all.
LEMMA ReturnShows ==
  ASSUME IInv, NEW k \in Key, NEW op, NEW out, Return(op, k, out),
         Correct(shards[shardFor(k)], k, now, casCounter + 1, out), NEW j \in Key
  PROVE  LET sh == shards[shardFor(j)]
             later == shards'[shardFor(j)]
         IN  /\ now' = now
             /\ LiveIn(later, j, now) =>
                  \/ LiveIn(sh, j, now) /\ later.items[j] = sh.items[j]
                  \/ j = k /\ out.stamped
             /\ out.err # "nil" /\ LiveIn(sh, j, now) => LiveIn(later, j, now)
<1>1. now' = now
  BY Zenon DEF Return
<1>2. CASE shardFor(j) # shardFor(k)
  <2>1. shards'[shardFor(j)] = shards[shardFor(j)]
    BY Zenon, <1>2, KeyContext DEF Return, IInv, TypeOK
  <2> QED
    BY Zenon, <1>1, <2>1
<1>3. CASE shardFor(j) = shardFor(k)
  <2>1. shards'[shardFor(j)] = out.sh
    BY Zenon, <1>3, KeyContext DEF Return, IInv, TypeOK
  <2>2. LiveIn(out.sh, j, now) =>
          \/ LiveIn(shards[shardFor(k)], j, now) /\ out.sh.items[j] = shards[shardFor(k)].items[j]
          \/ j = k /\ out.stamped
    BY Zenon DEF Correct, LiveIn
  <2>3. out.err # "nil" /\ LiveIn(shards[shardFor(k)], j, now) => LiveIn(out.sh, j, now)
    BY Zenon DEF Correct, KeepsLive, LiveIn
  <2> QED
    BY Zenon, <1>1, <1>3, <2>1, <2>2, <2>3
<1> QED
  BY Zenon, <1>2, <1>3

\* A command that fails shows in its answer only.
LEMMA FailureShows ==
  ASSUME IInv, NEW k \in Key, NEW op, NEW out, Return(op, k, out),
         Correct(shards[shardFor(k)], k, now, casCounter + 1, out), out.err # "nil"
  PROVE  LiveEntries' = LiveEntries /\ casCounter' = casCounter
<1>1. ~ out.stamped /\ now' = now
  BY Zenon DEF Correct, Return
<1>2. \A j \in Key : LET sh == shards[shardFor(j)]
                         later == shards'[shardFor(j)]
                     IN  /\ LiveIn(later, j, now') <=> LiveIn(sh, j, now)
                         /\ LiveIn(sh, j, now) => later.items[j] = sh.items[j]
  BY Zenon, <1>1, ReturnShows
<1>3. casCounter' = casCounter
  BY Zenon, <1>1 DEF Return
<1> QED
  BY Zenon, <1>2, <1>3, SameEntries

\* Clients hold what they held: a step of another command at most tells that
\* the item is not what it was.
LEMMA HoldingSame ==
  ASSUME IInv, NEW c \in Client, seen'[c] = Observed(c)
  PROVE  Holding(c)' = Holding(c)
<1>1. CASE seen[c] = NoVersion
  BY <1>1 DEF Holding, Observed, NoVersion
<1>2. CASE seen[c] # NoVersion
  <2>1. seen[c] \in Version
    BY <1>2 DEF IInv, TypeOK
  <2>2. seen'[c] \in Version /\ seen'[c].key = seen[c].key /\ seen'[c].cas = seen[c].cas
    <3>1. seen'[c] = seen[c] \/ seen'[c] = [seen[c] EXCEPT !.intact = FALSE]
      BY Zenon DEF Observed
    <3> QED
      BY Zenon, <2>1, <3>1 DEF Version
  <2>3. seen'[c] # NoVersion
    BY <2>2 DEF Version, NoVersion
  <2> QED
    BY Zenon, <1>2, <2>2, <2>3 DEF Holding, NoVersion
<1> QED
  BY Zenon, <1>1, <1>2

\* The write of a value that is not yet expired is a Put of the cache.
LEMMA WriteShows ==
  ASSUME IInv, NEW k \in Key, NEW op, NEW out, Return(op, k, out),
         Correct(shards[shardFor(k)], k, now, casCounter + 1, out), out.stamped,
         NEW value, NEW end, Stores(out.sh, k, value, end, casCounter + 1),
         end # NoExpiry => ~ (now >= end),
         seen' = [c \in Client |-> Observed(c)]
  PROVE  CacheView!Put(k, value, end)
<1> DEFINE entry == [value |-> value, expiresAt |-> end, cas |-> casCounter + 1]
           kept == DOMAIN LiveEntries' \ {k}
<1>1. casCounter' = casCounter + 1 /\ now' = now
  BY Zenon DEF Return
<1>2. \A c \in Client : Holding(c)' = Holding(c)
  BY Zenon, HoldingSame
<1>3. shards'[shardFor(k)] = out.sh
  BY Zenon, KeyContext DEF Return, IInv, TypeOK
<1>4. LiveIn(out.sh, k, now) /\ Entry(out.sh.items[k]) = entry
  <2>1. Entry(out.sh.items[k]).expiresAt = end
    BY DEF Stores
  <2>2. out.sh.items[k].expiresAt = end
    BY Zenon, <2>1 DEF Entry
  <2> QED
    BY Zenon, <2>2 DEF Stores, LiveIn, expired
<1>5. k \in DOMAIN LiveEntries' /\ LiveEntries'[k] = entry
  BY Zenon, <1>1, <1>3, <1>4, EntriesAre, EntryOf
<1>6. \A j \in kept : j \in DOMAIN LiveEntries /\ LiveEntries'[j] = LiveEntries[j]
  <2> SUFFICES ASSUME NEW j \in kept
               PROVE  j \in DOMAIN LiveEntries /\ LiveEntries'[j] = LiveEntries[j]
    BY Zenon
  <2>1. j \in Key /\ j # k /\ LiveIn(shards'[shardFor(j)], j, now)
    BY Zenon, <1>1, EntriesAre, EntryOf
  <2>2. LiveIn(shards[shardFor(j)], j, now)
        /\ shards'[shardFor(j)].items[j] = shards[shardFor(j)].items[j]
    BY Zenon, <2>1, ReturnShows
  <2>3. j \in DOMAIN EntriesOf(shards', now') /\ j \in DOMAIN EntriesOf(shards, now)
    BY Zenon, <1>1, <2>1, <2>2, EntryOf
  <2>4. /\ LiveEntries'[j] = Entry(shards'[shardFor(j)].items[j])
        /\ LiveEntries[j] = Entry(shards[shardFor(j)].items[j])
    <3>1. /\ EntriesOf(shards', now')[j] = Entry(shards'[shardFor(j)].items[j])
          /\ EntriesOf(shards, now)[j] = Entry(shards[shardFor(j)].items[j])
      BY Zenon, <2>3, EntryOf
    <3> QED
      BY Zenon, <3>1, EntriesAre
  <2> QED
    BY Zenon, <2>2, <2>3, <2>4, EntriesAre
<1>7. LiveEntries' = [j \in DOMAIN LiveEntries' |-> LiveEntries'[j]]
  BY Zenon, EntriesAre DEF EntriesOf
<1>8. LiveEntries' = [j \in kept \cup {k} |-> IF j = k THEN entry ELSE LiveEntries[j]]
  <2> DEFINE E == LiveEntries'
  <2>1. kept \cup {k} = DOMAIN E
    BY Zenon, <1>5
  <2>2. \A j \in DOMAIN E : E[j] = IF j = k THEN entry ELSE LiveEntries[j]
    BY Zenon, <1>5, <1>6
  <2>3. E = [j \in DOMAIN E |-> E[j]]
    BY Zenon, <1>7
  <2> HIDE DEF E, entry
  <2>4. E = [j \in DOMAIN E |-> IF j = k THEN entry ELSE LiveEntries[j]]
    BY Zenon, <2>2, <2>3
  <2> QED
    BY Zenon, <2>1, <2>4 DEF E
<1>9. kept \in SUBSET (DOMAIN LiveEntries \ {k})
  BY Zenon, <1>6
<1> HIDE DEF kept
<1> QED
  BY Zenon, <1>1, <1>2, <1>8, <1>9 DEF CacheView!Put

\* What a client finds under k.
LEMMA Found ==
  ASSUME NEW k \in Key
  PROVE  LET item == shards[shardFor(k)].items[k]
         IN  /\ k \in DOMAIN LiveEntries <=> LiveIn(shards[shardFor(k)], k, now)
             /\ k \in DOMAIN LiveEntries => /\ LiveEntries[k].value = item.value
                                            /\ LiveEntries[k].expiresAt = item.expiresAt
                                            /\ LiveEntries[k].cas = item.cas
<1>1. k \in DOMAIN LiveEntries <=> LiveIn(shards[shardFor(k)], k, now)
  BY Zenon, EntriesAre, EntryOf
<1>2. k \in DOMAIN LiveEntries => LiveEntries[k] = Entry(shards[shardFor(k)].items[k])
  BY Zenon, EntriesAre, EntryOf
<1> QED
  BY <1>1, <1>2 DEF Entry

\* A call that stores its value or fails is a Write of the cache.
LEMMA CallIsWrite ==
  ASSUME IInv, NEW k \in Key, NEW op, NEW out, Return(op, k, out),
         Correct(shards[shardFor(k)], k, now, casCounter + 1, out),
         seen' = [c \in Client |-> Observed(c)], NEW value, NEW end,
         out.err = "nil" => /\ out.stamped /\ Stores(out.sh, k, value, end, casCounter + 1)
                            /\ end # NoExpiry => ~ (now >= end)
  PROVE  CacheView!Write(op, k, out.err, value, end)
<1>1. reply' = [op |-> op, key |-> k, err |-> out.err] /\ now' = now
  BY Zenon DEF Return
<1>2. CASE out.err = "nil"
  <2>1. CacheView!Put(k, value, end)
    BY Zenon, <1>2, WriteShows
  <2> QED
    BY Zenon, <1>1, <1>2, <2>1 DEF CacheView!Write, CacheView!Return
<1>3. CASE out.err # "nil"
  <2>1. LiveEntries' = LiveEntries /\ casCounter' = casCounter
    BY Zenon, <1>3, FailureShows
  <2>2. \A c \in Client : Holding(c)' = Holding(c)
    BY Zenon, HoldingSame
  <2>3. [c \in Client |-> Holding(c)]' = [c \in Client |-> Holding(c)]
    BY Zenon, <2>2
  <2> QED
    BY Zenon, <1>1, <1>3, <2>1, <2>3 DEF CacheView!Write, CacheView!Return
<1> QED
  BY Zenon, <1>2, <1>3

\* The expiry of a write, as the cache puts it; it is in the future.
LEMMA EndIsExpiry ==
  ASSUME IInv, NEW ttl \in TTL
  PROVE  /\ CacheView!End(ttl) = expiresAt(now, ttl)
         /\ expiresAt(now, ttl) # NoExpiry => ~ (now >= expiresAt(now, ttl))
BY StoreAssumption DEF CacheView!End, expiresAt, NoExpiry, IInv, TypeOK

\* SET.
LEMMA SetShows ==
  ASSUME IInv, SetPromise, NEW k \in Key, NEW value \in SetValue, NEW ttl \in TTL, Set(k, value, ttl)
  PROVE  CacheView!Set(k, value, ttl)
<1> DEFINE out == set(shards[shardFor(k)], k, value, ttl, now, casCounter + 1)
<1>1. Return("set", k, out) /\ seen' = [c \in Client |-> Observed(c)]
  BY Zenon DEF Set
<1>2. Correct(shards[shardFor(k)], k, now, casCounter + 1, out)
  BY Zenon DEF SetPromise
<1>3. /\ out.err = Refusal(k, value)
      /\ out.err = "nil" =>
           out.stamped /\ Stores(out.sh, k, value, expiresAt(now, ttl), casCounter + 1)
  BY Zenon DEF SetPromise
<1> HIDE DEF out
<1>4. CacheView!Write("set", k, out.err, value, expiresAt(now, ttl))
  BY Zenon, <1>1, <1>2, <1>3, CallIsWrite, EndIsExpiry
<1> QED
  BY Zenon, <1>3, <1>4, EndIsExpiry DEF CacheView!Set

\* CAS with the version the client holds.
LEMMA CasShows ==
  ASSUME IInv, CasPromise, NEW c \in Client, NEW value \in SetValue, NEW ttl \in TTL, Cas(c, value, ttl)
  PROVE  CacheView!Cas(c, value, ttl)
<1> DEFINE k == seen[c].key
           sh == shards[shardFor(k)]
           out == cas(sh, k, value, ttl, seen[c].cas, now, casCounter + 1)
           held == [d \in Client |-> Holding(d)]
           err == IF Refusal(k, value) = "ErrValueTooLarge" THEN "ErrValueTooLarge"
                  ELSE IF k \notin DOMAIN LiveEntries THEN "ErrNotFound"
                  ELSE IF LiveEntries[k].cas # held[c].cas THEN "ErrCasMismatch"
                  ELSE Refusal(k, value)
<1>1. seen[c] # NoVersion /\ k \in Key /\ seen[c].cas \in Nat
  BY Zenon DEF Cas, IInv, TypeOK, Version
<1>2. held[c].key = k /\ held[c].cas = seen[c].cas /\ held[c] # NoVersion
  <2>1. held[c] = [key |-> seen[c].key, cas |-> seen[c].cas]
    BY Zenon, <1>1 DEF Holding
  <2> HIDE DEF held
  <2> QED
    BY <2>1 DEF NoVersion
<1>3. Return("cas", k, out) /\ seen' = [d \in Client |-> Observed(d)]
  BY Zenon DEF Cas
<1>4. Correct(sh, k, now, casCounter + 1, out)
  BY Zenon, <1>1 DEF CasPromise
<1>5. /\ out.err = CasAnswer(sh, k, value, seen[c].cas, now)
      /\ out.err = "nil" =>
           out.stamped /\ Stores(out.sh, k, value, expiresAt(now, ttl), casCounter + 1)
  BY ZenonT(60), <1>1 DEF CasPromise
<1> HIDE DEF out
<1>6. CacheView!Write("cas", k, out.err, value, expiresAt(now, ttl))
  BY Zenon, <1>1, <1>3, <1>4, <1>5, CallIsWrite, EndIsExpiry
<1>7. out.err = err
  <2>1. /\ k \in DOMAIN LiveEntries <=> LiveIn(sh, k, now)
        /\ k \in DOMAIN LiveEntries => LiveEntries[k].cas = sh.items[k].cas
    BY Zenon, <1>1, Found
  <2> HIDE DEF sh, held
  <2> QED
    BY Zenon, <1>2, <1>5, <2>1 DEF CasAnswer
<1>8. CacheView!Write("cas", k, err, value, CacheView!End(ttl))
  BY Zenon, <1>6, <1>7, EndIsExpiry
<1>9. CacheView!Write("cas", held[c].key,
        IF Refusal(held[c].key, value) = "ErrValueTooLarge" THEN "ErrValueTooLarge"
        ELSE IF held[c].key \notin DOMAIN LiveEntries THEN "ErrNotFound"
        ELSE IF LiveEntries[held[c].key].cas # held[c].cas THEN "ErrCasMismatch"
        ELSE Refusal(held[c].key, value), value, CacheView!End(ttl))
  BY Zenon, <1>2, <1>8
<1> QED
  BY Zenon, <1>2, <1>9 DEF CacheView!Cas, CacheView!NoVersion, NoVersion

\* INCR.
LEMMA IncrShows ==
  ASSUME IInv, IncrPromise, NEW k \in Key, NEW delta \in Delta, Incr(k, delta)
  PROVE  CacheView!Incr(k, delta)
<1> DEFINE sh == shards[shardFor(k)]
           out == incr(sh, k, delta, now, casCounter + 1)
           sum == FormatUint(sh.items[k].value.num + delta)
           end == sh.items[k].expiresAt
           entry == LiveEntries[k]
           err == IF k \notin DOMAIN LiveEntries THEN "ErrNotFound"
                  ELSE IF ~ isUint(entry.value) THEN "ErrNotInteger"
                  ELSE IF entry.value.num + delta > MaxUint64 THEN "ErrOverflow"
                  ELSE Refusal(k, FormatUint(entry.value.num + delta))
<1>1. Return("incr", k, out) /\ seen' = [c \in Client |-> Observed(c)]
  BY Zenon DEF Incr
<1>2. Correct(sh, k, now, casCounter + 1, out)
  BY Zenon DEF IncrPromise
<1>3. /\ out.err = IncrAnswer(sh, k, delta, now)
      /\ out.err = "nil" => out.stamped /\ Stores(out.sh, k, sum, end, casCounter + 1)
  BY Zenon DEF IncrPromise
<1>4. /\ k \in DOMAIN LiveEntries <=> LiveIn(sh, k, now)
      /\ k \in DOMAIN LiveEntries => entry.value = sh.items[k].value /\ entry.expiresAt = end
  BY Zenon, Found
<1>5. out.err = err
  <2> HIDE DEF out, sh
  <2> QED
    BY Zenon, <1>3, <1>4 DEF IncrAnswer
<1>6. out.err = "nil" => k \in DOMAIN LiveEntries /\ (end # NoExpiry => ~ (now >= end))
  <2>1. CASE k \in DOMAIN LiveEntries
    BY Zenon, <1>4, <2>1 DEF LiveIn, expired
  <2>2. CASE k \notin DOMAIN LiveEntries
    BY Zenon, <1>5, <2>2
  <2> QED
    BY Zenon, <2>1, <2>2
<1> HIDE DEF out, sum, end, err, entry, sh
<1>7. CASE k \in DOMAIN LiveEntries
  <2>1. CacheView!Write("incr", k, out.err, sum, end)
    BY Zenon, <1>1, <1>2, <1>3, <1>6, CallIsWrite DEF sh
  <2>2. CacheView!Write("incr", k, err, FormatUint(entry.value.num + delta), entry.expiresAt)
    BY Zenon, <1>4, <1>5, <1>7, <2>1 DEF sum
  <2> QED
    BY Zenon, <2>2 DEF CacheView!Incr, entry, err
<1>8. CASE k \notin DOMAIN LiveEntries
  <2>1. out.err # "nil"
    BY Zenon, <1>6, <1>8
  <2>2. CacheView!Write("incr", k, out.err, FormatUint(entry.value.num + delta), entry.expiresAt)
    BY Zenon, <1>1, <1>2, <2>1, CallIsWrite DEF sh
  <2>3. CacheView!Write("incr", k, err, FormatUint(entry.value.num + delta), entry.expiresAt)
    BY Zenon, <1>5, <2>2
  <2> QED
    BY Zenon, <2>3 DEF CacheView!Incr, entry, err
<1> QED
  BY Zenon, <1>7, <1>8

\* GET: the client holds the version of the entry it is shown.
LEMMA GetShows ==
  ASSUME IInv, GetPromise, NEW c \in Client, NEW k \in Key, Get(c, k)
  PROVE  CacheView!Get(c, k)
<1> DEFINE sh == shards[shardFor(k)]
           out == get(sh, k, now)
           held == [d \in Client |-> Holding(d)]
<1>1. /\ Return("get", k, out)
      /\ seen' = [d \in Client |->
                    IF d = c /\ out.err = "nil"
                    THEN [key |-> k, cas |-> out.sh.items[k].cas, intact |-> TRUE]
                    ELSE Observed(d)]
  BY Zenon DEF Get
<1>2. Correct(sh, k, now, casCounter + 1, out)
  BY Zenon DEF GetPromise
<1>3. /\ out.err = IF LiveIn(sh, k, now) THEN "nil" ELSE "ErrNotFound"
      /\ ~ out.stamped
      /\ out.err = "nil" => out.sh.items = sh.items
  BY Zenon DEF GetPromise
<1>4. /\ k \in DOMAIN LiveEntries <=> LiveIn(sh, k, now)
      /\ k \in DOMAIN LiveEntries => LiveEntries[k].cas = sh.items[k].cas
  BY Zenon, Found
<1>5. reply' = [op |-> "get", key |-> k, err |-> out.err] /\ now' = now /\ casCounter' = casCounter
  BY Zenon, <1>1, <1>3 DEF Return
<1>6. \A d \in Client : ~ (d = c /\ out.err = "nil") => Holding(d)' = Holding(d)
  BY Zenon, <1>1, HoldingSame
<1>7. CASE k \notin DOMAIN LiveEntries
  <2>1. out.err = "ErrNotFound"
    BY Zenon, <1>3, <1>4, <1>7
  <2>2. LiveEntries' = LiveEntries
    BY Zenon, <1>1, <1>2, <2>1, FailureShows
  <2>3. [d \in Client |-> Holding(d)]' = [d \in Client |-> Holding(d)]
    BY Zenon, <1>6, <2>1
  <2> HIDE DEF out
  <2> QED
    BY Zenon, <1>5, <1>7, <2>1, <2>2, <2>3 DEF CacheView!Get, CacheView!Return
<1>8. CASE k \in DOMAIN LiveEntries
  <2>1. out.err = "nil" /\ out.sh.items = sh.items
    BY Zenon, <1>3, <1>4, <1>8
  <2>2. LiveEntries' = LiveEntries
    <3>1. shards' = [shards EXCEPT ![shardFor(k)] = out.sh]
      BY Zenon, <1>1 DEF Return
    <3> HIDE DEF out
    <3>2. \A j \in Key : shards'[shardFor(j)].items = shards[shardFor(j)].items
      BY Zenon, <2>1, <3>1, KeyContext DEF IInv, TypeOK
    <3> QED
      BY Zenon, <1>5, <3>2, SameEntries DEF LiveIn
  <2>3. Holding(c)' = [key |-> k, cas |-> LiveEntries[k].cas]
    <3>1. seen'[c] = [key |-> k, cas |-> LiveEntries[k].cas, intact |-> TRUE]
      BY Zenon, <1>1, <1>4, <1>8, <2>1
    <3> QED
      BY <3>1 DEF Holding, NoVersion
  <2>4. held' = [held EXCEPT ![c] = [key |-> k, cas |-> LiveEntries[k].cas]]
    BY Zenon, <1>6, <2>3
  <2> HIDE DEF out
  <2> QED
    BY Zenon, <1>5, <1>8, <2>1, <2>2, <2>4 DEF CacheView!Get, CacheView!Return
<1> QED
  BY Zenon, <1>7, <1>8

\* DELETE.
LEMMA DeleteShows ==
  ASSUME IInv, DeletePromise, NEW k \in Key, Delete(k)
  PROVE  CacheView!Delete(k)
<1> DEFINE sh == shards[shardFor(k)]
           out == delete(sh, k, now)
<1>1. Return("delete", k, out) /\ seen' = [c \in Client |-> Observed(c)]
  BY Zenon DEF Delete
<1>2. Correct(sh, k, now, casCounter + 1, out)
  BY Zenon DEF DeletePromise
<1>3. /\ out.err = IF LiveIn(sh, k, now) THEN "nil" ELSE "ErrNotFound"
      /\ ~ out.stamped
      /\ out.err = "nil" => DOMAIN out.sh.items = DOMAIN sh.items \ {k}
  BY Zenon DEF DeletePromise
<1>4. k \in DOMAIN LiveEntries <=> LiveIn(sh, k, now)
  BY Zenon, Found
<1>5. reply' = [op |-> "delete", key |-> k, err |-> out.err] /\ now' = now /\ casCounter' = casCounter
  BY Zenon, <1>1, <1>3 DEF Return
<1>6. [c \in Client |-> Holding(c)]' = [c \in Client |-> Holding(c)]
  BY Zenon, <1>1, HoldingSame
<1>7. CASE k \notin DOMAIN LiveEntries
  <2>1. out.err = "ErrNotFound"
    BY Zenon, <1>3, <1>4, <1>7
  <2>2. LiveEntries' = LiveEntries
    BY Zenon, <1>1, <1>2, <2>1, FailureShows
  <2> HIDE DEF out
  <2> QED
    BY Zenon, <1>5, <1>6, <1>7, <2>1, <2>2 DEF CacheView!Delete, CacheView!Return
<1>8. CASE k \in DOMAIN LiveEntries
  <2>1. out.err = "nil" /\ DOMAIN out.sh.items = DOMAIN sh.items \ {k}
    BY Zenon, <1>3, <1>4, <1>8
  <2> HIDE DEF out
  <2>2. shards' = [shards EXCEPT ![shardFor(k)] = out.sh]
    BY Zenon, <1>1 DEF Return
  <2>3. \A j \in Key \ {k} : /\ LiveIn(shards'[shardFor(j)], j, now) <=> LiveIn(shards[shardFor(j)], j, now)
                             /\ LiveIn(shards[shardFor(j)], j, now) =>
                                  shards'[shardFor(j)].items[j] = shards[shardFor(j)].items[j]
    <3> SUFFICES ASSUME NEW j \in Key, j # k
                 PROVE  /\ LiveIn(shards'[shardFor(j)], j, now) <=> LiveIn(shards[shardFor(j)], j, now)
                        /\ LiveIn(shards[shardFor(j)], j, now) =>
                             shards'[shardFor(j)].items[j] = shards[shardFor(j)].items[j]
      BY Zenon
    <3>1. CASE shardFor(j) = shardFor(k)
      <4>1. shards'[shardFor(j)] = out.sh
        BY Zenon, <2>2, <3>1, KeyContext DEF IInv, TypeOK
      <4>2. j \in DOMAIN sh.items <=> j \in DOMAIN out.sh.items
        BY Zenon, <2>1
      <4>3. j \in DOMAIN out.sh.items => out.sh.items[j] = sh.items[j]
        BY Zenon, <1>2 DEF Correct
      <4> QED
        BY Zenon, <3>1, <4>1, <4>2, <4>3 DEF LiveIn
    <3>2. CASE shardFor(j) # shardFor(k)
      BY Zenon, <2>2, <3>2, KeyContext DEF IInv, TypeOK
    <3> QED
      BY Zenon, <3>1, <3>2
  <2>4. ~ LiveIn(shards'[shardFor(k)], k, now)
    <3>1. shards'[shardFor(k)] = out.sh
      BY Zenon, <2>2, KeyContext DEF IInv, TypeOK
    <3> QED
      BY Zenon, <2>1, <3>1 DEF LiveIn
  <2>5. EntriesOf(shards', now) = [j \in DOMAIN LiveEntries \ {k} |-> LiveEntries[j]]
    <3> DEFINE D == DOMAIN LiveEntries \ {k}
    <3>1. {j \in Key : LiveIn(shards'[shardFor(j)], j, now)} = D
      <4>1. \A j \in Key : LiveIn(shards'[shardFor(j)], j, now) <=> j \in D
        BY Zenon, <2>3, <2>4, Found
      <4>2. D \subseteq Key
        BY Zenon, EntriesAre, EntryOf
      <4> QED
        BY Zenon, <4>1, <4>2
    <3>2. \A j \in D : Entry(shards'[shardFor(j)].items[j]) = LiveEntries[j]
      <4> SUFFICES ASSUME NEW j \in D
                   PROVE  Entry(shards'[shardFor(j)].items[j]) = LiveEntries[j]
        BY Zenon
      <4>1. j \in Key \ {k} /\ LiveIn(shards[shardFor(j)], j, now)
        BY Zenon, EntriesAre, EntryOf
      <4>2. LiveEntries[j] = Entry(shards[shardFor(j)].items[j])
        BY Zenon, EntriesAre, EntryOf
      <4> QED
        BY Zenon, <2>3, <4>1, <4>2
    <3> HIDE DEF D
    <3>3. EntriesOf(shards', now) = [j \in D |-> Entry(shards'[shardFor(j)].items[j])]
      BY Zenon, <3>1 DEF EntriesOf
    <3>4. EntriesOf(shards', now) = [j \in D |-> LiveEntries[j]]
      BY Zenon, <3>2, <3>3
    <3> QED
      BY Zenon, <3>4 DEF D
  <2>6. LiveEntries' = [j \in DOMAIN LiveEntries \ {k} |-> LiveEntries[j]]
    BY Zenon, <1>5, <2>5, EntriesAre
  <2> QED
    BY Zenon, <1>5, <1>6, <1>8, <2>1, <2>6 DEF CacheView!Delete, CacheView!Return
<1> QED
  BY Zenon, <1>7, <1>8

\* The clock: what expires is gone from the cache at that moment, though it
\* stays in its shard.
LEMMA TickShows ==
  ASSUME IInv, Tick
  PROVE  CacheView!Tick
<1>1. /\ now' = now + 1 /\ reply' = NoReply /\ casCounter' = casCounter
      /\ shards' = shards /\ seen' = seen
  BY Zenon DEF Tick
<1>2. [c \in Client |-> Holding(c)]' = [c \in Client |-> Holding(c)]
  BY Zenon, <1>1 DEF Holding
<1>3. ASSUME NEW k \in Key, k \in DOMAIN shards[shardFor(k)].items
      PROVE  LET item == shards[shardFor(k)].items[k]
             IN  ~ expired(item, now + 1) <=> ~ expired(item, now) /\ item.expiresAt \notin 1 .. now + 1
  <2> DEFINE end == shards[shardFor(k)].items[k].expiresAt
  <2>1. end \in Nat
    BY Zenon, <1>3, KeyContext DEF ShardOK, ShardTyped, Item
  <2>2. now \in Nat
    BY Zenon DEF IInv, TypeOK
  <2> HIDE DEF end
  <2>3. ~ (end # 0 /\ now + 1 >= end) <=> ~ (end # 0 /\ now >= end) /\ end \notin 1 .. now + 1
    BY <2>1, <2>2
  <2> QED
    BY Zenon, <2>3 DEF expired, NoExpiry, end
<1>4. EntriesOf(shards, now + 1) =
        [k \in {j \in DOMAIN LiveEntries : LiveEntries[j].expiresAt \notin 1 .. now + 1} |-> LiveEntries[k]]
  <2> DEFINE D == {j \in DOMAIN LiveEntries : LiveEntries[j].expiresAt \notin 1 .. now + 1}
  <2>1. {j \in Key : LiveIn(shards[shardFor(j)], j, now + 1)} = D
    <3>1. \A j \in Key : LiveIn(shards[shardFor(j)], j, now + 1) <=>
            /\ LiveIn(shards[shardFor(j)], j, now)
            /\ shards[shardFor(j)].items[j].expiresAt \notin 1 .. now + 1
      BY Zenon, <1>3 DEF LiveIn
    <3>2. \A j \in Key : LiveIn(shards[shardFor(j)], j, now + 1) <=> j \in D
      BY Zenon, <3>1, Found
    <3>3. D \subseteq Key
      BY ZenonT(60), EntriesAre, EntryOf
    <3> QED
      BY Zenon, <3>2, <3>3
  <2>2. \A j \in D : Entry(shards[shardFor(j)].items[j]) = LiveEntries[j]
    BY Zenon, EntriesAre, EntryOf
  <2> HIDE DEF D
  <2>3. EntriesOf(shards, now + 1) = [j \in D |-> Entry(shards[shardFor(j)].items[j])]
    BY Zenon, <2>1 DEF EntriesOf
  <2>4. EntriesOf(shards, now + 1) = [j \in D |-> LiveEntries[j]]
    BY Zenon, <2>2, <2>3
  <2> QED
    BY Zenon, <2>4 DEF D
<1>5. LiveEntries' = EntriesOf(shards, now + 1)
  BY Zenon, <1>1, EntriesAre
<1> QED
  BY Zenon, <1>1, <1>2, <1>4, <1>5 DEF CacheView!Tick, CacheView!NoReply, NoReply

\* The sweeper never shows.
LEMMA SweepShows ==
  ASSUME IInv, SweepPromise, SweepStart \/ SweepStop \/ SweepShard
  PROVE  CacheView!Hidden
<1>1. reply' = NoReply /\ casCounter' = casCounter /\ now' = now
  BY Zenon DEF SweepStart, SweepStop, SweepShard
<1>2. CASE SweepStart \/ SweepStop
  <2>1. LiveEntries' = LiveEntries
    BY Zenon, <1>1, <1>2, EntriesAre DEF SweepStart, SweepStop
  <2>2. [c \in Client |-> Holding(c)]' = [c \in Client |-> Holding(c)]
    BY Zenon, <1>2 DEF SweepStart, SweepStop, Holding
  <2> QED
    BY Zenon, <1>1, <2>1, <2>2 DEF CacheView!Hidden, CacheView!NoReply, NoReply
<1>3. CASE SweepShard
  <2> DEFINE later == cleanupExpired(shards[sweep], now)
  <2>1. sweep \in 1 .. Shards
    BY Zenon, <1>3 DEF SweepShard
  <2>2. Shrunk(shards[sweep], later) /\ KeepsLive(shards[sweep], later, now)
    BY Zenon, <2>1 DEF SweepPromise
  <2>3. shards' = [shards EXCEPT ![sweep] = later] /\ seen' = [c \in Client |-> Observed(c)]
    BY Zenon, <1>3 DEF SweepShard
  <2> HIDE DEF later
  <2>4. \A j \in Key : /\ LiveIn(shards'[shardFor(j)], j, now') <=> LiveIn(shards[shardFor(j)], j, now)
                       /\ LiveIn(shards[shardFor(j)], j, now) =>
                            shards'[shardFor(j)].items[j] = shards[shardFor(j)].items[j]
    <3> SUFFICES ASSUME NEW j \in Key
                 PROVE  /\ LiveIn(shards'[shardFor(j)], j, now) <=> LiveIn(shards[shardFor(j)], j, now)
                        /\ LiveIn(shards[shardFor(j)], j, now) =>
                             shards'[shardFor(j)].items[j] = shards[shardFor(j)].items[j]
      BY Zenon, <1>1
    <3>1. CASE shardFor(j) = sweep
      <4>1. shards'[shardFor(j)] = later
        BY Zenon, <2>1, <2>3, <3>1 DEF IInv, TypeOK
      <4>2. /\ LiveIn(later, j, now) <=> LiveIn(shards[sweep], j, now)
            /\ LiveIn(shards[sweep], j, now) => later.items[j] = shards[sweep].items[j]
        BY Zenon, <2>2 DEF Shrunk, KeepsLive, LiveIn
      <4> QED
        BY Zenon, <3>1, <4>1, <4>2
    <3>2. CASE shardFor(j) # sweep
      BY Zenon, <2>3, <3>2, KeyContext DEF IInv, TypeOK
    <3> QED
      BY Zenon, <3>1, <3>2
  <2>5. LiveEntries' = LiveEntries
    BY Zenon, <2>4, SameEntries
  <2>6. [c \in Client |-> Holding(c)]' = [c \in Client |-> Holding(c)]
    BY Zenon, <2>3, HoldingSame
  <2> QED
    BY Zenon, <1>1, <2>5, <2>6 DEF CacheView!Hidden, CacheView!NoReply, NoReply
<1> QED
  BY Zenon, <1>2, <1>3

\* The cache is empty at first.
LEMMA InitCache == Init => CacheView!Init
<1> SUFFICES ASSUME Init PROVE CacheView!Init
  OBVIOUS
<1>1. \A k \in Key : k \notin Live(shardFor(k))
  BY StoreAssumption DEF Init, Live, Stored, newShard, shardFor
<1>2. LiveEntries = [k \in {} |-> 0]
  BY <1>1 DEF LiveEntries
<1>3. \A c \in Client : Holding(c) = NoVersion
  BY DEF Init, Holding
<1>4. casCounter = 0 /\ now = 1 /\ reply = NoReply
  BY DEF Init
<1> QED
  BY <1>2, <1>3, <1>4 DEF CacheView!Init, CacheView!NoVersion, CacheView!NoReply, NoVersion, NoReply

\* Every step of the store is a step of the cache, or stutters.
LEMMA NextCache == IInv /\ Promises /\ [Next]_vars => [CacheView!Next]_(CacheView!vars)
<1> SUFFICES ASSUME IInv, Promises, [Next]_vars PROVE [CacheView!Next]_(CacheView!vars)
  BY Zenon
<1>1. ASSUME NEW k \in Key, NEW v \in SetValue, NEW t \in TTL, Set(k, v, t)
      PROVE  CacheView!Next
  BY Zenon, <1>1, SetShows DEF CacheView!Next, Promises
<1>2. ASSUME NEW c \in Client, NEW k \in Key, Get(c, k) PROVE CacheView!Next
  BY Zenon, <1>2, GetShows DEF CacheView!Next, Promises
<1>3. ASSUME NEW c \in Client, NEW v \in SetValue, NEW t \in TTL, Cas(c, v, t)
      PROVE  CacheView!Next
  BY Zenon, <1>3, CasShows DEF CacheView!Next, Promises
<1>4. ASSUME NEW k \in Key, Delete(k) PROVE CacheView!Next
  BY Zenon, <1>4, DeleteShows DEF CacheView!Next, Promises
<1>5. ASSUME NEW k \in Key, NEW d \in Delta, Incr(k, d) PROVE CacheView!Next
  BY Zenon, <1>5, IncrShows DEF CacheView!Next, Promises
<1>6. CASE SweepStart \/ SweepStop \/ SweepShard
  BY Zenon, <1>6, SweepShows DEF CacheView!Next, Promises
<1>7. CASE Tick
  BY Zenon, <1>7, TickShows DEF CacheView!Next
<1>8. CASE UNCHANGED vars
  <2>1. LiveEntries' = LiveEntries
    BY Zenon, <1>8, EntriesAre DEF vars
  <2>2. [c \in Client |-> Holding(c)]' = [c \in Client |-> Holding(c)]
    BY Zenon, <1>8 DEF vars, Holding
  <2> QED
    BY Zenon, <1>8, <2>1, <2>2 DEF vars, CacheView!vars
<1> QED
  BY Zenon, <1>1, <1>2, <1>3, <1>4, <1>5, <1>6, <1>7, <1>8 DEF Next

-----------------------------------------------------------------------------
(***************************************************************************)
(* The inductive invariant.  That a step of a session is a step of the     *)
(* store depends on the types of the work under way (the keys an MGET has  *)
(* still to read are keys), and these on the totals of the shards being    *)
(* natural numbers, so the two are proved together.                        *)
(***************************************************************************)
MGetWork ==
  [op : {"mget"}, keys : KeyList, todo : Seq(Key), hits : SUBSET Key, untouched : SUBSET Key]

StatsWork ==
  [op : {"stats"}, shard : 1 .. Shards, locked : BOOLEAN, items : Nat, memory : Nat, budget : Nat,
   evictions : Nat, expirations : Nat]

\* Only a session that is open has a command under way.
WorkOnlyWhenOpen == \A c \in Client : work[c] = NoWork \/ gate[c] = "open"

\* What STATS samples are numbers; each item takes a key byte and the overhead
\* at least.
Totals ==
  \A s \in 1 .. Shards :
    LET n == Cardinality(DOMAIN shards[s].items)
    IN  /\ n \in Nat /\ shards[s].memoryBytes \in Nat
        /\ shards[s].evictions \in Nat /\ shards[s].expirations \in Nat
        /\ n * (1 + ItemOverheadBytes) <= shards[s].memoryBytes

SInv == IInv /\ Totals /\ SessionTypeOK /\ WorkOnlyWhenOpen

\* The three kinds of work are told apart by op.
LEMMA WorkKinds ==
  /\ Work = {NoWork} \cup MGetWork \cup StatsWork
  /\ \A w \in Work : /\ w.op = "mget" => w \in MGetWork /\ w # NoWork
                     /\ w.op = "stats" => w \in StatsWork /\ w # NoWork
BY DEF Work, MGetWork, StatsWork, NoWork

Counts == [commands : Nat, auth : Nat, authFailures : Nat, clientErrors : Nat, serverErrors : Nat]

\* An answer keeps the types and moves no other session.
LEMMA RespondTyped ==
  ASSUME SessionTypeOK, NEW c \in Client, NEW line, NEW last \in BOOLEAN, NEW counted \in Counts,
         Respond(c, line, last, counted)
  PROVE  /\ gate' \in [Client -> {"locked", "open", "closed"}]
         /\ \A d \in Client : d # c => gate'[d] = gate[d]
         /\ DOMAIN answer' = Client /\ count' \in Counts /\ told' \in Nat
BY DEF SessionTypeOK, Respond, Counts

\* Steps of other sessions leave an MGET an MGET and everything else as it is.
LEMMA UntouchedTyped ==
  ASSUME NEW c \in Client, work[c] \in Work
  PROVE  /\ Untouched(c) \in Work
         /\ work[c].op = "mget" => /\ Untouched(c) \in MGetWork
                                   /\ Untouched(c).todo = work[c].todo
                                   /\ Untouched(c).hits = work[c].hits
                                   /\ Untouched(c).untouched \subseteq work[c].untouched
         /\ work[c].op # "mget" => Untouched(c) = work[c]
<1>1. CASE work[c].op = "mget"
  <2>1. work[c] \in MGetWork
    BY Zenon, <1>1, WorkKinds
  <2>2. /\ Untouched(c) \in MGetWork
        /\ Untouched(c).todo = work[c].todo
        /\ Untouched(c).hits = work[c].hits
        /\ Untouched(c).untouched \subseteq work[c].untouched
    BY Zenon, <1>1, <2>1 DEF Untouched, MGetWork
  <2> QED
    BY Zenon, <1>1, <2>2, WorkKinds
<1>2. CASE work[c].op # "mget"
  BY <1>2 DEF Untouched
<1> QED
  BY Zenon, <1>1, <1>2

-----------------------------------------------------------------------------
(***************************************************************************)
(* Each step of a session keeps the types of the session variables.        *)
(***************************************************************************)
SessionInv == SessionTypeOK /\ WorkOnlyWhenOpen

\* A command that is read and answered in one step.
LEMMA CommandTyped ==
  ASSUME SInv, NEW c \in Client, Reads(c), NEW line, NEW last \in BOOLEAN, NEW counted \in Counts,
         Respond(c, line, last, counted),
         work' = work \/ work' = [d \in Client |-> Untouched(d)],
         proved' \in SUBSET Client, shown' = shown
  PROVE  SessionInv'
<1>1. /\ gate' \in [Client -> {"locked", "open", "closed"}]
      /\ \A d \in Client : d # c => gate'[d] = gate[d]
      /\ DOMAIN answer' = Client /\ count' \in Counts /\ told' \in Nat
  BY Zenon, RespondTyped DEF SInv
<1>2. \A d \in Client : work[d] \in Work
  BY Zenon DEF SInv, SessionTypeOK
<1>3. \A d \in Client : Untouched(d) \in Work /\ (work[d].op # "mget" => Untouched(d) = work[d])
  BY Zenon, <1>2, UntouchedTyped
<1>4. work' \in [Client -> Work] /\ \A d \in Client : work[d] = NoWork => work'[d] = NoWork
  BY <1>3 DEF SInv, SessionTypeOK, NoWork
<1>5. read' \in [Client -> Nat]
  BY DEF SInv, SessionTypeOK, Reads
<1>6. SessionTypeOK'
  BY Zenon, <1>1, <1>4, <1>5 DEF SInv, SessionTypeOK, Counts
<1>7. WorkOnlyWhenOpen'
  BY Zenon, <1>1, <1>4 DEF SInv, WorkOnlyWhenOpen, Reads
<1> QED
  BY Zenon, <1>6, <1>7 DEF SessionInv

\* Counting a command keeps the counters natural numbers.
LEMMA CountedTyped ==
  ASSUME SessionTypeOK
  PROVE  /\ count \in Counts /\ Counted \in Counts
         /\ [count EXCEPT !.clientErrors = @ + 1] \in Counts
         /\ [count EXCEPT !.auth = @ + 1] \in Counts
         /\ [[count EXCEPT !.auth = @ + 1] EXCEPT !.authFailures = @ + 1] \in Counts
<1>1. count \in Counts
  BY DEF SessionTypeOK, Counts
<1>2. \A n \in Counts : /\ [n EXCEPT !.commands = @ + 1] \in Counts
                        /\ [n EXCEPT !.clientErrors = @ + 1] \in Counts
                        /\ [n EXCEPT !.auth = @ + 1] \in Counts
                        /\ [n EXCEPT !.authFailures = @ + 1] \in Counts
  BY DEF Counts
<1> QED
  BY Zenon, <1>1, <1>2 DEF Counted

\* The commands that execute answers at once.
LEMMA ExecTyped ==
  ASSUME SInv, NEW c \in Client, OpenReads(c),
         RefuseTTL(c) \/ (\E op \in Op : Answered(c, op))
  PROVE  SessionInv'
<1>1. Reads(c) /\ Counted \in Counts /\ proved \in SUBSET Client
  BY Zenon, CountedTyped DEF SInv, SessionTypeOK, OpenReads
<1>2. CASE RefuseTTL(c)
  BY Zenon, <1>1, <1>2, CommandTyped DEF RefuseTTL
<1>3. ASSUME NEW op \in Op, Answered(c, op) PROVE SessionInv'
  BY Zenon, <1>1, <1>3, CommandTyped DEF Answered
<1> QED
  BY Zenon, <1>2, <1>3

\* The commands around execute, and PING.
LEMMA AroundTyped ==
  ASSUME SInv, NEW c \in Client,
         BadCommand(c) \/ Leave(c) \/ Refuse(c) \/ ExecPing(c) \/ (\E token \in Token : Auth(c, token))
  PROVE  SessionInv'
<1>1. /\ count \in Counts /\ Counted \in Counts
      /\ [count EXCEPT !.clientErrors = @ + 1] \in Counts
      /\ [count EXCEPT !.auth = @ + 1] \in Counts
      /\ [[count EXCEPT !.auth = @ + 1] EXCEPT !.authFailures = @ + 1] \in Counts
      /\ proved \in SUBSET Client
  BY CountedTyped DEF SInv, SessionTypeOK
<1>2. CASE BadCommand(c)
  BY Zenon, <1>1, <1>2, CommandTyped DEF BadCommand
<1>3. CASE Leave(c)
  BY Zenon, <1>3 DEF SInv, SessionInv, SessionTypeOK, WorkOnlyWhenOpen, Leave
<1>4. CASE Refuse(c)
  BY Zenon, <1>1, <1>4, CommandTyped DEF Refuse
<1>5. CASE ExecPing(c)
  BY ZenonT(60), <1>1, <1>5, CommandTyped DEF ExecPing, OpenReads
<1>6. ASSUME NEW token \in Token, Auth(c, token) PROVE SessionInv'
  <2>1. Reads(c) /\ work' = work /\ shown' = shown /\ proved' \in SUBSET Client
    BY Zenon, <1>1, <1>6 DEF Auth
  <2>2. CASE AuthToken = NoToken
    BY Zenon, <1>1, <1>6, <2>1, <2>2, CommandTyped DEF Auth
  <2>3. CASE AuthToken # NoToken /\ token # AuthToken
    BY ZenonT(60), <1>1, <1>6, <2>1, <2>3, CommandTyped DEF Auth
  <2>4. CASE AuthToken # NoToken /\ token = AuthToken
    BY ZenonT(60), <1>1, <1>6, <2>1, <2>4, CommandTyped DEF Auth
  <2> QED
    BY Zenon, <2>2, <2>3, <2>4
<1> QED
  BY Zenon, <1>2, <1>3, <1>4, <1>5, <1>6

\* MGET and GETS.
LEMMA MultiTyped ==
  ASSUME SInv, NEW c \in Client,
         (\E keys \in KeyList : MultiStart(c, keys)) \/ MultiGet(c) \/ MultiFails(c) \/ MultiEnd(c)
  PROVE  SessionInv'
<1>1. /\ gate \in [Client -> {"locked", "open", "closed"}] /\ work \in [Client -> Work]
      /\ DOMAIN answer = Client /\ count \in Counts /\ read \in [Client -> Nat] /\ told \in Nat
  BY Zenon DEF SInv, SessionTypeOK, Counts
<1>2. work[c].op = "mget" => work[c] \in MGetWork /\ work[c] # NoWork /\ gate[c] = "open"
  BY Zenon, <1>1, WorkKinds DEF SInv, WorkOnlyWhenOpen
<1>3. ASSUME NEW keys \in KeyList, MultiStart(c, keys) PROVE SessionInv'
  <2>1. keys \in Seq(Key) /\ {keys[i] : i \in DOMAIN keys} \subseteq Key
    BY SessionAssumption
  <2>2. LiveAmong({keys[i] : i \in DOMAIN keys}) \in SUBSET Key
    BY Zenon, <2>1 DEF LiveAmong
  <2> DEFINE live == LiveAmong({keys[i] : i \in DOMAIN keys})
  <2> HIDE DEF live
  <2>3. [op |-> "mget", keys |-> keys, todo |-> keys, hits |-> {}, untouched |-> live] \in MGetWork
    BY Zenon, <2>1, <2>2 DEF MGetWork, live
  <2>4. /\ work' = [work EXCEPT ![c] = [op |-> "mget", keys |-> keys, todo |-> keys, hits |-> {},
                                        untouched |-> live]]
        /\ gate[c] = "open" /\ Reads(c) /\ count' = Counted
        /\ gate' = gate /\ answer' = answer /\ proved' = proved /\ shown' = shown /\ told' = told
    BY Zenon, <1>3 DEF MultiStart, OpenReads, live
  <2>5. work' \in [Client -> Work]
    BY Zenon, <1>1, <2>3, <2>4, WorkKinds
  <2>6. Counted \in Counts /\ read' \in [Client -> Nat]
    BY <1>1, <2>4, CountedTyped DEF SInv, Reads
  <2> QED
    BY Zenon, <1>1, <2>4, <2>5, <2>6 DEF SInv, SessionInv, SessionTypeOK, WorkOnlyWhenOpen, Counts
<1>4. CASE MultiGet(c)
  <2> DEFINE k == Head(work[c].todo)
             hits == IF reply'.err = "nil" THEN Untouched(c).hits \cup {k} ELSE Untouched(c).hits
  <2>1. work[c].op = "mget" /\ work[c].todo \in Seq(Key) /\ work[c].todo # <<>>
    BY Zenon, <1>2, <1>4 DEF MultiGet, MGetWork
  <2>2. \A d \in Client : Untouched(d) \in Work /\ (work[d].op # "mget" => Untouched(d) = work[d])
    BY Zenon, <1>1, UntouchedTyped
  <2>3. Untouched(c) \in MGetWork /\ Untouched(c).todo = work[c].todo
    BY Zenon, <1>1, <2>1, UntouchedTyped
  <2>4. k \in Key /\ Tail(work[c].todo) \in Seq(Key)
    BY <2>1
  <2>5. hits \in SUBSET Key
    BY Zenon, <2>3, <2>4 DEF MGetWork
  <2> DEFINE later == [Untouched(c) EXCEPT !.todo = Tail(@),
                                           !.hits = IF reply'.err = "nil" THEN @ \cup {k} ELSE @]
  <2>6. later \in MGetWork
    BY Zenon, <2>3, <2>4, <2>5 DEF MGetWork
  <2>7. work' = [d \in Client |-> IF d = c THEN later ELSE Untouched(d)]
    BY Zenon, <1>4 DEF MultiGet
  <2> HIDE DEF later
  <2>8. work' \in [Client -> Work] /\ \A d \in Client : work[d] = NoWork => work'[d] = NoWork
    BY ZenonT(30), <1>2, <2>1, <2>2, <2>6, <2>7, WorkKinds DEF NoWork
  <2>9. UNCHANGED <<gate, answer, count, read, proved, shown, told>>
    BY Zenon, <1>4 DEF MultiGet
  <2> QED
    BY Zenon, <2>8, <2>9 DEF SInv, SessionInv, SessionTypeOK, WorkOnlyWhenOpen
<1>5. CASE MultiFails(c)
  <2>1. /\ gate' \in [Client -> {"locked", "open", "closed"}]
        /\ \A d \in Client : d # c => gate'[d] = gate[d]
        /\ DOMAIN answer' = Client /\ count' \in Counts /\ told' \in Nat
    BY <1>1, <1>5 DEF MultiFails, Counts
  <2>2. work' \in [Client -> Work] /\ work' = [work EXCEPT ![c] = NoWork]
    BY Zenon, <1>1, <1>5, WorkKinds DEF MultiFails
  <2> QED
    BY <1>1, <1>5, <2>1, <2>2 DEF MultiFails, SInv, SessionInv, SessionTypeOK, WorkOnlyWhenOpen, Counts
<1>6. CASE MultiEnd(c)
  <2>1. /\ gate' \in [Client -> {"locked", "open", "closed"}]
        /\ \A d \in Client : d # c => gate'[d] = gate[d]
        /\ DOMAIN answer' = Client /\ count' \in Counts /\ told' \in Nat
    BY ZenonT(60), <1>1, <1>6, RespondTyped DEF MultiEnd, SInv
  <2>2. work' \in [Client -> Work] /\ work' = [work EXCEPT ![c] = NoWork]
    BY <1>1, <1>6, WorkKinds DEF MultiEnd
  <2> QED
    BY Zenon, <1>1, <1>6, <2>1, <2>2 DEF MultiEnd, SInv, SessionInv, SessionTypeOK, WorkOnlyWhenOpen, Counts
<1> QED
  BY Zenon, <1>3, <1>4, <1>5, <1>6

\* STATS.
LEMMA StatsTyped ==
  ASSUME SInv, NEW c \in Client, StatsStart(c) \/ StatsShard(c) \/ StatsLoad(c)
  PROVE  SessionInv'
<1>1. /\ gate \in [Client -> {"locked", "open", "closed"}] /\ work \in [Client -> Work]
      /\ DOMAIN answer = Client /\ count \in Counts /\ read \in [Client -> Nat] /\ told \in Nat
  BY Zenon DEF SInv, SessionTypeOK, Counts
<1>2. /\ Shards \in Nat /\ Shards >= 1 /\ perShardMemory \in Nat
      /\ work[c].op = "stats" => work[c] \in StatsWork /\ work[c] # NoWork /\ gate[c] = "open"
  BY <1>1, ConfigAssumption, WorkKinds DEF SInv, WorkOnlyWhenOpen, perShardMemory
<1>3. CASE StatsStart(c)
  <2> DEFINE zero == [op |-> "stats", shard |-> 1, locked |-> TRUE, items |-> 0,
                      memory |-> 0, budget |-> 0, evictions |-> 0, expirations |-> 0]
  <2>1. zero \in StatsWork
    BY <1>2 DEF StatsWork
  <2>2. work' = [work EXCEPT ![c] = zero]
    BY Zenon, <1>3 DEF StatsStart
  <2> HIDE DEF zero
  <2>3. work' \in [Client -> Work]
    BY Zenon, <1>1, <2>1, <2>2, WorkKinds
  <2>4. Counted \in Counts /\ read' \in [Client -> Nat]
    BY <1>1, <1>3, CountedTyped DEF SInv, StatsStart, OpenReads, Reads
  <2> QED
    BY Zenon, <1>1, <1>3, <2>2, <2>3, <2>4
    DEF StatsStart, OpenReads, SInv, SessionInv, SessionTypeOK, WorkOnlyWhenOpen, Counts
<1>4. CASE StatsShard(c)
  <2> DEFINE sh == shards[work[c].shard]
             items == Cardinality(DOMAIN sh.items)
  <2>1. work[c] \in StatsWork /\ gate[c] = "open"
    BY Zenon, <1>2, <1>4 DEF StatsShard
  <2>2. items \in Nat /\ sh.memoryBytes \in Nat
    BY <2>1 DEF StatsWork, SInv, Totals
  <2> DEFINE later == [work[c] EXCEPT !.items = @ + items, !.memory = @ + sh.memoryBytes,
                                      !.budget = @ + perShardMemory, !.locked = FALSE]
  <2>3. later \in StatsWork
    <3> HIDE DEF items, sh
    <3>1. work[c].items \in Nat /\ work[c].memory \in Nat /\ work[c].budget \in Nat
      BY Zenon, <2>1 DEF StatsWork
    <3>2. /\ work[c].items + items \in Nat /\ work[c].memory + sh.memoryBytes \in Nat
          /\ work[c].budget + perShardMemory \in Nat
      BY <1>2, <2>2, <3>1
    <3> QED
      BY ZenonT(60), <2>1, <3>2 DEF StatsWork
  <2>4. work' = [work EXCEPT ![c] = later]
    BY Zenon, <1>1, <1>4, <2>1 DEF StatsShard, StatsWork
  <2> HIDE DEF later
  <2>5. work' \in [Client -> Work]
    BY Zenon, <1>1, <2>3, <2>4, WorkKinds
  <2>6. UNCHANGED <<gate, answer, count, read, proved, shown, told>>
    BY Zenon, <1>4 DEF StatsShard
  <2> QED
    BY Zenon, <1>1, <2>1, <2>4, <2>5, <2>6 DEF SInv, SessionInv, SessionTypeOK, WorkOnlyWhenOpen
<1>5. CASE StatsLoad(c)
  <2> DEFINE sh == shards[work[c].shard]
             loaded == [work[c] EXCEPT !.evictions = @ + sh.evictions,
                                       !.expirations = @ + sh.expirations,
                                       !.shard = afterShard(@), !.locked = TRUE]
  <2>1. work[c] \in StatsWork /\ gate[c] = "open"
    BY Zenon, <1>2, <1>5 DEF StatsLoad
  <2>2. sh.evictions \in Nat /\ sh.expirations \in Nat
    BY <2>1 DEF StatsWork, SInv, Totals
  <2>3. /\ loaded.evictions \in Nat /\ loaded.expirations \in Nat
        /\ loaded.shard # 0 => loaded \in StatsWork
    <3>1. /\ work[c].evictions \in Nat /\ work[c].expirations \in Nat
          /\ work[c].shard \in 1 .. Shards
      BY Zenon, <2>1 DEF StatsWork
    <3> HIDE DEF sh
    <3>2. /\ work[c].evictions + sh.evictions \in Nat /\ work[c].expirations + sh.expirations \in Nat
          /\ afterShard(work[c].shard) # 0 => afterShard(work[c].shard) \in 1 .. Shards
      BY <1>2, <2>2, <3>1 DEF afterShard
    <3> QED
      BY ZenonT(60), <2>1, <3>2 DEF StatsWork
  <2>4. UNCHANGED <<read, proved>>
    BY Zenon, <1>5 DEF StatsLoad
  <2>5. CASE loaded.shard # 0
    <3>1. work' = [work EXCEPT ![c] = loaded] /\ UNCHANGED <<gate, answer, count, shown, told>>
      BY Zenon, <1>5, <2>5 DEF StatsLoad
    <3> HIDE DEF loaded
    <3>2. work' \in [Client -> Work]
      BY ZenonT(30), <1>1, <2>3, <2>5, <3>1, WorkKinds
    <3> QED
      BY Zenon, <1>1, <2>1, <2>4, <3>1, <3>2 DEF SInv, SessionInv, SessionTypeOK, WorkOnlyWhenOpen
  <2>6. CASE loaded.shard = 0
    <3>1. /\ Respond(c, "STAT", FALSE, count)
          /\ work' = [work EXCEPT ![c] = NoWork]
          /\ shown' = [shown EXCEPT ![c] = [evictions |-> loaded.evictions,
                                           expirations |-> loaded.expirations]]
      BY Zenon, <1>5, <2>6 DEF StatsLoad
    <3> HIDE DEF loaded
    <3>2. /\ gate' \in [Client -> {"locked", "open", "closed"}]
          /\ \A d \in Client : d # c => gate'[d] = gate[d]
          /\ DOMAIN answer' = Client /\ count' \in Counts /\ told' \in Nat
      BY Zenon, <1>1, <3>1, RespondTyped DEF SInv
    <3>3. work' \in [Client -> Work] /\ shown' \in [Client -> [evictions : Nat, expirations : Nat]]
      BY ZenonT(30), <1>1, <2>3, <3>1, WorkKinds DEF SInv, SessionTypeOK
    <3> QED
      BY ZenonT(30), <1>1, <2>4, <3>1, <3>2, <3>3
         DEF SInv, SessionInv, SessionTypeOK, WorkOnlyWhenOpen, Counts
  <2> QED
    BY Zenon, <2>5, <2>6
<1> QED
  BY Zenon, <1>3, <1>4, <1>5

\* The sweeper and the clock.
LEMMA BackgroundTyped ==
  ASSUME SInv, Background
  PROVE  SessionInv'
<1>1. \A d \in Client : work[d] \in Work
  BY Zenon DEF SInv, SessionTypeOK
<1>2. \A d \in Client : Untouched(d) \in Work /\ (work[d].op # "mget" => Untouched(d) = work[d])
  BY Zenon, <1>1, UntouchedTyped
<1>3. work' \in [Client -> Work] /\ \A d \in Client : work[d] = NoWork => work'[d] = NoWork
  BY <1>2 DEF Background, NoWork
<1> QED
  BY Zenon, <1>3 DEF Background, SInv, SessionInv, SessionTypeOK, WorkOnlyWhenOpen

-----------------------------------------------------------------------------
(***************************************************************************)
(* Sessions implement the store.                                           *)
(***************************************************************************)
\* A TTL that is not refused reaches the store as it was asked for.
LEMMA DurationExact ==
  ASSUME NEW t \in TTLSeconds, ~ TTLTooLarge(t)
  PROVE  Duration(t) = t /\ t \in TTL
BY SessionAssumption DEF TTLTooLarge, Duration

\* A command of a session is one call of the store or none.
LEMMA ServeStep ==
  ASSUME SInv, NEW c \in Client, Serve(c)
  PROVE  (Next \/ UNCHANGED vars) /\ SessionInv'
<1>1. ASSUME NEW k \in Key, NEW v \in SetValue, NEW t \in TTLSeconds, ExecSet(c, k, v, t)
      PROVE  (Next \/ UNCHANGED vars) /\ SessionInv'
  <2>1. OpenReads(c) /\ (RefuseTTL(c) \/ Answered(c, "set"))
    BY <1>1 DEF ExecSet
  <2> QED
    BY Zenon, <1>1, <2>1, DurationExact, ExecTyped DEF ExecSet, RefuseTTL, Next, Op
<1>2. ASSUME NEW v \in SetValue, NEW t \in TTLSeconds, ExecCas(c, v, t)
      PROVE  (Next \/ UNCHANGED vars) /\ SessionInv'
  <2>1. OpenReads(c) /\ (RefuseTTL(c) \/ Answered(c, "cas"))
    BY Zenon, <1>2 DEF ExecCas
  <2> QED
    BY ZenonT(60), <1>2, <2>1, DurationExact, ExecTyped DEF ExecCas, RefuseTTL, Next, Op
<1>3. ASSUME NEW k \in Key, ExecGet(c, k) \/ ExecDelete(c, k)
      PROVE  (Next \/ UNCHANGED vars) /\ SessionInv'
  BY Zenon, <1>3, ExecTyped DEF ExecGet, ExecDelete, Next, Op
<1>4. ASSUME NEW k \in Key, NEW d \in Delta, ExecIncr(c, k, d)
      PROVE  (Next \/ UNCHANGED vars) /\ SessionInv'
  BY <1>4, ExecTyped DEF ExecIncr, Next, Op
<1>5. ASSUME BadCommand(c) \/ Leave(c) \/ Refuse(c) \/ ExecPing(c) \/ (\E token \in Token : Auth(c, token))
      PROVE  (Next \/ UNCHANGED vars) /\ SessionInv'
  BY ZenonT(60), <1>5, AroundTyped DEF BadCommand, Leave, Refuse, ExecPing, Auth
<1>6. ASSUME (\E keys \in KeyList : MultiStart(c, keys)) \/ MultiFails(c) \/ MultiEnd(c)
      PROVE  (Next \/ UNCHANGED vars) /\ SessionInv'
  BY ZenonT(60), <1>6, MultiTyped DEF MultiStart, MultiFails, MultiEnd
<1>7. ASSUME MultiGet(c)
      PROVE  (Next \/ UNCHANGED vars) /\ SessionInv'
  <2>1. work[c].todo \in Seq(Key) /\ work[c].todo # <<>>
    BY <1>7, WorkKinds DEF SInv, SessionTypeOK, MultiGet, MGetWork
  <2>2. Head(work[c].todo) \in Key
    BY <2>1
  <2> QED
    BY Zenon, <1>7, <2>2, MultiTyped DEF MultiGet, Next
<1>8. ASSUME StatsStart(c) \/ StatsShard(c) \/ StatsLoad(c)
      PROVE  (Next \/ UNCHANGED vars) /\ SessionInv'
  BY Zenon, <1>8, StatsTyped DEF StatsStart, StatsShard, StatsLoad
<1> QED
  BY Zenon, <1>1, <1>2, <1>3, <1>4, <1>5, <1>6, <1>7, <1>8 DEF Serve

\* Each step is a step of the store or none, and keeps the types.
LEMMA StepOfStore == SInv /\ [SessionNext]_sessionVars => [Next]_vars /\ SessionInv'
<1> SUFFICES ASSUME SInv, [SessionNext]_sessionVars PROVE [Next]_vars /\ SessionInv'
  BY Zenon
<1>1. CASE Background
  BY Zenon, <1>1, BackgroundTyped DEF Background, Next
<1>2. ASSUME NEW c \in Client, Serve(c) PROVE [Next]_vars /\ SessionInv'
  BY Zenon, <1>2, ServeStep
<1>3. CASE UNCHANGED sessionVars
  BY Zenon, <1>3 DEF sessionVars, session, SInv, SessionInv, SessionTypeOK, WorkOnlyWhenOpen
<1> QED
  BY Zenon, <1>1, <1>2, <1>3 DEF SessionNext

\* A session starts with nothing under way.
LEMMA SessionStart == SessionInit => SessionInv
BY WorkKinds DEF SessionInit, SessionInv, SessionTypeOK, WorkOnlyWhenOpen

-----------------------------------------------------------------------------
(***************************************************************************)
(* Every failure that is counted ended a session.                          *)
(***************************************************************************)
Failures(n) == n.authFailures + n.clientErrors + n.serverErrors

\* The session of c fails and ends, or no failure is counted.
EndsIfFailed(c) ==
  /\ \A d \in Client : d # c => gate'[d] = gate[d]
  /\ gate[c] # "closed"
  /\ \/ Failures(count') = Failures(count)
     \/ Failures(count') = Failures(count) + 1 /\ gate'[c] = "closed"

\* An answer counts at most one failure, and then it is the last one.
LEMMA RespondEndsIfFailed ==
  ASSUME SInv, NEW c \in Client, gate[c] # "closed", NEW line, NEW last \in BOOLEAN,
         NEW counted \in Counts, Respond(c, line, last, counted),
         \/ Failures(counted) = Failures(count)
         \/ Failures(counted) = Failures(count) + 1 /\ last /\ line # "VALUE"
  PROVE  EndsIfFailed(c)
<1>1. gate \in [Client -> {"locked", "open", "closed"}] /\ count \in Counts
  BY DEF SInv, SessionTypeOK, Counts
<1>2. PICK failed \in {"nowhere", "flush", "execute"} :
        /\ failed = "execute" => line = "VALUE"
        /\ gate' = [gate EXCEPT ![c] = IF last \/ failed # "nowhere" THEN "closed" ELSE "open"]
        /\ count' = [counted EXCEPT !.serverErrors = @ + (IF failed = "execute" THEN 1 ELSE 0)]
  BY Zenon DEF Respond
<1>3. /\ \A d \in Client : d # c => gate'[d] = gate[d]
      /\ last \/ failed = "execute" => gate'[c] = "closed"
  BY Zenon, <1>1, <1>2
<1>4. Failures(count') = Failures(counted) + (IF failed = "execute" THEN 1 ELSE 0)
  BY <1>2 DEF Failures, Counts
<1>5. Failures(counted) \in Nat /\ Failures(count) \in Nat
  BY <1>1 DEF Failures, Counts
<1> QED
  BY SMTT(30), <1>2, <1>3, <1>4, <1>5 DEF EndsIfFailed

\* Counters other than those of failures.
LEMMA CountedFailures ==
  ASSUME SessionTypeOK
  PROVE  LET auth == [count EXCEPT !.auth = @ + 1]
         IN  /\ Failures(Counted) = Failures(count)
             /\ Failures([count EXCEPT !.clientErrors = @ + 1]) = Failures(count) + 1
             /\ Failures(auth) = Failures(count)
             /\ Failures([auth EXCEPT !.authFailures = @ + 1]) = Failures(count) + 1
<1>1. count \in Counts
  BY DEF SessionTypeOK, Counts
<1>2. \A n \in Counts :
        /\ Failures([n EXCEPT !.commands = @ + 1]) = Failures(n)
        /\ Failures([n EXCEPT !.clientErrors = @ + 1]) = Failures(n) + 1
        /\ [n EXCEPT !.auth = @ + 1] \in Counts /\ Failures([n EXCEPT !.auth = @ + 1]) = Failures(n)
        /\ Failures([n EXCEPT !.authFailures = @ + 1]) = Failures(n) + 1
  BY DEF Failures, Counts
<1> QED
  BY ZenonT(60), <1>1, <1>2 DEF Counted

\* The step of a session changes no counter of failures, or it ends it.
LEMMA ServeEndsIfFailed ==
  ASSUME SInv, NEW c \in Client, Serve(c)
  PROVE  EndsIfFailed(c) \/ (gate' = gate /\ count' \in {count, Counted})
         \/ (gate' = [gate EXCEPT ![c] = "closed"] /\ count' = count)
<1>1. /\ count \in Counts /\ Counted \in Counts
      /\ [count EXCEPT !.clientErrors = @ + 1] \in Counts
      /\ [count EXCEPT !.auth = @ + 1] \in Counts
      /\ [[count EXCEPT !.auth = @ + 1] EXCEPT !.authFailures = @ + 1] \in Counts
  BY CountedTyped DEF SInv
<1>2. LET auth == [count EXCEPT !.auth = @ + 1]
      IN  /\ Failures(Counted) = Failures(count)
          /\ Failures([count EXCEPT !.clientErrors = @ + 1]) = Failures(count) + 1
          /\ Failures(auth) = Failures(count)
          /\ Failures([auth EXCEPT !.authFailures = @ + 1]) = Failures(count) + 1
  BY CountedFailures DEF SInv
<1>3. ASSUME NEW op, Reads(c), Answered(c, op) \/ RefuseTTL(c) PROVE EndsIfFailed(c)
  BY ZenonT(60), <1>1, <1>2, <1>3, RespondEndsIfFailed DEF Reads, Answered, RefuseTTL
<1>4. ASSUME \/ \E k \in Key, v \in SetValue, t \in TTLSeconds : ExecSet(c, k, v, t)
             \/ \E v \in SetValue, t \in TTLSeconds : ExecCas(c, v, t)
             \/ \E k \in Key : ExecGet(c, k) \/ ExecDelete(c, k)
             \/ \E k \in Key, d \in Delta : ExecIncr(c, k, d)
      PROVE  EndsIfFailed(c)
  BY Zenon, <1>3, <1>4 DEF ExecSet, ExecCas, ExecGet, ExecDelete, ExecIncr, OpenReads
<1>5. ASSUME BadCommand(c) \/ Refuse(c) \/ ExecPing(c) PROVE EndsIfFailed(c)
  BY ZenonT(60), <1>1, <1>2, <1>5, RespondEndsIfFailed DEF BadCommand, Refuse, ExecPing, OpenReads, Reads
<1>6. ASSUME NEW token \in Token, Auth(c, token) PROVE EndsIfFailed(c)
  <2>1. gate[c] # "closed"
    BY Zenon, <1>6 DEF Auth, Reads
  <2>2. CASE AuthToken = NoToken
    BY ZenonT(60), <1>1, <1>2, <1>6, <2>1, <2>2, RespondEndsIfFailed DEF Auth
  <2>3. CASE AuthToken # NoToken /\ token # AuthToken
    BY ZenonT(60), <1>1, <1>2, <1>6, <2>1, <2>3, RespondEndsIfFailed DEF Auth
  <2>4. CASE AuthToken # NoToken /\ token = AuthToken
    BY Zenon, <1>1, <1>2, <1>6, <2>1, <2>4, RespondEndsIfFailed DEF Auth
  <2> QED
    BY Zenon, <2>2, <2>3, <2>4
<1>7. work[c].op \in {"mget", "stats"} => gate[c] = "open"
  BY Zenon, WorkKinds DEF SInv, SessionTypeOK, WorkOnlyWhenOpen
<1>8. ASSUME MultiFails(c) PROVE EndsIfFailed(c)
  BY <1>1, <1>7, <1>8 DEF MultiFails, EndsIfFailed, Failures, Counts, SInv, SessionTypeOK
<1>9. ASSUME MultiEnd(c) PROVE EndsIfFailed(c)
  BY Zenon, <1>1, <1>7, <1>9, RespondEndsIfFailed DEF MultiEnd
<1>10. ASSUME StatsLoad(c) PROVE EndsIfFailed(c) \/ (gate' = gate /\ count' = count)
  <2>1. gate[c] = "open"
    BY Zenon, <1>7, <1>10 DEF StatsLoad
  <2>2. Respond(c, "STAT", FALSE, count) \/ (gate' = gate /\ count' = count)
    BY Zenon, <1>10 DEF StatsLoad
  <2> QED
    BY ZenonT(60), <1>1, <2>1, <2>2, RespondEndsIfFailed
<1>11. ASSUME (\E keys \in KeyList : MultiStart(c, keys)) \/ StatsStart(c) \/ StatsShard(c) \/ MultiGet(c)
       PROVE  gate' = gate /\ count' \in {count, Counted}
  BY Zenon, <1>11 DEF MultiStart, StatsStart, StatsShard, MultiGet
<1>12. ASSUME Leave(c) PROVE gate' = [gate EXCEPT ![c] = "closed"] /\ count' = count
  BY Zenon, <1>12 DEF Leave
<1> QED
  BY ZenonT(30), <1>4, <1>5, <1>6, <1>8, <1>9, <1>10, <1>11, <1>12 DEF Serve

\* No session has ended and no failure is counted at the start.
LEMMA FailuresStart == SessionInit => FailuresEndSessions
<1> DEFINE Closed == {c \in Client : gate[c] = "closed"}
<1> SUFFICES ASSUME SessionInit PROVE FailuresEndSessions
  BY ZenonT(30)
<1>1. Closed = {}
  BY ZenonT(30) DEF SessionInit
<1>2. Cardinality(Closed) = 0
  BY ZenonT(30), <1>1, FS_EmptySet
<1> QED
  BY <1>2 DEF SessionInit, FailuresEndSessions

\* A step that counts a failure ends a session that was not closed before.
LEMMA FailuresStep == SInv /\ FailuresEndSessions /\ [SessionNext]_sessionVars => FailuresEndSessions'
<1> DEFINE Closed == {c \in Client : gate[c] = "closed"}
<1> SUFFICES ASSUME SInv, FailuresEndSessions, [SessionNext]_sessionVars
             PROVE  FailuresEndSessions'
  BY ZenonT(30)
<1>1. /\ gate \in [Client -> {"locked", "open", "closed"}] /\ count \in Counts
      /\ Failures(count) \in Nat /\ Failures(Counted) = Failures(count)
  BY CountedFailures DEF SInv, SessionTypeOK, Counts, Failures
<1>2. Failures(count) <= Cardinality(Closed)
  BY Zenon DEF FailuresEndSessions, Failures
<1>3. SUFFICES Failures(count') <= Cardinality(Closed')
  BY Zenon DEF FailuresEndSessions, Failures
<1>4. IsFiniteSet(Closed) /\ IsFiniteSet(Closed') /\ Cardinality(Closed) \in Nat
  BY ZenonT(30), SessionAssumption, FS_Subset, FS_CardinalityType
<1>5. ASSUME gate' = gate, count' \in {count, Counted} PROVE Failures(count') <= Cardinality(Closed')
  BY ZenonT(30), <1>1, <1>2, <1>5
<1>6. ASSUME NEW c \in Client, EndsIfFailed(c) PROVE Failures(count') <= Cardinality(Closed')
  <2>1. CASE gate'[c] = "closed"
    <3>1. Closed' = Closed \cup {c} /\ c \notin Closed
      BY <1>6, <2>1 DEF EndsIfFailed
    <3>2. Cardinality(Closed') = Cardinality(Closed) + 1
      BY ZenonT(30), <1>4, <3>1, FS_AddElement
    <3> HIDE DEF Closed
    <3> QED
      <4>1. PICK n \in Nat : n = Cardinality(Closed)
        BY Zenon, <1>4
      <4>2. PICK m \in Nat : m = Failures(count)
        BY Zenon, <1>1
      <4>3. m <= n /\ Cardinality(Closed') = n + 1
        BY Zenon, <1>2, <3>2, <4>1, <4>2
      <4>4. Failures(count') \in {m, m + 1}
        BY Zenon, <1>6, <4>2 DEF EndsIfFailed
      <4>5. m <= n + 1 /\ m + 1 <= n + 1
        BY <4>3
      <4> QED
        BY Zenon, <4>3, <4>4, <4>5
  <2>2. CASE gate'[c] # "closed"
    <3>1. Closed' = Closed
      BY ZenonT(30), <1>6, <2>2 DEF EndsIfFailed
    <3> HIDE DEF Closed
    <3> QED
      BY ZenonT(30), <1>2, <1>6, <2>2, <3>1 DEF EndsIfFailed
  <2> QED
    BY ZenonT(30), <2>1, <2>2
<1>7. ASSUME NEW c \in Client, gate' = [gate EXCEPT ![c] = "closed"], count' = count
      PROVE  Failures(count') <= Cardinality(Closed')
  <2>1. Closed' = Closed \cup {c}
    BY ZenonT(30), <1>1, <1>7
  <2>2. Cardinality(Closed) <= Cardinality(Closed') /\ Cardinality(Closed') \in Nat
    BY ZenonT(30), <1>4, <2>1, FS_Subset, FS_CardinalityType
  <2> HIDE DEF Closed
  <2> QED
    BY <1>1, <1>2, <1>4, <1>7, <2>2
<1>8. CASE Background \/ UNCHANGED sessionVars
  BY ZenonT(30), <1>5, <1>8 DEF Background, sessionVars, session
<1>9. ASSUME NEW c \in Client, Serve(c) PROVE Failures(count') <= Cardinality(Closed')
  BY ZenonT(30), <1>5, <1>6, <1>7, <1>9, ServeEndsIfFailed
<1> QED
  BY ZenonT(30), <1>8, <1>9 DEF SessionNext

-----------------------------------------------------------------------------
(***************************************************************************)
(* Every write is reported, or its session ended on the lost report.  This *)
(* is inductive with the fact that such a session is closed, for a closed  *)
(* session loses no second answer.                                         *)
(***************************************************************************)
Losers == {c \in Client : answer[c] = "lost"}

AnsweredInv ==
  /\ \A c \in Client : answer[c] = "lost" => gate[c] = "closed"
  /\ told <= casCounter /\ casCounter - told <= Cardinality(Losers)

\* A session's answer, of a step that draws drawn versions, told of it or lost.
Reports(c, drawn) ==
  /\ gate[c] # "closed"
  /\ \A d \in Client : d # c => gate'[d] = gate[d] /\ answer'[d] = answer[d]
  /\ answer'[c] = "lost" => gate'[c] = "closed"
  /\ told' = told + drawn \/ (told' = told /\ answer'[c] = "lost")

\* What is answered to one session.
LEMMA RespondReports ==
  ASSUME SessionTypeOK, NEW c \in Client, gate[c] # "closed", NEW line, line # "lost", NEW last,
         NEW counted, Respond(c, line, last, counted)
  PROVE  Reports(c, IF line \in WriteLines THEN 1 ELSE 0)
<1>1. PICK failed \in {"nowhere", "flush", "execute"} :
        /\ gate' = [gate EXCEPT ![c] = IF last \/ failed # "nowhere" THEN "closed" ELSE "open"]
        /\ answer' = [answer EXCEPT ![c] = IF failed = "nowhere" THEN line ELSE "lost"]
        /\ told' = told + (IF failed = "nowhere" /\ line \in WriteLines THEN 1 ELSE 0)
  BY Zenon DEF Respond
<1>2. told \in Nat /\ c \in DOMAIN gate /\ DOMAIN answer = Client
  BY Zenon DEF SessionTypeOK
<1>3. /\ \A d \in Client : d # c => gate'[d] = gate[d] /\ answer'[d] = answer[d]
      /\ gate'[c] = IF last \/ failed # "nowhere" THEN "closed" ELSE "open"
      /\ answer'[c] = IF failed = "nowhere" THEN line ELSE "lost"
  BY Zenon, <1>1, <1>2 DEF SessionTypeOK
<1>4. failed # "nowhere" => told' = told
  <2>1. failed # "nowhere" => told' = told + 0
    BY Zenon, <1>1
  <2> QED
    BY <1>2, <2>1
<1>5. failed = "nowhere" => told' = told + (IF line \in WriteLines THEN 1 ELSE 0)
  BY Zenon, <1>1
<1> QED
  BY Zenon, <1>3, <1>4, <1>5 DEF Reports

\* The lines execute writes: of a write if the store wrote.
LEMMA LinesTell ==
  ASSUME NEW op \in Op, NEW err,
         \/ err \in {"nil", "ErrValueTooLarge", "ErrMemoryLimitExceeded"} /\ op = "set"
         \/ err \in {"nil", "ErrNotFound"} /\ op \in {"get", "delete"}
         \/ err \in {"nil", "ErrNotFound", "ErrCasMismatch", "ErrValueTooLarge", "ErrMemoryLimitExceeded"}
              /\ op = "cas"
         \/ err \in {"nil", "ErrNotFound", "ErrNotInteger", "ErrOverflow", "ErrValueTooLarge",
                     "ErrMemoryLimitExceeded"} /\ op = "incr"
  PROVE  /\ Line(op, err) # "lost"
         /\ Line(op, err) \in WriteLines <=> err = "nil" /\ op \in {"set", "cas", "incr"}
BY Zenon DEF Line, WriteLines, Op

\* A call of the store draws a version exactly when its line tells of a write.
LEMMA CallDraws ==
  ASSUME SInv, NEW c \in Client, gate[c] # "closed", NEW op \in Op, NEW k, NEW out,
         Return(op, k, out), Answered(c, op),
         /\ Line(op, out.err) # "lost"
         /\ Line(op, out.err) \in WriteLines <=> out.stamped
  PROVE  casCounter' \in {casCounter, casCounter + 1} /\ Reports(c, casCounter' - casCounter)
<1>1. reply'.err = out.err /\ casCounter' = IF out.stamped THEN casCounter + 1 ELSE casCounter
  BY Zenon DEF Return
<1>2. Reports(c, IF out.stamped THEN 1 ELSE 0)
  BY Zenon, <1>1, RespondReports DEF Answered, SInv
<1>3. casCounter \in Nat
  BY Zenon DEF SInv, IInv, TypeOK
<1>4. casCounter' - casCounter = IF out.stamped THEN 1 ELSE 0
  BY <1>1, <1>3
<1> QED
  BY Zenon, <1>1, <1>2, <1>4

\* The session of c reports what its step draws from the cas counter.
Accounts(c) == casCounter' \in {casCounter, casCounter + 1} /\ Reports(c, casCounter' - casCounter)

\* Nothing is drawn, answered or opened again.
SaysNothing ==
  /\ UNCHANGED <<casCounter, told, answer>>
  /\ \A d \in Client : gate[d] = "closed" => gate'[d] = "closed"

\* The commands that call the store once.
LEMMA CallsAccount ==
  ASSUME SInv, Promises, NEW c \in Client, gate[c] # "closed"
  PROVE  /\ \A k \in Key, v \in SetValue, t \in TTL : Set(k, v, t) /\ Answered(c, "set") => Accounts(c)
         /\ \A v \in SetValue, t \in TTL : Cas(c, v, t) /\ Answered(c, "cas") => Accounts(c)
         /\ \A k \in Key : Get(c, k) /\ Answered(c, "get") => Accounts(c)
         /\ \A k \in Key : Delete(k) /\ Answered(c, "delete") => Accounts(c)
         /\ \A k \in Key, d \in Delta : Incr(k, d) /\ Answered(c, "incr") => Accounts(c)
<1> USE DEF Accounts
<1>1. \A k, v : Refusal(k, v) \in {"nil", "ErrValueTooLarge", "ErrMemoryLimitExceeded"}
  BY Zenon DEF Refusal
<1>2. ASSUME NEW k \in Key, NEW v \in SetValue, NEW t \in TTL, Set(k, v, t), Answered(c, "set")
      PROVE  Accounts(c)
  <2> DEFINE sh  == shards[shardFor(k)]
             out == set(sh, k, v, t, now, casCounter + 1)
  <2>1. Return("set", k, out)
    BY Zenon, <1>2 DEF Set
  <2>2. /\ Correct(sh, k, now, casCounter + 1, out)
        /\ out.err = Refusal(k, v)
        /\ out.err = "nil" => out.stamped
    BY Zenon DEF Promises, SetPromise
  <2> HIDE DEF out
  <2>3. out.err = "nil" <=> out.stamped
    BY Zenon, <2>2 DEF Correct
  <2> QED
    BY Zenon, <1>1, <1>2, <2>1, <2>2, <2>3, LinesTell, CallDraws DEF Op
<1>3. ASSUME NEW v \in SetValue, NEW t \in TTL, Cas(c, v, t), Answered(c, "cas")
      PROVE  Accounts(c)
  <2> DEFINE k   == seen[c].key
             sh  == shards[shardFor(k)]
             out == cas(sh, k, v, t, seen[c].cas, now, casCounter + 1)
  <2>1. Return("cas", k, out) /\ k \in Key /\ seen[c].cas \in Nat
    BY ZenonT(30), <1>3 DEF Cas, SInv, IInv, TypeOK, Version
  <2>2. /\ Correct(sh, k, now, casCounter + 1, out)
        /\ out.err = CasAnswer(sh, k, v, seen[c].cas, now)
        /\ out.err = "nil" => out.stamped
    BY Zenon, <2>1 DEF Promises, CasPromise
  <2>3. out.err \in {"nil", "ErrNotFound", "ErrCasMismatch", "ErrValueTooLarge", "ErrMemoryLimitExceeded"}
    BY Zenon, <1>1, <2>2 DEF CasAnswer
  <2> HIDE DEF out
  <2>4. out.err = "nil" <=> out.stamped
    BY Zenon, <2>2 DEF Correct
  <2> QED
    BY Zenon, <1>3, <2>1, <2>3, <2>4, LinesTell, CallDraws DEF Op
<1>4. ASSUME NEW k \in Key, Get(c, k), Answered(c, "get") PROVE Accounts(c)
  <2> DEFINE out == get(shards[shardFor(k)], k, now)
  <2>1. Return("get", k, out)
    BY Zenon, <1>4 DEF Get
  <2>2. out.err \in {"nil", "ErrNotFound"} /\ ~ out.stamped
    BY Zenon DEF Promises, GetPromise
  <2> HIDE DEF out
  <2>3. Line("get", out.err) # "lost" /\ Line("get", out.err) \notin WriteLines
    BY Zenon, <2>2 DEF Line, WriteLines
  <2> QED
    BY Zenon, <1>4, <2>1, <2>2, <2>3, CallDraws DEF Op
<1>5. ASSUME NEW k \in Key, Delete(k), Answered(c, "delete") PROVE Accounts(c)
  <2> DEFINE out == delete(shards[shardFor(k)], k, now)
  <2>1. Return("delete", k, out)
    BY Zenon, <1>5 DEF Delete
  <2>2. out.err \in {"nil", "ErrNotFound"} /\ ~ out.stamped
    BY Zenon DEF Promises, DeletePromise
  <2> HIDE DEF out
  <2>3. Line("delete", out.err) # "lost" /\ Line("delete", out.err) \notin WriteLines
    BY Zenon, <2>2 DEF Line, WriteLines
  <2> QED
    BY Zenon, <1>5, <2>1, <2>2, <2>3, CallDraws DEF Op
<1>6. ASSUME NEW k \in Key, NEW d \in Delta, Incr(k, d), Answered(c, "incr") PROVE Accounts(c)
  <2> DEFINE sh  == shards[shardFor(k)]
             out == incr(sh, k, d, now, casCounter + 1)
  <2>1. Return("incr", k, out)
    BY Zenon, <1>6 DEF Incr
  <2>2. out.err = IncrAnswer(sh, k, d, now) /\ (out.err = "nil" <=> out.stamped)
    BY Zenon DEF Promises, IncrPromise, Correct
  <2>3. out.err \in {"nil", "ErrNotFound", "ErrNotInteger", "ErrOverflow", "ErrValueTooLarge",
                     "ErrMemoryLimitExceeded"}
    BY Zenon, <1>1, <2>2 DEF IncrAnswer
  <2> HIDE DEF out
  <2> QED
    BY Zenon, <1>6, <2>1, <2>2, <2>3, LinesTell, CallDraws DEF Op
<1> QED
  BY Zenon, <1>2, <1>3, <1>4, <1>5, <1>6

\* Every step of a session accounts for what it draws.
LEMMA ServeAccounts ==
  ASSUME SInv, Promises, NEW c \in Client, Serve(c)
  PROVE  Accounts(c) \/ SaysNothing
<1>1. ASSUME NEW line, line \notin WriteLines, line # "lost", NEW last, NEW counted,
             Respond(c, line, last, counted), UNCHANGED vars, gate[c] # "closed"
      PROVE  Accounts(c)
  <2>1. casCounter \in Nat /\ casCounter' = casCounter
    BY Zenon, <1>1 DEF SInv, IInv, TypeOK, vars
  <2>2. Reports(c, 0)
    BY Zenon, <1>1, RespondReports DEF SInv
  <2>3. casCounter' - casCounter = 0
    BY <2>1
  <2> QED
    BY Zenon, <2>1, <2>2, <2>3 DEF Accounts
<1>2. \A line \in {"CLIENT_ERROR bad command", "CLIENT_ERROR auth required", "PONG", "END", "STAT",
                   "CLIENT_ERROR auth not configured", "CLIENT_ERROR auth failed", "AUTHENTICATED",
                   "CLIENT_ERROR TTL is too large"} : line \notin WriteLines /\ line # "lost"
  BY Zenon DEF WriteLines
<1>3. ASSUME BadCommand(c) \/ Refuse(c) \/ ExecPing(c) \/ (Reads(c) /\ RefuseTTL(c)) PROVE Accounts(c)
  BY Zenon, <1>1, <1>2, <1>3 DEF BadCommand, Refuse, ExecPing, RefuseTTL, OpenReads, Reads
<1>4. ASSUME NEW token \in Token, Auth(c, token) PROVE Accounts(c)
  BY Zenon, <1>1, <1>2, <1>4 DEF Auth, Reads
<1>5. ASSUME \/ \E k \in Key, v \in SetValue, t \in TTLSeconds : ExecSet(c, k, v, t)
             \/ \E v \in SetValue, t \in TTLSeconds : ExecCas(c, v, t)
      PROVE  Accounts(c)
  <2>1. Reads(c) /\ gate[c] # "closed"
    BY Zenon, <1>5 DEF ExecSet, ExecCas, OpenReads, Reads
  <2> QED
    BY Zenon, <1>3, <1>5, <2>1, DurationExact, CallsAccount DEF ExecSet, ExecCas
<1>6. ASSUME \/ \E k \in Key : ExecGet(c, k) \/ ExecDelete(c, k)
             \/ \E k \in Key, d \in Delta : ExecIncr(c, k, d)
      PROVE  Accounts(c)
  <2>1. gate[c] # "closed"
    BY Zenon, <1>6 DEF ExecGet, ExecDelete, ExecIncr, OpenReads, Reads
  <2> QED
    BY Zenon, <1>6, <2>1, CallsAccount DEF ExecGet, ExecDelete, ExecIncr
<1>7. work[c].op \in {"mget", "stats"} => gate[c] = "open"
  BY Zenon, WorkKinds DEF SInv, SessionTypeOK, WorkOnlyWhenOpen
<1>8. ASSUME MultiFails(c) PROVE Accounts(c)
  <2>1. casCounter \in Nat /\ casCounter' = casCounter /\ gate[c] = "open" /\ told' = told
    BY Zenon, <1>7, <1>8 DEF MultiFails, SInv, IInv, TypeOK, vars
  <2>2. /\ \A d \in Client : d # c => gate'[d] = gate[d] /\ answer'[d] = answer[d]
        /\ gate'[c] = "closed" /\ answer'[c] = "lost"
    BY Zenon, <1>8 DEF MultiFails, SInv, SessionTypeOK
  <2> QED
    BY Zenon, <2>1, <2>2 DEF Accounts, Reports
<1>9. ASSUME MultiEnd(c) PROVE Accounts(c)
  BY Zenon, <1>1, <1>2, <1>7, <1>9 DEF MultiEnd
<1>10. ASSUME StatsLoad(c) PROVE Accounts(c) \/ SaysNothing
  <2>1. /\ gate[c] = "open" /\ UNCHANGED vars
        /\ Respond(c, "STAT", FALSE, count) \/ UNCHANGED <<gate, answer, told>>
    BY Zenon, <1>7, <1>10 DEF StatsLoad
  <2> QED
    BY Zenon, <1>1, <1>2, <2>1 DEF SaysNothing, vars
<1>11. ASSUME MultiGet(c) PROVE SaysNothing
  <2> DEFINE k   == Head(work[c].todo)
             out == get(shards[shardFor(k)], k, now)
  <2>1. work[c].todo \in Seq(Key) /\ work[c].todo # <<>>
    BY <1>11, WorkKinds DEF SInv, SessionTypeOK, MultiGet, MGetWork
  <2>2. k \in Key
    BY <2>1
  <2>3. ~ out.stamped
    BY Zenon, <2>2 DEF Promises, GetPromise
  <2>4. Return("get", k, out) /\ UNCHANGED <<gate, answer, told>>
    BY Zenon, <1>11 DEF MultiGet, Get
  <2> QED
    BY Zenon, <2>3, <2>4 DEF Return, SaysNothing
<1>12. ASSUME (\E keys \in KeyList : MultiStart(c, keys)) \/ StatsStart(c) \/ StatsShard(c) \/ Leave(c)
       PROVE  SaysNothing
  <2>1. gate' = gate \/ gate' = [gate EXCEPT ![c] = "closed"]
    BY Zenon, <1>12 DEF MultiStart, StatsStart, StatsShard, Leave
  <2>2. UNCHANGED <<vars, answer, told>>
    BY Zenon, <1>12 DEF MultiStart, StatsStart, StatsShard, Leave
  <2> QED
    BY Zenon, <2>1, <2>2 DEF SaysNothing, vars, SInv, SessionTypeOK
<1> QED
  BY ZenonT(30), <1>3, <1>4, <1>5, <1>6, <1>8, <1>9, <1>10, <1>11, <1>12 DEF Serve

\* Nothing is written and no answer lost at the start.
LEMMA AnsweredStart == SessionInit => AnsweredInv
<1> SUFFICES ASSUME SessionInit PROVE AnsweredInv
  BY Zenon
<1>1. Losers = {} /\ \A c \in Client : answer[c] # "lost"
  BY DEF SessionInit, Losers
<1>2. Cardinality(Losers) = 0
  BY Zenon, <1>1, FS_EmptySet
<1>3. told = 0 /\ casCounter = 0
  BY Zenon DEF SessionInit, Init
<1> QED
  BY <1>1, <1>2, <1>3 DEF AnsweredInv

\* A session that was closed stays closed, and one that loses an answer is one
\* more.
LEMMA AnsweredStep == SInv /\ Promises /\ AnsweredInv /\ [SessionNext]_sessionVars => AnsweredInv'
<1> SUFFICES ASSUME SInv, Promises, AnsweredInv, [SessionNext]_sessionVars PROVE AnsweredInv'
  BY Zenon
<1>1. told \in Nat /\ casCounter \in Nat
  BY Zenon DEF SInv, IInv, TypeOK, SessionTypeOK
<1>2. IsFiniteSet(Losers) /\ Cardinality(Losers) \in Nat
  BY Zenon, SessionAssumption, FS_Subset, FS_CardinalityType DEF Losers
<1>3. CASE SaysNothing
  <2>1. Losers' = Losers
    BY Zenon, <1>3 DEF SaysNothing, Losers
  <2> QED
    BY Zenon, <1>3, <2>1 DEF SaysNothing, AnsweredInv
<1>4. ASSUME NEW c \in Client, Accounts(c) PROVE AnsweredInv'
  <2>1. c \notin Losers
    BY Zenon, <1>4 DEF Accounts, Reports, AnsweredInv, Losers
  <2>2. Losers' = IF answer'[c] = "lost" THEN Losers \cup {c} ELSE Losers
    BY <1>4, <2>1 DEF Accounts, Reports, Losers
  <2>3. Cardinality(Losers') = IF answer'[c] = "lost" THEN Cardinality(Losers) + 1 ELSE Cardinality(Losers)
    BY Zenon, <1>2, <2>1, <2>2, FS_AddElement
  <2>4. \A d \in Client : answer'[d] = "lost" => gate'[d] = "closed"
    BY Zenon, <1>4 DEF Accounts, Reports, AnsweredInv
  <2>5. /\ casCounter' \in {casCounter, casCounter + 1}
        /\ \/ told' = told + (casCounter' - casCounter)
           \/ told' = told /\ answer'[c] = "lost"
        /\ told <= casCounter /\ casCounter - told <= Cardinality(Losers)
    BY Zenon, <1>4 DEF Accounts, Reports, AnsweredInv
  <2>6. told' <= casCounter' /\ casCounter' - told' <= Cardinality(Losers')
    <3>1. PICK m \in Nat : m = Cardinality(Losers)
      BY Zenon, <1>2
    <3>2. Cardinality(Losers') = IF answer'[c] = "lost" THEN m + 1 ELSE m
      BY Zenon, <2>3, <3>1
    <3>3. casCounter - told <= m
      BY Zenon, <2>5, <3>1
    <3> QED
      BY <1>1, <2>5, <3>2, <3>3
  <2> QED
    BY Zenon, <2>4, <2>6 DEF AnsweredInv
<1>5. CASE Background
  BY Zenon, <1>3, <1>5 DEF Background, SweepStart, SweepStop, SweepShard, Tick, SaysNothing
<1>6. CASE UNCHANGED sessionVars
  BY Zenon, <1>3, <1>6 DEF sessionVars, session, vars, SaysNothing
<1>7. ASSUME NEW c \in Client, Serve(c) PROVE AnsweredInv'
  BY Zenon, <1>3, <1>4, <1>7, ServeAccounts
<1> QED
  BY Zenon, <1>5, <1>6, <1>7 DEF SessionNext

-----------------------------------------------------------------------------
(***************************************************************************)
(* MGET among concurrent writers.  MultiFindsUntouched is inductive with   *)
(* the fact that an untouched key is live, so that a Get of it succeeds.   *)
(***************************************************************************)
LiveNow(k) == ItemAt(k) # NoItem /\ ~ expired(ItemAt(k), now)

Awaited(w, k) == k \in w.hits \/ \E i \in DOMAIN w.todo : w.todo[i] = k

MultiInv ==
  \A c \in Client : work[c].op = "mget" => \A k \in work[c].untouched : LiveNow(k) /\ Awaited(work[c], k)

\* What Untouched keeps is still live.
LEMMA UntouchedLive ==
  ASSUME SInv, MultiInv, NEW c \in Client, Untouched(c).op = "mget", NEW k \in Untouched(c).untouched
  PROVE  work[c].op = "mget" /\ k \in work[c].untouched /\ LiveNow(k)' /\ Awaited(Untouched(c), k)
<1>1. work[c] \in Work
  BY Zenon DEF SInv, SessionTypeOK
<1>2. work[c].op = "mget"
  BY Zenon DEF Untouched
<1>3. work[c] \in MGetWork
  BY Zenon, <1>1, <1>2, WorkKinds
<1>4. /\ k \in work[c].untouched
      /\ ItemIn(shards'[shardFor(k)], k) = ItemAt(k) /\ ~ expired(ItemAt(k), now')
  BY Zenon, <1>2, <1>3 DEF Untouched, MGetWork
<1>5. /\ Untouched(c).todo = work[c].todo /\ Untouched(c).hits = work[c].hits
  BY Zenon, <1>1, <1>2, UntouchedTyped
<1>6. LiveNow(k) /\ Awaited(work[c], k)
  BY Zenon, <1>2, <1>4 DEF MultiInv
<1>7. ItemAt(k)' = ItemAt(k)
  BY Zenon, <1>4 DEF ItemAt, shardFor
<1> QED
  BY Zenon, <1>2, <1>4, <1>5, <1>6, <1>7 DEF LiveNow, Awaited

\* A Get of a live key succeeds.
LEMMA GetOfLive ==
  ASSUME NEW c \in Client, NEW k, LiveNow(k), Get(c, k)
  PROVE  reply'.err = "nil"
BY Zenon DEF LiveNow, Get, Return, get, Done, Fail, ItemAt, ItemIn

\* One key of the list is read.
LEMMA MultiGetKeeps ==
  ASSUME SInv, MultiInv, NEW c \in Client, MultiGet(c)
  PROVE  MultiInv'
<1> DEFINE k == Head(work[c].todo)
           hits == IF reply'.err = "nil" THEN work[c].hits \cup {k} ELSE work[c].hits
<1>1. work[c] \in MGetWork /\ work[c].op = "mget" /\ work[c].todo \in Seq(Key) /\ work[c].todo # <<>>
  BY WorkKinds DEF MultiGet, SInv, SessionTypeOK, MGetWork
<1>2. work[c] \in Work
  BY DEF SInv, SessionTypeOK
<1>3. /\ Untouched(c) \in MGetWork /\ Untouched(c).todo = work[c].todo /\ Untouched(c).hits = work[c].hits
      /\ Untouched(c).untouched \subseteq work[c].untouched
  BY Zenon, <1>1, <1>2, UntouchedTyped
<1>4. /\ work'[c].todo = Tail(work[c].todo) /\ work'[c].hits = hits
      /\ work'[c].untouched = Untouched(c).untouched
      /\ \A d \in Client : d # c => work'[d] = Untouched(d)
      /\ Get(c, k)
  BY ZenonT(60), <1>3 DEF MultiGet, MGetWork
<1>5. ASSUME NEW j \in work'[c].untouched PROVE LiveNow(j)' /\ Awaited(work'[c], j)
  <2>1. /\ Untouched(c).op = "mget" /\ j \in work[c].untouched /\ LiveNow(j)' /\ Awaited(work[c], j)
    BY Zenon, <1>1, <1>3, <1>4, <1>5, UntouchedLive DEF MGetWork, MultiInv
  <2>2. CASE j = k
    <3>1. LiveNow(k)
      BY Zenon, <1>1, <2>1, <2>2 DEF MultiInv
    <3>2. reply'.err = "nil"
      BY Zenon, <1>4, <3>1, GetOfLive
    <3> QED
      BY Zenon, <1>4, <2>1, <2>2, <3>2 DEF Awaited
  <2>3. CASE j # k /\ j \in work[c].hits
    BY Zenon, <1>4, <2>1, <2>3 DEF Awaited
  <2>4. ASSUME NEW i \in DOMAIN work[c].todo, work[c].todo[i] = j, j # k
        PROVE  Awaited(work'[c], j)
    <3>1. PICK t \in Seq(Key) : t = work[c].todo
      BY Zenon, <1>1
    <3>2. i - 1 \in DOMAIN Tail(work[c].todo) /\ Tail(work[c].todo)[i - 1] = j
      <4>1. t # <<>> /\ i \in DOMAIN t /\ t[i] = j /\ t[i] # Head(t)
        BY Zenon, <1>1, <2>4, <3>1
      <4>2. i - 1 \in DOMAIN Tail(t) /\ Tail(t)[i - 1] = j
        BY <4>1
      <4> QED
        BY Zenon, <3>1, <4>2
    <3> QED
      BY Zenon, <1>4, <3>2 DEF Awaited
  <2> QED
    BY Zenon, <2>1, <2>2, <2>3, <2>4 DEF Awaited
<1>6. ASSUME NEW d \in Client, d # c, work'[d].op = "mget", NEW j \in work'[d].untouched
      PROVE  LiveNow(j)' /\ Awaited(work'[d], j)
  <2>1. work'[d] = Untouched(d)
    BY Zenon, <1>4, <1>6
  <2> QED
    BY Zenon, <1>6, <2>1, UntouchedLive
<1> QED
  BY ZenonT(30), <1>5, <1>6 DEF MultiInv, Awaited

\* A command is begun: nothing is read yet.
LEMMA MultiStartKeeps ==
  ASSUME SInv, MultiInv, NEW c \in Client, NEW keys \in KeyList, MultiStart(c, keys)
  PROVE  MultiInv'
<1>1. work' = [work EXCEPT ![c] = [op |-> "mget", keys |-> keys, todo |-> keys, hits |-> {},
                                  untouched |-> LiveAmong({keys[i] : i \in DOMAIN keys})]]
      /\ UNCHANGED vars
  BY Zenon DEF MultiStart
<1>2. \A k : LiveNow(k)' = LiveNow(k)
  BY Zenon, <1>1 DEF LiveNow, ItemAt, vars, ItemIn, shardFor, expired
<1>3. ASSUME NEW k \in work'[c].untouched PROVE LiveNow(k) /\ Awaited(work'[c], k)
  BY Zenon, <1>1, <1>3 DEF SInv, SessionTypeOK, LiveAmong, LiveNow, Awaited
<1>4. \A d \in Client : d # c => work'[d] = work[d]
  BY Zenon, <1>1 DEF SInv, SessionTypeOK
<1> QED
  BY <1>2, <1>3, <1>4 DEF MultiInv, Awaited

\* A step that calls the store leaves each MGET what Untouched says; one that
\* does not call it may end an MGET but changes none.
CallsStore == work' = [d \in Client |-> Untouched(d)]

LeavesStore ==
  /\ UNCHANGED vars
  /\ \A d \in Client : work'[d] = work[d] \/ work'[d].op # "mget"

\* Every step but those of MGET itself is one of the two.
LEMMA ServeKinds ==
  ASSUME SInv, NEW c \in Client, Serve(c)
  PROVE  CallsStore \/ LeavesStore \/ MultiGet(c) \/ \E keys \in KeyList : MultiStart(c, keys)
<1>1. ASSUME \/ \E k \in Key, v \in SetValue, t \in TTLSeconds : ExecSet(c, k, v, t)
             \/ \E v \in SetValue, t \in TTLSeconds : ExecCas(c, v, t)
             \/ \E k \in Key : ExecGet(c, k) \/ ExecDelete(c, k)
             \/ \E k \in Key, d \in Delta : ExecIncr(c, k, d)
      PROVE  CallsStore \/ LeavesStore
  BY Zenon, <1>1
     DEF ExecSet, ExecCas, ExecGet, ExecDelete, ExecIncr, Answered, RefuseTTL, CallsStore, LeavesStore
<1>2. ASSUME BadCommand(c) \/ Leave(c) \/ Refuse(c) \/ ExecPing(c) \/ (\E token \in Token : Auth(c, token))
      PROVE  LeavesStore
  BY Zenon, <1>2 DEF BadCommand, Leave, Refuse, ExecPing, Auth, LeavesStore
<1>3. ASSUME MultiFails(c) \/ MultiEnd(c)
      PROVE  LeavesStore
  <2>1. UNCHANGED vars /\ work' = [work EXCEPT ![c] = NoWork]
    BY Zenon, <1>3 DEF MultiFails, MultiEnd
  <2> QED
    BY Zenon, <2>1 DEF LeavesStore, NoWork, SInv, SessionTypeOK
<1>4. ASSUME StatsStart(c) \/ StatsShard(c) \/ StatsLoad(c)
      PROVE  LeavesStore
  <2>1. UNCHANGED vars
    BY Zenon, <1>4 DEF StatsStart, StatsShard, StatsLoad
  <2>2. work \in [Client -> Work]
    BY DEF SInv, SessionTypeOK
  <2>3. \A d \in Client : d # c => work'[d] = work[d]
    BY ZenonT(60), <1>4, <2>2 DEF StatsStart, StatsShard, StatsLoad
  <2>4. work[c].op = "stats" => work[c] \in StatsWork
    BY Zenon, <2>2, WorkKinds
  <2>5. work'[c].op # "mget"
    <3>1. CASE StatsStart(c)
      BY Zenon, <2>2, <3>1 DEF StatsStart
    <3>2. CASE StatsShard(c)
      <4>1. DOMAIN work'[c] = DOMAIN work[c] /\ work'[c].op = work[c].op
        BY Zenon, <2>2, <2>4, <3>2 DEF StatsShard, StatsWork
      <4> QED
        BY Zenon, <3>2, <4>1 DEF StatsShard
    <3>3. CASE StatsLoad(c)
      <4> DEFINE sh     == shards[work[c].shard]
                 loaded == [work[c] EXCEPT !.evictions = @ + sh.evictions,
                                           !.expirations = @ + sh.expirations,
                                           !.shard = afterShard(@), !.locked = TRUE]
      <4>1. work[c].op = "stats" /\ work[c] \in StatsWork
        BY Zenon, <2>4, <3>3 DEF StatsLoad
      <4>2. loaded.op = "stats"
        BY Zenon, <4>1 DEF StatsWork
      <4>3. work' = [work EXCEPT ![c] = loaded] \/ work' = [work EXCEPT ![c] = NoWork]
        BY Zenon, <3>3 DEF StatsLoad
      <4> HIDE DEF loaded
      <4> QED
        BY <2>2, <4>2, <4>3 DEF NoWork
    <3> QED
      BY Zenon, <1>4, <3>1, <3>2, <3>3
  <2> QED
    BY Zenon, <2>1, <2>3, <2>5 DEF LeavesStore
<1> QED
  BY Zenon, <1>1, <1>2, <1>3, <1>4 DEF Serve

\* Every step keeps the MGETs under way on course.
LEMMA MultiStep == SInv /\ MultiInv /\ [SessionNext]_sessionVars => MultiInv'
<1> SUFFICES ASSUME SInv, MultiInv, [SessionNext]_sessionVars PROVE MultiInv'
  BY Zenon
<1>1. CASE CallsStore
  <2> SUFFICES ASSUME NEW c \in Client, work'[c].op = "mget", NEW k \in work'[c].untouched
               PROVE  LiveNow(k)' /\ Awaited(work'[c], k)
    BY Zenon DEF MultiInv, Awaited
  <2>1. work'[c] = Untouched(c)
    BY Zenon, <1>1 DEF CallsStore
  <2> QED
    BY Zenon, <2>1, UntouchedLive
<1>2. CASE LeavesStore
  <2>1. \A k : LiveNow(k)' = LiveNow(k)
    BY Zenon, <1>2 DEF LeavesStore, LiveNow, ItemAt, vars, ItemIn, shardFor, expired
  <2> QED
    BY <1>2, <2>1 DEF LeavesStore, MultiInv, Awaited
<1>3. CASE Background
  BY Zenon, <1>1, <1>3 DEF Background, CallsStore
<1>4. CASE UNCHANGED sessionVars
  BY Zenon, <1>2, <1>4 DEF sessionVars, session, LeavesStore
<1>5. ASSUME NEW c \in Client, Serve(c) PROVE MultiInv'
  BY Zenon, <1>1, <1>2, <1>5, ServeKinds, MultiGetKeeps, MultiStartKeeps
<1> QED
  BY Zenon, <1>3, <1>4, <1>5 DEF SessionNext

-----------------------------------------------------------------------------
(***************************************************************************)
(* The authentication gate.                                                *)
(***************************************************************************)
\* A session that did not present the token, when there is one.
Unserved(c) ==
  /\ gate[c] # "open" /\ work[c] = NoWork /\ seen[c] = NoVersion
  /\ answer[c] \in {"none", "lost", "CLIENT_ERROR bad command",
                    "CLIENT_ERROR auth required", "CLIENT_ERROR auth failed"}

StoreUnused == count.commands = 0 /\ casCounter = 0 /\ \A s \in 1 .. Shards : Stored(s) = {}

Gated == AuthToken # NoToken =>
  /\ \A c \in Client \ proved : Unserved(c)
  /\ proved = {} => StoreUnused

\* A version that was never obtained is not observed to change, and no work
\* is left of no work.
LEMMA StaysUnserved ==
  ASSUME NEW c \in Client, seen[c] = NoVersion, work[c] = NoWork
  PROVE  Observed(c) = NoVersion /\ Untouched(c) = NoWork
BY Zenon DEF Observed, Untouched, NoWork

\* A call of the store by one session or the sweeper shows the others nothing.
LEMMA OthersSeeNothing ==
  ASSUME NEW c \in Client, NEW d \in Client, d # c, seen[d] = NoVersion, work[d] = NoWork,
         \/ \E k \in Key, v \in SetValue, t \in TTLSeconds : ExecSet(c, k, v, t)
         \/ \E v \in SetValue, t \in TTLSeconds : ExecCas(c, v, t)
         \/ \E k \in Key : ExecGet(c, k) \/ ExecDelete(c, k)
         \/ \E k \in Key, delta \in Delta : ExecIncr(c, k, delta)
         \/ MultiGet(c)
  PROVE  seen'[d] = NoVersion /\ work'[d] = NoWork
<1>1. seen'[d] \in {seen[d], Observed(d)}
  BY Zenon DEF ExecSet, ExecCas, ExecGet, ExecDelete, ExecIncr, MultiGet, RefuseTTL,
         Set, Cas, Get, Delete, Incr, vars
<1>2. work'[d] \in {work[d], Untouched(d)}
  BY ZenonT(60) DEF ExecSet, ExecCas, ExecGet, ExecDelete, ExecIncr, MultiGet, RefuseTTL, Answered
<1> QED
  BY Zenon, <1>1, <1>2, StaysUnserved

\* Only the session that takes a step changes its gate and its answer.
LEMMA OthersKeepGate ==
  ASSUME SInv, NEW c \in Client, Serve(c), NEW d \in Client, d # c
  PROVE  gate'[d] = gate[d] /\ answer'[d] = answer[d]
<1>1. gate \in [Client -> {"locked", "open", "closed"}] /\ DOMAIN answer = Client
  BY Zenon DEF SInv, SessionTypeOK
<1>2. ASSUME NEW line, NEW last, NEW counted, Respond(c, line, last, counted)
      PROVE  gate'[d] = gate[d] /\ answer'[d] = answer[d]
  BY Zenon, <1>1, <1>2 DEF Respond
<1>3. ASSUME \/ \E k \in Key, v \in SetValue, t \in TTLSeconds : ExecSet(c, k, v, t)
             \/ \E v \in SetValue, t \in TTLSeconds : ExecCas(c, v, t)
             \/ \E k \in Key : ExecGet(c, k) \/ ExecDelete(c, k)
             \/ \E k \in Key, delta \in Delta : ExecIncr(c, k, delta)
      PROVE  gate'[d] = gate[d] /\ answer'[d] = answer[d]
  BY Zenon, <1>2, <1>3 DEF ExecSet, ExecCas, ExecGet, ExecDelete, ExecIncr, RefuseTTL, Answered
<1>4. ASSUME BadCommand(c) \/ Refuse(c) \/ ExecPing(c) \/ MultiEnd(c) \/ (\E token \in Token : Auth(c, token))
      PROVE  gate'[d] = gate[d] /\ answer'[d] = answer[d]
  BY ZenonT(60), <1>2, <1>4 DEF BadCommand, Refuse, ExecPing, MultiEnd, Auth
<1>5. ASSUME \/ Leave(c) \/ MultiFails(c) \/ MultiGet(c) \/ (\E keys \in KeyList : MultiStart(c, keys))
             \/ StatsStart(c) \/ StatsShard(c)
      PROVE  gate'[d] = gate[d] /\ answer'[d] = answer[d]
  BY Zenon, <1>1, <1>5 DEF Leave, MultiFails, MultiGet, MultiStart, StatsStart, StatsShard
<1>6. ASSUME StatsLoad(c) PROVE gate'[d] = gate[d] /\ answer'[d] = answer[d]
  BY ZenonT(60), <1>2, <1>6 DEF StatsLoad
<1> QED
  BY ZenonT(60), <1>3, <1>4, <1>5, <1>6 DEF Serve

\* The steps a session can take while it is not served.
LEMMA LockedStep ==
  ASSUME SInv, NEW c \in Client, Serve(c), gate[c] # "open"
  PROVE  \/ BadCommand(c) \/ Leave(c) \/ Refuse(c)
         \/ \E token \in Token : Auth(c, token)
<1>1. work[c] = NoWork
  BY Zenon DEF SInv, WorkOnlyWhenOpen
<1>2. ~ (MultiGet(c) \/ MultiFails(c) \/ MultiEnd(c) \/ StatsShard(c) \/ StatsLoad(c))
  BY <1>1 DEF MultiGet, MultiFails, MultiEnd, StatsShard, StatsLoad, NoWork
<1>3. ~ (ExecPing(c) \/ StatsStart(c) \/ \E keys \in KeyList : MultiStart(c, keys))
  BY Zenon DEF ExecPing, StatsStart, MultiStart, OpenReads
<1>4. /\ ~ \E k \in Key, v \in SetValue, t \in TTLSeconds : ExecSet(c, k, v, t)
      /\ ~ \E v \in SetValue, t \in TTLSeconds : ExecCas(c, v, t)
      /\ ~ \E k \in Key : ExecGet(c, k) \/ ExecDelete(c, k)
      /\ ~ \E k \in Key, d \in Delta : ExecIncr(c, k, d)
  BY Zenon DEF ExecSet, ExecCas, ExecGet, ExecDelete, ExecIncr, OpenReads
<1> QED
  BY Zenon, <1>2, <1>3, <1>4 DEF Serve

\* A session that is not served stays so, unless it presents the token.
LEMMA LockedStays ==
  ASSUME SInv, AuthToken # NoToken, NEW c \in Client, Serve(c), Unserved(c), c \notin proved'
  PROVE  Unserved(c)' /\ UNCHANGED vars /\ proved' = proved /\ count'.commands = count.commands
<1>1. gate \in [Client -> {"locked", "open", "closed"}] /\ DOMAIN answer = Client /\ count \in Counts
  BY Zenon DEF SInv, SessionTypeOK, Counts
<1>2. ASSUME NEW line \in {"CLIENT_ERROR bad command", "CLIENT_ERROR auth required",
                           "CLIENT_ERROR auth failed"},
             NEW counted \in Counts, counted.commands = count.commands, Respond(c, line, TRUE, counted)
      PROVE  /\ gate'[c] # "open" /\ answer'[c] \in {"lost", line}
             /\ count'.commands = count.commands
  BY Zenon, <1>1, <1>2 DEF Respond, Counts
<1>3. /\ [count EXCEPT !.clientErrors = @ + 1] \in Counts
      /\ [count EXCEPT !.clientErrors = @ + 1].commands = count.commands
      /\ [[count EXCEPT !.auth = @ + 1] EXCEPT !.authFailures = @ + 1] \in Counts
      /\ [[count EXCEPT !.auth = @ + 1] EXCEPT !.authFailures = @ + 1].commands = count.commands
  <2>1. \A n \in Counts : /\ [n EXCEPT !.clientErrors = @ + 1].commands = n.commands
                          /\ [n EXCEPT !.auth = @ + 1].commands = n.commands
                          /\ [n EXCEPT !.auth = @ + 1] \in Counts
                          /\ [n EXCEPT !.authFailures = @ + 1].commands = n.commands
    BY DEF Counts
  <2> QED
    BY Zenon, <1>1, <2>1, CountedTyped DEF SInv
<1>4. CASE BadCommand(c)
  BY ZenonT(60), <1>2, <1>3, <1>4 DEF BadCommand, Unserved, vars
<1>5. CASE Leave(c)
  BY ZenonT(60), <1>1, <1>5 DEF Leave, Unserved, vars
<1>6. CASE Refuse(c)
  BY Zenon, <1>1, <1>2, <1>6 DEF Refuse, Unserved, vars
<1>7. ASSUME NEW token \in Token, Auth(c, token)
      PROVE  Unserved(c)' /\ UNCHANGED vars /\ proved' = proved /\ count'.commands = count.commands
  <2>1. /\ token # AuthToken /\ proved' = proved /\ UNCHANGED vars /\ work' = work
    BY Zenon, <1>7 DEF Auth
  <2>2. Respond(c, "CLIENT_ERROR auth failed", TRUE,
                [[count EXCEPT !.auth = @ + 1] EXCEPT !.authFailures = @ + 1])
    BY ZenonT(60), <1>7, <2>1 DEF Auth
  <2> QED
    BY ZenonT(60), <1>2, <1>3, <2>1, <2>2 DEF Unserved, vars
<1> QED
  BY Zenon, <1>4, <1>5, <1>6, <1>7, LockedStep DEF Unserved

\* Whatever a session does, the others see nothing of it.
LEMMA OthersUnserved ==
  ASSUME SInv, NEW c \in Client, Serve(c), NEW d \in Client, d # c,
         seen[d] = NoVersion, work[d] = NoWork
  PROVE  seen'[d] = NoVersion /\ work'[d] = NoWork
<1>1. ASSUME \/ BadCommand(c) \/ Leave(c) \/ Refuse(c) \/ ExecPing(c)
             \/ \E token \in Token : Auth(c, token)
             \/ \E keys \in KeyList : MultiStart(c, keys)
             \/ MultiFails(c) \/ MultiEnd(c) \/ StatsStart(c) \/ StatsShard(c) \/ StatsLoad(c)
      PROVE  seen' = seen /\ work'[d] = work[d]
  <2>1. work \in [Client -> Work]
    BY Zenon DEF SInv, SessionTypeOK
  <2> QED
    BY ZenonT(60), <1>1, <2>1 DEF BadCommand, Leave, Refuse, ExecPing, Auth, MultiStart, MultiFails, MultiEnd,
                      StatsStart, StatsShard, StatsLoad, vars
<1> QED
  BY ZenonT(60), <1>1, OthersSeeNothing DEF Serve

\* The sweeper finds nothing in a store that was not used.
LEMMA BackgroundUnserved ==
  ASSUME SInv, Background
  PROVE  /\ \A c \in Client : Unserved(c) => Unserved(c)'
         /\ proved' = proved
         /\ StoreUnused => StoreUnused'
<1>1. UNCHANGED <<gate, answer, count, proved, casCounter>>
  BY DEF Background, SweepStart, SweepStop, SweepShard, Tick
<1>2. ASSUME NEW c \in Client, Unserved(c) PROVE Unserved(c)'
  <2>1. seen'[c] \in {seen[c], Observed(c)}
    BY Zenon DEF Background, SweepStart, SweepStop, SweepShard, Tick
  <2>2. work'[c] = Untouched(c)
    BY Zenon DEF Background
  <2> QED
    BY ZenonT(60), <1>1, <1>2, <2>1, <2>2, StaysUnserved DEF Unserved
<1>3. ASSUME StoreUnused, NEW s \in 1 .. Shards PROVE Stored(s)' = {}
  <2>1. CASE shards' = shards
    BY Zenon, <1>3, <2>1 DEF StoreUnused, Stored
  <2>2. CASE SweepShard
    <3>1. sweep \in 1 .. Shards /\ DOMAIN shards = 1 .. Shards /\ ShardTyped(shards[sweep])
      BY <2>2 DEF SInv, IInv, TypeOK, SweepShard
    <3>2. DOMAIN cleanupExpired(shards[sweep], now).items \subseteq DOMAIN shards[sweep].items
      BY Zenon, <3>1 DEF cleanupExpired, removeExpiredLocked, deleteLocked, ShardTyped
    <3>3. shards' = [shards EXCEPT ![sweep] = cleanupExpired(shards[sweep], now)]
      BY Zenon, <2>2 DEF SweepShard
    <3> QED
      BY Zenon, <1>3, <3>1, <3>2, <3>3 DEF StoreUnused, Stored
  <2> QED
    BY Zenon, <2>1, <2>2 DEF Background, SweepStart, SweepStop, Tick
<1> QED
  BY Zenon, <1>1, <1>2, <1>3 DEF StoreUnused

\* Every step keeps the gate shut to those who did not present the token.
LEMMA GatedStep == SInv /\ Gated /\ [SessionNext]_sessionVars => Gated'
<1> USE DEF Gated
<1> SUFFICES ASSUME SInv, Gated, [SessionNext]_sessionVars, AuthToken # NoToken
             PROVE  /\ \A d \in Client \ proved' : Unserved(d)'
                    /\ proved' = {} => StoreUnused'
  BY Zenon
<1>1. CASE UNCHANGED sessionVars
  BY Zenon, <1>1 DEF sessionVars, session, vars, Unserved, StoreUnused, Stored
<1>2. CASE Background
  BY Zenon, <1>2, BackgroundUnserved
<1>3. ASSUME NEW c \in Client, Serve(c)
      PROVE  /\ \A d \in Client \ proved' : Unserved(d)'
             /\ proved' = {} => StoreUnused'
  <2>1. proved \subseteq proved'
    BY ZenonT(60), <1>3
       DEF Serve, BadCommand, Leave, Refuse, ExecPing, Auth, ExecSet, ExecCas, ExecGet, ExecDelete,
                ExecIncr, RefuseTTL, Answered, MultiStart, MultiGet, MultiFails, MultiEnd, StatsStart,
                StatsShard, StatsLoad
  <2>2. ASSUME NEW d \in Client, d # c, d \notin proved' PROVE Unserved(d)'
    <3>1. Unserved(d)
      BY Zenon, <2>1, <2>2
    <3>2. gate'[d] = gate[d] /\ answer'[d] = answer[d]
      BY Zenon, <1>3, <2>2, OthersKeepGate
    <3>3. seen'[d] = NoVersion /\ work'[d] = NoWork
      BY ZenonT(60), <1>3, <2>2, <3>1, OthersUnserved DEF Unserved
    <3> QED
      BY ZenonT(60), <3>1, <3>2, <3>3 DEF Unserved
  <2>3. CASE c \in proved'
    BY Zenon, <2>2, <2>3
  <2>4. CASE c \notin proved'
    <3>1. Unserved(c)
      BY Zenon, <2>1, <2>4
    <3>2. Unserved(c)' /\ UNCHANGED vars /\ proved' = proved /\ count'.commands = count.commands
      BY Zenon, <1>3, <2>4, <3>1, LockedStays
    <3> QED
      BY Zenon, <2>2, <3>2 DEF StoreUnused, Stored, vars
  <2> QED
    BY Zenon, <2>3, <2>4
<1> QED
  BY Zenon, <1>1, <1>2, <1>3 DEF SessionNext

\* What a step leaves of the samples of a session that does not take one.
StatsKept(d) == work'[d].op = "stats" => work'[d] = work[d]

\* Only the steps of STATS change a sample.
LEMMA OthersKeepStats ==
  ASSUME SInv, NEW c \in Client, Serve(c), ~ StatsStart(c), ~ StatsShard(c), ~ StatsLoad(c)
  PROVE  \A d \in Client : StatsKept(d)
<1>1. work \in [Client -> Work]
  BY DEF SInv, SessionTypeOK
<1>2. \A d \in Client : Untouched(d).op = "stats" => Untouched(d) = work[d]
  <2> TAKE d \in Client
  <2>1. work[d].op = "mget" => Untouched(d).op = "mget"
    BY Zenon, <1>1, UntouchedTyped DEF MGetWork
  <2> QED
    BY ZenonT(60), <1>1, <2>1, UntouchedTyped
<1>3. ASSUME CallsStore \/ work' = work PROVE \A d \in Client : StatsKept(d)
  BY Zenon, <1>2, <1>3 DEF CallsStore, StatsKept
<1>4. ASSUME \/ \E k \in Key, v \in SetValue, t \in TTLSeconds : ExecSet(c, k, v, t)
             \/ \E v \in SetValue, t \in TTLSeconds : ExecCas(c, v, t)
             \/ \E k \in Key : ExecGet(c, k) \/ ExecDelete(c, k)
             \/ \E k \in Key, d \in Delta : ExecIncr(c, k, d)
      PROVE  CallsStore \/ work' = work
  BY Zenon, <1>4 DEF ExecSet, ExecCas, ExecGet, ExecDelete, ExecIncr, Answered, RefuseTTL, CallsStore
<1>5. ASSUME BadCommand(c) \/ Leave(c) \/ Refuse(c) \/ ExecPing(c) \/ (\E token \in Token : Auth(c, token))
      PROVE  work' = work
  BY Zenon, <1>5 DEF BadCommand, Leave, Refuse, ExecPing, Auth
<1>6. ASSUME MultiFails(c) \/ MultiEnd(c) \/ \E keys \in KeyList : MultiStart(c, keys)
      PROVE  \A d \in Client : StatsKept(d)
  <2>1. PICK w : work' = [work EXCEPT ![c] = w] /\ w.op # "stats"
    <3>1. CASE MultiFails(c) \/ MultiEnd(c)
      BY Zenon, <3>1 DEF MultiFails, MultiEnd, NoWork
    <3>2. ASSUME NEW keys \in KeyList, MultiStart(c, keys)
          PROVE  \E w : work' = [work EXCEPT ![c] = w] /\ w.op # "stats"
      <4> DEFINE w == [op |-> "mget", keys |-> keys, todo |-> keys, hits |-> {},
                       untouched |-> LiveAmong({keys[i] : i \in DOMAIN keys})]
      <4>1. work' = [work EXCEPT ![c] = w]
        BY Zenon, <3>2 DEF MultiStart
      <4>2. w.op # "stats"
        BY Zenon
      <4> HIDE DEF w
      <4> QED
        BY ZenonT(60), <4>1, <4>2
    <3> QED
      BY Zenon, <1>6, <3>1, <3>2
  <2> QED
    BY Zenon, <1>1, <2>1 DEF StatsKept
<1>7. ASSUME MultiGet(c) PROVE \A d \in Client : StatsKept(d)
  <2>1. work[c] \in Work /\ work[c].op = "mget"
    BY Zenon, <1>1, <1>7 DEF MultiGet
  <2>2. Untouched(c) \in MGetWork
    BY Zenon, <2>1, UntouchedTyped
  <2>3. work'[c].op = "mget"
    BY Zenon, <1>7, <2>2 DEF MultiGet, MGetWork
  <2>4. \A d \in Client : d # c => work'[d] = Untouched(d)
    BY Zenon, <1>7 DEF MultiGet
  <2> QED
    BY Zenon, <1>2, <2>3, <2>4 DEF StatsKept
<1> QED
  BY Zenon, <1>3, <1>4, <1>5, <1>6, <1>7 DEF Serve

AddsUp(w) == w.items * (1 + ItemOverheadBytes) <= w.memory /\ w.memory <= w.budget

\* The sample of one more shard.
LEMMA SampleAddsUp ==
  ASSUME SInv, NEW c \in Client, StatsShard(c), AddsUp(work[c])
  PROVE  AddsUp(work'[c]) /\ \A d \in Client : d # c => work'[d] = work[d]
<1> DEFINE w == work[c]
           sh == shards[w.shard]
           n == Cardinality(DOMAIN sh.items)
           o == 1 + ItemOverheadBytes
<1>1. work \in [Client -> Work] /\ w \in StatsWork
  BY Zenon, WorkKinds DEF SInv, SessionTypeOK, StatsShard
<1>2. w.shard \in 1 .. Shards /\ w.items \in Nat /\ w.memory \in Nat /\ w.budget \in Nat
  BY Zenon, <1>1 DEF StatsWork
<1>3. sh.memoryBytes <= perShardMemory
  BY Zenon, <1>2 DEF SInv, IInv, ShardsInv
<1>4. perShardMemory \in Nat /\ o \in Nat
  BY ConfigAssumption DEF perShardMemory
<1>5. n \in Nat /\ sh.memoryBytes \in Nat /\ n * o <= sh.memoryBytes
  BY Zenon, <1>2 DEF SInv, Totals
<1>6. /\ work'[c].items = w.items + n
      /\ work'[c].memory = w.memory + sh.memoryBytes
      /\ work'[c].budget = w.budget + perShardMemory
      /\ \A d \in Client : d # c => work'[d] = work[d]
  BY Zenon, <1>1 DEF StatsShard, StatsWork
<1>7. w.items * o <= w.memory /\ w.memory <= w.budget
  BY Zenon DEF AddsUp
<1> HIDE DEF w, sh, n, o
<1>8. (w.items + n) * o = w.items * o + n * o /\ w.items * o \in Nat /\ n * o \in Nat
  BY <1>2, <1>4, <1>5
<1>9. (w.items + n) * o <= w.memory + sh.memoryBytes
  BY <1>2, <1>4, <1>5, <1>7, <1>8
<1>10. w.memory + sh.memoryBytes <= w.budget + perShardMemory
  BY <1>2, <1>3, <1>4, <1>5, <1>7
<1>11. AddsUp(work'[c])
  BY <1>6, <1>9, <1>10, ZenonT(60) DEF AddsUp, o
<1> QED
  BY Zenon, <1>6, <1>11

\* Every step keeps the samples of STATS consistent.
LEMMA AddsUpStep == SInv /\ StatsAddUp /\ [SessionNext]_sessionVars => StatsAddUp'
<1> SUFFICES ASSUME SInv, StatsAddUp, [SessionNext]_sessionVars,
                    NEW d \in Client, work'[d].op = "stats"
             PROVE  AddsUp(work'[d])
  BY Zenon DEF StatsAddUp, AddsUp
<1>1. work \in [Client -> Work]
  BY Zenon DEF SInv, SessionTypeOK
<1>2. ASSUME StatsKept(d) PROVE AddsUp(work'[d])
  BY Zenon, <1>2 DEF StatsAddUp, AddsUp, StatsKept
<1>3. CASE Background
  <2>1. work'[d] = Untouched(d)
    BY Zenon, <1>3 DEF Background
  <2>2. work[d].op = "mget" => Untouched(d).op = "mget"
    BY Zenon, <1>1, UntouchedTyped DEF MGetWork
  <2>3. Untouched(d) = work[d]
    BY Zenon, <1>1, <2>1, <2>2, UntouchedTyped
  <2> QED
    BY Zenon, <1>2, <2>1, <2>3 DEF StatsKept
<1>4. CASE UNCHANGED sessionVars
  BY Zenon, <1>2, <1>4 DEF sessionVars, session, StatsKept
<1>5. ASSUME NEW c \in Client, StatsStart(c) PROVE AddsUp(work'[d])
  <2>1. CASE d = c
    <3>1. work'[c].items = 0 /\ work'[c].memory = 0 /\ work'[c].budget = 0
      BY Zenon, <1>1, <1>5 DEF StatsStart
    <3> QED
      BY <2>1, <3>1, ConfigAssumption DEF AddsUp
  <2>2. CASE d # c
    BY Zenon, <1>1, <1>2, <1>5, <2>2 DEF StatsStart, StatsKept
  <2> QED
    BY Zenon, <2>1, <2>2
<1>6. ASSUME NEW c \in Client, StatsShard(c) PROVE AddsUp(work'[d])
  <2>1. AddsUp(work[c])
    BY Zenon, <1>6 DEF StatsShard, StatsAddUp, AddsUp
  <2>2. AddsUp(work'[c]) /\ (d # c => work'[d] = work[d])
    BY Zenon, <1>6, <2>1, SampleAddsUp
  <2> QED
    BY Zenon, <1>2, <2>2 DEF StatsKept
<1>7. ASSUME NEW c \in Client, StatsLoad(c) PROVE AddsUp(work'[d])
  <2> DEFINE sh     == shards[work[c].shard]
             loaded == [work[c] EXCEPT !.evictions = @ + sh.evictions,
                                       !.expirations = @ + sh.expirations,
                                       !.shard = afterShard(@), !.locked = TRUE]
  <2>1. work[c] \in StatsWork /\ work[c].op = "stats"
    BY Zenon, <1>1, <1>7, WorkKinds DEF StatsLoad
  <2>2. loaded.items = work[c].items /\ loaded.memory = work[c].memory /\ loaded.budget = work[c].budget
    BY Zenon, <2>1 DEF StatsWork
  <2>3. work' = [work EXCEPT ![c] = loaded] \/ work' = [work EXCEPT ![c] = NoWork]
    BY Zenon, <1>7 DEF StatsLoad
  <2> HIDE DEF loaded
  <2>4. CASE d = c
    <3>1. work'[d] = loaded
      BY <1>1, <2>3, <2>4 DEF NoWork
    <3>2. AddsUp(work[c])
      BY Zenon, <2>1 DEF StatsAddUp, AddsUp
    <3> QED
      BY Zenon, <2>2, <3>1, <3>2 DEF AddsUp
  <2>5. CASE d # c
    BY Zenon, <1>1, <1>2, <2>3, <2>5 DEF StatsKept
  <2> QED
    BY <2>4, <2>5
<1>8. ASSUME NEW c \in Client, Serve(c) PROVE AddsUp(work'[d])
  BY Zenon, <1>2, <1>5, <1>6, <1>7, <1>8, OthersKeepStats
<1> QED
  BY Zenon, <1>3, <1>4, <1>8 DEF SessionNext

\* Where a session is in the sampling: the shard it is at, and what is loaded.
Place(w) == IF w.op = "stats" THEN <<w.shard, w.evictions, w.expirations>> ELSE <<1, 0, 0>>

\* Only StatsLoad moves a session on.
LEMMA PlaceKept ==
  ASSUME SInv, [SessionNext]_sessionVars, NEW d \in Client, ~ \E c \in Client : StatsLoad(c)
  PROVE  Place(work'[d]) = Place(work[d]) /\ shown' = shown
<1>1. work \in [Client -> Work]
  BY Zenon DEF SInv, SessionTypeOK
<1>2. Place(Untouched(d)) = Place(work[d])
  <2>1. work[d].op = "mget" => Untouched(d).op = "mget"
    BY Zenon, <1>1, UntouchedTyped DEF MGetWork
  <2>2. work[d].op # "mget" => Untouched(d) = work[d]
    BY Zenon, <1>1, UntouchedTyped
  <2> QED
    BY Zenon, <2>1, <2>2 DEF Place
<1>3. CASE (CallsStore \/ work' = work) /\ shown' = shown
  BY Zenon, <1>2, <1>3 DEF CallsStore
<1>4. ASSUME NEW c \in Client, NEW w, work' = [work EXCEPT ![c] = w], shown' = shown,
             Place(w) = Place(work[c])
      PROVE  Place(work'[d]) = Place(work[d]) /\ shown' = shown
  BY Zenon, <1>1, <1>4
<1>5. Place(NoWork) = <<1, 0, 0>>
  BY Zenon DEF Place, NoWork
<1>6. ASSUME NEW c \in Client, Serve(c)
      PROVE  Place(work'[d]) = Place(work[d]) /\ shown' = shown
  <2>1. CASE \/ \E k \in Key, v \in SetValue, t \in TTLSeconds : ExecSet(c, k, v, t)
             \/ \E v \in SetValue, t \in TTLSeconds : ExecCas(c, v, t)
             \/ \E k \in Key : ExecGet(c, k) \/ ExecDelete(c, k)
             \/ \E k \in Key, x \in Delta : ExecIncr(c, k, x)
    BY Zenon, <1>3, <2>1
    DEF ExecSet, ExecCas, ExecGet, ExecDelete, ExecIncr, Answered, RefuseTTL, CallsStore
  <2>2. CASE BadCommand(c) \/ Leave(c) \/ Refuse(c) \/ ExecPing(c) \/ (\E token \in Token : Auth(c, token))
    BY Zenon, <1>3, <2>2 DEF BadCommand, Leave, Refuse, ExecPing, Auth
  <2>3. CASE MultiFails(c) \/ MultiEnd(c)
    <3>1. work[c].op = "mget" /\ work' = [work EXCEPT ![c] = NoWork] /\ shown' = shown
      BY Zenon, <2>3 DEF MultiFails, MultiEnd
    <3>2. Place(work[c]) = <<1, 0, 0>>
      BY Zenon, <3>1 DEF Place
    <3> QED
      BY Zenon, <1>4, <1>5, <3>1, <3>2
  <2>4. ASSUME NEW keys \in KeyList, MultiStart(c, keys)
        PROVE  Place(work'[d]) = Place(work[d]) /\ shown' = shown
    <3> DEFINE w == [op |-> "mget", keys |-> keys, todo |-> keys, hits |-> {},
                     untouched |-> LiveAmong({keys[i] : i \in DOMAIN keys})]
    <3>1. work[c] = NoWork /\ work' = [work EXCEPT ![c] = w] /\ shown' = shown
      BY Zenon, <2>4 DEF MultiStart, OpenReads, Reads
    <3>2. w.op = "mget"
      BY Zenon
    <3> HIDE DEF w
    <3>3. Place(w) = <<1, 0, 0>>
      BY Zenon, <3>2 DEF Place
    <3> QED
      BY Zenon, <1>4, <1>5, <3>1, <3>3
  <2>5. CASE StatsStart(c)
    <3> DEFINE w == [op |-> "stats", shard |-> 1, locked |-> TRUE, items |-> 0,
                     memory |-> 0, budget |-> 0, evictions |-> 0, expirations |-> 0]
    <3>1. work[c] = NoWork /\ work' = [work EXCEPT ![c] = w] /\ shown' = shown
      BY Zenon, <2>5 DEF StatsStart, OpenReads, Reads
    <3>2. Place(w) = <<1, 0, 0>>
      BY Zenon DEF Place
    <3> HIDE DEF w
    <3> QED
      BY Zenon, <1>4, <1>5, <3>1, <3>2
  <2>6. CASE MultiGet(c)
    <3>1. work[c].op = "mget" /\ Untouched(c) \in MGetWork
      BY Zenon, <1>1, <2>6, UntouchedTyped DEF MultiGet
    <3>2. work'[c].op = "mget"
      BY Zenon, <2>6, <3>1 DEF MultiGet, MGetWork
    <3>3. d # c => work'[d] = Untouched(d)
      BY Zenon, <2>6 DEF MultiGet
    <3>4. Place(work'[c]) = Place(work[c])
      BY Zenon, <3>1, <3>2 DEF Place
    <3>5. shown' = shown
      BY Zenon, <2>6 DEF MultiGet
    <3> QED
      BY Zenon, <1>2, <3>3, <3>4, <3>5
  <2>7. CASE StatsShard(c)
    <3>1. work[c] \in StatsWork /\ work[c].op = "stats"
      BY Zenon, <1>1, <2>7, WorkKinds DEF StatsShard
    <3>2. /\ \A e \in Client : e # c => work'[e] = work[e]
          /\ work'[c].op = work[c].op /\ work'[c].shard = work[c].shard
          /\ work'[c].evictions = work[c].evictions /\ work'[c].expirations = work[c].expirations
      BY ZenonT(30), <1>1, <2>7, <3>1 DEF StatsShard, StatsWork
    <3>3. Place(work'[c]) = Place(work[c])
      BY Zenon, <3>1, <3>2 DEF Place
    <3>4. shown' = shown
      BY Zenon, <2>7 DEF StatsShard
    <3> QED
      BY Zenon, <3>2, <3>3, <3>4
  <2> QED
    BY ZenonT(30), <1>6, <2>1, <2>2, <2>3, <2>4, <2>5, <2>6, <2>7 DEF Serve
<1>7. CASE Background
  BY Zenon, <1>3, <1>7 DEF Background, CallsStore
<1>8. CASE UNCHANGED sessionVars
  BY Zenon, <1>3, <1>8 DEF sessionVars, session
<1> QED
  BY Zenon, <1>6, <1>7, <1>8 DEF SessionNext

\* What a session is sent is the line, or nothing.
LEMMA AnswerOf ==
  ASSUME SessionTypeOK, NEW c \in Client, NEW line, NEW last, NEW counted,
         Respond(c, line, last, counted)
  PROVE  answer'[c] = line \/ answer'[c] = "lost"
BY Zenon DEF SessionTypeOK, Respond

\* The lines of a CAS.
LEMMA CasLines ==
  ASSUME NEW err \in {"nil", "ErrNotFound", "ErrCasMismatch", "ErrValueTooLarge", "ErrMemoryLimitExceeded"}
  PROVE  /\ Line("cas", err) = "EXISTS" => err = "ErrCasMismatch"
         /\ Line("cas", err) = "NOT_FOUND" => err = "ErrNotFound"
         /\ Line("cas", err) = "STORED" => err = "nil"
BY DEF Line

\* The lines of a SET.
LEMMA SetLines ==
  ASSUME NEW err \in {"nil", "ErrValueTooLarge", "ErrMemoryLimitExceeded"}
  PROVE  Line("set", err) = "STORED" => err = "nil"
BY DEF Line

\* The errors of a CAS, and what they say of the item.
LEMMA CasAnswerErrors ==
  ASSUME NEW sh, NEW k, NEW v, NEW expected, NEW t, NEW err, err = CasAnswer(sh, k, v, expected, t)
  PROVE  /\ err \in {"nil", "ErrNotFound", "ErrCasMismatch", "ErrValueTooLarge",
                     "ErrMemoryLimitExceeded"}
         /\ err = "ErrCasMismatch" => k \in DOMAIN sh.items /\ sh.items[k].cas # expected
         /\ err = "ErrNotFound" => ~ LiveIn(sh, k, t)
<1>1. Refusal(k, v) \in {"nil", "ErrValueTooLarge", "ErrMemoryLimitExceeded"}
  BY Zenon DEF Refusal
<1>2. LiveIn(sh, k, t) => k \in DOMAIN sh.items
  BY Zenon DEF LiveIn
<1> QED
  BY Zenon, <1>1, <1>2 DEF CasAnswer

-----------------------------------------------------------------------------
(***************************************************************************)
(* The converse of CasOnlyOverObservedValue.  It rests on the converse of  *)
(* HeldVersions: a version that is still intact is the one its item has.   *)
(***************************************************************************)
IntactInv ==
  \A c \in Client : seen[c] # NoVersion /\ seen[c].intact => ItemAt(seen[c].key).cas = seen[c].cas

\* A version that a step leaves intact is still the one of the item.
LEMMA ObservedIntact ==
  ASSUME IInv, IntactInv, NEW c \in Client, seen'[c] = Observed(c),
         seen'[c] # NoVersion, seen'[c].intact
  PROVE  ItemIn(shards'[shardFor(seen'[c].key)], seen'[c].key).cas = seen'[c].cas
<1>1. seen[c] \in Version \cup {NoVersion}
  BY DEF IInv, TypeOK
<1>2. seen[c] # NoVersion
  BY ZenonT(30) DEF Observed
<1>3. Observed(c) = seen[c] /\ ItemIn(shards'[shardFor(seen[c].key)], seen[c].key) = ItemAt(seen[c].key)
  BY <1>1, <1>2 DEF Observed, Version
<1> QED
  BY ZenonT(30), <1>2, <1>3 DEF IntactInv

\* A version that GETS shows is that of the item.
LEMMA ShownIntact ==
  ASSUME IInv, NEW c \in Client, NEW k \in Key, Get(c, k), get(shards[shardFor(k)], k, now).err = "nil"
  PROVE  /\ seen'[c].key = k
         /\ ItemIn(shards'[shardFor(k)], k).cas = seen'[c].cas
<1> DEFINE sh  == shards[shardFor(k)]
           out == get(sh, k, now)
<1>1. seen'[c] = [key |-> k, cas |-> out.sh.items[k].cas, intact |-> TRUE]
  BY Zenon DEF Get
<1>2. shards' = [shards EXCEPT ![shardFor(k)] = out.sh]
  BY Zenon DEF Get, Return
<1>3. ShardOK(sh) /\ shardFor(k) \in DOMAIN shards
  BY ZenonT(30), KeyContext DEF IInv, TypeOK
<1>4. k \in DOMAIN sh.items /\ out.sh = [sh EXCEPT !.lru = MoveToFront(sh.lru, DOMAIN sh.items, k)]
  BY Zenon DEF get, Fail, Done
<1>5. out.sh.items = sh.items
  BY ZenonT(30), <1>3, <1>4 DEF ShardOK, ShardTyped
<1> HIDE DEF out
<1>6. shards'[shardFor(k)] = out.sh /\ seen'[c].key = k /\ seen'[c].cas = out.sh.items[k].cas
  BY <1>1, <1>2, <1>3
<1> QED
  BY Zenon, <1>4, <1>5, <1>6 DEF ItemIn

\* The converse is inductive.
LEMMA IntactStep ==
  ASSUME IInv, IntactInv, [Next]_vars
  PROVE  IntactInv'
<1>1. CASE seen' = [c \in Client |-> Observed(c)]
  <2>1. \A c \in Client : seen'[c] = Observed(c)
    BY ZenonT(30), <1>1
  <2> QED
    BY ZenonT(30), <2>1, ObservedIntact DEF IntactInv, ItemAt, shardFor
<1>2. CASE UNCHANGED <<shards, seen>>
  BY ZenonT(30), <1>2 DEF IntactInv, ItemAt, ItemIn, shardFor
<1>3. ASSUME NEW d \in Client, NEW k \in Key, Get(d, k) PROVE IntactInv'
  <2> SUFFICES ASSUME NEW c \in Client, seen'[c] # NoVersion, seen'[c].intact
               PROVE  ItemIn(shards'[shardFor(seen'[c].key)], seen'[c].key).cas = seen'[c].cas
    BY ZenonT(30) DEF IntactInv, ItemAt, shardFor
  <2>1. CASE c = d /\ get(shards[shardFor(k)], k, now).err = "nil"
    BY ZenonT(30), <1>3, <2>1, ShownIntact
  <2>2. CASE ~ (c = d /\ get(shards[shardFor(k)], k, now).err = "nil")
    <3>1. seen'[c] = Observed(c)
      BY Zenon, <1>3, <2>2 DEF Get
    <3> QED
      BY <3>1, ObservedIntact
  <2> QED
    BY Zenon, <2>1, <2>2
<1> QED
  BY Zenon, <1>1, <1>2, <1>3 DEF Next, vars, Set, Cas, Delete, Incr, SweepStart, SweepStop, SweepShard, Tick

\* A session whose version is intact is not told EXISTS, and not NOT_FOUND
\* while the item is live.
LEMMA CasAnswered ==
  ASSUME SInv, IntactInv, CasPromise,
         NEW c \in Client, NEW v \in SetValue, NEW t \in TTLSeconds, ExecCas(c, v, t)
  PROVE  /\ answer'[c] = "EXISTS" => ~ seen[c].intact
         /\ answer'[c] = "NOT_FOUND" => LiveAmong({seen[c].key}) = {}
<1> DEFINE k   == seen[c].key
           sh  == shards[shardFor(k)]
           out == cas(sh, k, v, t, seen[c].cas, now, casCounter + 1)
<1>1. CASE TTLTooLarge(t)
  <2>1. Respond(c, "CLIENT_ERROR TTL is too large", FALSE, Counted)
    BY Zenon, <1>1 DEF ExecCas, RefuseTTL
  <2>2. answer'[c] = "CLIENT_ERROR TTL is too large" \/ answer'[c] = "lost"
    BY Zenon, <2>1, AnswerOf DEF SInv
  <2>3. answer'[c] # "EXISTS" /\ answer'[c] # "NOT_FOUND"
    BY Zenon, <2>2
  <2> QED
    BY Zenon, <2>3
<1>2. CASE ~ TTLTooLarge(t)
  <2>1. Duration(t) = t /\ t \in TTL
    BY Zenon, <1>2, DurationExact
  <2>2. Cas(c, v, t) /\ Respond(c, Line("cas", reply'.err), FALSE, Counted)
    BY Zenon, <1>2, <2>1 DEF ExecCas, Answered
  <2>3. seen[c] # NoVersion /\ Return("cas", k, out)
    BY Zenon, <2>2 DEF Cas
  <2>4. reply'.err = out.err
    BY ZenonT(30), <2>3 DEF Return
  <2>5. k \in Key /\ seen[c].cas \in Nat
    BY ZenonT(30), <2>3 DEF SInv, IInv, TypeOK, Version
  <2>6. out.err = CasAnswer(sh, k, v, seen[c].cas, now)
    BY Zenon, <2>1, <2>5 DEF CasPromise
  <2> HIDE DEF out
  <2>7. answer'[c] = Line("cas", out.err) \/ answer'[c] = "lost"
    BY Zenon, <2>2, <2>4, AnswerOf DEF SInv
  <2>8. /\ out.err \in {"nil", "ErrNotFound", "ErrCasMismatch", "ErrValueTooLarge",
                        "ErrMemoryLimitExceeded"}
        /\ out.err = "ErrCasMismatch" => k \in DOMAIN sh.items /\ sh.items[k].cas # seen[c].cas
        /\ out.err = "ErrNotFound" => ~ LiveIn(sh, k, now)
    BY Zenon, <2>6, CasAnswerErrors
  <2>9. /\ answer'[c] = "EXISTS" => out.err = "ErrCasMismatch"
        /\ answer'[c] = "NOT_FOUND" => out.err = "ErrNotFound"
    BY ZenonT(30), <2>7, <2>8, CasLines
  <2>10. out.err = "ErrCasMismatch" => ~ seen[c].intact
    BY ZenonT(30), <2>3, <2>8 DEF IntactInv, ItemAt, ItemIn
  <2>11. out.err = "ErrNotFound" => LiveAmong({k}) = {}
    BY ZenonT(30), <2>8 DEF LiveAmong, ItemAt, ItemIn, LiveIn
  <2> QED
    BY Zenon, <2>9, <2>10, <2>11
<1> QED
  BY Zenon, <1>1, <1>2

-----------------------------------------------------------------------------
(***************************************************************************)
(* The TTL of a session is the one the store uses, or is refused.          *)
(***************************************************************************)
\* What the store wrote expires t seconds from now.
LEMMA WrittenExpires ==
  ASSUME IInv, NEW k \in Key, NEW op, NEW out, Return(op, k, out), NEW t \in Nat \ {0}, NEW v,
         Stores(out.sh, k, v, expiresAt(now, t), casCounter + 1)
  PROVE  ItemIn(shards'[shardFor(k)], k).expiresAt = now + t
<1>1. shards'[shardFor(k)] = out.sh
  BY Zenon, KeyContext DEF Return, IInv, TypeOK
<1>2. expiresAt(now, t) = now + t
  BY DEF expiresAt
<1>3. k \in DOMAIN out.sh.items /\ Entry(out.sh.items[k]).expiresAt = now + t
  BY <1>2 DEF Stores
<1> QED
  BY Zenon, <1>1, <1>3 DEF ItemIn, Entry

\* A TTL that is answered STORED is not too large.
LEMMA StoredTTL ==
  ASSUME SInv, NEW c \in Client, NEW t \in TTLSeconds, answer'[c] = "STORED", t > 0,
         TTLTooLarge(t) => RefuseTTL(c)
  PROVE  ~ TTLTooLarge(t) /\ Duration(t) = t /\ t \in TTL /\ t \in Nat \ {0}
<1>1. TTLTooLarge(t) => answer'[c] = "CLIENT_ERROR TTL is too large" \/ answer'[c] = "lost"
  BY Zenon, AnswerOf DEF SInv, RefuseTTL
<1>2. ~ TTLTooLarge(t)
  BY Zenon, <1>1
<1> QED
  BY <1>2, DurationExact, SessionAssumption

\* SET.
LEMMA SetExpires ==
  ASSUME SInv, SetPromise, NEW c \in Client, NEW k \in Key, NEW v \in SetValue, NEW t \in TTLSeconds,
         ExecSet(c, k, v, t), answer'[c] = "STORED", t > 0
  PROVE  ItemIn(shards'[shardFor(k)], k).expiresAt = now + t
<1> DEFINE out == set(shards[shardFor(k)], k, v, t, now, casCounter + 1)
<1>1. TTLTooLarge(t) => RefuseTTL(c)
  BY Zenon DEF ExecSet
<1>2. ~ TTLTooLarge(t) /\ Duration(t) = t /\ t \in TTL /\ t \in Nat \ {0}
  BY Zenon, <1>1, StoredTTL
<1>3. Set(k, v, t) /\ Respond(c, Line("set", reply'.err), FALSE, Counted)
  BY Zenon, <1>2 DEF ExecSet, Answered
<1>4. Return("set", k, out)
  BY Zenon, <1>3 DEF Set
<1>5. /\ out.err = Refusal(k, v)
      /\ out.err = "nil" => Stores(out.sh, k, v, expiresAt(now, t), casCounter + 1)
  BY Zenon, <1>2 DEF SetPromise
<1> HIDE DEF out
<1>6. reply'.err = out.err
  BY ZenonT(30), <1>4 DEF Return
<1>7. out.err = "nil"
  <2>1. answer'[c] = Line("set", out.err) \/ answer'[c] = "lost"
    BY Zenon, <1>3, <1>6, AnswerOf DEF SInv
  <2>2. Line("set", out.err) = "STORED"
    BY ZenonT(30), <2>1
  <2>3. out.err \in {"nil", "ErrValueTooLarge", "ErrMemoryLimitExceeded"}
    BY Zenon, <1>5 DEF Refusal
  <2> QED
    BY Zenon, <2>2, <2>3, SetLines
<1> QED
  BY Zenon, <1>2, <1>4, <1>5, <1>7, WrittenExpires DEF SInv

\* CAS.
LEMMA CasExpires ==
  ASSUME SInv, CasPromise, NEW c \in Client, NEW k \in Key, NEW v \in SetValue, NEW t \in TTLSeconds,
         ExecCas(c, v, t), k = seen[c].key, answer'[c] = "STORED", t > 0
  PROVE  ItemIn(shards'[shardFor(k)], k).expiresAt = now + t
<1> DEFINE sh  == shards[shardFor(k)]
           out == cas(sh, k, v, t, seen[c].cas, now, casCounter + 1)
<1>1. TTLTooLarge(t) => RefuseTTL(c)
  BY Zenon DEF ExecCas
<1>2. ~ TTLTooLarge(t) /\ Duration(t) = t /\ t \in TTL /\ t \in Nat \ {0}
  BY Zenon, <1>1, StoredTTL
<1>3. Cas(c, v, t) /\ Respond(c, Line("cas", reply'.err), FALSE, Counted)
  BY Zenon, <1>2 DEF ExecCas, Answered
<1>4. seen[c] # NoVersion /\ Return("cas", k, out)
  BY Zenon, <1>3 DEF Cas
<1>5. seen[c].cas \in Nat
  BY ZenonT(30), <1>4 DEF SInv, IInv, TypeOK, Version
<1>6. /\ out.err = CasAnswer(sh, k, v, seen[c].cas, now)
      /\ out.err = "nil" => Stores(out.sh, k, v, expiresAt(now, t), casCounter + 1)
  <2>1. \A x \in Nat : LET o == cas(sh, k, v, t, x, now, casCounter + 1)
                       IN  /\ o.err = CasAnswer(sh, k, v, x, now)
                           /\ o.err = "nil" => Stores(o.sh, k, v, expiresAt(now, t), casCounter + 1)
    BY ZenonT(60), <1>2 DEF CasPromise
  <2> QED
    BY Zenon, <1>5, <2>1
<1> HIDE DEF out
<1>7. reply'.err = out.err
  BY ZenonT(30), <1>4 DEF Return
<1>8. out.err = "nil"
  <2>1. answer'[c] = Line("cas", out.err) \/ answer'[c] = "lost"
    BY Zenon, <1>3, <1>7, AnswerOf DEF SInv
  <2>2. Line("cas", out.err) = "STORED"
    BY ZenonT(30), <2>1
  <2>3. out.err = CasAnswer(sh, k, v, seen[c].cas, now)
    BY Zenon, <1>6
  <2> HIDE DEF sh
  <2>4. out.err \in {"nil", "ErrNotFound", "ErrCasMismatch", "ErrValueTooLarge",
                     "ErrMemoryLimitExceeded"}
    BY Zenon, <2>3, CasAnswerErrors
  <2> QED
    BY Zenon, <2>2, <2>4, CasLines
<1> QED
  BY Zenon, <1>2, <1>4, <1>6, <1>8, WrittenExpires DEF SInv
=============================================================================
