--------------------------- MODULE SessionProofs ----------------------------
(***************************************************************************)
(* Proofs about client sessions, for any number of them. They use the      *)
(* store as module Store has it, so what is proved of the store holds of   *)
(* the server; the authentication gate, the counters, MGET, CAS, TTLs and  *)
(* STATS keep what they promise whatever the other sessions do meanwhile.  *)
(***************************************************************************)
EXTENDS SessionSteps, StoreProofs

\* In a correct store the totals of every shard are numbers.
LEMMA TotalsHold == IInv => Totals
<1> SUFFICES ASSUME IInv, NEW s \in 1 .. Shards
             PROVE  LET n == Cardinality(DOMAIN shards[s].items)
                    IN  /\ n \in Nat /\ shards[s].memoryBytes \in Nat
                        /\ shards[s].evictions \in Nat /\ shards[s].expirations \in Nat
                        /\ n * (1 + ItemOverheadBytes) <= shards[s].memoryBytes
  BY ZenonT(30) DEF Totals
<1>1. ShardOK(shards[s])
  BY ZenonT(30) DEF IInv, ShardsInv
<1>2. Cardinality(DOMAIN shards[s].items) * (1 + ItemOverheadBytes) <= shards[s].memoryBytes
  BY ZenonT(30), <1>1, ItemsTakeBytes
<1>3. /\ Cardinality(DOMAIN shards[s].items) \in Nat /\ shards[s].memoryBytes \in Nat
      /\ shards[s].evictions \in Nat /\ shards[s].expirations \in Nat
  BY ZenonT(30), <1>1, FS_CardinalityType DEF ShardOK, ShardTyped, Accounted, SumSizes
<1> QED
  BY ZenonT(30), <1>2, <1>3

\* The invariant is inductive, and each step is a step of the store or none.
LEMMA SessionStep == SInv /\ [SessionNext]_sessionVars => [Next]_vars /\ SInv'
<1>1. SInv /\ [Next]_vars => IInv'
  BY ZenonT(30), NextIInv DEF SInv
<1>2. IInv' => Totals'
  BY TotalsHold, PTL
<1> QED
  BY ZenonT(30), <1>1, <1>2, StepOfStore DEF SInv, SessionInv

\* The invariant holds when the server starts.
LEMMA StartSInv == SessionInit => Init /\ SInv
BY ZenonT(30), InitIInv, TotalsHold, SessionStart DEF SessionInit, SInv, SessionInv

\* The inductive invariant holds in every reachable state.
THEOREM SessionInvariance == SessionSpec => []SInv
BY StartSInv, SessionStep, PTL DEF SessionSpec

\* The sharded store, with its evictions, lazy expiry and sweeper, implements
\* the cache its clients are promised.
THEOREM StoreIsCache == Spec => ImplementsCache
BY InitCache, NextCache, PromisesKept, Invariance, PTL DEF Spec, ImplementsCache, CacheView!Spec

\* Each step of a session is one call of the store or leaves it alone.
LEMMA SessionsUseStore == SessionSpec => Spec
BY StartSInv, SessionStep, PTL DEF SessionSpec, Spec

\* The variables of the sessions keep their types: MGET is left with keys only,
\* STATS visits only shards that exist and adds up natural numbers.
THEOREM SessionTypeCorrect == SessionSpec => []SessionTypeOK
<1>1. SInv => SessionTypeOK
  BY ZenonT(30) DEF SInv
<1> QED
  BY <1>1, SessionInvariance, PTL

\* What is proved of the store holds of the sessions that use it: exact totals,
\* the memory budget of each shard, unique versions, CAS that overwrites no
\* update unseen, eviction of the least recently used live items and only when
\* no expired one is left, no expired item revived, and INCR that stores the
\* exact sum; and what sessions see is the abstract cache.
THEOREM SessionsKeepStore ==
  SessionSpec => /\ [](AccountingExact /\ WithinBudget /\ LruHoldsStoredItems /\ VersionsUnique)
                 /\ CasOnlyOverObservedValue
                 /\ FailedCommandChangesNoLiveItem
                 /\ ExpiredGoBeforeLive /\ EvictsLeastRecentlyUsed /\ RecencyFollowsUse
                 /\ ExpiredIsNeverRevived /\ IncrAddsExactly
                 /\ ImplementsCache
BY SessionsUseStore, Accounting, Budget, LruComplete, UniqueVersions, CasSafe, FailureIsHarmless,
   ReclaimBeforeEvict, ExactLRU, RecencyIsUse, ExpiredStaysDead, IncrExact, StoreIsCache, PTL

\* Whatever sessions do, the items of all the shards together stay within
\* max-memory-bytes, if that has a byte for each shard.
THEOREM SessionsWithinBudget ==
  ASSUME MaxMemoryBytes >= Shards
  PROVE  SessionSpec => []TotalWithinBudget
BY SessionsUseStore, TotalBudget, PTL

-----------------------------------------------------------------------------
(***************************************************************************)
(* Failures end sessions: an invariant that relates the counters to the    *)
(* sessions that are closed.                                               *)
(***************************************************************************)
\* The failures counted are never more than the sessions closed.
THEOREM FailuresEnd == SessionSpec => []FailuresEndSessions
BY FailuresStart, FailuresStep, SessionInvariance, PTL DEF SessionSpec

\* Every write that took effect was reported to its client, except at most one
\* for each session that ended because its answer could not be sent; and no
\* client is told of a write that did not take effect.
THEOREM NoWriteUnreported == SessionSpec => []WritesAreAnswered
<1>1. SInv => Promises
  BY Zenon, PromisesKept DEF SInv
<1>2. AnsweredInv => WritesAreAnswered
  BY Zenon DEF AnsweredInv, WritesAreAnswered, Losers
<1> QED
  BY <1>1, <1>2, AnsweredStart, AnsweredStep, SessionInvariance, PTL DEF SessionSpec

-----------------------------------------------------------------------------
(***************************************************************************)
(* What SessionSteps shows of one step holds along every behaviour.        *)
(***************************************************************************)
\* MGET and GETS miss no key that stayed live and untouched while they ran.
THEOREM MultiCorrect == SessionSpec => []MultiFindsUntouched
<1>1. SessionInit => MultiInv
  BY DEF SessionInit, MultiInv, NoWork
<1>2. MultiInv => MultiFindsUntouched
  BY Zenon DEF MultiInv, MultiFindsUntouched, Awaited
<1> QED
  BY <1>1, <1>2, MultiStep, SessionInvariance, PTL DEF SessionSpec

\* With auth-token set nothing is served to a session that did not present it,
\* and nothing at all before some session did.
THEOREM AuthGate == SessionSpec => []NothingBeforeAuth
<1>1. SessionInit => Gated
  BY DEF SessionInit, Init, Unserved, StoreUnused, Stored, newShard, Gated
<1>2. Gated => NothingBeforeAuth
  BY Zenon DEF Gated, NothingBeforeAuth, Unserved, StoreUnused
<1> QED
  BY <1>1, <1>2, GatedStep, SessionInvariance, PTL DEF SessionSpec

\* What STATS adds up while other sessions write is within the budget it is
\* compared with, and covers the items it counted.
THEOREM StatsConsistent == SessionSpec => []StatsAddUp
<1>1. SessionInit => StatsAddUp
  BY DEF SessionInit, StatsAddUp, NoWork
<1> QED
  BY <1>1, AddsUpStep, SessionInvariance, PTL DEF SessionSpec

-----------------------------------------------------------------------------
(***************************************************************************)
(* The answers of CAS and SET say what the store did.                      *)
(***************************************************************************)
\* A session whose item nobody changed since its GETS is not told EXISTS, and
\* not NOT_FOUND while the item is live.
THEOREM CasRefusal == SessionSpec => CasRefusedOnlyIfChanged
<1>1. SessionInit => IntactInv
  BY ZenonT(30) DEF SessionInit, Init, IntactInv
<1>2. SInv /\ IntactInv /\ [SessionNext]_sessionVars => IntactInv'
  BY Zenon, SessionStep, IntactStep DEF SInv
<1>3. SInv => CasPromise
  BY Zenon, PromisesKept DEF SInv, Promises
<1>4. SInv /\ IntactInv /\ [SessionNext]_sessionVars
        => [\A c \in Client : (\E v \in SetValue, t \in TTLSeconds : ExecCas(c, v, t)) =>
              /\ answer'[c] = "EXISTS" => ~ seen[c].intact
              /\ answer'[c] = "NOT_FOUND" => LiveAmong({seen[c].key}) = {}]_sessionVars
  BY Zenon, <1>3, CasAnswered
<1> QED
  BY <1>1, <1>2, <1>4, SessionInvariance, PTL DEF SessionSpec, CasRefusedOnlyIfChanged

\* No TTL that is answered STORED wraps around: the item expires exactly then.
THEOREM TTLExact == SessionSpec => TTLHonoured
<1>1. SInv => SetPromise /\ CasPromise
  BY Zenon, PromisesKept DEF SInv, Promises
<1>2. SInv /\ [SessionNext]_sessionVars
        => [\A c \in Client, k \in Key, v \in SetValue, t \in TTLSeconds :
              (ExecSet(c, k, v, t) \/ (ExecCas(c, v, t) /\ k = seen[c].key))
                /\ answer'[c] = "STORED" /\ t > 0
              => ItemIn(shards'[shardFor(k)], k).expiresAt = now + t]_sessionVars
  BY ZenonT(60), <1>1, SetExpires, CasExpires
<1> QED
  BY <1>2, SessionInvariance, PTL DEF SessionSpec, TTLHonoured

-----------------------------------------------------------------------------
(***************************************************************************)
(* STATS samples the counters of the shards one after the other.  What it  *)
(* showed last is never more than what it has loaded so far and the shards *)
(* it has still to visit together count, because counters only grow; so    *)
(* the next answer is no smaller.                                          *)
(***************************************************************************)
Evictions == [s \in 1 .. Shards |-> [size |-> shards[s].evictions]]

Expirations == [s \in 1 .. Shards |-> [size |-> shards[s].expirations]]

PlaceAhead(seenBefore, place, evicted, gone) ==
  /\ Ahead(seenBefore.evictions, place[2], place[1], evicted)
  /\ Ahead(seenBefore.expirations, place[3], place[1], gone)

StatsInv == \A c \in Client : PlaceAhead(shown[c], Place(work[c]), Evictions, Expirations)

\* The counters of the shards are numbers and grow.
LEMMA CountersGrow ==
  ASSUME SInv, [SessionNext]_sessionVars
  PROVE  /\ IsTally(Evictions) /\ IsTally(Evictions') /\ IsTally(Expirations) /\ IsTally(Expirations')
         /\ \A s \in 1 .. Shards : Evictions[s].size <= Evictions'[s].size
         /\ \A s \in 1 .. Shards : Expirations[s].size <= Expirations'[s].size
<1>1. [Next]_vars /\ IInv
  BY Zenon, SessionStep DEF SInv
<1>2. \A s \in 1 .. Shards : /\ shards[s].evictions \in Nat /\ shards[s].expirations \in Nat
                             /\ Grows(shards[s], shards'[s])
  BY Zenon, <1>1, NextGrows DEF SInv, Totals
<1> QED
  BY SMTT(30), <1>2 DEF IsTally, Evictions, Expirations, Grows

\* A counter is loaded.
LEMMA LoadKeepsAhead ==
  ASSUME SInv, StatsInv, [SessionNext]_sessionVars, NEW c \in Client, StatsLoad(c), NEW d \in Client
  PROVE  /\ PlaceAhead(shown'[d], Place(work'[d]), Evictions, Expirations)
         /\ shown[d].evictions <= shown'[d].evictions /\ shown[d].expirations <= shown'[d].expirations
<1> DEFINE w == work[c]
           n == w.shard
           e == w.evictions + shards[n].evictions
           x == w.expirations + shards[n].expirations
           loaded == [w EXCEPT !.evictions = e, !.expirations = x,
                               !.shard = afterShard(n), !.locked = TRUE]
<1>1. /\ work \in [Client -> Work] /\ w \in StatsWork /\ w.op = "stats"
      /\ shown \in [Client -> [evictions : Nat, expirations : Nat]]
  BY ZenonT(30), WorkKinds DEF SInv, SessionTypeOK, StatsLoad
<1>2. n \in 1 .. Shards /\ w.evictions \in Nat /\ w.expirations \in Nat
  BY ZenonT(30), <1>1 DEF StatsWork
<1>3. /\ IsTally(Evictions) /\ Evictions[n].size = shards[n].evictions
      /\ IsTally(Expirations) /\ Expirations[n].size = shards[n].expirations
  BY ZenonT(30), <1>2, CountersGrow DEF Evictions, Expirations
<1>4. shown[c].evictions \in Nat /\ shown[c].expirations \in Nat
  BY ZenonT(30), <1>1
<1>5. /\ Ahead(shown[c].evictions, w.evictions, n, Evictions)
      /\ Ahead(shown[c].expirations, w.expirations, n, Expirations)
  <2>1. Place(w) = <<n, w.evictions, w.expirations>>
    BY Zenon, <1>1 DEF Place
  <2> QED
    BY SMTT(30), <2>1 DEF StatsInv, PlaceAhead
<1>6. /\ n # Shards => /\ Ahead(shown[c].evictions, e, n + 1, Evictions)
                       /\ Ahead(shown[c].expirations, x, n + 1, Expirations)
      /\ n = Shards => /\ shown[c].evictions <= e /\ shown[c].expirations <= x
                       /\ Ahead(e, 0, 1, Evictions) /\ Ahead(x, 0, 1, Expirations)
  BY Zenon, <1>2, <1>3, <1>4, <1>5, AheadLoaded
<1>7. /\ afterShard(n) = 0 <=> n = Shards
      /\ n # Shards => afterShard(n) = n + 1
  BY SMTT(30), <1>2 DEF afterShard
<1>8. /\ loaded.op = "stats" /\ loaded.shard = afterShard(n)
      /\ loaded.evictions = e /\ loaded.expirations = x
  BY Zenon, <1>1 DEF StatsWork
<1>9. IF loaded.shard # 0
      THEN work' = [work EXCEPT ![c] = loaded] /\ shown' = shown
      ELSE /\ work' = [work EXCEPT ![c] = NoWork]
           /\ shown' = [shown EXCEPT ![c] = [evictions |-> loaded.evictions,
                                             expirations |-> loaded.expirations]]
  BY Zenon DEF StatsLoad
<1> HIDE DEF loaded, w, e, x, n
<1>10. CASE d # c
  <2>1. work'[d] = work[d] /\ shown'[d] = shown[d]
    BY ZenonT(30), <1>1, <1>9, <1>10
  <2>2. shown[d].evictions <= shown[d].evictions /\ shown[d].expirations <= shown[d].expirations
    BY SMTT(30), <1>1
  <2> QED
    BY Zenon, <2>1, <2>2 DEF StatsInv
<1>11. CASE d = c /\ n # Shards
  <2>1. work'[d] = loaded /\ shown'[d] = shown[c]
    BY ZenonT(30), <1>1, <1>7, <1>8, <1>9, <1>11
  <2>2. Place(loaded) = <<n + 1, e, x>>
    BY ZenonT(30), <1>7, <1>8, <1>11 DEF Place
  <2>3. shown[c].evictions <= shown[c].evictions /\ shown[c].expirations <= shown[c].expirations
    BY SMTT(30), <1>4
  <2> QED
    BY SMTT(30), <1>6, <1>11, <2>1, <2>2, <2>3 DEF PlaceAhead
<1>12. CASE d = c /\ n = Shards
  <2>1. /\ work'[d] = NoWork /\ shown'[d].evictions = e /\ shown'[d].expirations = x
    BY SMTT(30), <1>1, <1>7, <1>8, <1>9, <1>12
  <2>2. Place(NoWork) = <<1, 0, 0>>
    BY DEF Place, NoWork
  <2> QED
    BY <1>6, <1>12, <2>1, <2>2 DEF PlaceAhead
<1> QED
  BY Zenon, <1>10, <1>11, <1>12

\* What one step does to every session's view of the counters.
LEMMA StatsStep ==
  ASSUME SInv, StatsInv, [SessionNext]_sessionVars
  PROVE  /\ StatsInv'
         /\ \A c \in Client : /\ shown[c].evictions <= shown'[c].evictions
                              /\ shown[c].expirations <= shown'[c].expirations
<1>1. ASSUME NEW d \in Client
      PROVE  /\ PlaceAhead(shown'[d], Place(work'[d]), Evictions, Expirations)
             /\ shown[d].evictions <= shown'[d].evictions /\ shown[d].expirations <= shown'[d].expirations
  <2>1. ASSUME NEW c \in Client, StatsLoad(c)
        PROVE  /\ PlaceAhead(shown'[d], Place(work'[d]), Evictions, Expirations)
               /\ shown[d].evictions <= shown'[d].evictions
               /\ shown[d].expirations <= shown'[d].expirations
    BY Zenon, <2>1, LoadKeepsAhead
  <2>2. CASE ~ \E c \in Client : StatsLoad(c)
    <3>1. Place(work'[d]) = Place(work[d]) /\ shown' = shown
      BY Zenon, <2>2, PlaceKept
    <3>2. shown[d].evictions <= shown[d].evictions /\ shown[d].expirations <= shown[d].expirations
      BY DEF SInv, SessionTypeOK
    <3> QED
      BY Zenon, <3>1, <3>2 DEF StatsInv
  <2> QED
    BY Zenon, <2>1, <2>2
<1>2. ASSUME NEW d \in Client
      PROVE  PlaceAhead(shown'[d], Place(work'[d]), Evictions', Expirations')
  <2> DEFINE p == Place(work'[d])
  <2>1. work'[d] \in Work /\ shown'[d] \in [evictions : Nat, expirations : Nat]
    BY ZenonT(30), SessionStep DEF SInv, SessionTypeOK
  <2>2. p[1] \in 1 .. Shards /\ p[2] \in Nat /\ p[3] \in Nat
    BY SMTT(30), <2>1, WorkKinds, ConfigAssumption DEF Place, StatsWork
  <2>3. shown'[d].evictions \in Nat /\ shown'[d].expirations \in Nat
    BY ZenonT(30), <2>1
  <2> HIDE DEF p
  <2>4. PlaceAhead(shown'[d], p, Evictions, Expirations)
    BY Zenon, <1>1 DEF p
  <2>5. PlaceAhead(shown'[d], p, Evictions', Expirations')
    <3>1. Ahead(shown'[d].evictions, p[2], p[1], Evictions')
      BY SMTT(30), <2>2, <2>3, <2>4, CountersGrow, AheadKept DEF PlaceAhead
    <3>2. Ahead(shown'[d].expirations, p[3], p[1], Expirations')
      BY SMTT(30), <2>2, <2>3, <2>4, CountersGrow, AheadKept DEF PlaceAhead
    <3> QED
      BY Zenon, <3>1, <3>2 DEF PlaceAhead
  <2> QED
    BY Zenon, <2>5 DEF p
<1>3. StatsInv'
  BY Zenon, <1>2 DEF StatsInv, Place, PlaceAhead, Ahead
<1> QED
  BY Zenon, <1>1, <1>3

\* The evictions and expirations STATS shows to a session never decrease.
THEOREM StatsMonotone == SessionSpec => StatsNeverDecrease
<1>1. SessionInit => StatsInv
  <2> SUFFICES ASSUME SessionInit, NEW c \in Client
               PROVE  PlaceAhead(shown[c], Place(work[c]), Evictions, Expirations)
    BY Zenon DEF StatsInv
  <2>1. Place(work[c]) = <<1, 0, 0>> /\ shown[c].evictions = 0 /\ shown[c].expirations = 0
    BY ZenonT(30) DEF SessionInit, Place, NoWork
  <2>2. Totals
    BY Zenon, StartSInv DEF SInv
  <2>3. IsTally(Evictions) /\ IsTally(Expirations)
    BY ZenonT(30), <2>2 DEF Totals, IsTally, Evictions, Expirations
  <2>4. 1 .. Shards \in SUBSET (1 .. Shards) /\ 1 .. 1 - 1 \in SUBSET (1 .. Shards)
    OBVIOUS
  <2>5. ASSUME NEW f, IsTally(f) PROVE Ahead(0, 0, 1, f)
    <3>1. SumSizes(f, 1 .. Shards) \in Nat /\ SumSizes(f, 1 .. 1 - 1) \in Nat
      BY Zenon, <2>4, <2>5, TallyType
    <3> QED
      BY SMTT(30), <3>1 DEF Ahead
  <2> QED
    BY <2>1, <2>3, <2>5 DEF PlaceAhead
<1>2. SInv /\ StatsInv /\ [SessionNext]_sessionVars => StatsInv'
  BY Zenon, StatsStep
<1>3. SInv /\ StatsInv /\ [SessionNext]_sessionVars
        => [\A c \in Client : /\ shown'[c].evictions >= shown[c].evictions
                              /\ shown'[c].expirations >= shown[c].expirations]_sessionVars
  <2> SUFFICES ASSUME SInv, StatsInv, [SessionNext]_sessionVars, NEW c \in Client
               PROVE  /\ shown'[c].evictions >= shown[c].evictions
                      /\ shown'[c].expirations >= shown[c].expirations
    BY Zenon
  <2>1. shown[c].evictions <= shown'[c].evictions /\ shown[c].expirations <= shown'[c].expirations
    BY Zenon, StatsStep
  <2>2. /\ shown[c].evictions \in Nat /\ shown'[c].evictions \in Nat
        /\ shown[c].expirations \in Nat /\ shown'[c].expirations \in Nat
    BY SessionStep DEF SInv, SessionTypeOK
  <2> QED
    BY ZenonT(30), <2>1, <2>2
<1> QED
  BY <1>1, <1>2, <1>3, SessionInvariance, PTL DEF SessionSpec, StatsNeverDecrease
=============================================================================
