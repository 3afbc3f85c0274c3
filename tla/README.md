# Formal models of Mini-Key-Value-Store

TLA+ models of the programs in `src/`. Of the server: the sharded in-memory store,
its LRU list, the handling of connections with graceful shutdown, the commands of
client sessions, the parser on the byte stream, and the configuration file. Of the
benchmark: its workers and phases. TLC checks them on small instances, TLAPS proves
their main properties for every value of the constants.

## The system and its parts

| Part | Source | Modules | State |
| --- | --- | --- | --- |
| Shard: items, LRU order, totals, expiry, eviction | `internal/store/shard.go` | `Shard`, `Recency`, `ShardProofs` | modelled, proved |
| LRU list and the eviction loop on its pointers | `internal/store/lru.go`, `shard.go` | `LruList`, `LruListProofs` | modelled, proved |
| Store: shards, version counter, sweeps | `internal/store/store.go` | `Store`, `Cache`, `StoreProofs` | modelled, proved |
| Sweeper | `cleanupExpired` in `cmd/minikv/main.go` | `Store` | modelled |
| Connections, cap, shutdown | `internal/server/server.go`, `run` in `main.go` | `Server`, `ServerProofs` | modelled, safety proved |
| Sessions: auth gate, commands, MGET, STATS | `internal/server/server.go` | `Session`, `SessionSteps`, `SessionProofs` | modelled, proved |
| Protocol parser, on a stream cut anywhere | `internal/protocol/protocol.go` | `Protocol`, `Wire`, `Framing`, `WireProofs` | modelled, proved |
| Configuration | `internal/config/config.go`, `normalizeConfig` | `Config`, `Wire`, `WireProofs` | modelled, proved |
| Start of the process | `main`, `loadConfig`, `run` in `cmd/minikv/main.go` | `Wire`, `Server` | modelled |
| Benchmark runner and statistics | `internal/benchmark/runner.go`, `stats.go`, `cmd/minikv-bench` | `Benchmark`, `BenchmarkProofs` | modelled, safety proved |
| TLS listener | `listen` in `main.go` | `Config` | the condition for it only |
| Operations listener: healthz, doctor | `main.go` | - | not modelled |
| Benchmark clients | `internal/benchmark/clients.go` | - | not modelled |

`run` builds the store and the server, starts the sweeper, and starts one
goroutine (`ServeConn`) for each accepted connection. A handler reads a command,
executes it on the store and flushes the answer. A command locks the one shard
its key hashes to. The version counter is shared by all shards, the sweeper and
STATS walk over them one at a time, and MGET and GETS lock a shard for each key.
On SIGTERM the listener is closed, the accept loop ends, and `Shutdown` gives
every registered connection an immediate read deadline, waits, and after
`shutdown-timeout` closes what is left.

    Recency <- Shard <- Store <- Session          Server
                  ^       ||
                  |       \/
                  |     Cache                     Benchmark
                  LruList

    Protocol, Config <- Wire ==> Framing

An arrow points to the module that is extended; a double arrow is a refinement.

## The modules

**Recency** has the order of recency as a strict total order on keys
(`<<j, k>>` in it: `j` was used before `k`) with the list operations on it.

**Shard** has the methods of a shard as operators from a shard to an outcome: the
new shard, the error, and whether a version was drawn. A shard is a record with
the fields of the Go struct. `set`, `cas` and `incr` keep the order of their
checks and early returns, and what they leave behind when they fail (an expired
item removed, for example). `reclaimExpired`, `makeRoom` and `write` are the part
the three share. A value is its length and the number it spells, if any; the
conversion of INCR back to text keeps its length (`FormatUint`). A sum of sizes
is the cardinality of a set of bytes, which is the form the prover can use; an
ASSUME of `MCStore` compares it with a plain sum.

**Store** runs the methods concurrently. A step is one method under its mutex,
one shard's sweep, the end of the sweeper, or a tick of the clock. The sweeper returns
when it sees the signal between two sweeps (`SweepStop`), while commands go on: sessions
are still drained then. `seen[c]` is the version client `c`
got from GETS; its field `intact` is history: nothing has changed the item since.
`reply` is what the last command returned.

**Cache** is the abstract specification of the store: one map of live entries, each
gone at the moment its TTL ends, a version counter, and the commands that answer from
them. It has no shards, sizes, recency or sweeps. A write may drop other entries, which
is all that shows of eviction, and a value is refused (`Refusal`) for its own size and
key, never for what else is stored. In `Store`, `LiveEntries` maps the unexpired items
of all shards to the entries and `Holding` leaves the history out of what a client
holds. A sweep is a `Hidden` step; so are its start and the end of the sweeper.

**LruList** has the nodes with `prev` and `next` and the eviction loop one
candidate at a time. It shows that the loop evicts the set `Victims` that `Shard`
removes at once, so the atomic eviction of `Shard` is justified.

**Server** has one program counter for each handler, with a step for every
access to something shared: the slot, the wait group, the registry, the gauge,
the deadline, the socket. Clients send, stall or hang up at any time. Shutdown is
a process of its own.

**Session** has the loop of `serveConn` as it concerns commands, on top of
`Store`. A command on one key is one step. MGET, GETS and STATS are a step for
each lock they take, with the steps of others between them. An answer may fail to
reach its client, and whether that is noticed inside `execute` or at the flush
decides if it is counted. `work[c].untouched`, `proved`, `shown` and `told`, the number
of writes that clients were told of, are history.

**Protocol** has what `ReadCommand` makes of one line, as an operator from fields to
the set of its results, which is empty for a protocol error. The stream is a
sequence of symbols: CR, LF, and words and numbers between blanks. A symbol stands
for one byte when it is part of a value. `AddInt` is the addition of the `int` of
the build.

**Config** has `Load` line by line. A value of the file is known by what
`strconv.Atoi` and `time.ParseDuration` make of it.

**Wire** has one connection from its client to the execution of its commands, after
`main` has loaded a configuration. The client sends frames, well formed or
malformed, in pieces of any size; a frame records the command it stands for and is
compared with what is executed, never looked at by the parser. The socket and the
`bufio.Reader` hold a limited number of symbols, so that a line or a value may be
cut anywhere. The client may hang up or reset, and Shutdown may set its deadline or
force the connection closed, at any point. `deadline` is what is left to the read
deadline and `elapsed`, which is history, what has passed since the command began to be
read. `ReadLine` takes its header out of the buffer at once, as `ReadCommand` copies the
line before it reads on; `Fill_UnderView` is what would happen if it did not.
`FrameAssumption` says what a frame is: a line that parses to its command and is
followed by the value it announces (`WellFormed`), or a line or value that
`ReadCommand` has to refuse (`Refused`).

**Framing** is the abstract specification: commands are sent, executed once and in
order, and none after the session ended. In `Wire`, `SentCommands` are the commands
of the frames sent to their last symbol, up to the first malformed one.

**Benchmark** has the program `minikv-bench`: the services one after the other, the
dialling of a connection for each worker, and the workers of a phase with one step
for each call, which may fail. `wrote` and `got` are history.

The `MC` modules give the constants values for TLC. Operators named `X_Variant`
are faulty versions of `X`; each is named after the fault it has, and a property
that holds of `X` fails with it.

## What the runs check

| Run | Question |
| --- | --- |
| `StoreEviction` | One shard, three keys, items of 3 and 5 bytes in 8 bytes: totals, budget, LRU completeness, eviction in exact LRU order, expired items first, no more than needed, nothing lost by a failed command, recency follows use; INCR stores the exact sum, also at the largest number and at changes of length; expired items are never revived; the store implements `Cache` |
| `StoreVersions` | Two shards, two clients: versions unique, CAS only over what the client saw, total within a budget that the shards do not divide evenly; until the signal, every expired item is eventually removed |
| `LruList` | Pointers spell one order; the loop evicts `Victims` and never runs dry |
| `ServerCap` | The cap, the counters, what Shutdown waits for, rejections are justified; without idle-timeout a swept connection reads no more |
| `ServerLiveness` | The process exits after the signal unless a connection was late; a hang-up frees the slot; with idle-timeout no read waits for ever |
| `SessionAuth` | The gate, and failures end sessions, with every command and two sessions; TTLs are kept or refused; every write is reported, except at most one for each session that ended because its answer could not be sent |
| `SessionCommands` | MGET among writers; CAS is refused only when it must be; STATS never goes back, and its totals, added up shard by shard, fit together |
| `Wire` | Exactly the commands sent are executed, however they are cut and whatever their values contain; only misbehaviour is counted as a client error; with idle-timeout every command is read within it, however slowly it arrives, or the session ends; a configuration that is accepted is the one the store runs with |
| `Benchmark` | No connection is left open; reads follow writes and every key is written once; the results count every key |

Three runs show where the code differs from what it says of itself:

* `ServerDeadline`: with `idle-timeout` set, the deadline set before each command
  replaces the one Shutdown set, and the connection goes on until it is closed by
  force.
* `ServerLateConn`: a connection that was accepted before the listener closed and
  registers only after Shutdown force-closed the others is not closed by anyone;
  Shutdown waits for it. `ServerLiveness` shows that this is the only way; it passes
  with `IdleTimeout = FALSE` and without `NoReadWaitsForever` as well.
* `WireByteCount`: the byte count of a value is compared with `max-value-bytes` only
  after a buffer of that size and two more was allocated and read. For the largest
  `int` the sum wraps and the allocation panics. The run has this frame alone;
  in `Wire` it is one of the malformed ones.

Smaller observations, which no run needs to show: `items` of STATS counts expired
items not yet removed, where its comment says "live". A deadline that passes inside a
value is counted and answered as a protocol error, where the comment of
`handleReadError` says that a deadline closes quietly; `QuietEnds` has this case as an
exception, as it has that of a connection that is reset or closed by force.
`src/README.md` says that out-of-range values of the configuration are reported with
their line; the errors of `validate` carry none. `validate` accepts a memory budget
smaller than the number of shards, and `TotalBudget` needs the contrary.

### Bounds

Three keys let an eviction skip the protected item and take two victims. Item
sizes of 3 and 5 in a shard of 8 give exact fits, one and two victims, and items
that never fit. Three writes (`MaxCas`) are enough for them: two items fill the shard and
the third takes one victim or both; with four, the run passes as well. The clock starts at 1 and ticks once: with a TTL of 1 an item is live, then expired from the instant of
its expiry on, while one written after the tick is live. `MaxUint64` is 10 or 12, with two
digits, so that one INCR gains a digit and one overflows. `StoreVersions` has 9 bytes for
two shards, so that the division rounds down and a slice rounded up would exceed the total.
Two clients and two shards are the least
with an interleaving; three connections for two slots fill, reject and refill.
`ServerLiveness` has two connections for one slot, which keeps fill, reject and
refill.
In `Wire` the buffer holds 7 symbols and the socket 3: the longest well-formed line
fills the buffer, a SET with its value does not fit, one malformed line is longer
than the buffer, and two frames (`MaxFrames`) are enough for the end of one and the
beginning of the next to arrive together. Integers have a width of 3 and 4 bits
(`MaxInt`, `MaxUint64`), and numbers just past both are among the frames. The idle timeout
is two seconds, the least in which a byte can arrive after a part of it has passed.
`Benchmark` has up to four workers on up to six keys, so that slices differ.
`MaxCas`, `MaxTime`, `MaxSent`, `MaxCommands` and `Menu` bound the length of
behaviours and are named in the guards. `MaxTTLSeconds` stands for
`math.MaxInt64 / time.Second`; `Duration` wraps as the multiplication does.
Symmetry of keys, clients or connections is used in runs without liveness only.
The session runs do not check for deadlock: after the signal the sweeper is gone, and the
sessions end or use up their bounds. No item is evicted in `SessionCommands`; that the
evictions STATS shows never go back rests on `StatsMonotone`.
`TotalWithinBudget` is checked with a budget of at least one byte a shard: with fewer
`New` still gives each shard one byte.

### Fairness

`Store`: the ticker fires again and again and a sweep under way goes on, since
the sweeper has its own goroutine and holds a mutex for one call only; this ends with
the signal, which may come at any time and need not come. `Server`:
a handler that can take a step does, an armed deadline passes, and Shutdown and
its timeout go on; nothing is assumed of clients, who may stall or stay silent
for ever. Accepting is fair only once the listener is closed. `Wire`: the goroutine
of the connection runs when it can, and time passes; the client owes
nothing.

## What is proved

Every invariant and every action property that the passing runs check is a theorem,
for every value of the constants that satisfies the named ASSUMEs.

* **ShardProofs**: each method turns a correct shard (`ShardOK` of `Shard`: typed,
  exact totals, the LRU order total on the stored keys, finite) into a correct one
  within the budget (`Correct`), and what it may have changed on failure.
  `EvictionSucceeds`: eviction for an item that fits an empty shard always
  succeeds, so the `return false` of `evictUntilFitsLocked` is never reached from
  its callers. `ShardStep` is what one call may do to one shard: what it evicts is
  the tail of the order and not more than the write needs (`EvictsTail`), and is
  evicted only when nothing expired is left (`ReclaimsFirst`); it reorders only its
  own key (`Reorders`) and leaves expired items dead (`Buries`). `SetAnswers`,
  `CasAnswers`, `IncrAnswers`, `GetAnswers` and `DeleteAnswers` say that the error of a
  method is a function of its live items and arguments, and what the live items are
  afterwards; this is where `EvictionSucceeds` and the second lookup after the removal
  of expired items matter.
* **StoreProofs**: from these, by the inductive invariant
  `IInv == TypeOK /\ ShardsInv /\ ItemVersions /\ HeldVersions` of `Store`: types,
  exact totals, the budget, LRU completeness, unique versions, `CasSafe` and
  `FailureIsHarmless`. `ShardsInv` is needed since totals alone say nothing about
  the next eviction; `HeldVersions` relates versions held by clients to those
  stored, and rests on every version being at most the counter. `TotalBudget` adds
  the slices up to any number of shards, given at least one byte for each. With
  `ShardStep` for the one shard a step touches, and stuttering of the others, follow
  `ReclaimBeforeEvict`, `ExactLRU`, `RecencyIsUse`, `ExpiredStaysDead` and
  `IncrExact`. `PromisesKept` restates what the calls do to the live items as
  `Promises` of `Store`, one conjunct per call, which the refinement of `Cache` and the
  theorems on answers use.
* **LruListProofs**: types, the list spells a total order of the stored keys
  (`PointersCorrect`), the loop evicts exactly `Victims` (`LoopIsVictims`) and
  always ends with room (`LoopSucceeds`). The invariant carries what the loop has
  freed so far and that the candidates behind the current one are gone.
* **ServerProofs**: types, `Cap`, `Consistent`, `Drain` and `RejectionJustified`,
  for any number of connections. The invariant says which counter counts a handler
  at which place (`Counts`); each step moves one handler and its counters together.
  `SweptReadNothing` assumes that idle-timeout is off; its invariant `SweptInv` says
  that a swept connection has its deadline in the past or is closed, which only the
  line that arms the idle deadline could undo.
* **SessionSteps** and **SessionProofs**: `StoreIsCache` is the refinement of `Cache`
  by the store. From `Promises`, `SetShows` to `SweepShows` turn each call into one
  step of `Cache`: the shard of the key changes as promised, and the entries of the
  other shards stay (`SameEntries`). A method that removed an expired item and failed
  is a failed call of `Cache`. Then each step of a session is at most one call of the
  store (`SessionsUseStore`), so that `SessionsKeepStore` and `SessionsWithinBudget` carry over what is
  proved of the store, the refinement of `Cache` included; the
  types; `AuthGate`; `FailuresEnd`; `NoWriteUnreported`; `MultiCorrect`; `StatsConsistent`. The invariant
  `SInv` joins the store's with the session types: an MGET is left with keys only,
  which makes its steps steps of the store, and the totals STATS adds are natural
  numbers. `NoWriteUnreported` needs that a session that lost an answer is closed, so that
  it loses one only (`AnsweredInv`), and that a call draws a version exactly when its
  answer is STORED or the number of INCR. `MultiFindsUntouched` is inductive with the fact that an untouched key is
  live; `StatsAddUp` since each shard, at the moment it is read, holds no more items
  than its bytes account for and no more bytes than its slice. `CasRefusal` needs
  `IntactInv`: while `intact` holds, the item stored under the key has the version
  the session read. `TTLExact` follows a TTL through `Duration`, which is exact for
  every TTL that is not refused, into the item that SET and CAS promise to store.
  `StatsMonotone` needs `StatsInv`: what a session was shown is at most what STATS
  has loaded so far and the shards it has still to visit count together, because no
  method decreases a counter (`MethodsGrow`). `SessionSteps` has what needs only the
  statement of the store's invariant and promises, not their proofs.
* **WireProofs**: `Refinement` (`Wire` implements `Framing`) and `EndsAreQuiet`, for
  any set of frames and any sizes of socket and buffer. The inductive invariant
  `WInv` lays the frames end to end in one stream (`Laid`) and says that what is
  buffered, under way and still to be sent is a window of it that begins where the
  parser is (`Window`), and that this place is the end of the last executed frame, a
  point inside the value of the next one, or its end (`Place`). The stream, the ends
  of the frames and the place are the witnesses of an existential; each step keeps
  them or moves the place by what it consumed. From the place and the assumption on
  frames follows what a line parses to, and so what is executed or refused.
  `TypeCorrect` and `ConfigIsUsed` rest on `CInv`: whatever the lines of the file,
  `Load` returns a record with the fields of `Default` (`IsConfig`), which
  `validate` has accepted. `ReadsInTime` is the safety half of `ReadsEnd`; its invariant
  `TimeInv` says that what is left to the deadline and what has elapsed add up to no more
  than the idle timeout. `WireAssumption` says that a file is a sequence of
  `ConfigLine`s.
* **BenchmarkProofs**: `SlicesPartitionKeys` and `PercentileIsNearest` for the two
  pure functions; from the first, `WritesPrecedeReads`: the invariant says of every
  key that it is written once exactly when its one worker has passed it.
  `ConnectionsClosed`: the connections open are those dialled, until `closeAll`.
  `EveryKeyCounted`: the latencies merged at the end of a phase are in bijection with
  the keys (`MergedIsKeys`), and each run adds them once (`Collected`).

### Only model-checked

Liveness (`SweeperReclaimsExpired`, `ShutdownReturnsUnlessLate`, `HangupFreesSlot`,
`NoReadWaitsForever`, and that a read ends in `ReadsEnd`) is out of the prover's reach. The type invariants of
`Store`, `LruList`, `Server`, `Session`, `Wire` and `Benchmark` are proved for every value of
the constants and no run repeats them. The comparisons of pure operators with a
reference definition in the ASSUMEs of the `MC` modules (a sum of sizes, percentiles)
are evaluated by TLC; of these, the percentile is also a theorem.

## What is left out, and why

* Text of keys, values and answers; formatting; logging. The hash of a key is any
  function (`ShardOf`). Blanks between the words of a line are left out.
* The per-command counters are one counter; uptime and the connection counters in
  STATS are read once and shown.
* `Wire`, `Server` and `Session` are not composed: `Server` treats the execution of a
  command as one step, `Session` leaves the life of connections out and takes the
  commands that `Wire` shows to be those the client sent, `Wire` executes a command as
  one step that may end the session.
* `Serve`, which only tests call, has the loop of `serveConn` without a connection.
* healthz, doctor and pprof read and change no state of the program; what doctor
  divides are the totals of `StatsAddUp` and `TotalWithinBudget`, so the pressure it
  shows is at most 100%. TLS is that of the standard library.
* The benchmark clients are formatting and I/O. Of `Summarize`, the sorting, the mean
  and the rates are left out.

## Plan

Composition of `Server` with `Session`: what a command has done to the store when its
connection is closed by force.
