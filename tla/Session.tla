------------------------------ MODULE Session ------------------------------
(***************************************************************************)
(* The commands of client sessions (the loop of serveConn, handleAuthGate, *)
(* countCommand and execute, src/internal/server/server.go) on top of the  *)
(* store.                                                                  *)
(*                                                                         *)
(* A command that touches one key is one step: it is counted, it takes the *)
(* shard's mutex once, and its answer is written.  MGET and GETS lock a    *)
(* shard for each key, STATS locks the shards one by one, and the commands *)
(* of other sessions run in between.  A session is a Client of module      *)
(* Store.  How connections come and go is module Server's.                 *)
(***************************************************************************)
EXTENDS Store, Sequences

CONSTANTS
  AuthToken,      \* the configured token, or NoToken
  NoToken,
  Token,          \* the tokens clients present
  KeyList,        \* the key lists of MGET and GETS
  TTLSeconds,     \* the TTLs clients ask for
  MaxTTLSeconds,  \* math.MaxInt64 / time.Second
  MaxCommands,    \* bound on the commands of a session
  Menu            \* bound: what sessions do, of Commands

Commands == {"bad", "leave", "ping", "auth", "set", "cas", "get", "delete", "incr", "mget", "stats"}

ASSUME SessionAssumption ==
  /\ NoToken \notin Token
  /\ AuthToken \in Token \cup {NoToken}
  /\ KeyList \subseteq Seq(Key)
  /\ MaxTTLSeconds \in Nat \ {0}
  /\ TTLSeconds \subseteq Nat
  /\ \A t \in TTLSeconds : t <= MaxTTLSeconds => t \in TTL
  /\ IsFiniteSet(Client)
  /\ MaxCommands \in Nat
  /\ Menu \subseteq Commands

VARIABLES
  gate,    \* each session: locked until it authenticates, open, closed
  work,    \* the MGET, GETS or STATS a session is in the middle of
  answer,  \* the last answer of each session
  count,   \* Server's counters; the cmd counters of execute in one
  read,    \* bound: how many commands each session read
  proved,  \* history: the sessions that presented the configured token
  shown,   \* history: the evictions and expirations STATS last showed
  told     \* history: how many writes clients were told of

session == <<gate, work, answer, count, read, proved, shown, told>>

sessionVars == <<vars, session>>

NoWork == [op |-> "none"]

\* The keys of S that are stored and not expired.
LiveAmong(S) ==
  {k \in S : ItemAt(k) # NoItem /\ ~ expired(ItemAt(k), now)}

SessionInit ==
  /\ Init
  /\ gate = [c \in Client |-> IF AuthToken = NoToken THEN "open" ELSE "locked"]
  /\ work = [c \in Client |-> NoWork]
  /\ answer = [c \in Client |-> "none"]
  /\ count = [commands |-> 0, auth |-> 0, authFailures |-> 0, clientErrors |-> 0,
              serverErrors |-> 0]
  /\ read = [c \in Client |-> 0]
  /\ proved = {}
  /\ shown = [c \in Client |-> [evictions |-> 0, expirations |-> 0]]
  /\ told = 0

-----------------------------------------------------------------------------
(***************************************************************************)
(* An answer is written and flushed; a session whose client is gone ends.  *)
(* Only an answer with a value is larger than the write buffer and may     *)
(* fail before the flush, inside execute.                                  *)
(***************************************************************************)
\* The answers that tell a client that it wrote: those of SET, CAS and INCR.
WriteLines == {"STORED", "VALUE n"}

\* Mutant: the error of the flush is dropped.
Respond_IgnoresFlush(c, line, last, counted) ==
  \E failed \in {"nowhere", "flush"} \cup (IF line = "VALUE" THEN {"execute"} ELSE {}) :
    /\ gate' = [gate EXCEPT ![c] = IF last \/ failed = "execute" THEN "closed" ELSE "open"]
    /\ answer' = [answer EXCEPT ![c] = IF failed = "nowhere" THEN line ELSE "lost"]
    /\ count' = [counted EXCEPT !.serverErrors = @ + (IF failed = "execute" THEN 1 ELSE 0)]
    /\ told' = told + (IF failed = "nowhere" /\ line \in WriteLines THEN 1 ELSE 0)

Respond(c, line, last, counted) ==
  \E failed \in {"nowhere", "flush"} \cup (IF line = "VALUE" THEN {"execute"} ELSE {}) :
    /\ gate' = [gate EXCEPT ![c] = IF last \/ failed # "nowhere" THEN "closed" ELSE "open"]
    /\ answer' = [answer EXCEPT ![c] = IF failed = "nowhere" THEN line ELSE "lost"]
    /\ count' = [counted EXCEPT !.serverErrors = @ + (IF failed = "execute" THEN 1 ELSE 0)]
    /\ told' = told + (IF failed = "nowhere" /\ line \in WriteLines THEN 1 ELSE 0)

\* The session's next command is read.
Reads(c) ==
  /\ gate[c] # "closed" /\ work[c] = NoWork
  /\ read[c] < MaxCommands
  /\ read' = [read EXCEPT ![c] = @ + 1]

Counted == [count EXCEPT !.commands = @ + 1]

\* What another session's step leaves of the keys an MGET under way must find.
Untouched(c) ==
  IF work[c].op = "mget"
  THEN [work[c] EXCEPT !.untouched =
          {k \in @ : ItemIn(shards'[shardFor(k)], k) = ItemAt(k) /\ ~ expired(ItemAt(k), now')}]
  ELSE work[c]

-----------------------------------------------------------------------------
(***************************************************************************)
(* Before and around execute.                                              *)
(***************************************************************************)
\* Mutant: the session goes on after an error of the parser.
BadCommand_GoesOn(c) ==
  /\ Reads(c)
  /\ Respond(c, "CLIENT_ERROR bad command", FALSE, [count EXCEPT !.clientErrors = @ + 1])
  /\ UNCHANGED <<vars, work, proved, shown>>

\* The parser reports an error: handleReadError.
BadCommand(c) ==
  /\ Reads(c)
  /\ Respond(c, "CLIENT_ERROR bad command", TRUE, [count EXCEPT !.clientErrors = @ + 1])
  /\ UNCHANGED <<vars, work, proved, shown>>

\* The client hangs up or is idle too long: the session ends without an answer.
Leave(c) ==
  /\ gate[c] # "closed" /\ work[c] = NoWork
  /\ gate' = [gate EXCEPT ![c] = "closed"]
  /\ UNCHANGED <<vars, work, answer, count, read, proved, shown, told>>

\* Mutant: the session goes on after the refusal.
Refuse_GoesOn(c) ==
  /\ gate[c] = "locked"
  /\ Reads(c)
  /\ Respond(c, "CLIENT_ERROR auth required", FALSE, count)
  /\ UNCHANGED <<vars, work, proved, shown>>

\* handleAuthGate refuses any command but AUTH.
Refuse(c) ==
  /\ gate[c] = "locked"
  /\ Reads(c)
  /\ Respond(c, "CLIENT_ERROR auth required", TRUE, count)
  /\ UNCHANGED <<vars, work, proved, shown>>

\* AUTH, in handleAuthGate and after it.
Auth(c, token) ==
  /\ Reads(c)
  /\ LET counted == [count EXCEPT !.auth = @ + 1]
     IN  IF AuthToken = NoToken
         THEN Respond(c, "CLIENT_ERROR auth not configured", TRUE, counted)
         ELSE IF token # AuthToken
         THEN Respond(c, "CLIENT_ERROR auth failed", TRUE, [counted EXCEPT !.authFailures = @ + 1])
         ELSE Respond(c, "AUTHENTICATED", FALSE, counted)
  /\ proved' = IF token = AuthToken THEN proved \cup {c} ELSE proved
  /\ UNCHANGED <<vars, work, shown>>

-----------------------------------------------------------------------------
(***************************************************************************)
(* execute, for the commands that touch at most one key.                   *)
(***************************************************************************)
OpenReads(c) == gate[c] = "open" /\ Reads(c)

\* The line that execute writes for what the store returned.  No case is left
\* for the default of its switches, which ends the session.
Line(op, err) ==
  CASE err = "nil" /\ op \in {"set", "cas"} -> "STORED"
    [] err = "nil" /\ op = "delete" -> "DELETED"
    [] err = "nil" /\ op = "get" -> "VALUE"
    [] err = "nil" /\ op = "incr" -> "VALUE n"
    [] err = "ErrNotFound" /\ op = "get" -> "END"
    [] err = "ErrNotFound" /\ op \in {"cas", "delete", "incr"} -> "NOT_FOUND"
    [] err = "ErrCasMismatch" /\ op = "cas" -> "EXISTS"
    [] err = "ErrNotInteger" /\ op = "incr" -> "CLIENT_ERROR value is not an unsigned integer"
    [] err = "ErrOverflow" /\ op = "incr" -> "CLIENT_ERROR increment would overflow uint64"
    [] err = "ErrValueTooLarge" /\ op \in {"set", "cas", "incr"} -> "SERVER_ERROR value too large"
    [] err = "ErrMemoryLimitExceeded" /\ op \in {"set", "cas", "incr"}
         -> "SERVER_ERROR memory limit exceeded"

\* The command's call of the store took effect, and its outcome is answered.
Answered(c, op) ==
  /\ Respond(c, Line(op, reply'.err), FALSE, Counted)
  /\ work' = [d \in Client |-> Untouched(d)]
  /\ UNCHANGED <<proved, shown>>

\* Mutant: a TTL is never too large.
TTLTooLarge_Never(ttl) == FALSE

TTLTooLarge(ttl) == ttl > MaxTTLSeconds

\* time.Duration(ttl) * time.Second, in seconds: int64 nanoseconds wrap.
Duration(ttl) == IF ttl > MaxTTLSeconds THEN ttl - 2 * (MaxTTLSeconds + 1) ELSE ttl

RefuseTTL(c) ==
  /\ Respond(c, "CLIENT_ERROR TTL is too large", FALSE, Counted)
  /\ UNCHANGED <<vars, work, proved, shown>>

ExecSet(c, k, value, ttl) ==
  /\ OpenReads(c)
  /\ IF TTLTooLarge(ttl) THEN RefuseTTL(c)
     ELSE Set(k, value, Duration(ttl)) /\ Answered(c, "set")

ExecCas(c, value, ttl) ==
  /\ OpenReads(c)
  /\ IF TTLTooLarge(ttl) THEN RefuseTTL(c)
     ELSE Cas(c, value, Duration(ttl)) /\ Answered(c, "cas")

ExecGet(c, k) == OpenReads(c) /\ Get(c, k) /\ Answered(c, "get")

ExecDelete(c, k) == OpenReads(c) /\ Delete(k) /\ Answered(c, "delete")

ExecIncr(c, k, delta) == OpenReads(c) /\ Incr(k, delta) /\ Answered(c, "incr")

ExecPing(c) ==
  /\ OpenReads(c)
  /\ Respond(c, "PONG", FALSE, Counted)
  /\ UNCHANGED <<vars, work, proved, shown>>
-----------------------------------------------------------------------------
(***************************************************************************)
(* MGET and GETS: one call of the store for each key, misses are skipped.  *)
(* untouched is a history field: the keys that were live when the command  *)
(* was read and that nothing has changed, removed or let expire since.     *)
(***************************************************************************)
\* Mutant: the first key is taken for the name of the command.
MultiStart_SkipsFirst(c, keys) ==
  /\ OpenReads(c)
  /\ count' = Counted
  /\ work' = [work EXCEPT ![c] = [op |-> "mget", keys |-> keys, todo |-> Tail(keys), hits |-> {},
                                 untouched |-> LiveAmong({keys[i] : i \in DOMAIN keys})]]
  /\ UNCHANGED <<vars, gate, answer, proved, shown, told>>

MultiStart(c, keys) ==
  /\ OpenReads(c)
  /\ count' = Counted
  /\ work' = [work EXCEPT ![c] = [op |-> "mget", keys |-> keys, todo |-> keys, hits |-> {},
                                 untouched |-> LiveAmong({keys[i] : i \in DOMAIN keys})]]
  /\ UNCHANGED <<vars, gate, answer, proved, shown, told>>

MultiGet(c) ==
  /\ work[c].op = "mget" /\ work[c].todo # <<>>
  /\ LET k == Head(work[c].todo)
     IN  /\ Get(c, k)
         /\ work' = [d \in Client |->
                       IF d = c
                       THEN [Untouched(c) EXCEPT !.todo = Tail(@),
                                                 !.hits = IF reply'.err = "nil" THEN @ \cup {k} ELSE @]
                       ELSE Untouched(d)]
  /\ UNCHANGED <<gate, answer, count, read, proved, shown, told>>

\* The values so far fill the write buffer and cannot be sent.
MultiFails(c) ==
  /\ work[c].op = "mget" /\ work[c].hits # {}
  /\ gate' = [gate EXCEPT ![c] = "closed"]
  /\ work' = [work EXCEPT ![c] = NoWork]
  /\ answer' = [answer EXCEPT ![c] = "lost"]
  /\ count' = [count EXCEPT !.serverErrors = @ + 1]
  /\ UNCHANGED <<vars, read, proved, shown, told>>

MultiEnd(c) ==
  /\ work[c].op = "mget" /\ work[c].todo = <<>>
  /\ Respond(c, "END", FALSE, count)
  /\ work' = [work EXCEPT ![c] = NoWork]
  /\ UNCHANGED <<vars, read, proved, shown>>

-----------------------------------------------------------------------------
(***************************************************************************)
(* STATS (Store.Stats, store.go): for each shard the number of items and   *)
(* the bytes under the mutex, then the two event counters without it.      *)
(***************************************************************************)
StatsStart(c) ==
  /\ OpenReads(c)
  /\ count' = Counted
  /\ work' = [work EXCEPT ![c] = [op |-> "stats", shard |-> 1, locked |-> TRUE, items |-> 0,
                                 memory |-> 0, budget |-> 0, evictions |-> 0, expirations |-> 0]]
  /\ UNCHANGED <<vars, gate, answer, proved, shown, told>>

\* Mutant: the budget of one shard stands for all.
StatsShard_OneBudget(c) ==
  /\ work[c].op = "stats" /\ work[c].locked
  /\ LET sh == shards[work[c].shard]
     IN  work' = [work EXCEPT ![c].items = @ + Cardinality(DOMAIN sh.items),
                              ![c].memory = @ + sh.memoryBytes,
                              ![c].budget = perShardMemory,
                              ![c].locked = FALSE]
  /\ UNCHANGED <<vars, gate, answer, count, read, proved, shown, told>>

StatsShard(c) ==
  /\ work[c].op = "stats" /\ work[c].locked
  /\ LET sh == shards[work[c].shard]
     IN  work' = [work EXCEPT ![c].items = @ + Cardinality(DOMAIN sh.items),
                              ![c].memory = @ + sh.memoryBytes,
                              ![c].budget = @ + perShardMemory,
                              ![c].locked = FALSE]
  /\ UNCHANGED <<vars, gate, answer, count, read, proved, shown, told>>

\* The counters of the shard just sampled are loaded, and those of the last
\* one complete the answer.
StatsLoad(c) ==
  /\ work[c].op = "stats" /\ ~ work[c].locked
  /\ LET sh     == shards[work[c].shard]
         loaded == [work[c] EXCEPT !.evictions = @ + sh.evictions,
                                   !.expirations = @ + sh.expirations,
                                   !.shard = afterShard(@), !.locked = TRUE]
     IN  IF loaded.shard # 0
         THEN work' = [work EXCEPT ![c] = loaded] /\ UNCHANGED <<gate, answer, count, shown, told>>
         ELSE /\ Respond(c, "STAT", FALSE, count)
              /\ work' = [work EXCEPT ![c] = NoWork]
              /\ shown' = [shown EXCEPT ![c] = [evictions |-> loaded.evictions,
                                               expirations |-> loaded.expirations]]
  /\ UNCHANGED <<vars, read, proved>>

-----------------------------------------------------------------------------
\* The sweeper and the clock of module Store.
Background ==
  /\ SweepStart \/ SweepStop \/ SweepShard \/ Tick
  /\ work' = [c \in Client |-> Untouched(c)]
  /\ UNCHANGED <<gate, answer, count, read, proved, shown, told>>

Serve(c) ==
  \/ "bad" \in Menu /\ BadCommand(c)
  \/ "leave" \in Menu /\ Leave(c)
  \/ "ping" \in Menu /\ (Refuse(c) \/ ExecPing(c))
  \/ "auth" \in Menu /\ \E token \in Token : Auth(c, token)
  \/ "set" \in Menu /\ \E k \in Key, v \in SetValue, t \in TTLSeconds : ExecSet(c, k, v, t)
  \/ "cas" \in Menu /\ \E v \in SetValue, t \in TTLSeconds : ExecCas(c, v, t)
  \/ "get" \in Menu /\ \E k \in Key : ExecGet(c, k)
  \/ "delete" \in Menu /\ \E k \in Key : ExecDelete(c, k)
  \/ "incr" \in Menu /\ \E k \in Key, d \in Delta : ExecIncr(c, k, d)
  \/ "mget" \in Menu /\ \E keys \in KeyList : MultiStart(c, keys)
  \/ "stats" \in Menu /\ StatsStart(c)
  \/ MultiGet(c) \/ MultiFails(c) \/ MultiEnd(c)
  \/ StatsShard(c) \/ StatsLoad(c)

SessionNext == Background \/ \E c \in Client : Serve(c)

SessionSpec == SessionInit /\ [][SessionNext]_sessionVars
-----------------------------------------------------------------------------
(***************************************************************************)
(* Properties.                                                             *)
(***************************************************************************)
Work ==
  {NoWork} \cup
  [op : {"mget"}, keys : KeyList, todo : Seq(Key), hits : SUBSET Key, untouched : SUBSET Key] \cup
  [op : {"stats"}, shard : 1 .. Shards, locked : BOOLEAN, items : Nat, memory : Nat, budget : Nat,
   evictions : Nat, expirations : Nat]

\* Every variable of the sessions has its type.
SessionTypeOK ==
  /\ gate \in [Client -> {"locked", "open", "closed"}]
  /\ work \in [Client -> Work]
  /\ DOMAIN answer = Client
  /\ count \in [commands : Nat, auth : Nat, authFailures : Nat, clientErrors : Nat,
                serverErrors : Nat]
  /\ read \in [Client -> Nat]
  /\ proved \subseteq Client
  /\ shown \in [Client -> [evictions : Nat, expirations : Nat]]
  /\ told \in Nat

\* With auth-token set, a session that never presented the token is not served:
\* it is shown no value or version and keeps no command under way; and until
\* some session did present it, no command is counted and the store is empty.
NothingBeforeAuth ==
  AuthToken # NoToken =>
    /\ \A c \in Client \ proved :
         /\ gate[c] # "open" /\ work[c] = NoWork /\ seen[c] = NoVersion
         /\ answer[c] \in {"none", "lost", "CLIENT_ERROR bad command",
                           "CLIENT_ERROR auth required", "CLIENT_ERROR auth failed"}
    /\ proved = {} => count.commands = 0 /\ casCounter = 0 /\ \A s \in 1 .. Shards : Stored(s) = {}

\* Each failure the counters count ended its session: together they are never
\* more than the sessions that are closed.
FailuresEndSessions ==
  count.authFailures + count.clientErrors + count.serverErrors
    <= Cardinality({c \in Client : gate[c] = "closed"})

\* No write goes unreported while its session lives on: of the writes that took
\* effect, each of which drew a version, all were answered STORED or with the
\* new number except at most one for every session that ended on a lost answer,
\* and no client is told of a write that did not take effect.
WritesAreAnswered ==
  /\ told <= casCounter
  /\ casCounter - told <= Cardinality({c \in Client : answer[c] = "lost"})

\* MGET and GETS miss no key that stayed live and untouched while they ran,
\* although they lock one shard after the other and other sessions, the
\* sweeper and the clock go on in between.
MultiFindsUntouched ==
  \A c \in Client : work[c].op = "mget" =>
    \A k \in work[c].untouched : k \in work[c].hits \/ \E i \in DOMAIN work[c].todo : work[c].todo[i] = k

\* The converse of CasOnlyOverObservedValue: a CAS is refused with EXISTS only
\* when the item was changed since the session's GETS, and with NOT_FOUND only
\* when it is gone or expired.
CasRefusedOnlyIfChanged ==
  [][\A c \in Client : (\E v \in SetValue, t \in TTLSeconds : ExecCas(c, v, t)) =>
       /\ answer'[c] = "EXISTS" => ~ seen[c].intact
       /\ answer'[c] = "NOT_FOUND" => LiveAmong({seen[c].key}) = {}]_sessionVars

\* A SET or CAS with a TTL that is answered STORED expires when it should: no
\* TTL, however large, wraps around to an item that lives for ever.
TTLHonoured ==
  [][\A c \in Client, k \in Key, v \in SetValue, t \in TTLSeconds :
       (ExecSet(c, k, v, t) \/ (ExecCas(c, v, t) /\ k = seen[c].key))
         /\ answer'[c] = "STORED" /\ t > 0
       => ItemIn(shards'[shardFor(k)], k).expiresAt = now + t]_sessionVars

\* The evictions and expirations that STATS shows to a session never decrease,
\* although the shards are sampled one after the other and without their
\* mutexes.
StatsNeverDecrease ==
  [][\A c \in Client : /\ shown'[c].evictions >= shown[c].evictions
                       /\ shown'[c].expirations >= shown[c].expirations]_sessionVars

\* The items and bytes that STATS and the memory-pressure check of doctorHandler
\* work with could be those of one moment, although the shards are sampled one
\* by one while other sessions write: the bytes are within the budget they are
\* compared with, and account for a key byte and the overhead of every item.
StatsAddUp ==
  \A c \in Client : work[c].op = "stats" =>
    /\ work[c].items * (1 + ItemOverheadBytes) <= work[c].memory
    /\ work[c].memory <= work[c].budget
=============================================================================
