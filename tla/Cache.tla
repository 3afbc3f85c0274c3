------------------------------- MODULE Cache -------------------------------
(***************************************************************************)
(* What the store promises its clients: one map of live entries, and calls *)
(* that answer from it.  An entry is gone at the moment its TTL ends.      *)
(* There are no shards, sizes, lists or sweeps; of all that is done about  *)
(* memory only two things show.  A write may drop other entries, and a     *)
(* value may be refused, which depends on its key and on nothing stored.   *)
(***************************************************************************)
EXTENDS Naturals

CONSTANTS
  Key, Client,
  SetValue,       \* the values clients write
  TTL,            \* the TTLs clients pass; 0 is none
  Delta,          \* the increments clients pass
  MaxUint64,      \* the largest counter value
  Refusal(_, _),  \* the error for a key and a value the cache cannot hold, or nil
  isUint(_),      \* the value is a counter
  FormatUint(_)   \* the value that spells a number

VARIABLES
  entries,  \* the live entries
  version,  \* the version given last
  now,      \* the clock
  held,     \* the version each client read last
  reply     \* what the last call returned

vars == <<entries, version, now, held, reply>>

NoVersion == [cas |-> 0]

NoReply == [op |-> "none", key |-> "none", err |-> "none"]

Init ==
  /\ entries = [k \in {} |-> 0]
  /\ version = 0
  /\ now = 1
  /\ held = [c \in Client |-> NoVersion]
  /\ reply = NoReply

-----------------------------------------------------------------------------
Return(op, k, err) ==
  /\ reply' = [op |-> op, key |-> k, err |-> err]
  /\ UNCHANGED now

\* The entry of k is replaced, and the others stay or are dropped.
Put(k, value, end) ==
  /\ version' = version + 1
  /\ \E kept \in SUBSET (DOMAIN entries \ {k}) :
       entries' = [j \in kept \cup {k} |->
                     IF j = k THEN [value |-> value, expiresAt |-> end, cas |-> version + 1]
                     ELSE entries[j]]
  /\ UNCHANGED held

\* The call that puts the value, or fails and changes nothing.
Write(op, k, err, value, end) ==
  /\ Return(op, k, err)
  /\ \/ err = "nil" /\ Put(k, value, end)
     \/ err # "nil" /\ UNCHANGED <<entries, version, held>>

End(ttl) == IF ttl = 0 THEN 0 ELSE now + ttl

Set(k, value, ttl) == Write("set", k, Refusal(k, value), value, End(ttl))

Get(c, k) ==
  /\ IF k \in DOMAIN entries
     THEN /\ Return("get", k, "nil")
          /\ held' = [held EXCEPT ![c] = [key |-> k, cas |-> entries[k].cas]]
     ELSE Return("get", k, "ErrNotFound") /\ UNCHANGED held
  /\ UNCHANGED <<entries, version>>

\* A value that is too large is refused before the version is compared.
Cas(c, value, ttl) ==
  LET k == held[c].key
      err == IF Refusal(k, value) = "ErrValueTooLarge" THEN "ErrValueTooLarge"
             ELSE IF k \notin DOMAIN entries THEN "ErrNotFound"
             ELSE IF entries[k].cas # held[c].cas THEN "ErrCasMismatch"
             ELSE Refusal(k, value)
  IN  held[c] # NoVersion /\ Write("cas", k, err, value, End(ttl))

Delete(k) ==
  /\ IF k \in DOMAIN entries
     THEN /\ Return("delete", k, "nil")
          /\ entries' = [j \in DOMAIN entries \ {k} |-> entries[j]]
     ELSE Return("delete", k, "ErrNotFound") /\ UNCHANGED entries
  /\ UNCHANGED <<version, held>>

Incr(k, delta) ==
  LET sum == FormatUint(entries[k].value.num + delta)
      err == IF k \notin DOMAIN entries THEN "ErrNotFound"
             ELSE IF ~ isUint(entries[k].value) THEN "ErrNotInteger"
             ELSE IF entries[k].value.num + delta > MaxUint64 THEN "ErrOverflow"
             ELSE Refusal(k, sum)
  IN  Write("incr", k, err, sum, entries[k].expiresAt)

\* The clock moves on, and the entries whose TTL ends are gone.
Tick ==
  /\ now' = now + 1
  /\ entries' = [k \in {j \in DOMAIN entries : entries[j].expiresAt \notin 1 .. now + 1} |-> entries[k]]
  /\ reply' = NoReply
  /\ UNCHANGED <<version, held>>

\* A step of the server that no client sees.
Hidden ==
  /\ reply' = NoReply
  /\ UNCHANGED <<entries, version, now, held>>

Next ==
  \/ \E k \in Key, v \in SetValue, t \in TTL : Set(k, v, t)
  \/ \E c \in Client, k \in Key : Get(c, k)
  \/ \E c \in Client, v \in SetValue, t \in TTL : Cas(c, v, t)
  \/ \E k \in Key : Delete(k)
  \/ \E k \in Key, d \in Delta : Incr(k, d)
  \/ Tick
  \/ Hidden

Spec == Init /\ [][Next]_vars
=============================================================================
