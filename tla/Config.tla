------------------------------- MODULE Config -------------------------------
(***************************************************************************)
(* The configuration file (src/internal/config/config.go) and what         *)
(* store.New makes of it (normalizeConfig, src/internal/store/store.go).   *)
(*                                                                         *)
(* A file is a sequence of lines.  A value is known by what it reads as:   *)
(* int and dur are the number strconv.Atoi and time.ParseDuration return,  *)
(* as a set that is empty when they return an error.  A step that may fail *)
(* returns the set of its results in the same way.                         *)
(***************************************************************************)
EXTENDS Integers, Sequences

IntField == {"Shards", "MaxValueBytes", "MaxMemoryBytes", "ItemOverheadBytes", "MaxConnections"}

DurationField == {"CleanupInterval", "IdleTimeout", "ShutdownTimeout"}

TextField == {"Addr", "PprofAddr", "TLSCert", "TLSKey", "AuthToken"}

\* Durations are in seconds.
Default ==
  [Addr |-> "0.0.0.0:11211", PprofAddr |-> "", Shards |-> 16, MaxValueBytes |-> 1024 * 1024,
   MaxMemoryBytes |-> 64 * 1024 * 1024, ItemOverheadBytes |-> 64, CleanupInterval |-> 60,
   TLSCert |-> "", TLSKey |-> "", AuthToken |-> "", IdleTimeout |-> 300,
   MaxConnections |-> 1024, ShutdownTimeout |-> 10]

\* Comments and blank lines; a line without "="; key = value.
Skipped == [kind |-> "skipped"]
Malformed == [kind |-> "malformed"]
Entry(key, value) == [kind |-> "entry", key |-> key, value |-> value]

\* What a line may be: Atoi and ParseDuration return integers.
FieldValue == [text : STRING, int : SUBSET Int, dur : SUBSET Int]
ConfigLine == {Skipped, Malformed} \cup [kind : {"entry"}, key : STRING, value : FieldValue]

IntValue(n) == [text |-> "number", int |-> {n}, dur |-> IF n = 0 THEN {0} ELSE {}]
DurationValue(n) == [text |-> "duration", int |-> {}, dur |-> {n}]
TextValue(t) == [text |-> t, int |-> {}, dur |-> {}]

setField(cfg, key, value) ==
  CASE key \in IntField      -> {[cfg EXCEPT ![key] = n] : n \in value.int}
    [] key \in DurationField -> {[cfg EXCEPT ![key] = n] : n \in value.dur}
    [] key \in TextField     -> {[cfg EXCEPT ![key] = value.text]}
    [] OTHER                 -> {}

\* Mutant: a field that must be positive may be zero.
validate_AllowsZero(c) ==
  /\ c.MaxValueBytes >= 0 /\ c.MaxMemoryBytes >= 0 /\ c.ItemOverheadBytes >= 0
  /\ c.MaxValueBytes <= c.MaxMemoryBytes
  /\ c.CleanupInterval >= 0
  /\ c.Shards >= 0
  /\ (c.TLSCert = "") = (c.TLSKey = "")
  /\ c.IdleTimeout >= 0 /\ c.MaxConnections >= 0 /\ c.ShutdownTimeout >= 0

validate(c) ==
  /\ c.MaxValueBytes > 0 /\ c.MaxMemoryBytes > 0 /\ c.ItemOverheadBytes >= 0
  /\ c.MaxValueBytes <= c.MaxMemoryBytes
  /\ c.CleanupInterval >= 0
  /\ c.Shards > 0
  /\ (c.TLSCert = "") = (c.TLSKey = "")
  /\ c.IdleTimeout >= 0 /\ c.MaxConnections >= 0 /\ c.ShutdownTimeout >= 0

TLSEnabled(c) == c.TLSCert # "" /\ c.TLSKey # ""

\* One line of the loop of Load.
loadLine(cfgs, line) ==
  CASE line.kind = "skipped"   -> cfgs
    [] line.kind = "malformed" -> {}
    [] line.kind = "entry"     -> UNION {setField(c, line.key, line.value) : c \in cfgs}

Load(lines) ==
  LET after[n \in 0 .. Len(lines)] ==
        IF n = 0 THEN {Default} ELSE loadLine(after[n - 1], lines[n])
  IN  {c \in after[Len(lines)] : validate(c)}

DefaultConfig ==
  [MaxValueBytes |-> 1024 * 1024, MaxMemoryBytes |-> 64 * 1024 * 1024, ItemOverheadBytes |-> 64,
   Shards |-> 16]

\* What store.New works with.
normalizeConfig(c) ==
  [MaxValueBytes     |-> IF c.MaxValueBytes <= 0 THEN DefaultConfig.MaxValueBytes
                         ELSE c.MaxValueBytes,
   MaxMemoryBytes    |-> IF c.MaxMemoryBytes <= 0 THEN DefaultConfig.MaxMemoryBytes
                         ELSE c.MaxMemoryBytes,
   ItemOverheadBytes |-> IF c.ItemOverheadBytes < 0 THEN DefaultConfig.ItemOverheadBytes
                         ELSE c.ItemOverheadBytes,
   Shards            |-> IF c.Shards <= 0 THEN DefaultConfig.Shards ELSE c.Shards]
=============================================================================
