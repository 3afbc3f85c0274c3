------------------------------- MODULE MCWire -------------------------------
(***************************************************************************)
(* Wire for TLC.                                                           *)
(***************************************************************************)
EXTENDS Wire, TLC

a == Word("a")
b == Word("b")

Cmd(op, keys, ttl, arg, bytes) ==
  [header |-> Header(op, keys, ttl, arg, Len(bytes)), value |-> bytes]

Line(symbols) == symbols \o <<CR, LF>>

Plain(op, keys) ==
  [command |-> [header |-> Header(op, keys, 0, 0, NoValue), value |-> <<>>],
   symbols |-> Line(<<Word(op)>> \o keys)]

\* The documented forms of SET and CAS, with and without a TTL.
Set(key, ttl, bytes) ==
  [command |-> Cmd("set", <<key>>, ttl, 0, bytes),
   symbols |-> Line(<<Word("set"), key>> \o (IF ttl = 0 THEN <<>> ELSE <<Number(ttl)>>)
                      \o <<Number(Len(bytes))>>) \o Line(bytes)]

Cas(key, ttl, version, bytes) ==
  [command |-> Cmd("cas", <<key>>, ttl, version, bytes),
   symbols |-> Line(<<Word("cas"), key>> \o (IF ttl = 0 THEN <<>> ELSE <<Number(ttl)>>)
                      \o <<Number(version), Number(Len(bytes))>>) \o Line(bytes)]

Incr(key, delta) ==
  [command |-> [header |-> Header("incr", <<key>>, 0, delta, NoValue), value |-> <<>>],
   symbols |-> Line(<<Word("incr"), key, Number(delta)>>)]

\* A value that reads as a command.
Tricky == Line(<<Word("ping")>>)

MCGood ==
  {Plain("ping", <<>>), Plain("mget", <<a, b>>), Incr(a, 1), Set(a, 0, <<>>), Set(a, 1, Tricky),
   Cas(a, 0, 1, <<CR>>), Cas(a, 1, 2, <<LF>>)}

Bad(symbols) == [command |-> NoCommand, symbols |-> symbols]

MCBad ==
  {Bad(<<Word("ping"), LF>>),                                     \* no CR
   Bad(Line(<<Word("mget"), a, Word("control")>>)),               \* no valid key
   Bad(Line(<<Word("set"), a, Number(MaxInt + 1)>>) \o Tricky),   \* no byte count
   Bad(Line(<<Word("cas"), a, Number(MaxUint64 + 1), Number(0)>>)), \* no version
   Bad(Line(<<Word("set"), a, Number(1)>>) \o Line(<<a, b>>)),    \* too short a byte count
   Bad(Line(<<Word("mget"), a, a, a, a, a>>))}                    \* too long a line

\* The largest byte count an int holds.
MCHuge == {Bad(Line(<<Word("set"), a, Number(MaxInt)>>))}

MCFrames == MCGood \cup MCBad \cup MCHuge

MCConfigFiles ==
  LET quiet == Entry("IdleTimeout", IntValue(0))
      bad == {Malformed, Entry("idle", IntValue(0)), Entry("Shards", TextValue("x")),
              Entry("Shards", IntValue(0)), Entry("MaxValueBytes", IntValue(0)),
              Entry("ItemOverheadBytes", IntValue(-1)), Entry("IdleTimeout", DurationValue(-1)),
              Entry("IdleTimeout", IntValue(1)), Entry("MaxMemoryBytes", IntValue(1024)),
              Entry("TLSCert", TextValue("cert"))}
      timeout == Entry("IdleTimeout", DurationValue(2))
  IN  {<<Skipped, timeout>>, <<Entry("IdleTimeout", DurationValue(-1)), quiet>>} \cup {<<quiet, line>> : line \in bad}
=============================================================================
