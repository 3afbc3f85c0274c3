CONSTANTS
  k1 = k1
  k2 = k2
  c1 = c1
  c2 = c2
  right = right
  wrong = wrong
  Key = {k1}
  KeyLen <- MCKeyLen
  MaxValueBytes = 3
  MaxMemoryBytes = 7
  ItemOverheadBytes = 1
  Shards = 2
  MaxUint64 = 12
  MaxDigits = 2
  ShardOf <- MCOneShard
  Client = {c1, c2}
  SetValue <- MCValues
  TTL = {0, 1}
  Delta = {1}
  SweepInterval = 1
  MaxTime = 2
  MaxCas = 2
  NoToken = NoToken
  AuthToken = right
  Token = {right, wrong}
  KeyList <- MCOneKeyList
  TTLSeconds = {1, 3}
  MaxTTLSeconds = 2
  MaxCommands = 3
  Menu = {"bad", "leave", "ping", "auth", "set", "cas", "get", "delete", "incr", "mget", "stats"}
SYMMETRY MCSymmetry
SPECIFICATION SessionSpec
CHECK_DEADLOCK FALSE
INVARIANTS
  FailuresEndSessions
  NothingBeforeAuth
  WritesAreAnswered
PROPERTIES
  TTLHonoured
