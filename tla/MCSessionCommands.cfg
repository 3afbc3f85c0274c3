CONSTANTS
  k1 = k1
  k2 = k2
  c1 = c1
  c2 = c2
  right = right
  wrong = wrong
  Key = {k1, k2}
  KeyLen <- MCKeyLen
  MaxValueBytes = 3
  MaxMemoryBytes = 7
  ItemOverheadBytes = 1
  Shards = 2
  MaxUint64 = 12
  MaxDigits = 2
  ShardOf <- MCTwoShards
  Client = {c1, c2}
  SetValue <- MCValues
  TTL = {0, 1}
  Delta = {1}
  SweepInterval = 1
  MaxTime = 2
  MaxCas = 3
  NoToken = NoToken
  AuthToken = NoToken
  Token = {right, wrong}
  KeyList <- MCKeyLists
  TTLSeconds = {0, 1}
  MaxTTLSeconds = 2
  MaxCommands = 2
  Menu = {"set", "cas", "delete", "mget", "stats"}
SYMMETRY MCSymmetry
SPECIFICATION SessionSpec
CHECK_DEADLOCK FALSE
INVARIANTS
  MultiFindsUntouched
  StatsAddUp
PROPERTIES
  CasRefusedOnlyIfChanged
  StatsNeverDecrease
