CONSTANTS
  k1 = k1
  k2 = k2
  k3 = k3
  c1 = c1
  c2 = c2
  Key = {k1, k2}
  KeyLen <- MCKeyLen
  MaxValueBytes = 3
  MaxMemoryBytes = 9
  ItemOverheadBytes = 1
  Shards = 2
  MaxUint64 = 12
  MaxDigits = 2
  ShardOf <- MCTwoShards
  Client = {c1, c2}
  SetValue <- MCSmallValues
  TTL = {1}
  Delta = {1, 2}
  SweepInterval = 1
  MaxTime = 2
  MaxCas = 3
SPECIFICATION FairSpec
INVARIANTS
  VersionsUnique
  TotalWithinBudget
PROPERTIES
  CasOnlyOverObservedValue
  SweeperReclaimsExpired
