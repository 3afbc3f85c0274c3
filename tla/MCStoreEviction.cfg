CONSTANTS
  k1 = k1
  k2 = k2
  k3 = k3
  c1 = c1
  c2 = c2
  Key = {k1, k2, k3}
  KeyLen <- MCKeyLen
  MaxValueBytes = 7
  MaxMemoryBytes = 8
  ItemOverheadBytes = 1
  Shards = 1
  MaxUint64 = 10
  MaxDigits = 2
  ShardOf <- MCOneShard
  Client = {c1}
  SetValue <- MCEvictionValues
  TTL = {0, 1}
  Delta = {1}
  SweepInterval = 1
  MaxTime = 2
  MaxCas = 3
SYMMETRY MCSymmetry
SPECIFICATION Spec
INVARIANTS
  AccountingExact
  WithinBudget
  LruHoldsStoredItems
PROPERTIES
  FailedCommandChangesNoLiveItem
  ExpiredGoBeforeLive
  EvictsLeastRecentlyUsed
  RecencyFollowsUse
  IncrAddsExactly
  ExpiredIsNeverRevived
  ImplementsCache
