CONSTANTS
  k1 = k1
  k2 = k2
  k3 = k3
  k4 = k4
  nil = nil
  Key = {k1, k2, k3, k4}
  KeyLen <- MCKeyLen
  MaxValueBytes = 6
  MaxMemoryBytes = 6
  ItemOverheadBytes = 0
  Shards = 1
  MaxUint64 = 12
  MaxDigits = 2
  ItemSize = {1, 3, 6}
SPECIFICATION Spec
INVARIANTS
  PointersSpellOrder
  LoopEvictsVictims
  LoopNeverRunsDry
