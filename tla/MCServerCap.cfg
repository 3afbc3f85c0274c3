CONSTANTS
  c1 = c1
  c2 = c2
  c3 = c3
  Conn = {c1, c2, c3}
  MaxConnections = 2
  IdleTimeout = FALSE
  MaxSent = 1
SYMMETRY MCSymmetry
SPECIFICATION Spec
INVARIANTS
  CapHolds
  CountersConsistent
  ShutdownDrainsSwept
PROPERTIES
  RejectedOnlyWhenFull
  SweptReadsNoMore
