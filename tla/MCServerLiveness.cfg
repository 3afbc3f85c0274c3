CONSTANTS
  c1 = c1
  c2 = c2
  c3 = c3
  Conn = {c1, c2}
  MaxConnections = 1
  IdleTimeout = TRUE
  MaxSent = 2
SPECIFICATION FairSpec
PROPERTIES
  ShutdownReturnsUnlessLate
  HangupFreesSlot
  NoReadWaitsForever
