CONSTANTS
  c1 = c1
  c2 = c2
  c3 = c3
  Conn = {c1}
  MaxConnections = 1
  IdleTimeout = FALSE
  MaxSent = 1
SPECIFICATION FairSpec
PROPERTIES
  ShutdownReturns
