CONSTANTS
  c1 = c1
  c2 = c2
  c3 = c3
  Conn = {c1}
  MaxConnections = 1
  IdleTimeout = TRUE
  MaxSent = 2
SPECIFICATION Spec
PROPERTIES
  SweptReadsNoMore
