SPECIFICATION Spec
CONSTANTS
  n1 = n1
  n2 = n2
  n3 = n3
  c1 = c1
  c2 = c2
  c3 = c3
  a = a
  b = b
  c = c
  d = d
  NoConn = NoConn
  Ids = {a, b, c, d}
  Conns <- MCConns
  IdOf <- MCIdOf
  Neighbours <- MCNeighbours
  MaxSolvers = 2
INVARIANTS
  TypeOK
  SliceInv
  OpenConsistent
PROPERTIES
  DroppedStaysDropped
  ImplementsConnections
