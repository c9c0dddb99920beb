SPECIFICATION Spec
CONSTANTS
  a = a
  b = b
  c1 = c1
  c2 = c2
  c3 = c3
  Conns = {c1, c2, c3}
  IdOf <- ReusedIds
  Types = {"t", "u"}
  Neighbours = {}
  Failing = {}
  MaxMessages = 2
  MaxPushes = 0
INVARIANTS
  OncePerId
  WriterAlive
  ContextFollows
PROPERTIES
  RefusalExplained
\* Run may have returned, or main waits in vain.
CHECK_DEADLOCK FALSE
