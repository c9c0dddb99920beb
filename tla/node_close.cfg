SPECIFICATION FairSpec
CONSTANTS
  a = a
  b = b
  c1 = c1
  c2 = c2
  c3 = c3
  Conns = {c1}
  IdOf <- OneId
  Types = {"t"}
  Neighbours = {"h", "i"}
  Failing = {"vert", "hz", "dial"}
  MaxMessages = 2
  MaxPushes = 2
INVARIANTS
  TypeOK
PROPERTIES
  MainGoesOn
  RunReturns
  StartReported
\* Run may have returned, or main waits in vain.
CHECK_DEADLOCK FALSE
