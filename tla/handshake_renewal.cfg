SPECIFICATION Spec
CONSTANTS
  A = A
  B = B
  d1 = d1
  a1 = a1
  d2 = d2
  a2 = a2
  NoEnd = NoEnd
  Peers = {A, B}
  Dialled = {d1}
  Accepted = {a1}
  PeerOf <- OnePeerOf
  Other <- OneOther
  Degree = 1
  MaxRenewals = 2
  MaxPushes = 1
  MaxFaults = 1
INVARIANTS
  TypeOK
  LoopNeverStuck
PROPERTIES
  DropsExplained
\* The bounds are used up and nothing is left to answer.
CHECK_DEADLOCK FALSE
