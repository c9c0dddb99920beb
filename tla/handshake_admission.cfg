SPECIFICATION FairSpec
CONSTANTS
  A = A
  B = B
  d1 = d1
  a1 = a1
  d2 = d2
  a2 = a2
  NoEnd = NoEnd
  Peers = {A, B}
  Dialled = {d1, d2}
  Accepted = {a1, a2}
  PeerOf <- MCPeerOf
  Other <- MCOther
  Degree = 1
  MaxRenewals = 0
  MaxPushes = 1
  MaxFaults = 1
INVARIANTS
  OneHandshake
  PushAfterProof
PROPERTIES
  AllAdmitted
  LostIsForgotten
\* The bounds are used up and nothing is left to answer.
CHECK_DEADLOCK FALSE
