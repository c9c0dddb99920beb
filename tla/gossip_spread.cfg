SPECIFICATION FairSpec
CONSTANTS
  A = A
  B = B
  C = C
  D = D
  m1 = m1
  m2 = m2
  m3 = m3
  Peers = {A, B, C, D}
  Links <- Kite
  Established <- Kite
  Messages = {m1}
  Origin <- OneOrigin
  TtlOf <- Ttl3
  TtlModulus = 4
  Degree = 3
  Capacity = 2
  Verdicts = {TRUE}
  MaxClosed = 0
INVARIANTS
  HopsBounded
PROPERTIES
  Disseminated
\* All messages are announced, judged and relayed, and nothing is left to do.
CHECK_DEADLOCK FALSE
