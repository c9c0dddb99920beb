SPECIFICATION Spec
CONSTANTS
  A = A
  B = B
  C = C
  D = D
  m1 = m1
  m2 = m2
  m3 = m3
  Peers = {A, B}
  Links <- Pair
  Established <- NoLinks
  Messages = {m1, m2, m3}
  Origin <- ThreeOrigins
  TtlOf <- ThreeTtls
  TtlModulus = 4
  Degree = 1
  Capacity = 2
  Verdicts = {TRUE, FALSE}
  MaxClosed = 1
INVARIANTS
  TypeOK
  OneCache
  EndorsedOnly
  NotifiedOnce
  RelayedOnce
PROPERTIES
  WaitsForRelay
\* All messages are announced, judged and relayed, and nothing is left to do.
CHECK_DEADLOCK FALSE
