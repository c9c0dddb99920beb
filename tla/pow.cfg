SPECIFICATION FairSpec
CONSTANTS
  W = 3
  Modulus = 12
  Cookies <- MCCookies
  Pred <- MCPred
INVARIANTS
  TypeOK
  ResultProves
  LanesSearched
PROPERTIES
  Returns
\* The caller has returned, or waits in vain.
CHECK_DEADLOCK FALSE
