SPECIFICATION FairSpec
CONSTANTS
  a = a
  MaxConns = 3
  MaxSessions = 1
  MaxNonce = 2
  Addrs <- OneAddr
  Backlog = 1
INVARIANTS NoStaleEntry OnlyLateSurvive MapClean NoncesIncrease
PROPERTY ShutsDown
CHECK_DEADLOCK FALSE
