SPECIFICATION FairSpec
CONSTANTS
  MaxConns = 3
  KeepAlive = TRUE
  NonceLimit = 1
  Breakable <- FirstConn
  MayClose <- DialerOnly
  Writers <- DialerOnly
INVARIANTS WriterAgrees WriterWakes
PROPERTIES OnlyDeadDropped ClosedTogether
CHECK_DEADLOCK FALSE
