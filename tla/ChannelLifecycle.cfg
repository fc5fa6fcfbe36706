SPECIFICATION FairSpec
CONSTANTS
  dialer = dialer
  listener = listener
  Ends <- TwoEnds
  MaxOpens = 2
  CtrlDepth = 1
  Settings <- CloseOrReopen
INVARIANTS Paired EndMeansAll
PROPERTIES CloseCompletes
CHECK_DEADLOCK FALSE
