SPECIFICATION FairSpec
CONSTANTS
  MaxData = 1
  MaxReads = 1
  Ops <- BothOps
  Endings <- BothEndings
  LocalCloses <- AllCloses
INVARIANTS NoLostWakeup DiscardedOnlyByClose
PROPERTIES EOFComplete ReadReturns Finalizes
CHECK_DEADLOCK FALSE
