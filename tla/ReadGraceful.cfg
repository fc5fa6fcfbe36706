SPECIFICATION Spec
CONSTANTS
  MaxData = 2
  MaxReads = 2
  Ops <- ReadOnly
  Endings <- BothEndings
  LocalCloses <- NoClose
INVARIANTS TailReadable
CHECK_DEADLOCK FALSE
