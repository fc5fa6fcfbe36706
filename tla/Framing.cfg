SPECIFICATION Spec
CONSTANTS
  HeaderLen = 2
  MaxDatagram = 4
  Frames <- AllFrames
  MaxBatch = 3
INVARIANTS CompactionFaithful StreamInStep DatagramWhole
CHECK_DEADLOCK FALSE
