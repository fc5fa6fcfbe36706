CONSTANTS
  Input <- ThreeBytes
  MaxFrame = 2
  ReorderBytes = 1
  AckRatio = 2
  AckDelayed = FALSE
  AckLarge = TRUE
  MaxRetransmit = 0
  MaxDrops = 0
  CloseEarly = FALSE
SPECIFICATION Spec
INVARIANTS ReorderBounded ArqMembership
PROPERTY IsPipe
CHECK_DEADLOCK FALSE
