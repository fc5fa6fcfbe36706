CONSTANTS
  Input <- OneByte
  MaxFrame = 1
  ReorderBytes = 1
  AckRatio = 2
  AckDelayed = TRUE
  AckLarge = FALSE
  MaxRetransmit = 1
  MaxDrops = 1
  CloseEarly = TRUE
SPECIFICATION FairSpec
INVARIANTS AckSound GracefulMeansDelivered
PROPERTY DrainsOrAborts
CHECK_DEADLOCK FALSE
