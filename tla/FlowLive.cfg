CONSTANTS
  a = a
  b = b
  Channels <- TwoChannels
  Session = Session
  Loop = Loop
  StreamWindow = 1
  SessionWindow = 2
  UpdateRatio = 1
  MaxFrame = 1
  MayClose <- NoChannel
SPECIFICATION FairSpec
INVARIANTS TypeOK
PROPERTIES ReleasedOrStranded
CHECK_DEADLOCK FALSE
