CONSTANTS
  a = a
  b = b
  Channels <- OneChannel
  Session = Session
  Loop = Loop
  StreamWindow = 2
  SessionWindow = 2
  UpdateRatio = 4
  MaxFrame = 2
  MayClose <- OneChannel
SPECIFICATION Spec
INVARIANTS StreamConserved SessionConserved NoLostWakeup
CHECK_DEADLOCK FALSE
