SPECIFICATION FairSpec
CONSTANTS
  MinChunkCap = 1
  MaxChunkCap = 2
  MaxRecycleSlots = 1
  MaxChunks = 4
  MaxFeeds = 3
  DatagramLen = 2
  Wants <- OneWant
INVARIANTS OwnChunks BuffersOnce
PROPERTIES IsQueue Served CloseCompletes
CHECK_DEADLOCK FALSE
