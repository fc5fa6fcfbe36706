SPECIFICATION Spec
CONSTANTS
 a = a
 b = b
 Ids <- TwoIds
 Lengths <- OneByte
 MaxPendingChannels = 1
 MaxEarlyBytes = 1
 MaxEarlyFrames = 2
 MaxClosedIDs = 1
 MaxUnknown = 1
 MaxFrames = 3
 MaxOpens = 2
SYMMETRY Swaps
INVARIANTS StashAccounted EarlyInOrder BytesAccounted StashSeparate
CHECK_DEADLOCK FALSE
