CONSTANTS
  NumPackets = 3
  PacketsPerFrame = 1
  FrameTicks = 2
  MaxCopies = 2
  SrOffsets = {}
  Latency = 3
  HistorySize = 1
  TsMod = 65536
  MaxLag = 1
  LastArrival = 5
  MaxTime = 12
SPECIFICATION FairSpec
INVARIANTS
  TypeOK
  PlayoutFollowsTimestamps
PROPERTIES
  PlayedOnce
  PlayedOnTime
  EventuallyPlayed
CHECK_DEADLOCK FALSE
