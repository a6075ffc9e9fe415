CONSTANTS
  NumPackets = 4
  PacketsPerFrame = 2
  FrameTicks = 2
  MaxCopies = 1
  SrOffsets = {0, 9}
  Latency = 3
  HistorySize = 2
  TsMod = 65536
  MaxLag = 1
  LastArrival = 5
  MaxTime = 10
SPECIFICATION Spec
INVARIANTS
  OrderedByPts
  NodeForEveryTimer
CHECK_DEADLOCK FALSE
