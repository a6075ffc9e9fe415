SPECIFICATION FairSpec
CONSTANTS
  SeqMod = 3
  ByteMod = 2
  Capacity = 2
  Flows = {1, 2}
  Starts = {2}
  MaxSent = 5
  MaxRtx = 1
INVARIANTS
  TypeOK
  BufferExact
  AnswersNack
PROPERTIES
  EventuallyForgotten
CHECK_DEADLOCK FALSE
