SPECIFICATION FairSpec
CONSTANTS
  Managers = {m1, m2}
  MaxRtx = 2
  MaxLost = 1
  MaxQueue = 2
  MaxErrors = 1
PROPERTY StopAlwaysCompletes
CHECK_DEADLOCK FALSE
