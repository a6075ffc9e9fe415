SPECIFICATION FairSpec
CONSTANTS
  Managers = {m1, m2}
  MaxRtx = 2
  MaxLost = 2
  MaxQueue = 2
  MaxErrors = 1
INVARIANTS TypeOK ReportingAlive LeavesInOrder
PROPERTIES StopCompletes ReportsContinue
CHECK_DEADLOCK FALSE
