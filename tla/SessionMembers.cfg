SPECIFICATION FairSpec
CONSTANTS
  SeqMod = 7
  Word = 64
  LossLimit = 2
  MaxDropout = 3
  MaxMisorder = 3
  MinSequential = 2
  Timeout = 1
  SenderTimeout = 0
  ByeTimeout = 1
  Others = {0}
  Behind = 2
  Ahead = 4
  MaxTrue = 8
  MaxReceived = 4
INVARIANTS
  TypeOK
  NumbersExtended
  LossReported
  Validation
PROPERTIES
  LeaveIsNoticed
