CONSTANTS
  T1 = 1
  T2 = 8
  T4 = 10
  TimerD = 64
  MaxInterval = 128
  SendMayFail = TRUE
SPECIFICATION Spec
INVARIANTS
  TypeOK
  NoAssertionFails
  RequestsBeforeTimeout
PROPERTIES
  EventuallyLeaves
  KeepsPromise
CHECK_DEADLOCK FALSE
