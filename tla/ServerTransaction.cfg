CONSTANTS
  T1 = 1
  T4 = 10
  SendMayFail = TRUE
SPECIFICATION Spec
INVARIANTS
  TypeOK
PROPERTIES
  FinalIsFinal
  NoTimeoutOnceAcked
  EventuallyErased
CHECK_DEADLOCK FALSE
