CONSTANTS
  MaxServerTx = 1
  MayEnd = {"caller", "callee"}
SPECIFICATION Spec
INVARIANTS
  TypeOK
  CallsEndOnPurpose
  HangupFindsSession
CHECK_DEADLOCK FALSE
